--------------------------- MODULE DeliveryPolicy ---------------------------
(***************************************************************************)
(* The delivery rules of a workspace as operators: which reasons a policy  *)
(* has to hold a reading of an invoice (evaluateDeliveryPolicy), and what  *)
(* is decided for its destinations (decideRevision).                       *)
(*                                                                         *)
(* A reading is what the rules look at: what validation and the supplier's *)
(* history found, the gross total, and the answers to the workspace's      *)
(* questions.  An answer is a number; yes, no and the options of a choice  *)
(* are numbered.                                                           *)
(***************************************************************************)
EXTENDS Integers

CONSTANTS
  Questions,   \* keys of the workspace's questions
  NoAnswer,    \* unanswered, failed or not confident
  NoAmount     \* the invoice has no gross total

ASSUME PolicyAssumption == {NoAnswer, NoAmount} \cap Int = {}

\* LOCKED_DELIVERY_RULES: only another reading or a correction clears these.
Locked == {"not_validated", "missing_required_fields", "duplicate",
           "revised_invoice", "invalid_financials"}

\* CONFIGURABLE_DELIVERY_RULES.
Rules == {"possible_duplicate", "bank_details_changed", "uncertain_reading",
          "new_supplier", "validation_warnings"}

ReasonCodes ==
  Locked \cup Rules \cup
  {"required_answer_uncertain", "condition_unverifiable", "condition_matched",
   "awaiting_approval"}

Limit == [currency : STRING, amount : Int]
Condition == [question : Questions, value : Int,
              operator : {"is", "is_not", "above", "below"}]

Policy == [accounting : BOOLEAN,                 \* is it a destination?
           webhooks   : {"eligible", "all"},
           holds      : SUBSET Rules,            \* the rules set to "hold"
           required   : SUBSET Questions,
           limits     : SUBSET Limit,
           conditions : SUBSET Condition]

Reading == [validated : BOOLEAN,
            found     : SUBSET ((Locked \ {"not_validated"}) \cup Rules),
            gross     : Int \cup {NoAmount},
            currency  : STRING,
            answers   : [Questions -> Int \cup {NoAnswer}]]

Confident(reading, q) == reading.answers[q] # NoAnswer

\* A possible duplicate is only looked for when there is no certain one.
Found(policy, reading) ==
  LET found == IF reading.found \cap {"duplicate", "revised_invoice"} # {}
               THEN reading.found \ {"possible_duplicate"} ELSE reading.found
  IN found \cap (Locked \cup policy.holds)

\* Amounts are not converted: another currency, or no total, is not compared.
OverLimit(reading, limit) ==
  IF reading.gross = NoAmount \/ reading.currency # limit.currency
  THEN {"condition_unverifiable"}
  ELSE IF reading.gross > limit.amount \/ -reading.gross > limit.amount
       THEN {"condition_matched"} ELSE {}

Matches(answer, condition) ==
  \/ condition.operator = "is" /\ answer = condition.value
  \/ condition.operator = "is_not" /\ answer # condition.value
  \/ condition.operator = "above" /\ answer > condition.value
  \/ condition.operator = "below" /\ answer < condition.value

Answered(reading, condition) ==
  IF ~Confident(reading, condition.question) THEN {"condition_unverifiable"}
  ELSE IF Matches(reading.answers[condition.question], condition)
       THEN {"condition_matched"} ELSE {}

Unanswered(policy, reading) ==
  IF \A q \in policy.required : Confident(reading, q) THEN {}
  ELSE {"required_answer_uncertain"}

\* evaluateDeliveryPolicy: what was not validated is not looked at any further.
Reasons(policy, reading) ==
  IF ~reading.validated THEN {"not_validated"}
  ELSE Found(policy, reading) \cup Unanswered(policy, reading)
       \cup (UNION {OverLimit(reading, l) : l \in policy.limits})
       \cup (UNION {Answered(reading, c) : c \in policy.conditions})

\* releasable
Releasable(reasons) == reasons \cap Locked = {}

\* accountingReadiness: nothing a bill could not carry.
Ready(reading) == reading.validated /\ reading.found \cap Locked = {}

-----------------------------------------------------------------------------
(* The decision of one revision.  `connection` is "none", "manual" (connected *)
(* but not opted in to automatic bills) or "auto".                           *)

Decision == [reasons    : SUBSET ReasonCodes,
             accounting : {"off", "already_posted", "not_connected", "held",
                           "not_scheduled", "deliver"},
             webhooks   : {"held", "deliver"},
             resolution : {"none", "released", "dismissed"}]

Accounting(policy, hold, mayPost, posted, connection) ==
  IF ~policy.accounting THEN "off"
  ELSE IF posted THEN "already_posted"
  ELSE IF connection = "none" THEN "not_connected"
  ELSE IF hold THEN "held"
  ELSE IF ~mayPost \/ connection # "auto" THEN "not_scheduled"
  ELSE "deliver"

\* decideRevision: an approval that is due is one more reason to hold.
Decide(policy, reading, approval, mayPost, posted, connection) ==
  LET reasons == Reasons(policy, reading) \cup
                 IF approval THEN {"awaiting_approval"} ELSE {}
  IN [reasons    |-> reasons,
      accounting |-> Accounting(policy, reasons # {}, mayPost, posted, connection),
      webhooks   |-> IF reasons # {} /\ policy.webhooks = "eligible"
                     THEN "held" ELSE "deliver",
      resolution |-> "none"]

\* decisionHeld
Withheld(decision) ==
  decision.accounting = "held" \/ decision.webhooks = "held"

\* A hold nobody has released; that a person dismissed it changes nothing.
Held(decision) == decision.reasons # {} /\ decision.resolution # "released"
=============================================================================
