------------------------ MODULE DeliveryPolicyProofs ------------------------
(***************************************************************************)
(* What the delivery rules guarantee for every policy and every reading.   *)
(***************************************************************************)
EXTENDS DeliveryPolicy, TLAPS

\* The code of every reason is one that is documented.
LEMMA ReasonsAreCodes ==
  ASSUME NEW policy \in Policy, NEW reading \in Reading
  PROVE  Reasons(policy, reading) \subseteq ReasonCodes
<1>1. Found(policy, reading) \subseteq Locked \cup Rules
  BY DEF Found, Policy
<1>2. Unanswered(policy, reading) \subseteq {"required_answer_uncertain"}
  BY DEF Unanswered
<1>3. \A l \in policy.limits :
        OverLimit(reading, l) \subseteq {"condition_unverifiable", "condition_matched"}
  BY DEF OverLimit
<1>4. \A c \in policy.conditions :
        Answered(reading, c) \subseteq {"condition_unverifiable", "condition_matched"}
  BY DEF Answered
<1> QED BY <1>1, <1>2, <1>3, <1>4 DEF Reasons, ReasonCodes, Locked

\* decideRevision records a decision for whatever it is given.
LEMMA DecisionsAreTyped ==
  ASSUME NEW policy \in Policy, NEW reading \in Reading,
         NEW approval \in BOOLEAN, NEW mayPost, NEW posted,
         NEW connection
  PROVE  Decide(policy, reading, approval, mayPost, posted, connection) \in Decision
<1> DEFINE d == Decide(policy, reading, approval, mayPost, posted, connection)
<1>1. d.reasons \subseteq ReasonCodes
  BY ReasonsAreCodes DEF Decide, ReasonCodes
<1>2. Accounting(policy, d.reasons # {}, mayPost, posted, connection) \in
        {"off", "already_posted", "not_connected", "held", "not_scheduled", "deliver"}
  BY DEF Accounting
<1> QED BY <1>1, <1>2 DEF Decide, Decision

\* An answer that a rule needs and that is missing or uncertain never lets an
\* invoice through on its own: the bill is not posted, and eligible-only webhooks
\* are held (evaluateDeliveryPolicy, required questions and conditions).
THEOREM UncertainIsHeld ==
  ASSUME NEW policy \in Policy, NEW reading \in Reading, NEW q \in Questions,
         ~Confident(reading, q),
         q \in policy.required \/ \E c \in policy.conditions : c.question = q,
         NEW approval \in BOOLEAN, NEW mayPost, NEW posted, NEW connection
  PROVE  LET d == Decide(policy, reading, approval, mayPost, posted, connection)
         IN /\ d.accounting # "deliver"
            /\ policy.webhooks = "eligible" => d.webhooks = "held"
<1>1. Reasons(policy, reading) # {}
  <2>1. CASE ~reading.validated
    BY <2>1 DEF Reasons
  <2>2. CASE reading.validated /\ q \in policy.required
    BY <2>2 DEF Reasons, Unanswered
  <2>3. CASE reading.validated /\ \E c \in policy.conditions : c.question = q
    <3> PICK c \in policy.conditions : c.question = q
      BY <2>3
    <3>1. "condition_unverifiable" \in Answered(reading, c)
      BY DEF Answered
    <3> QED BY <2>3, <3>1 DEF Reasons
  <2> QED BY <2>1, <2>2, <2>3
<1> QED BY <1>1 DEF Decide, Accounting

\* What only another reading or a correction can clear cannot be released by an
\* admin either, whatever else the rules hold (releasable, LOCKED_DELIVERY_RULES).
THEOREM LockedIsNeverReleasable ==
  ASSUME NEW policy \in Policy, NEW reading \in Reading, ~Ready(reading)
  PROVE  ~Releasable(Reasons(policy, reading))
<1>1. CASE ~reading.validated
  BY <1>1 DEF Reasons, Releasable, Locked
<1>2. CASE reading.validated
  <2>1. PICK code \in Locked : code \in reading.found
    BY <1>2 DEF Ready
  <2>2. code # "possible_duplicate"
    BY <2>1 DEF Locked
  <2>3. code \in Found(policy, reading)
    BY <2>1, <2>2 DEF Found
  <2> QED BY <1>2, <2>1, <2>3 DEF Reasons, Releasable
<1> QED BY <1>1, <1>2

\* A bill that is posted without a person was readable and complete: the rules
\* that may hold nothing else still hold what no bill could carry
\* (accountingReadiness).
THEOREM DeliveredIsReady ==
  ASSUME NEW policy \in Policy, NEW reading \in Reading,
         NEW approval \in BOOLEAN, NEW mayPost, NEW posted, NEW connection,
         Decide(policy, reading, approval, mayPost, posted, connection).accounting
           = "deliver"
  PROVE  Ready(reading)
<1>1. Reasons(policy, reading) = {}
  BY DEF Decide, Accounting
<1>2. Releasable(Reasons(policy, reading))
  BY <1>1 DEF Releasable
<1> QED BY <1>2, LockedIsNeverReleasable

Stricter(p, r) ==
  /\ p.holds \subseteq r.holds /\ p.required \subseteq r.required
  /\ p.limits \subseteq r.limits /\ p.conditions \subseteq r.conditions

\* A policy with more rules, questions, limits and conditions holds whatever one
\* with fewer held, for the same reasons: no rule silences another.
THEOREM StricterHoldsMore ==
  ASSUME NEW p \in Policy, NEW r \in Policy, Stricter(p, r), NEW reading \in Reading
  PROVE  Reasons(p, reading) \subseteq Reasons(r, reading)
<1>1. Found(p, reading) \subseteq Found(r, reading)
  BY DEF Found, Stricter
<1>2. Unanswered(p, reading) \subseteq Unanswered(r, reading)
  BY DEF Unanswered, Stricter
<1>3. UNION {OverLimit(reading, l) : l \in p.limits}
        \subseteq UNION {OverLimit(reading, l) : l \in r.limits}
  BY DEF Stricter
<1>4. UNION {Answered(reading, c) : c \in p.conditions}
        \subseteq UNION {Answered(reading, c) : c \in r.conditions}
  BY DEF Stricter
<1> QED BY <1>1, <1>2, <1>3, <1>4 DEF Reasons
=============================================================================
