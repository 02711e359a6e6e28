------------------------- MODULE MCInvoiceRevisions -------------------------
(***************************************************************************)
(* One question that the rules may require or put a condition on, and      *)
(* three readings: in order, without an answer, and with totals that do    *)
(* not add up.                                                             *)
(***************************************************************************)
EXTENDS InvoiceRevisions

CONSTANT q

MCQuestions == {q}

MCRead(found, answer) ==
  [validated |-> TRUE, found |-> found, gross |-> 10, currency |-> "GBP",
   answers |-> [k \in MCQuestions |-> answer]]

MCReadings ==
  {MCRead({}, 1), MCRead({}, NoAnswer), MCRead({"invalid_financials"}, 1)}

MCTwoReadings == {MCRead({}, 1), MCRead({}, NoAnswer)}
MCCorrectable == {MCRead({}, 1), MCRead({"invalid_financials"}, 1)}

\* Rules that hold nothing of themselves: no reading exceeds the limit.
MCLax ==
  [accounting |-> TRUE, webhooks |-> "eligible", holds |-> {}, required |-> {},
   limits |-> {[currency |-> "GBP", amount |-> 10]}, conditions |-> {}]

\* The answer is required, or a condition looks at it.
MCStrict == [MCLax EXCEPT !.required = MCQuestions]
MCAllEvents ==
  [MCLax EXCEPT !.webhooks = "all",
     !.conditions = {[question |-> q, value |-> 0, operator |-> "is"]}]

MCPolicies == {MCStrict, MCAllEvents, MCLax}
MCOnePolicy == {MCAllEvents}
MCRoles == {"admin", "member"}
MCMembers == {"member"}
=============================================================================
