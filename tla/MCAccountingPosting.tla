------------------------ MODULE MCAccountingPosting ------------------------
(***************************************************************************)
(* Two invoices that may share their type and number, and their supplier.  *)
(***************************************************************************)
EXTENDS AccountingPosting, TLC

CONSTANTS a, b, n1, n2, s1, s2

MCInvoices == {a, b}
MCOneInvoice == {a}
MCSuppliers == {s1, s2}
MCNumbers == {n1, n2}
MCOneNumber == {n1}

MCNone == {}
MCFirst == {<<a, b>>}

MCSymmetry == Permutations(MCSuppliers) \cup Permutations(MCNumbers)
=============================================================================
