SPECIFICATION Spec
CONSTANTS
  a = a
  b = b
  n1 = n1
  n2 = n2
  s1 = s1
  s2 = s2
  NoInvoice = NoInvoice
  NoKey = NoKey
  NoBill = NoBill
  Suppliers <- MCSuppliers
  CopiesArrive = TRUE
  ReceivedBefore <- MCFirst
  MayLoseAccess = FALSE
  HandlersOverlap = FALSE
  StatementsFail = FALSE
  KeysExpire = FALSE
  Switching = FALSE
  MaxAttempts = 2
  MaxRevision = 2
  MaxRetries = 0
  MaxExits = 0
  Numbers <- MCNumbers
  Invoices <- MCInvoices
SYMMETRY MCSymmetry
CHECK_DEADLOCK FALSE
INVARIANTS
  OneBillPerInvoice
