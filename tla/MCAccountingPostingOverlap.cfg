SPECIFICATION Spec
CONSTANTS
  a = a
  b = b
  n1 = n1
  n2 = n2
  s1 = s1
  s2 = s2
  NoInvoice = NoInvoice
  NoKey = NoKey
  NoBill = NoBill
  Suppliers <- MCSuppliers
  CopiesArrive = FALSE
  ReceivedBefore <- MCFirst
  MayLoseAccess = FALSE
  HandlersOverlap = TRUE
  StatementsFail = FALSE
  KeysExpire = TRUE
  Switching = FALSE
  MaxAttempts = 2
  MaxRevision = 1
  MaxRetries = 0
  MaxExits = 0
  Numbers <- MCOneNumber
  Invoices <- MCInvoices
SYMMETRY MCSymmetry
CHECK_DEADLOCK FALSE
INVARIANTS
  OneBillPerInvoice
PROPERTIES
  PostedStaysPosted
