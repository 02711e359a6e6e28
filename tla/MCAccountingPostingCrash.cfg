SPECIFICATION Spec
CONSTANTS
  a = a
  b = b
  n1 = n1
  n2 = n2
  s1 = s1
  s2 = s2
  NoInvoice = NoInvoice
  NoKey = NoKey
  NoBill = NoBill
  Suppliers <- MCSuppliers
  CopiesArrive = TRUE
  ReceivedBefore <- MCFirst
  MayLoseAccess = FALSE
  HandlersOverlap = FALSE
  StatementsFail = TRUE
  KeysExpire = TRUE
  Switching = FALSE
  MaxAttempts = 2
  MaxRevision = 1
  MaxRetries = 1
  MaxExits = 1
  Numbers <- MCOneNumber
  Invoices <- MCInvoices
SYMMETRY MCSymmetry
CHECK_DEADLOCK FALSE
INVARIANTS
  PostingTypeOK
  OneBillPerInvoice
  BillKeepsClaim
