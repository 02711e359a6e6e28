SPECIFICATION FairSpec
CONSTANTS
  a = a
  b = b
  n1 = n1
  n2 = n2
  s1 = s1
  s2 = s2
  NoInvoice = NoInvoice
  NoKey = NoKey
  NoBill = NoBill
  Suppliers <- MCSuppliers
  CopiesArrive = FALSE
  ReceivedBefore <- MCNone
  MayLoseAccess = TRUE
  HandlersOverlap = FALSE
  StatementsFail = TRUE
  KeysExpire = TRUE
  Switching = TRUE
  MaxAttempts = 2
  MaxRevision = 1
  MaxRetries = 0
  MaxExits = 1
  Numbers <- MCOneNumber
  Invoices <- MCOneInvoice
CHECK_DEADLOCK FALSE
PROPERTIES
  EveryPostSettles
