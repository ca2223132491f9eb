SPECIFICATION Spec
CONSTANTS
  None = None
  d1 = d1
  d2 = d2
  fh = fh
  cfo = cfo
  clerk = clerk
  Orders <- AllOrders
  OrderVendor <- TheOrderVendor
  OrderAmount <- TheOrderAmount
  VendorList <- TheVendors
  Invoices <- TheInvoices
  Docs = {d1}
  Users = {fh, cfo}
  Role <- TheRoles
  Readings <- EveryKind
  DirectDecisions <- Everything
  MaxFaults = 1
  MaxCrashes = 2
INVARIANTS
  TypeOK
  IInv
  JobsInv
  StatusTellsTheErpTruth
  OneInvoicePerDocument
  PaymentMatchesOrder
  StoppedMeansNoInvoice
  NothingStuckWithoutFailures
  PendingMeansTask
  FailuresHideOneDecision
PROPERTIES KeepsThePromise RecordsAreFinal FinishedStaysFinished OnlyPeopleAfterwards
CHECK_DEADLOCK FALSE
