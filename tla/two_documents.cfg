SPECIFICATION Spec
CONSTANTS
  None = None
  d1 = d1
  d2 = d2
  fh = fh
  cfo = cfo
  clerk = clerk
  Orders = {"PO-S", "PO-M"}
  OrderVendor <- TheOrderVendor
  OrderAmount <- TheOrderAmount
  VendorList <- TheVendors
  Invoices <- TheInvoices
  Docs = {d1, d2}
  Users = {fh}
  Role <- TheRoles
  Readings <- TwoBills
  DirectDecisions = {"REJECTED"}
  MaxFaults = 1
  MaxCrashes = 0
INVARIANTS OrderBilledOnce FailuresStickToOneDocument FailuresHideOneDecision
PROPERTIES KeepsThePromise EveryJobSettles
CHECK_DEADLOCK FALSE
