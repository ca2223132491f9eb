SPECIFICATION Spec
CONSTANTS
  None = None
  d1 = d1
  d2 = d2
  fh = fh
  cfo = cfo
  clerk = clerk
  Orders <- AllOrders
  OrderVendor <- TheOrderVendor
  OrderAmount <- TheOrderAmount
  VendorList <- TheVendors
  Invoices <- TheInvoices
  Docs = {d1}
  Users = {fh}
  Role <- TheRoles
  Readings <- TwoBills
  DirectDecisions <- Nothing
  MaxFaults = 0
  MaxCrashes = 0
INVARIANT PendingMeansUndecided
CHECK_DEADLOCK FALSE
