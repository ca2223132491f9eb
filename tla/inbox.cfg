SPECIFICATION Spec
CONSTANTS
  None = None
  d1 = d1
  fh = fh
  cfo = cfo
  a = a
  b = b
  Orders <- TheOrders
  OrderVendor <- TheOrderVendor
  OrderAmount <- TheOrderAmount
  VendorList <- TheVendors
  Invoices <- TheInvoices
  Docs = {d1}
  Readings <- TheReadings
  DirectDecisions = {"REJECTED"}
  MaxFaults = 1
  Users = {a, b}
  Role <- TheRole
  People = {fh, cfo}
  PersonRole <- ThePersonRole
  Owner <- TheOwner
  Inboxes = {"inbox"}
  PageOf <- ThePages
  Waiting <- TheWaiting
  Read <- TheRead
  MaxPolls <- TheBounds
  MaxLogins = 1
INVARIANTS NamedPersonDecided ButtonsAreHonest
CHECK_DEADLOCK FALSE
PROPERTIES PagesCatchUp ActionsEnd ExpiredSessionsEnd
