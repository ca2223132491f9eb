SPECIFICATION Spec
CONSTANTS
  NoAccount = NoAccount
  Accounts = {ann}
  Requests = {r1, r2}
  FreeFails = 1
  Base = 2
  MaxDelay = 3
  Hour = 4
  MaxCount = 3
  Callers = {worker, handler}
  Ttl = 3
  MaxRead = 2
INVARIANTS WaitsAreBounded NeverLongStale
PROPERTIES WaitsStand QuietAccountsAreForgotten
CHECK_DEADLOCK FALSE
