SPECIFICATION Spec
CONSTANTS
  None = None
  Gmail = gmail
  Files <- TheFiles
  NotPdf = {"junk"}
  Users = {ann}
  Mails = {1, 2}
  Attached <- TheAttachments
  Poison = {}
  MaxFaults = 0
  MaxCrashes = 0
  MaxStops = 1
INVARIANT CleanExitLosesNothing
