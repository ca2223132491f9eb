SPECIFICATION Spec
CONSTANTS
  None = None
  Gmail = gmail
  Files <- TheFiles
  NotPdf = {"junk"}
  Users = {ann}
  Mails = {1, 2}
  Attached <- TheAttachments
  Poison = {2}
  MaxFaults = 1
  MaxCrashes = 1
  MaxStops = 1
INVARIANTS IntakeInv NothingDropped NothingLostWithoutFailures EachFailureCostsOneFile
PROPERTIES KeepsOneDoor EveryMailRecorded
