SPECIFICATION Spec
CONSTANTS
  Loading = Loading
  Blank = ""
  Docs <- TheDocs
  Statuses = {"QUEUED", "PAID"}
  Texts <- TheTexts
  NameHas <- InNames
  ReadingHas <- InReadings
  Requests = {r1, r2}
  Uploads = {u1, u2}
INVARIANT DashboardTypeOK
PROPERTIES OnlyNewsUnsettles ListCatchesUp
