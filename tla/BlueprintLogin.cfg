SPECIFICATION Spec
CONSTANTS
  Pages = {"blueprint", "login"}
  MaxRows = 0
  MaxSockets = 0
  MaxShown = 1
  Kinds <- MCKinds
  Papers <- MCPapers
  MaxRecords = 0
  MaxPolls = 0
  Ids = {}
  MaxLookups = 0
  Machines = {"m1"}
  Exams = {"p1"}
  StartAt <- MCStartAt
  CloseAt <- MCCloseAt
  LastHour = 0
  Tabs = {t1, t2}
  Roles = {"ADMIN", "OBSERVER"}
  MaxLogins = 2
  Nobody = Nobody
  MaxSubmits = 0
  MaxErrors = 0
  Sessions = {}
  MaxChecks = 0
  MaxOutages = 0
  MaxClicks = 0
  MaxVisits = 0
  MaxFaults = 0
  None = None
  Bank <- MCBank
  Chapter <- MCChapter
  FirstReport <- MCFirstReport
  Rewrites <- MCRewrites
  MaxTouched = 1
  SubjectOf <- MCSubjectOf
  SubjectRows <- MCSubjectRows
  ChapterRows <- MCChapterRows
  MaxSubjects = 1
  MaxChapters = 2
  MaxBlueprints = 1
  MaxPublishes = 1
  MaxLosses = 1
  MaxResults = 0
  MaxLoads = 0
  Records = {}
  KindOf <- MCKindOf
  Take = 1
  MaxWrites = 0
INVARIANTS SelectedOnce SelectionFits SessionIsRecorded
PROPERTY ClearedIsStored
CONSTRAINT RunFromEmptyForm
CHECK_DEADLOCK FALSE
