SPECIFICATION Spec
CONSTANTS
  Pages = {"log", "watch", "compute", "center", "author", "verify", "papers",
           "ranking", "storage"}
  MaxRows = 3
  MaxSockets = 2
  MaxShown = 2
  Kinds <- MCKinds
  Papers <- MCPapers
  MaxRecords = 2
  MaxPolls = 3
  Ids = {q1, q2}
  MaxLookups = 2
  Machines = {"m1", "m2"}
  Exams = {"p1", "p2"}
  StartAt <- MCStartAt
  CloseAt <- MCCloseAt
  LastHour = 3
  Tabs = {t1}
  Roles = {"ADMIN", "OBSERVER"}
  MaxLogins = 0
  Nobody = Nobody
  MaxSubmits = 2
  MaxErrors = 1
  Sessions = {s1, s2}
  MaxChecks = 2
  MaxOutages = 1
  MaxClicks = 2
  MaxVisits = 2
  MaxFaults = 1
  None = None
  Bank <- MCBank
  Chapter <- MCChapter
  FirstReport <- MCFirstReport
  Rewrites <- MCRewrites
  MaxTouched = 0
  SubjectOf <- MCSubjectOf
  SubjectRows <- MCSubjectRows
  ChapterRows <- MCChapterRows
  MaxSubjects = 1
  MaxChapters = 2
  MaxBlueprints = 1
  MaxPublishes = 1
  MaxLosses = 1
  MaxResults = 2
  MaxLoads = 2
  Records = {"q1", "q2", "s1"}
  KindOf <- MCKindOf
  Take = 2
  MaxWrites = 3
INVARIANTS
  FeedIsUnbroken HubForgetsTheGone ShortfallIsNews LastLookupIsShown HeartbeatIsSeen
  OutcomeIsExplained VerdictIsRight ProgressIsSo
CHECK_DEADLOCK FALSE
