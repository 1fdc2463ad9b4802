SPECIFICATION MCSpec
CONSTANTS
  Tenants <- MCTenants
  ReuseIds = TRUE
  MinAge = 1
  Retention = 2
  MaxCalls = 2
  MaxFaults = 1
  FirstYear = 2023
  FirstDay = 366
  LastDay = 760
  Streams = {"stats", "logs"}
  StalledAfter <- MCStalledAfter
  RepeatAfter = 3
  MaxStalls = 1
  Keys = {1, 2}
  Parts = 2
  WarningDays = 3
  MaxLosses = 1
  Hosts = {"own", "vendor", "look", "host", "evil"}
  Outside = {"look", "host"}
  Registrable <- MCRegistrable
  Resembles <- MCResembles
  Own = {"own"}
  Explicit = {"vendor"}
  Freemail = {}
  MinDays = 2
  MaxProtected = 2
  LastMailDay = 3
  MaxThreats = 1
  Alphabet = {"r", "n", "i"}
  Confusables <- MCConfusables
  Endings = {"se", "co.uk"}
  Guarded <- MCGuarded
  MaxSlips = 2
  Names = {"acme", "sub"}
  OwnDomains = {"sub"}
  OrgOf <- MCOrgOf
  Postings <- MCPostings
  Readers = {"r1", "r2"}
  MaxAge = 2
  MaxHour = 4
  MaxPostings = 1
  PeriodStart = 2
  PeriodEnd = 4
  LastQuarterDay = 4
  InitialDays = 1
  RescanDays = 1
  BackfillDays = 2
  KeptDays = 4
  Answers <- MCAnswers
  Links = {1, 2, 3}
  GenericLinks = {3}
  People = {1, 2}
  Vips = {2}
  Arrivals <- MCArrivals
  TargetedMax = 1
  MassMin = 2
  ListedPeople = 1
  MaxConvicted = 3
  MaxList = 1
  ManyExposed = 3
  CampaignLimits <- MCCampaignLimits
  ManySent = 2
  ReportFiles = {1}
  LastInstant = 1
  BackupKeep = 1
  MaxBackups = 2
  Saved = {1, 2}
  Editors = {"e1", "e2"}
  MaxEdits = 3
  MaxZones = 1
  TrendTenants = {"t1", "t2"}
  DaySorts = {"busy", "quiet"}
  DaysOf <- MCDaysOf
  Messages <- MCMessages
  Threats <- MCThreats
  Gaps <- MCGaps
  MaxGaps = 3
INVARIANTS
  ArchiveHasItsFiles
  AlertsAreTold
  ImitatorsAreFlagged
  ImitationsAreFound
  PostureIsRecent
  GradeNeedsEvidence
  ThreatsAddUp
  BackupsRestore
  JobsFollowSchedules
  GapIsNoTrend
PROPERTIES
  FilesGo
  CalendarHolds
CHECK_DEADLOCK FALSE
