CONSTANTS
  s1 = s1
  s2 = s2
  t1 = t1
  t2 = t2
  Null = Null
  NoTenant = NoTenant
  Schedules = {s1}
  Tenants = {t1, t2}
  Periods = {0, 1}
  Threads = {w1}
  Covers <- MCCovers
  FanOut <- MCFanOut
  Database = "sqlite"
  Faults = "none"
  FinalizeAttempts = 2
  Jobs = {"schedule", "catchup", "manual"}
  Stops = TRUE
  Edits = {}
  MaxRuns = 4
  MaxClock = 1
  DueAt <- MCDue
  PeriodAt <- MCPeriodAt
  CatchUpLimit = 3
  MaxCrashes = 1
  MaxManual = 1
SPECIFICATION Spec
SYMMETRY TenantSymmetry
INVARIANTS
  TwiceOnlyAfterLoss
CHECK_DEADLOCK FALSE
