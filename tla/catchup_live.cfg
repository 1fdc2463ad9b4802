CONSTANTS
  s1 = s1
  s2 = s2
  t1 = t1
  t2 = t2
  Null = Null
  NoTenant = NoTenant
  Schedules = {s2}
  Tenants = {t1}
  Periods = {0, 1, 2}
  Threads = {w1}
  Covers <- MCCovers
  FanOut <- MCFanOut
  Database = "postgresql"
  Faults = "none"
  FinalizeAttempts = 2
  Jobs = {"schedule", "catchup"}
  Stops = TRUE
  Edits = {"tenant_toggle", "tenant_delete", "schedule_toggle", "schedule_delete"}
  MaxRuns = 2
  MaxClock = 2
  DueAt <- MCDue
  PeriodAt <- MCPeriodAt
  CatchUpLimit = 3
  MaxCrashes = 1
  MaxManual = 0
SPECIFICATION FairSpec
PROPERTIES
  MissedIsRun
  FairLifecycleHolds
CHECK_DEADLOCK FALSE
