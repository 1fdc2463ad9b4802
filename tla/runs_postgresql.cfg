CONSTANTS
  s1 = s1
  s2 = s2
  t1 = t1
  t2 = t2
  w1 = w1
  w2 = w2
  Null = Null
  NoTenant = NoTenant
  Schedules = {s1}
  Tenants = {t1, t2}
  Periods = {1}
  Threads = {w1, w2}
  Covers <- MCCovers
  FanOut <- MCFanOut
  Database = "postgresql"
  Faults = "persistent"
  FinalizeAttempts = 2
  Jobs = {"schedule"}
  Stops = TRUE
  Edits = {"tenant_toggle", "tenant_delete", "schedule_toggle", "schedule_delete"}
  MaxRuns = 2
SPECIFICATION RunsSpec
SYMMETRY FullSymmetry
INVARIANTS
  RunningHasWorker
  ArchiveTellsTheTruth
  SentIsRecorded
PROPERTIES
  FinishedIsFinal
