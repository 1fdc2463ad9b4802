CONSTANTS
  s1 = s1
  s2 = s2
  t1 = t1
  t2 = t2
  w1 = w1
  w2 = w2
  Null = Null
  NoTenant = NoTenant
  Schedules = {s1, s2}
  Tenants = {t1, t2}
  Periods = {1}
  Threads = {w1, w2}
  Covers <- MCCovers
  FanOut <- MCFanOut
  Database = "sqlite"
  Faults = "none"
  FinalizeAttempts = 2
  Jobs = {"schedule", "catchup", "report"}
  Stops = FALSE
  Edits = {}
  MaxRuns = 2
SPECIFICATION RunsSpec
SYMMETRY ThreadSymmetry
INVARIANTS
  ProblemsAreAlerted
CHECK_DEADLOCK FALSE
