SPECIFICATION Spec
CONSTANTS
  c1 = c1
  c2 = c2
  m1 = m1
  Runs <- MCRuns
  Messages <- MCMessages
  SentDays <- MCSentDays
  Start = 4
  MaxClock = 7
  Horizon = 4
  InitialDays = 2
  RescanDays = 2
  WindowDays = 2
  DaysBack = 1
  TopDays = 2
  MonthFirst = 2
  MonthLast = 5
  DailyBudget = 3
  MinBudget = 1
  MaxRuns = 3
  MaxPages = 1
  MaxFaults = 1
  Null = Null
SYMMETRY MCSymmetry
INVARIANTS
  CompleteFromCursor
  EveryDayIsCounted
  UsageIsCounted
  ErrorsAreCurrent
CHECK_DEADLOCK FALSE
