CONSTANTS
  f1 = f1
  f2 = f2
  Null = Null
  Scheduled = c1
  Manual = {c2}
  Files = {f1, f2}
  HourOf <- MCHourOf
  MaxClock = 5
  DayLength = 2
  Window = 2
  Lookback = 1
  Lateness = 1
  Retention = 2
  EtdKeeps = 3
  MaxManual = 1
  MaxFaults = 1
SPECIFICATION FairSpec
INVARIANTS
  CoveredIsComplete
  NeverDoubleCounted
  NothingPassedOver
PROPERTIES
  EveryFileIsSettled
