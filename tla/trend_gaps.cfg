SPECIFICATION TrendSpec
CONSTANTS
  TrendTenants = {"t1", "t2"}
  DaySorts = {"busy", "quiet"}
  DaysOf <- MCDaysOf
  Messages <- MCMessages
  Threats <- MCThreats
  Gaps <- MCGaps
  MaxGaps = 2
INVARIANT
  FleetGapIsNoImprovement
CHECK_DEADLOCK FALSE
