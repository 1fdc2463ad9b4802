SPECIFICATION FairSpec
CONSTANTS
  t1 = t1
  t2 = t2
  Threads <- MCThreads
  Pages <- MCPages
  Interval = 1
  MaxRetries = 1
  Memory = 3
INVARIANTS
  RateIsKept
  PagesInOrder
PROPERTY EverySearchEnds
