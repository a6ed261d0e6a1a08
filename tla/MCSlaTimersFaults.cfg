SPECIFICATION FairSpec
CONSTANTS
  w1 = w1  w2 = w2  None = None
  Workers <- TwoWorkers
  Steps <- OnlyBreach
  Targets <- OneTarget
  FirstTarget = 2
  MaxLag = 0
  MaxTime = 2
  MaxChanges = 1
  MaxFaults = 1
PROPERTY DueStepsRun
INVARIANTS StepsRunOnce
CHECK_DEADLOCK FALSE
