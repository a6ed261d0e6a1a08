SPECIFICATION Spec
CONSTANTS
  w1 = w1  w2 = w2  None = None
  Workers <- OneWorker
  Steps <- OnlyBreach
  Targets <- ShortTargets
  FirstTarget = 2
  MaxLag = 1
  MaxTime = 2
  MaxChanges = 2
  MaxFaults = 0
INVARIANTS NothingElseCounted TimersInPlace
PROPERTIES NeverEarly ImplementsServiceLevel
CHECK_DEADLOCK FALSE
