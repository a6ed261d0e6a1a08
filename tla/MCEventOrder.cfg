SPECIFICATION FairSpec
CONSTANTS
  None = None
  p1 = p1
  p2 = p2
  N = 4
  Keys = {1, 2, 3}
  KeysOf <- Merges
  Processes = {p1, p2}
  Concurrency = 3
  MaxCrashes = 1
PROPERTIES EveryDeliveryEnds ImplementsEventQueue
INVARIANTS OneEventPerKey ProcessOrder TailsArePending NoDeadlock
CHECK_DEADLOCK FALSE
