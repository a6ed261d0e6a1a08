SPECIFICATION FairSpec
CONSTANTS
  None = None
  r1 = r1
  r2 = r2
  r3 = r3
  e1 = e1
  e2 = e2
  e3 = e3
  Relays = {r1, r2}
  Rows = {e1, e2}
  BatchSize = 1
  MaxFailures = 1
INVARIANTS NobodySleepsOnARow StopIsPrompt
PROPERTIES EveryRowIsPublished StopEnds
CHECK_DEADLOCK FALSE
