SPECIFICATION Spec
CONSTANTS
  None = None
  c1 = c1  c2 = c2  w1 = w1  w2 = w2
  Replies = {c1}
  Picks = {"closed"}
  Window = 1
  SnoozeFor <- OneUnit
  Workers = {w1}
  MaxTime = 1
  MaxAsks = 1
  MaxVersion = 3
  MaxFaults = 0

PROPERTY CustomerReplyAlwaysWakes
CHECK_DEADLOCK FALSE
