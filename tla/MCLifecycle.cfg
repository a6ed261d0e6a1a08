SPECIFICATION FairSpec
CONSTANTS
  None = None
 c1 = c1  c2 = c2  w1 = w1  w2 = w2
  Replies = {c1}
  Picks = {"closed", "open"}
  Window = 1
  SnoozeFor <- OneUnit
  Workers = {w1}
  MaxTime = 1
  MaxAsks = 2
  MaxVersion = 4
  MaxFaults = 1
INVARIANTS RowIsConsistent EachReplyOnce TimerInPlace
PROPERTIES WakesOnlyWhenDue ImplementsSnoozedTicket SnoozesEnd
CHECK_DEADLOCK FALSE
