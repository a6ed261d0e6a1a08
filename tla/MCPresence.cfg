SPECIFICATION FairSpec
CONSTANTS
  None = None
  b1 = b1  u1 = u1  s1 = s1  s2 = s2  r1 = r1
  Brands = {b1}
  Users = {u1}
  Sockets = {s1, s2}
  Replicas = {r1}
  Owner <- OneUser
  Home <- OneHome
  MaxJoins = 2
  MaxEvents = 1
  MaxBusy = 2
INVARIANTS NoFalseDeparture MarksFollowPresence RoomsHearEveryChange
PROPERTIES ImplementsAttendance HoldersArePresent ListedGhostsLeave
CHECK_DEADLOCK FALSE
