SPECIFICATION Spec
CONSTANTS
  None = None
  f1 = f1
  f2 = f2
  s1 = s1
  s2 = s2
  r1 = r1
  r2 = r2
  r3 = r3
  Families = {f1}
  Sids = {s1, s2}
  Requests = {r1, r2}
  MaxChanges = 1
  MaxRotations = 1
  MaxCrashes = 1
  NoAccess = {1}
SYMMETRY Alike
INVARIANTS EverywhereEndsTheRest RevokedFamilyIsMute StaleClaimsAreRefused
  NobodyBlocksForEver
PROPERTY ImplementsAccessTokens
CHECK_DEADLOCK FALSE
