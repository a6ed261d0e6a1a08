SPECIFICATION Spec
CONSTANTS
  None = None
  f1 = f1
  f2 = f2
  s1 = s1
  s2 = s2
  r1 = r1
  r2 = r2
  r3 = r3
  Families = {f1, f2}
  Sids = {s1}
  Requests = {r1, r2}
  MaxChanges = 1
  MaxRotations = 0
  MaxCrashes = 0
  NoAccess = {}
SYMMETRY Alike
INVARIANT EverywhereMeansEverywhere
CHECK_DEADLOCK FALSE
