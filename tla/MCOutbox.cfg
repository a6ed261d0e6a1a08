SPECIFICATION Spec
CONSTANTS
  b1 = b1
  b2 = b2
  r1 = r1
  r2 = r2
  c1 = c1
  c2 = c2
  None = None
  Entries = {1, 2}
  Brands = {b1}
  BrandOf <- OneBrand
  LockKey <- OwnKey
  Unparseable = {}
  Deferred = {2}
  Relays = {r1, r2}
  Consumers = {c1, c2}
  BatchSize = 1
  MaxAttempts = 2
  MaxStalls = 1
  MaxFaults = 2
  RetentionOutlivesDelivery = TRUE
SYMMETRY Replicas
INVARIANTS TypeOK EffectAtMostOnce PublishedIsNeverLost
  CompletedMeansApplied BatchesAreDisjoint
PROPERTY ImplementsSideEffects
CHECK_DEADLOCK FALSE
