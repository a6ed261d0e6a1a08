SPECIFICATION FairSpec
CONSTANTS
  b1 = b1
  b2 = b2
  r1 = r1
  r2 = r2
  c1 = c1
  c2 = c2
  None = None
  Entries = {1, 2}
  Brands = {b1, b2}
  BrandOf <- LastInOtherBrand
  LockKey <- OwnKey
  Unparseable = {1}
  Deferred = {}
  Relays = {r1, r2}
  Consumers = {c1}
  BatchSize = 1
  MaxAttempts = 2
  MaxStalls = 1
  MaxFaults = 1
  RetentionOutlivesDelivery = TRUE

PROPERTY EventuallySettled
CHECK_DEADLOCK FALSE
