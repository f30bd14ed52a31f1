CONSTANTS
  Apis = {l1, u1, h1, h2}
  Unsupported = {u1}
  Heavy = {h1, h2}
  Pool = 2
  MaxParts = 2
  MaxRetried = 1
SPECIFICATION FairSpec
INVARIANTS
  CollectionSound
PROPERTIES
  Termination
CHECK_DEADLOCK FALSE
