CONSTANTS
  Root = root
  Children = {c1, c2}
SPECIFICATION FairSpec
INVARIANTS
  TypeOK
  BundleLifetime
  StagesHonest
PROPERTIES
  NothingOutlivesTheFuture
  KeepsPromise
  Termination
