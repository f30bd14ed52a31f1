CONSTANTS
  Tasks = {"t1", "t2", "t3"}
  Requests = {"r1"}
  Owners = {"o1", "o2"}
  User <- ThreeHandlers
  GlobalCap = 2
  OwnerCap = 1
  NoRequest = NoRequest
SPECIFICATION FairSpec
INVARIANTS
  WebJobsSound
PROPERTIES
  Settled
CHECK_DEADLOCK FALSE
