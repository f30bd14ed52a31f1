CONSTANTS
  Hosts = {h1}
  Ids = {h1, s1}
  Passwords = {p1, p2}
  Procs = {web, cli}
  MaxCommands = 3
  MaxOverlapped = 2
  MaxNow = 2
SPECIFICATION Spec
INVARIANTS
  KeystoreSound
PROPERTIES
  OnlyUnlockGrants
  SecretsSurvive
SYMMETRY Symmetry
CHECK_DEADLOCK FALSE
