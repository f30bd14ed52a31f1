SPECIFICATION Spec
CONSTANTS
  MaxVersion = 2
  Pids = {p1, p2}
  MaxSecrets = 2
  MaxStarts = 3
  MaxCuts = 1
SYMMETRY Symmetry
INVARIANT LocalStackSound
PROPERTY OthersSpared
