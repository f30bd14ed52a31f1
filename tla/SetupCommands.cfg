SPECIFICATION CommandsSpec
CONSTANTS
  Releases = {1, 2, 3}
  Components = {"c1"}
  IndexTemplates = {"i1", "i2"}
  ComposedOf <- Composition
  Bundled <- ThreeReleases
  RenamedIn = 2
  StreamTemplate <- TwoStreams
  Spaces = {"default", "esdiag"}
  MaxFaults = 1
  SkillReleases = {1, 2}
  Targets = {"claude", "codex"}
  MaxSkillFaults = 2
  MaxEvents = 2
INVARIANTS
  SetupSound
  SkillsSound
PROPERTIES
  SetupHonest
CONSTRAINT Separate
CHECK_DEADLOCK FALSE
