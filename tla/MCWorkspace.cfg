SPECIFICATION WorkspaceSpec
CONSTANTS
  NameOrder <- MCNames
  KibanaOf <- MCKibanaOf
  None = None
  Web = {"w1", "w2"}
  Cli = {"c1"}
  Forms <- MCForms
  Local = "b"
  Seeds <- MCSeeds
  MaxCommands = 2
  MaxLosses = 1
INVARIANTS
  WorkspaceSound
PROPERTIES
  AllOrNothing
  OutputSwitched
  JobsSerial
  WizardCompletes
CHECK_DEADLOCK FALSE
CONSTRAINT WizardCompany
ACTION_CONSTRAINT Bounded
