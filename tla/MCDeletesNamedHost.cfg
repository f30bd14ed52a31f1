SPECIFICATION WorkspaceSpec
CONSTANTS
  NameOrder <- MCNames
  KibanaOf <- MCKibanaOf
  None = None
  Web = {"w1"}
  Cli = {}
  Forms = {}
  Local = "b"
  Seeds <- MCThree
  MaxCommands = 2
  MaxLosses = 0
PROPERTY DeletesNamedHost
CHECK_DEADLOCK FALSE
CONSTRAINT WizardCompany
ACTION_CONSTRAINT Bounded
