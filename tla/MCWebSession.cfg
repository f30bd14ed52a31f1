SPECIFICATION SessionSpec
CONSTANTS
  j1 = j1
  t1 = t1
  t2 = t2
  u1 = u1
  u2 = u2
  None = None
  Runs = {j1}
  Tabs = {t1, t2}
  Unlockers = {u1, u2}
  Ring = 2
  KeepTime = 2
  AfterTime = 1
  FreeTries = 3
  MaxBlock = 2
  LeaseTime = 1
  TabOwner <- MCTabOwner
  JobTab <- MCJobTab
  Scenarios <- MCScenarios
INVARIANTS SessionSound
PROPERTIES NeverLostEarly BundlesRemoved TokenAnswered StatsReach
CHECK_DEADLOCK FALSE
