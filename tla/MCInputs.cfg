SPECIFICATION Spec
CONSTANTS
  Callers = {c1, c2}
  MaxEdits = 2
  Tasks = {t1, t2, t3}
  MaxFaults = 1
INVARIANTS SourcesSound ReferencesSound RequestsSound
