SPECIFICATION FairSpec
CONSTANTS
  Sources = {indices_stats, nodes, tasks}
  Streamed = {indices_stats}
  Heavy = {indices_stats, nodes}
  LookupNames = {alias}
  Capacity = 1
  MaxDocs = 1
INVARIANTS
  OutcomeDerived
  ReportPersisted
  ProcessSound
PROPERTY
  VerdictNeverImproves
  Termination
