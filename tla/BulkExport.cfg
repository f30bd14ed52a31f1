CONSTANTS
    c1 = c1
    c2 = c2
    Channels = {c1, c2}
    Documents = 2
    BatchSize = 2
    EsBulkSize = 1
    TaskLimit = 1
    MaxRetries = 1
    Unexpected = {406}
SPECIFICATION FairSpec
INVARIANTS
    PermitsConserved
    BatchSound
    ExportHonest
PROPERTY
    Termination
