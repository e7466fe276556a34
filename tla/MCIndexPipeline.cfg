SPECIFICATION Spec
CONSTANTS
    Partitions <- MCPartitions
    Log <- MCLog
    Docs <- MCDocs
    Watched <- MCWatched
    PageOf <- MCPageOf
    Unreadable = {}
    TrendingTopN = 1
    SpikeRatioMin = 2
    EditWarEnabled = TRUE
    Sampling = FALSE
    IndexBufferSize = 1
    IndexBatchSize = 2
    BulkBufferSize = 1
    BulkSize = 1
    MaxRebalances = 1
    MaxRestarts = 1
CHECK_DEADLOCK FALSE
INVARIANTS
    TypeOK
    Accounted
    IndexerEmptied
    IndexedJustified
PROPERTIES
    ImplementsAtLeastOnce
