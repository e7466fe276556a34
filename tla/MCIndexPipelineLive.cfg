SPECIFICATION FairSpec
CONSTANTS
    Partitions <- MCShortPartitions
    Log <- MCShortLog
    Docs <- MCShortDocs
    Watched = {}
    PageOf <- MCShortPageOf
    Unreadable <- MCShortUnreadable
    TrendingTopN = 1
    SpikeRatioMin = 2
    EditWarEnabled = TRUE
    Sampling = FALSE
    IndexBufferSize = 1
    IndexBatchSize = 2
    BulkBufferSize = 1
    BulkSize = 2
    MaxRebalances = 0
    MaxRestarts = 1
CHECK_DEADLOCK FALSE
PROPERTIES
    EventuallyDecided
    ShutdownCompletes
