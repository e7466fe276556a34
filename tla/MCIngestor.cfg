SPECIFICATION Spec
CONSTANTS
    NumEvents <- MCNumEvents
    Edits <- MCEdits
    TitleOf <- MCTitleOf
    Feed <- MCFeed
    ExcludeBots = TRUE
    AllowedLanguages <- MCLanguages
    AllowedNamespaces <- MCNamespaces
    BufferSize = 1
    BatchSize = 2
    MaxAttempts = 2
    ChanSize = 2
    BaseDelay = 1
    MaxDelay = 3
    MaxCrashes = 1
CHECK_DEADLOCK FALSE
INVARIANTS
    TypeOK
    GapFree
    HandedOnce
    PartitionOrder
    Accounted
PROPERTIES
    ImplementsChannel
