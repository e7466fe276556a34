SPECIFICATION Spec
CONSTANTS
    NumEvents <- MCShortNumEvents
    Edits <- MCShortEdits
    TitleOf <- MCShortTitleOf
    Feed <- MCShortFeed
    ExcludeBots = TRUE
    AllowedLanguages <- MCLanguages
    AllowedNamespaces <- MCNamespaces
    BufferSize = 1
    BatchSize = 2
    MaxAttempts = 2
    ChanSize = 1
    BaseDelay = 1
    MaxDelay = 3
    MaxCrashes = 1
CHECK_DEADLOCK FALSE
INVARIANTS
    StopIsGraceful
