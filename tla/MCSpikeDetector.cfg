SPECIFICATION FairSpec
CONSTANTS
    Pages = {"p", "q"}
    Workers = {"w"}
    HotThreshold = 2
    Window = 2
    MaxHotPages = 1
    MaxMembers = 3
    Hour = 2
    MaxLag = 0
    MaxEdits = 5
    MaxFaults = 1
    NoPage = "none"
    NoOne = "no one"
    MinimumEdits = 3
    SpikeRatioThreshold = 5
    Cooldown = 2
    PurgeAbove = 0
CHECK_DEADLOCK FALSE
INVARIANTS
    PromotedWithinLimit
PROPERTIES
    AlertsSpaced
    HotPagesCool
