SPECIFICATION FairSpec
CONSTANTS
    Pages = {"p"}
    Readers = {"api"}
    Slots = {"slot"}
    NoPage = "none"
    Users = {"ann", "bob"}
    EditKinds <- MCEditKinds
    MinEdits = 2
    MinEditors = 2
    MinReverts = 1
    MarkerTTL = 2
    LongTTL = 3
    KeepChanges = 2
    Reanalysis = TRUE
    MaxEdits = 3
    MaxRestarts = 1
    MaxFaults = 1
CHECK_DEADLOCK FALSE
INVARIANTS
    TypeOK
    CountersOutliveMarker
PROPERTIES
    WarsAreClosed
