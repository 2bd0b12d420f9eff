SPECIFICATION FairSpec
CONSTANTS
    MAX_BATCH_FILES = 2
    MaxDrops = 2
    MaxPollFaults = 1
    ConfigKeys = {k1, k2}
    NoKey = nobody
    MaxWrites = 2
    MaxVersions = 4
    MaxUrls = 1
    MaxActs = 4
CHECK_DEADLOCK FALSE
INVARIANTS
    TrayTellsTheTruth
    ShownKnowsWhatWasKnown
PROPERTIES
    InfectedIsTold
