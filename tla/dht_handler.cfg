\* One search, three nodes around its target, three buckets, two attempts; calls may fail.
SPECIFICATION FairSpec
CONSTANTS
    MAX_BUCKETS = 3
    BOOTSTRAP_PINGS_PER_BUCKET = 2
    MayFail = TRUE
    LookupMayFail = TRUE
    Nodes = {1, 2, 3}
    MAX_BUCKET_SIZE = 2
    INITIAL_PICK_NUM = 2
    ITERATIVE_PICK_NUM = 2
    ANNOUNCE_PICK_NUM = 1
    MAX_BOOTSTRAP_ATTEMPTS = 2
    MaxLookups = 1
    MaxNamed = 2
    MaxLate = 1
INVARIANTS ActionsWait 
PROPERTIES BootstrapEnds SearchEnds
