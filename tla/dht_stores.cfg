\* Two nodes, two info hashes, room for two of four contacts; a contact outlives its token.
\* Ids of three bits, buckets of two.
SPECIFICATION MCSpec
CONSTANTS
    Parts = {"announce", "table"}
    Ips = {a, b}
    Ports = {1}
    Hashes = {h1, h2}
    MAX_ITEMS_STORED = 2
    RefreshInterval = 2
    ExpirationTime = 5
    MaxTime = 6
    MaxIssued = 3
    MAX_BUCKET_SIZE = 2
    MAX_REFRESH_REQUESTS = 1
    node_id <- Ours
    Keys <- SixKeys
SYMMETRY Symmetry
CHECK_DEADLOCK FALSE
INVARIANTS RecentTokenAccepted StorageIsExact  ClosestIsComplete
PROPERTIES  GoodIsKept
