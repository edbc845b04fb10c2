\* Ids of three bits, buckets of two.
SPECIFICATION Spec
CONSTANTS
    MAX_BUCKET_SIZE = 2
    MAX_REFRESH_REQUESTS = 1
    node_id <- Ours
    Keys <- SixKeys
INVARIANT FindNodeFinds
