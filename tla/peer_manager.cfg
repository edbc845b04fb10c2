\* Two peers, two sessions; writes may fail.
SPECIFICATION FairSpec
CONSTANTS
    Infos = {p1, p2}
    PeerCapacity = 2
    SinkCap = 0
    StreamCap = 0
    MaxSessions = 2
    MaxSends = 1
    MaxIncoming = 1
CHECK_DEADLOCK FALSE
INVARIANTS SessionsWellFormed  MapMatchesTasks
 
