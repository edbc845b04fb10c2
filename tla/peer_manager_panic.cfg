\* A message for a peer whose shutdown the client has not seen yet.
SPECIFICATION Spec
CONSTANTS
    Infos = {p1}
    PeerCapacity = 1
    SinkCap = 0
    StreamCap = 0
    MaxSessions = 1
    MaxSends = 1
    MaxIncoming = 0
INVARIANT NeverPanics
CHECK_DEADLOCK FALSE
