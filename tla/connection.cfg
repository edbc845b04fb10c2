\* Two handshakers that connect to each other at the same time; two messages one
\* way and one the other, whose bytes arrive three at a time or all at once.
SPECIFICATION MCSpec
CONSTANTS
    a = a
    b = b
    i1 = i1
    i2 = i2
    h1 = h1
    h2 = h2
    Peers = {a, b}
    Inits = {i1, i2}
    InitOf <- MCInitOf
    ProtLen <- MCProtLen
    ExtOf <- MCExtOf
    FirstFilters <- MCFirstFilters
    FilterChoices <- MCFilterChoices
    SinkCapacity = 1
    WaitCapacity = 2
    DoneCapacity = 1
    AcceptMayFail = {a}
    MayDrop = {b}
    Changers = {b}
    MaxChanges = 1
    Outgoing <- MCOutgoing
    MaxSends <- MCMaxSends
    Cuts = {3}
    max_payload <- MCMaxPayload
    Parts = {"handshake", "wire"}
INVARIANTS BytesLeftAlone Agreement
CHECK_DEADLOCK FALSE
PROPERTIES EarlyBlockIsFinal HandshakesEnd 
