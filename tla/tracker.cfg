\* The client: two requests at a time, three in all, to a tracker and one that
\* cannot be reached.  The server: two clients, two requests and two calls.
SPECIFICATION MCSpec
CONSTANTS
    Addrs = {a, v6}
    Mismatched = {v6}
    Elsewhere = {e}
    capacity = 2
    ChannelCapacity = 4
    MAXIMUM_REQUEST_RETRANSMIT_ATTEMPTS = 1
    ValidDuration = 1
    WriteMayFail = TRUE
    MaxRequests = 3
    MaxTime = 1
    MaxMoves = 1
    Clients = {c1, c2}
    ServerRequests <- MCServerRequests
    Results <- MCResults
    ClientBuffer = 370
    ServerBuffer = 358
    MaxSends = 2
    MaxCalls = 2
    Parts = {"client", "server"}
INVARIANTS LimiterIsExact RequestsAccounted RequestsUnderstood RepliesAreAnswers
PROPERTY RequestsEnd
