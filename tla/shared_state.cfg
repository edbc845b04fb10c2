\* Disk tasks: one torrent, two threads, every kind of request, I/O errors and
\* panics.  Peers: two sinks and the stream, one place in the map.
SPECIFICATION MCSpec
CONSTANTS
    PieceLength = 2
    FileLengths <- TwoFiles
    Hashes = {h1}
    Workers = {w1, w2}
    Nobody = Nobody
    Free = Free
    Inputs <- AllInputs
    ChannelCap = 0
    IoErrors = TRUE
    ShortIo = TRUE
    InitialSizes <- AnySizes
    InitialData = {"good", "bad"}
    MaxRequests = 3
    Sinks = {s1, s2}
    Stream = Stream
    PeerCapacity = 1
    MaxQueue = 3
    Parts = {"tasks", "peers"}
SYMMETRY Symmetry
INVARIANTS RequestsAreIsolated GoodWhenReported WaiterIsQueued
 
