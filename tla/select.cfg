\* Two peers of one torrent, whose metadata has two pieces.
SPECIFICATION MCSpec
CONSTANTS
    Peers = {p1, p2}
    p1 = p1
    p2 = p2
    Hash = h
    Hashes = {h}
    HashOf <- MCHashOf
    InfoSize <- MCInfoSize
    MAX_REQUEST_SIZE = 2
    REQUEST_TIMEOUT = 1
    MAX_ACTIVE_REQUESTS = 1
    MAX_PEER_REQUESTS = 1
    HasExtended = TRUE
    Modules = 1
    Careless = FALSE
    Messages <- MCMessages
    MaxQueue = 1
    num_pieces = 9
    Indices = {7, 8, 9}
    Parts = {"uber", "reveal"}
INVARIANTS PiecesAccounted  
  
