\* Two sinks race for one slot, and tasks may fail; blocks on the usual grid,
\* resent at will, with I/O errors; torrents of a few bytes, built by one or two
\* threads.
SPECIFICATION MCSpec
CONSTANTS
    Sinks = {s1, s2}
    Requests = {r1, r2, r3}
    Workers = {w1}
    MaxCapacity = 1
    ChannelCap = 0
    MaxFound = 1
    Outcomes = {"ok", "err"}
    NoReq = NoReq
    MaxProcessed = 4
    Accessors <- MCAccessors
    Calls <- MCCalls
    MaxCalls = 2
    Threads = {1, 2}
    Foreign <- MCForeign
    CanFail = TRUE
    Parts = {"disk", "download", "build"}
CHECK_DEADLOCK FALSE
INVARIANTS SlotInvariant TorrentDescribes TorrentSurvives
PROPERTIES ReportsAreRight TurnedAwayIsAccepted  BuildEnds
