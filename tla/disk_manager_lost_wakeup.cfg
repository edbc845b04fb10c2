\* Two clones of the sink, tasks that succeed: a wake-up can be lost.
SPECIFICATION Spec
CONSTANTS
    Sinks = {s1, s2}
    Requests = {r1, r2, r3}
    Workers = {w1}
    MaxCapacity = 1
    ChannelCap = 1
    MaxFound = 0
    Outcomes = {"ok"}
    NoReq = NoReq
INVARIANT WakeupPending
CHECK_DEADLOCK FALSE
