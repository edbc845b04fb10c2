----------------------------- MODULE UberModule -----------------------------
(***************************************************************************)
(* bip_select: the uber module (uber.rs) hands each message to the         *)
(* extended module (extended/mod.rs) and then to the discovery modules,    *)
(* here UtMetadata, and polls them in the same order; it remembers where   *)
(* it was when one of them makes it return.  A client has split it: one    *)
(* task sends messages, another takes what the stream gives and hands it   *)
(* on before it polls again.                                               *)
(*                                                                         *)
(* A module is 0 (the extended one) or the index of a discovery module;    *)
(* None is no module.                                                      *)
(***************************************************************************)
EXTENDS UtMetadata

CONSTANTS
    HasExtended,        \* whether the builder was given an extended message
    Modules,            \* number of discovery modules
    Messages,           \* what the client sends
    Careless,           \* whether it sends on after an error without a flush
    MaxQueue            \* bound: extended messages waiting to be sent

VARIABLES
    extended,           \* ExtendedModule: peers, out_queue, opt_task
    discovery,          \* sequence of the discovery modules
    last_sink_state,
    last_stream_state,
    retry,              \* the message start_send was NotReady for, at most one
    sender,             \* the sending task: awake or parked
    receiver,           \* the receiving task: awake, busy with a message, parked
    connected,          \* the peers the client has said are connected
    given,              \* the download that the last poll returned, if it did
    outcome             \* of the last call: Ready, NotReady, Err, or a panic

vars == <<extended, discovery, last_sink_state, last_stream_state,
          retry, sender, receiver, connected, given, outcome>>

None == -1

next_state(state) ==
    CASE state = None /\ HasExtended -> 0
      [] OTHER -> LET next == Max({state, 0}) + 1 IN IF next <= Modules THEN next ELSE None

-----------------------------------------------------------------------------
(* ExtendedModule.  x is the uber module's state: extended and discovery.  *)

OnUpdate(x, info, ours, theirs) ==
    [x EXCEPT !.discovery = [i \in DOMAIN @ |-> on_update(@[i], info, ours, theirs)]]

\* ours is what the discovery modules made of the builder; theirs is replaced by
\* each message before it is read.
process_message(x, item) ==
    LET ours == {[extend EXCEPT !.ut_metadata = Modules > 0]}
        info == item.peer
        done == CASE item.type = "PeerConnected" ->
                       [OnUpdate(x, info, ours, {}) EXCEPT
                            !.extended.peers = @ \cup {info},
                            !.extended.out_queue = Append(@, info)]
                  [] item.type = "PeerDisconnected" ->
                       [x EXCEPT !.extended.peers = @ \ {info}]
                  [] item.type = "ReceivedExtended" -> OnUpdate(x, info, ours, {item.message})
                  [] OTHER -> x
    IN [done EXCEPT !.extended.opt_task = @ /\ done.extended.out_queue = <<>>]

\* peers.get_mut(&info).unwrap()
Panics(x, item) == item.type = "ReceivedExtended" /\ item.peer \notin x.extended.peers

-----------------------------------------------------------------------------
(* UberModule.  acc is the state, the result of the last module, and the    *)
(* module that was last done.                                               *)

\* The module a message goes to next; control messages go to all.
SinkLogic(x, state, item) ==
    IF state = 0
    THEN IF item.type \in {"DownloadMetainfo", "Request", "Data", "Reject"} THEN Ready(x)
         ELSE IF Panics(x, item) THEN [u |-> x, result |-> "Panic"]
              ELSE Ready(process_message(x, item))
    ELSE IF item.type = "ReceivedExtended" THEN Ready(x)
         ELSE LET sent == start_send(x.discovery[state], item)
              IN [u |-> [x EXCEPT !.discovery[state] = sent.u], result |-> sent.result]

\* The sink goes on while the modules are ready, and starts over after the last.
RECURSIVE start_sink_state(_, _, _)
start_sink_state(x, last, item) ==
    LET state == next_state(last)
    IN IF state = None THEN [x |-> x, last |-> None, result |-> "Ready"]
       ELSE LET sent == SinkLogic(x, state, item)
            IN IF sent.result = "Ready" THEN start_sink_state(sent.u, state, item)
               ELSE [x |-> sent.u, last |-> last, result |-> sent.result]

\* ExtendedModule::poll, in the form of UtMetadata's.
PollExtended(x) ==
    IF x.extended.out_queue = <<>> THEN {[x |-> [x EXCEPT !.extended.opt_task = TRUE], out |-> {}]}
    ELSE {[x   |-> [x EXCEPT !.extended.out_queue = Tail(@)],
           out |-> {[type |-> "SendExtended", peer |-> Head(x.extended.out_queue)]}]}

StreamLogic(x, state) ==
    IF state = 0 THEN PollExtended(x)
    ELSE {[x |-> [x EXCEPT !.discovery[state] = o.u], out |-> o.out] : o \in poll(x.discovery[state])}

\* The stream goes on while the modules have nothing; the set of the outcomes.
RECURSIVE poll_stream_state(_, _)
poll_stream_state(x, last) ==
    LET state == next_state(last)
    IN IF state = None THEN {[x |-> x, last |-> None, out |-> {}]}
       ELSE UNION {IF o.out = {} THEN poll_stream_state(o.x, state)
                   ELSE {[x |-> o.x, last |-> last, out |-> o.out]} : o \in StreamLogic(x, state)}

-----------------------------------------------------------------------------
State == [extended |-> extended, discovery |-> discovery]

Init ==
    /\ extended = [peers |-> {}, out_queue |-> <<>>, opt_task |-> FALSE]
    /\ discovery = [i \in 1 .. Modules |-> New]
    /\ last_sink_state = None
    /\ last_stream_state = None
    /\ retry = {}
    /\ sender = "awake"
    /\ receiver = "awake"
    /\ connected = {}
    /\ given = {}
    /\ outcome = "Ready"

\* A task that was registered and no longer is has been notified.
SinkNotified(x) ==
    \E i \in 1 .. Modules : discovery[i].opt_sink /\ ~x.discovery[i].opt_sink

StreamNotified(x) ==
    \/ extended.opt_task /\ ~x.extended.opt_task
    \/ \E i \in 1 .. Modules : discovery[i].opt_stream /\ ~x.discovery[i].opt_stream

\* The receiver is woken by a notification only when it waits for the stream;
\* while it waits to hand a message on, the notification makes it try that.
Send(item) ==
    LET sent == start_sink_state(State, last_sink_state, item)
    IN /\ outcome # "Panic"
       /\ extended' = sent.x.extended
       /\ discovery' = sent.x.discovery
       /\ last_sink_state' = sent.last
       /\ retry' = IF sent.result = "NotReady" THEN {item} ELSE {}
       /\ sender' = IF sent.result = "NotReady" THEN "parked" ELSE "awake"
       /\ receiver' = IF receiver = "parked" /\ StreamNotified(sent.x) THEN "awake" ELSE receiver
       /\ connected' = CASE item.type = "PeerConnected" -> connected \cup {item.peer}
                         [] item.type = "PeerDisconnected" -> connected \ {item.peer}
                         [] OTHER -> connected
       /\ outcome' = sent.result
       /\ UNCHANGED <<last_stream_state, given>>

\* The client talks of peers it is connected to, and passes on what they say.
Sendable(item) ==
    /\ retry = {}
    /\ outcome = "Err" => Careless
    /\ item.type \in {"PeerDisconnected", "ReceivedExtended", "Request"} => item.peer \in connected
    /\ item.type = "PeerConnected" => Len(extended.out_queue) < MaxQueue

StartSend == \E item \in Messages : item.type # "Tick" /\ Sendable(item) /\ Send(item)

Tick == \E item \in Messages : item.type = "Tick" /\ Sendable(item) /\ Send(item)

\* The sending task was woken and sends the message it kept.
Retry == sender = "awake" /\ \E item \in retry : Send(item)

\* poll_complete goes on from last_sink_state too; every module is ready.
PollComplete ==
    /\ retry = {} /\ outcome # "Panic"
    /\ last_sink_state' = None
    /\ outcome' = "Ready"
    /\ UNCHANGED <<extended, discovery, last_stream_state, retry, sender, receiver, connected, given>>

Poll ==
    /\ receiver = "awake" /\ outcome # "Panic"
    /\ \E o \in poll_stream_state(State, last_stream_state) :
          /\ extended' = o.x.extended
          /\ discovery' = o.x.discovery
          /\ last_stream_state' = o.last
          /\ given' = {m \in o.out : m.type = "Downloaded"}
          /\ receiver' = IF o.out = {} THEN "parked" ELSE "busy"
          /\ sender' = IF SinkNotified(o.x) THEN "awake" ELSE sender
    /\ UNCHANGED <<last_sink_state, retry, connected, outcome>>

\* The receiving task has handed its message on.
HandedOn ==
    /\ receiver = "busy"
    /\ receiver' = "awake"
    /\ given' = {}
    /\ UNCHANGED <<extended, discovery, last_sink_state, last_stream_state, retry, sender, connected, outcome>>

Next == StartSend \/ Tick \/ Retry \/ PollComplete \/ Poll \/ HandedOn

Spec == Init /\ [][Next]_vars

\* Both tasks run when they can, and the client keeps telling the time while
\* requests are out (a tick is "vital", lib.rs:48).  Fairness is written out, a
\* weak one as "not possible or done, again and again", the strong one of Tick
\* as "no longer possible or done, again and again".
TickDue == retry = {} /\ outcome # "Err" /\ \E i \in 1 .. Modules : discovery[i].active_requests # <<>>

Fairness ==
    /\ []<>(retry = {} \/ sender # "awake") \/ []<><<Retry>>_vars
    /\ []<>(outcome # "Err")                \/ []<><<PollComplete>>_vars
    /\ []<>(receiver # "awake")             \/ []<><<Poll>>_vars
    /\ []<>(receiver # "busy")              \/ []<><<HandedOn>>_vars
    /\ <>[]~TickDue                         \/ []<><<Tick>>_vars

FairSpec == Spec /\ Fairness

-----------------------------------------------------------------------------
(* Properties. *)

AskedOf(u, h) == {i \in DOMAIN u.active_requests : HashOf[u.active_requests[i].sent_to] = h}

\* A download's pieces are each to be asked for, asked for (of one peer), or
\* here, and left counts the first two: no expiry, late answer, disconnection
\* or restart loses or doubles one (ut_metadata.rs:254 would underflow, :255
\* write out of range).
PiecesAccounted ==
    \A i \in 1 .. Modules :
        LET u == discovery[i]
        IN \A h \in Hashes :
            LET asked == {u.active_requests[k].piece : k \in AskedOf(u, h)}
            IN \A p \in IF h \in DOMAIN u.pending_map THEN u.pending_map[h] ELSE {} :
                  /\ p.left = Len(p.messages) + Cardinality(AskedOf(u, h))
                  /\ Cardinality(ToSet(p.messages) \cup asked) = p.left
                  /\ ToSet(p.messages) \cup asked \subseteq DOMAIN p.bytes

\* The receiver sleeps only when the discovery modules have nothing for it;
\* MAX_ACTIVE_REQUESTS outstanding requests are the one reason to let it sleep
\* on a request it could make (check_stream_unblock).
NothingWaits ==
    receiver = "parked" =>
        \A i \in 1 .. Modules :
            LET u == discovery[i]
            IN /\ u.peer_requests = <<>>
               /\ ~DownloadsAvailable(u) \/ \E h \in DOMAIN u.pending_map : \E p \in u.pending_map[h] : p.size = 0
               /\ Askable(u) = {} \/ Len(u.active_requests) = MAX_ACTIVE_REQUESTS

\* Every request made of a peer is answered or expires, whatever the peer does
\* and however often the sink was full.
RequestsSettle ==
    \A peer \in Peers, piece \in 0 .. Max({NumPieces(InfoSize[h]) : h \in Hashes}) - 1 :
        []<>(outcome = "Panic" \/ \A i \in 1 .. Modules : Positions(discovery[i], peer, piece) = {})

\* A message that start_send was NotReady for is taken in the end.
RetryEnds == retry # {} ~> retry = {}
=============================================================================
