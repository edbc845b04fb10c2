----------------------------- MODULE Handshaker -----------------------------
(***************************************************************************)
(* bip_handshake: handshakers that connect to each other.  A handshaker    *)
(* (handshake/handshaker.rs) is three loops joined by channels: one makes  *)
(* connections for the client (handler/initiator.rs), one accepts them     *)
(* (handler/listener.rs), and one executes handshakes, one at a time       *)
(* (handler/handshaker.rs), over sockets whose bytes it reads and writes   *)
(* in pieces (bittorrent/framed.rs).  What succeeds goes to the client.    *)
(*                                                                         *)
(* A connection is named by the initiation that makes it; its ends are     *)
(* "from" and "to".                                                        *)
(***************************************************************************)
EXTENDS HandshakeFilter, FiniteSets, FiniteSetsExt, Functions, TLC

CONSTANTS
    Nodes,              \* handshakers; a node is also its address and peer id
    Inits,              \* initiations
    InitOf,             \* InitiateMessage: who makes it, to whom, prot and hash
    ProtLen,            \* bytes of a protocol's name
    ExtOf,              \* the extensions of each node
    FirstFilters,       \* the filters each handshaker starts with
    FilterChoices,      \* the filters clients add and remove
    SinkCapacity,       \* messages the channels hold: their buffer size and
    WaitCapacity,       \* one for each sender
    DoneCapacity,
    AcceptMayFail,      \* the nodes where accepting a connection may be an error
    MayDrop,            \* the nodes whose client may drop the stream
    Changers,           \* the nodes whose client changes the filters
    MaxChanges          \* bound: changes of the filters

VARIABLES
    node,               \* the loops and channels of each handshaker
    conns,              \* connections: bytes on the way to each end, closed ends,
                        \* and the ends whose client wrote
    filters,            \* of each node
    changes,            \* times filters changed
    completed           \* history: the CompleteMessages made

vars == <<node, conns, filters, changes, completed>>

Ends == {"from", "to"}
Other(end) == IF end = "from" THEN "to" ELSE "from"
Owner(i, end) == InitOf[i][end]

-----------------------------------------------------------------------------
(* HandshakeMessage: its length byte counts the name of the protocol; the  *)
(* extensions, hash and peer id that follow are one unit.                  *)

write_len_with_protocol_len(len) == 1 + len + 1

Bytes(prot, ext, hash, pid) ==
    <<ProtLen[prot]>> \o [k \in 1 .. ProtLen[prot] |-> prot] \o <<[ext |-> ext, hash |-> hash, pid |-> pid]>>

from_bytes(bytes) == [prot |-> bytes[2]] @@ bytes[write_len_with_protocol_len(bytes[1])]

\* The data that filters see of the other side's message.
FilterData(addr, msg) ==
    [addr |-> {addr}, prot |-> {msg.prot}, ext |-> {msg.ext}, hash |-> {msg.hash}, pid |-> {msg.pid}]

-----------------------------------------------------------------------------
Idle == [pc |-> "idle"]
Dead == [pc |-> "dead"]

Init ==
    /\ node = [n \in Nodes |->
                [requests   |-> {i \in Inits : InitOf[i].from = n},  \* the client will send
                 addr_queue |-> <<>>, initiator |-> Idle,
                 backlog    |-> <<>>, listener  |-> Idle,
                 hand_queue |-> <<>>, executor  |-> Idle,
                 sock_queue |-> <<>>, dropped   |-> FALSE]]
    /\ conns = [i \in Inits |-> [in |-> [e \in Ends |-> <<>>], closed |-> {}, wrote |-> {}]]
    /\ filters = FirstFilters
    /\ changes = 0
    /\ completed = {}

\* Dropping sockets closes their ends.
Close(ends) == conns' = [i \in Inits |-> [conns[i] EXCEPT !.closed = @ \cup {e \in Ends : <<i, e>> \in ends}]]

EndsIn(queue) == {<<queue[k].conn, queue[k].end>> : k \in DOMAIN queue}

Same == UNCHANGED <<filters, changes, completed>>

\* HandshakerSink: the client sends an InitiateMessage; it is lost when the
\* loop has ended.
StartSend(n) ==
    /\ \E i \in node[n].requests :
          \/ /\ node[n].initiator.pc = "dead"
             /\ node' = [node EXCEPT ![n].requests = @ \ {i}]
          \/ /\ node[n].initiator.pc # "dead"
             /\ Len(node[n].addr_queue) < SinkCapacity
             /\ node' = [node EXCEPT ![n].requests = @ \ {i}, ![n].addr_queue = Append(@, i)]
    /\ Same /\ UNCHANGED conns

-----------------------------------------------------------------------------
(* initiator_handler, and the loop_handler around it. *)

InitiatorTake(n) ==
    LET i       == Head(node[n].addr_queue)
        data    == [addr |-> {InitOf[i].to}, prot |-> {InitOf[i].prot}, ext |-> {},
                    hash |-> {InitOf[i].hash}, pid |-> {}]
        blocked == should_filter(data, filters[n])
    IN /\ node[n].initiator.pc = "idle"
       /\ node[n].addr_queue # <<>>
       /\ node' = [node EXCEPT ![n].addr_queue = Tail(@),
                               ![n].initiator = IF blocked THEN Idle ELSE [pc |-> "connecting", conn |-> i]]
       /\ Same /\ UNCHANGED conns

\* The connection is made, or is refused or takes too long.
Connect(n) ==
    LET i  == node[n].initiator.conn
        to == InitOf[i].to
    IN /\ node[n].initiator.pc = "connecting"
       /\ \/ /\ node[to].listener.pc # "dead"
             /\ node' = [node EXCEPT ![n].initiator.pc = "sending", ![to].backlog = Append(@, i)]
          \/ node' = [node EXCEPT ![n].initiator = Idle]
       /\ Same /\ UNCHANGED conns

\* A loop that cannot send its result terminates, and drops what it holds.
InitiatorSend(n) ==
    LET i == node[n].initiator.conn
    IN /\ node[n].initiator.pc = "sending"
       /\ \/ /\ node[n].executor.pc = "dead"
             /\ node' = [node EXCEPT ![n].initiator = Dead, ![n].addr_queue = <<>>]
             /\ Close({<<i, "from">>})
          \/ /\ node[n].executor.pc # "dead"
             /\ Len(node[n].hand_queue) < WaitCapacity
             /\ node' = [node EXCEPT ![n].initiator = Idle,
                                     ![n].hand_queue = Append(@, [conn |-> i, end |-> "from"])]
             /\ UNCHANGED conns
       /\ Same

-----------------------------------------------------------------------------
(* ListenerHandler, and the loop_handler around it. *)

Accept(n) ==
    LET i       == Head(node[n].backlog)
        blocked == should_filter(Known([addr |-> {InitOf[i].from}], {"addr"}), filters[n])
    IN /\ node[n].listener.pc = "idle"
       /\ node[n].backlog # <<>>
       /\ node' = [node EXCEPT ![n].backlog = Tail(@),
                               ![n].listener = IF blocked THEN Idle ELSE [pc |-> "sending", conn |-> i]]
       /\ Close(IF blocked THEN {<<i, "to">>} ELSE {})
       /\ Same

\* An error of the stream of connections terminates the loop.
AcceptError(n) ==
    /\ n \in AcceptMayFail
    /\ node[n].listener.pc = "idle"
    /\ node' = [node EXCEPT ![n].listener = Dead, ![n].backlog = <<>>]
    /\ Close({<<i, "to">> : i \in ToSet(node[n].backlog)})
    /\ Same

ListenerSend(n) ==
    LET i == node[n].listener.conn
    IN /\ node[n].listener.pc = "sending"
       /\ \/ /\ node[n].executor.pc = "dead"
             /\ node' = [node EXCEPT ![n].listener = Dead, ![n].backlog = <<>>]
             /\ Close({<<i, "to">>} \cup {<<j, "to">> : j \in ToSet(node[n].backlog)})
          \/ /\ node[n].executor.pc # "dead"
             /\ Len(node[n].hand_queue) < WaitCapacity
             /\ node' = [node EXCEPT ![n].listener = Idle,
                                     ![n].hand_queue = Append(@, [conn |-> i, end |-> "to"])]
             /\ UNCHANGED conns
       /\ Same

-----------------------------------------------------------------------------
(* execute_handshake, and the loop_handler around it: a handshake is over   *)
(* before the next begins.  buffer_unordered gives them in any order.       *)

\* An initiator sends its message first, the other end reads first.
Execute(n) ==
    /\ node[n].executor.pc = "idle"
    /\ \E k \in DOMAIN node[n].hand_queue :
          LET item == node[n].hand_queue[k]
              init == InitOf[item.conn]
              work == [conn |-> item.conn, end |-> item.end, read |-> <<>>]
          IN node' = [node EXCEPT
                ![n].hand_queue = RemoveAt(@, k),
                ![n].executor =
                    IF item.end = "from"
                    THEN work @@ [pc |-> "i_send", write |-> Bytes(init.prot, ExtOf[n], init.hash, n)]
                    ELSE work @@ [pc |-> "c_recv", write |-> <<>>]]
    /\ Same /\ UNCHANGED conns

\* The handshake fails: Ok(None).
Fail(n) ==
    LET e == node[n].executor
    IN /\ node' = [node EXCEPT ![n].executor = Idle]
       /\ Close({<<e.conn, e.end>>})
       /\ Same

\* timer.timeout around each send and each receive.
Timeout_Slip(n) == node[n].executor.pc \in {"i_send", "c_recv", "c_send"} /\ Fail(n)

Timeout(n) == node[n].executor.pc \in {"i_send", "i_recv", "c_recv", "c_send"} /\ Fail(n)

CompleteMessage(n, msg) ==
    LET e == node[n].executor
    IN [conn |-> e.conn, end |-> e.end, prot |-> msg.prot, ext |-> ExtOf[n] \cap msg.ext,
        hash |-> msg.hash, pid |-> msg.pid, addr |-> Owner(e.conn, Other(e.end))]

\* FramedHandshake::poll_complete writes what the socket takes; the last bytes
\* of the answer complete the handshake.  The other end may be gone.
Write(n) ==
    LET e == node[n].executor
    IN /\ e.pc \in {"i_send", "c_send"}
       /\ \/ Other(e.end) \in conns[e.conn].closed /\ Fail(n)
          \/ \E k \in 1 .. Len(e.write) :
                LET last == k = Len(e.write)
                IN /\ conns' = [conns EXCEPT ![e.conn].in[Other(e.end)] = @ \o SubSeq(e.write, 1, k)]
                   /\ node' = [node EXCEPT
                        ![n].executor.write = SubSeq(@, k + 1, Len(@)),
                        ![n].executor.pc = IF ~last THEN @ ELSE IF @ = "i_send" THEN "i_recv" ELSE "deliver"]
                   /\ completed' = IF last /\ e.pc = "c_send"
                                   THEN completed \cup {CompleteMessage(n, from_bytes(e.read))} ELSE completed
                   /\ UNCHANGED <<filters, changes>>

\* What is missing: the length byte first, then the rest of the message.
Wanted(read) ==
    IF read = <<>> THEN 1 ELSE write_len_with_protocol_len(read[1]) - Len(read)

\* After the length byte, the buffer has room for anything.
Room_Slip(read, in) == IF read = <<>> THEN Min({Len(in), 1}) ELSE Len(in)

\* How many bytes a read may take: the buffer has room for the message only.
Room(read, in) == Min({Len(in), Wanted(read)})

\* What initiate_handshake does with the other end's message.
Initiated(n, msg, rest) ==
    LET e    == node[n].executor
        init == InitOf[e.conn]
    IN IF \/ msg.hash # init.hash
          \/ msg.prot # init.prot
          \/ should_filter(FilterData(init.to, msg), filters[n])
       THEN Fail(n)
       ELSE /\ node' = [node EXCEPT ![n].executor.pc = "deliver"]
            /\ conns' = rest
            /\ completed' = completed \cup {CompleteMessage(n, msg)}
            /\ UNCHANGED <<filters, changes>>

\* What complete_handshake does: filter, then answer with the same hash.
Answered_Slip(n, read, rest) ==
    LET msg == from_bytes(read)
    IN /\ node' = [node EXCEPT ![n].executor.read = read,
                               ![n].executor.pc = "c_send",
                               ![n].executor.write = Bytes(msg.prot, ExtOf[n] \cap msg.ext, msg.hash, msg.pid)]
       /\ conns' = rest
       /\ Same

Answered(n, read, rest) ==
    LET e   == node[n].executor
        msg == from_bytes(read)
    IN IF should_filter(FilterData(InitOf[e.conn].from, msg), filters[n])
       THEN Fail(n)
       ELSE /\ node' = [node EXCEPT ![n].executor.read = read,
                                    ![n].executor.pc = "c_send",
                                    ![n].executor.write = Bytes(msg.prot, ExtOf[n], msg.hash, n)]
            /\ conns' = rest
            /\ Same

\* FramedHandshake::poll reads what is there, but nothing past the handshake;
\* the end of the stream is a failure.
Read(n) ==
    LET e  == node[n].executor
        in == conns[e.conn].in[e.end]
    IN /\ e.pc \in {"i_recv", "c_recv"}
       /\ \/ in = <<>> /\ Other(e.end) \in conns[e.conn].closed /\ Fail(n)
          \/ \E k \in 1 .. Room(e.read, in) :
                LET read == e.read \o SubSeq(in, 1, k)
                    rest == [conns EXCEPT ![e.conn].in[e.end] = SubSeq(@, k + 1, Len(@))]
                IN \/ /\ Wanted(read) > 0
                      /\ node' = [node EXCEPT ![n].executor.read = read]
                      /\ conns' = rest
                      /\ Same
                   \/ /\ Wanted(read) <= 0
                      /\ \/ e.pc = "i_recv" /\ Initiated(n, from_bytes(read), rest)
                         \/ e.pc = "c_recv" /\ Answered(n, read, rest)

\* The CompleteMessage goes to the client; without one the loop terminates,
\* and drops the handshakes that wait.
Deliver(n) ==
    LET e    == node[n].executor
        item == [conn |-> e.conn, end |-> e.end]
    IN /\ e.pc = "deliver"
       /\ \/ /\ node[n].dropped
             /\ node' = [node EXCEPT ![n].executor = Dead, ![n].hand_queue = <<>>]
             /\ Close({<<e.conn, e.end>>} \cup EndsIn(node[n].hand_queue))
          \/ /\ ~node[n].dropped
             /\ Len(node[n].sock_queue) < DoneCapacity
             /\ node' = [node EXCEPT ![n].executor = Idle, ![n].sock_queue = Append(@, item)]
             /\ UNCHANGED conns
       /\ Same

-----------------------------------------------------------------------------
(* The client: it takes sockets, and writes to them at once.                *)

Take(n) ==
    LET item == Head(node[n].sock_queue)
    IN /\ node[n].sock_queue # <<>>
       /\ node' = [node EXCEPT ![n].sock_queue = Tail(@)]
       /\ conns' = [conns EXCEPT ![item.conn].in[Other(item.end)] = Append(@, "payload"),
                                 ![item.conn].wrote = @ \cup {item.end}]
       /\ Same

Drop(n) ==
    /\ n \in MayDrop /\ ~node[n].dropped
    /\ node' = [node EXCEPT ![n].dropped = TRUE, ![n].sock_queue = <<>>]
    /\ Close(EndsIn(node[n].sock_queue))
    /\ Same

ChangeFilters(n) ==
    /\ n \in Changers /\ changes < MaxChanges
    /\ changes' = changes + 1
    /\ \/ \E f \in FilterChoices :
             filters' = [filters EXCEPT ![n] = add_filter(@, f)] \/ filters' = [filters EXCEPT ![n] = remove_filter(@, f)]
       \/ filters' = [filters EXCEPT ![n] = clear_filters(@)]
    /\ UNCHANGED <<node, conns, completed>>

Step(n) ==
    \/ StartSend(n) \/ InitiatorTake(n) \/ Connect(n) \/ InitiatorSend(n)
    \/ Accept(n) \/ ListenerSend(n)
    \/ Execute(n) \/ Timeout(n) \/ Write(n) \/ Read(n) \/ Deliver(n)
    \/ Take(n)

Next == \E n \in Nodes : Step(n) \/ AcceptError(n) \/ Drop(n) \/ ChangeFilters(n)

Spec == Init /\ [][Next]_vars

\* The event loop runs every task that can go on, timers fire, and the client
\* takes what it is given.  There is only so much to do, so it is enough that
\* something is done as long as anything can be.
Fairness == WF_vars(\E n \in Nodes : Step(n))
FairSpec == Spec /\ Fairness

-----------------------------------------------------------------------------
(* Properties. *)

\* A socket that was handed on, or is about to be, holds exactly what the other
\* client has written: the handshake read to its last byte and not past it,
\* however the bytes were cut (framed.rs:22, "We don't want to steal any of
\* their bytes").
BytesLeftAlone ==
    \A m \in completed :
        LET c == conns[m.conn]
        IN m.end \notin c.closed =>
              c.in[m.end] = IF Other(m.end) \in c.wrote THEN <<"payload">> ELSE <<>>

\* When the handshake of an initiator succeeds so has that of the other end, and
\* they agree on protocol, hash and extensions and know each other: no filter,
\* timeout or change of the filters comes between.
Agreement ==
    \A m \in completed : m.end = "from" =>
        \E r \in completed :
            /\ r.conn = m.conn /\ r.end = "to"
            /\ <<r.prot, r.hash, r.ext>> = <<m.prot, m.hash, m.ext>>
            /\ m.pid = InitOf[m.conn].to /\ r.pid = InitOf[m.conn].from

\* The message that n sends on the connection of an initiation.
MessageOf(n, init) == [prot |-> init.prot, ext |-> ExtOf[n], hash |-> init.hash, pid |-> n]

\* A handshake that the initiator refuses before it knows extensions and peer id,
\* or the listener before it knows more than the address, would be refused if
\* all were known: NeedData stands above Block, so a filter that may still allow
\* a handshake keeps it alive (filter/mod.rs:98).
EarlyBlockIsFinal ==
    [][\A n \in Nodes :
        /\ (/\ Len(node'[n].addr_queue) < Len(node[n].addr_queue)
            /\ node'[n].initiator = Idle) =>
                LET init == InitOf[Head(node[n].addr_queue)]
                IN should_filter(FilterData(init.to, MessageOf(init.to, init)), filters[n])
        /\ (/\ Len(node'[n].backlog) < Len(node[n].backlog)
            /\ node'[n].listener = Idle) =>
                LET init == InitOf[Head(node[n].backlog)]
                IN should_filter(FilterData(init.from, MessageOf(init.from, init)), filters[n])]_vars

\* Nothing is left to do in a handshaker.
Quiet(n) ==
    /\ node[n].requests = {}
    /\ {node[n].initiator.pc, node[n].listener.pc, node[n].executor.pc} \subseteq {"idle", "dead"}
    /\ \A q \in {node[n].addr_queue, node[n].backlog, node[n].hand_queue, node[n].sock_queue} : q = <<>>

\* Every initiation and every accepted connection comes to an end, also when
\* handshakers that execute one handshake at a time wait for each other, or a
\* client has gone.
HandshakesEnd == <>[]\A n \in Nodes : Quiet(n)
=============================================================================
