---------------------------- MODULE PeerManager ----------------------------
(***************************************************************************)
(* bip_peer: the PeerManager (manager/mod.rs) and the task it spawns for   *)
(* every peer (manager/task.rs).  The sink half hands messages to the      *)
(* peer's task through a bounded channel kept in a shared map, the task    *)
(* talks to the remote peer and reports to the client through one channel  *)
(* for all peers, and the stream half takes a peer out of the map when it  *)
(* sees that the peer has shut down.                                       *)
(*                                                                         *)
(* The operations under the map's lock are atomic; the stream may fail to  *)
(* get the lock and stash its message (PeerManagerLock has the protocol    *)
(* for those who fail).  Definitions named X_Slip are X with a plausible   *)
(* mistake, to show that the properties notice it.                         *)
(***************************************************************************)
EXTENDS Integers, Sequences, FiniteSets, Functions, Mpsc

CONSTANTS
    Infos,          \* PeerInfos
    PeerCapacity,   \* peer_capacity of the builder
    SinkCap,        \* sink_buffer_capacity: of the channel to each task
    StreamCap,      \* stream_buffer_capacity: of the channel to the client
    MaxSessions,    \* bound: number of AddPeers accepted
    MaxSends,       \* bound: SendMessages accepted in the peers' last sessions
    MaxIncoming     \* bound: messages of the remote peers in those sessions

ASSUME InfosFinite == IsFiniteSet(Infos)
ASSUME PeerCapacityNat == PeerCapacity \in Nat
ASSUME PeerChannelCaps == SinkCap \in Nat /\ StreamCap \in Nat

VARIABLES
    peers,          \* the PeerInfos in the shared map
    poisoned,       \* whether a panic poisoned the map's mutex
    task,           \* the state of each peer's task
    toTask,         \* the channel from the map's sender to the task
    toTaskParked,   \* whether that sender is parked
    out,            \* the channel from the tasks to the client
    outParked,      \* the senders parked on it
    opt_pending,    \* the message the stream stashed, as a sequence of at most one
    log,            \* history: messages handed to the client
    session,        \* history: number of times each peer was added
    accepted,       \* history: message ids accepted for the peer's session
    written,        \* history: message ids written to the remote peer in its session
    incoming        \* history: messages the remote peer sent in its session

sinkVars   == <<peers, poisoned, session, accepted>>
streamVars == <<opt_pending, log>>
vars == <<peers, poisoned, task, toTask, toTaskParked, out, outParked, opt_pending,
          log, session, accepted, written, incoming>>

None      == "none"    \* no error
NoId      == 0         \* no message; ids start at 1
KeepAlive == -1        \* the id of a keep-alive message
NoAck     == [kind |-> "none", id |-> NoId]
\* One turn of the task's loop: what is left to write, to forward and to
\* acknowledge, and whether the connection goes on after that.
Turn(send, recv, ack, good) == [send |-> send, recv |-> recv, ack |-> ack, good |-> good]
NoTurn == Turn(NoId, NoId, NoAck, TRUE)
Ended  == [pc |-> "ended", turn |-> NoTurn, queued |-> None]
\* The task has dropped its receiver: after a report, or after a failed write.
Gone(i) == task[i].pc \in {"ended", "failed"}
Failures == {"PeerDisconnect", "PeerError"}
Terminal == Failures \cup {"PeerRemoved"}

Out(i, kind, id) == [info |-> i, session |-> session[i], kind |-> kind, id |-> id]

TotalSessions == FoldFunction(+, 0, session)
TotalSends    == FoldFunction(LAMBDA s, n : Len(s) + n, 0, accepted)
TotalIncoming == FoldFunction(LAMBDA s, n : Len(s) + n, 0, incoming)

Init ==
    /\ peers = {} /\ poisoned = FALSE
    /\ task = [i \in Infos |-> Ended]
    /\ toTask = [i \in Infos |-> <<>>]
    /\ toTaskParked = [i \in Infos |-> FALSE]
    /\ out = <<>> /\ outParked = <<>>
    /\ opt_pending = <<>> /\ log = <<>>
    /\ session = [i \in Infos |-> 0]
    /\ accepted = [i \in Infos |-> <<>>]
    /\ written = [i \in Infos |-> <<>>]
    /\ incoming = [i \in Infos |-> <<>>]

(***************************************************************************)
(* The sink (start_send).  A message that is not accepted, because the     *)
(* peers are too many, the peer's channel is full or the mutex poisoned,   *)
(* and one answered with an error, change nothing.                         *)
(***************************************************************************)
CanAdd == Cardinality(peers) < PeerCapacity

AddPeer(i) ==
    /\ ~poisoned /\ CanAdd /\ i \notin peers
    /\ TotalSessions < MaxSessions
    /\ peers' = peers \cup {i}
    /\ task' = [task EXCEPT ![i] = [Ended EXCEPT !.pc = "adding"]]
    /\ session' = [session EXCEPT ![i] = @ + 1]
    /\ toTask' = [toTask EXCEPT ![i] = <<>>]
    /\ toTaskParked' = [toTaskParked EXCEPT ![i] = FALSE]
    /\ accepted' = [accepted EXCEPT ![i] = <<>>]
    /\ written' = [written EXCEPT ![i] = <<>>]
    /\ incoming' = [incoming EXCEPT ![i] = <<>>]
    /\ UNCHANGED <<poisoned, out, outParked, streamVars>>

\* start_send on the sender in the map: when the task has dropped the
\* receiver this is an error, on which the manager panics with the lock held.
SendToTask(i, m) ==
    /\ ~poisoned /\ i \in peers
    /\ \/ /\ Gone(i)
          /\ poisoned' = TRUE
          /\ UNCHANGED <<toTask, toTaskParked>>
       \/ /\ ~Gone(i) /\ ~toTaskParked[i]
          /\ toTask' = [toTask EXCEPT ![i] = Append(@, m)]
          /\ toTaskParked' = [toTaskParked EXCEPT ![i] = Len(toTask[i]) + 1 > SinkCap]
          /\ UNCHANGED poisoned

RemovePeer(i) ==
    /\ SendToTask(i, [kind |-> "RemovePeer", id |-> NoId])
    /\ UNCHANGED <<peers, task, out, outParked, streamVars, session, accepted, written, incoming>>

SendMessage(i) ==
    LET mid == Len(accepted[i]) + 1
    IN /\ TotalSends < MaxSends
       /\ SendToTask(i, [kind |-> "SendMessage", id |-> mid])
       /\ accepted' = [accepted EXCEPT ![i] = IF poisoned' THEN @ ELSE Append(@, mid)]
       /\ UNCHANGED <<peers, task, out, outParked, streamVars, session, written, incoming>>

(***************************************************************************)
(* The peer's task (run_peer).                                             *)
(***************************************************************************)
\* send on the task's clone of the channel to the client.
Report(i, kind, id) ==
    /\ ~IsParked(outParked, <<i, session[i]>>)
    /\ out' = Append(out, Out(i, kind, id))
    /\ outParked' = ParkedAfterSend(outParked, Len(out), StreamCap, <<i, session[i]>>)

TaskAdded(i) ==
    /\ task[i].pc = "adding"
    /\ Report(i, "PeerAdded", NoId)
    /\ task' = [task EXCEPT ![i].pc = "poll"]
    /\ UNCHANGED <<sinkVars, toTask, toTaskParked, streamVars, written, incoming>>

\* The task begins a turn; q is an error of the peer's stream for the next turn.
Begin(i, turn, q) == task' = [task EXCEPT ![i] = [pc |-> "turn", turn |-> turn, queued |-> q]]

\* The turn for a message from the manager.
ManagerTurn(m, recv) ==
    IF m.kind = "SendMessage" THEN Turn(m.id, recv, [kind |-> "SentMessage", id |-> m.id], TRUE)
                              ELSE Turn(NoId, recv, [kind |-> "PeerRemoved", id |-> NoId], FALSE)

\* What the peer's stream yields: a message that is not a keep-alive (a
\* keep-alive is dropped, so it counts as nothing).
FromPeer(i) ==
    /\ TotalIncoming < MaxIncoming
    /\ incoming' = [incoming EXCEPT ![i] = Append(@, Len(@) + 1)]

\* merged_stream yields First or Both.  An error of the peer's stream at the
\* same time is queued for the next turn.
TakeManagerMessage(i) ==
    LET m == Head(toTask[i])
    IN /\ task[i].pc = "poll" /\ task[i].queued = None /\ toTask[i] # <<>>
       /\ \/ Begin(i, ManagerTurn(m, NoId), None) /\ UNCHANGED incoming
          \/ \E e \in Failures : Begin(i, ManagerTurn(m, NoId), e) /\ UNCHANGED incoming
          \/ FromPeer(i) /\ Begin(i, ManagerTurn(m, Len(incoming[i]) + 1), None)
       /\ toTask' = [toTask EXCEPT ![i] = Tail(@)]
       /\ toTaskParked' = [toTaskParked EXCEPT ![i] = FALSE]
       /\ UNCHANGED <<sinkVars, out, outParked, streamVars, written>>

\* merged_stream yields Second.
TakePeerMessage(i) ==
    /\ task[i].pc = "poll" /\ task[i].queued = None /\ toTask[i] = <<>>
    /\ FromPeer(i)
    /\ Begin(i, Turn(NoId, Len(incoming[i]) + 1, NoAck, TRUE), None)
    /\ UNCHANGED <<sinkVars, toTask, toTaskParked, out, outParked, streamVars, written>>

\* heartbeat_interval passed without a message from the manager.
TakeHeartbeatInterval(i) ==
    /\ task[i].pc = "poll" /\ task[i].queued = None /\ toTask[i] = <<>>
    /\ Begin(i, Turn(KeepAlive, NoId, NoAck, TRUE), None)
    /\ UNCHANGED <<sinkVars, toTask, toTaskParked, out, outParked, streamVars, written, incoming>>

\* The task ends without a report.
TakePeerFailure_Slip(i) ==
    /\ task[i].pc = "poll"
    /\ task[i].queued # None \/ toTask[i] = <<>>
    /\ task' = [task EXCEPT ![i] = Ended]
    /\ UNCHANGED <<sinkVars, toTask, toTaskParked, out, outParked, streamVars, written, incoming>>

\* The peer's stream ends, fails or is silent for heartbeat_timeout.
TakePeerFailure(i) ==
    /\ task[i].pc = "poll"
    /\ \E e \in Failures :
         /\ task[i].queued = e \/ (task[i].queued = None /\ toTask[i] = <<>>)
         /\ Begin(i, Turn(NoId, NoId, [kind |-> e, id |-> NoId], FALSE), None)
    /\ UNCHANGED <<sinkVars, toTask, toTaskParked, out, outParked, streamVars, written, incoming>>

\* Stage one: the message or keep-alive is written.
WriteToPeer(i) ==
    LET send == task[i].turn.send
    IN /\ task[i].pc = "turn" /\ send # NoId
       /\ task' = [task EXCEPT ![i].turn.send = NoId]
       /\ written' = [written EXCEPT ![i] = IF send = KeepAlive THEN @ ELSE Append(@, send)]
       /\ UNCHANGED <<sinkVars, toTask, toTaskParked, out, outParked, streamVars, incoming>>

\* Stage one fails: the loop breaks, nothing is reported.
WriteFails(i) ==
    /\ task[i].pc = "turn" /\ task[i].turn.send # NoId
    /\ task' = [task EXCEPT ![i] = [Ended EXCEPT !.pc = "failed"]]
    /\ UNCHANGED <<sinkVars, toTask, toTaskParked, out, outParked, streamVars, written, incoming>>

\* Stage two: the message from the peer is forwarded.
ForwardMessage(i) ==
    LET turn == task[i].turn
    IN /\ task[i].pc = "turn" /\ turn.send = NoId /\ turn.recv # NoId
       /\ Report(i, "ReceivedMessage", turn.recv)
       /\ task' = [task EXCEPT ![i].turn.recv = NoId]
       /\ UNCHANGED <<sinkVars, toTask, toTaskParked, streamVars, written, incoming>>

\* The task goes on after it has reported the shutdown.
Acknowledge_Slip(i) ==
    LET turn == task[i].turn
    IN /\ task[i].pc = "turn" /\ turn.send = NoId /\ turn.recv = NoId /\ turn.ack # NoAck
       /\ Report(i, turn.ack.kind, turn.ack.id)
       /\ task' = [task EXCEPT ![i].turn.ack = NoAck, ![i].turn.good = TRUE]
       /\ UNCHANGED <<sinkVars, toTask, toTaskParked, streamVars, written, incoming>>

\* The acknowledgement does not wait for the write.
Acknowledge_Slip2(i) ==
    LET turn == task[i].turn
    IN /\ task[i].pc = "turn" /\ turn.ack # NoAck
       /\ Report(i, turn.ack.kind, turn.ack.id)
       /\ task' = IF turn.good THEN [task EXCEPT ![i].turn.ack = NoAck]
                               ELSE [task EXCEPT ![i] = Ended]
       /\ UNCHANGED <<sinkVars, toTask, toTaskParked, streamVars, written, incoming>>

\* Stage three: what the manager asked for is acknowledged, or the shutdown
\* of the peer reported, after which the task ends.
Acknowledge(i) ==
    LET turn == task[i].turn
    IN /\ task[i].pc = "turn" /\ turn.send = NoId /\ turn.recv = NoId /\ turn.ack # NoAck
       /\ Report(i, turn.ack.kind, turn.ack.id)
       /\ task' = IF turn.good THEN [task EXCEPT ![i].turn.ack = NoAck]
                               ELSE [task EXCEPT ![i] = Ended]
       /\ UNCHANGED <<sinkVars, toTask, toTaskParked, streamVars, written, incoming>>

\* Loop::Continue.
NextTurn(i) ==
    /\ task[i].pc = "turn" /\ task[i].turn = NoTurn
    /\ task' = [task EXCEPT ![i].pc = "poll"]
    /\ UNCHANGED <<sinkVars, toTask, toTaskParked, out, outParked, streamVars, written, incoming>>

(***************************************************************************)
(* The stream.                                                             *)
(***************************************************************************)
\* The message is not stashed when the lock is taken.
Deliver_Slip2(m) ==
    \/ /\ m.kind \notin Terminal
       /\ log' = Append(log, m) /\ UNCHANGED <<peers, opt_pending>>
    \/ /\ m.kind \in Terminal /\ ~poisoned
       /\ peers' = peers \ {m.info}
       /\ log' = Append(log, m) /\ opt_pending' = <<>>
    \/ /\ m.kind \in Terminal
       /\ UNCHANGED <<peers, log, opt_pending>>

\* A message whose peer is still to be taken out of the map, or not.
Deliver(m) ==
    \/ /\ m.kind \notin Terminal
       /\ log' = Append(log, m) /\ UNCHANGED <<peers, opt_pending>>
    \/ /\ m.kind \in Terminal /\ ~poisoned
       /\ peers' = peers \ {m.info}
       /\ log' = Append(log, m) /\ opt_pending' = <<>>
    \/ /\ m.kind \in Terminal              \* try_lock failed twice
       /\ opt_pending' = <<m>> /\ UNCHANGED <<peers, log>>

PollChannel ==
    /\ opt_pending = <<>> /\ out # <<>>
    /\ Deliver(Head(out))
    /\ out' = Tail(out)
    /\ outParked' = ParkedAfterRecv(outParked)
    /\ UNCHANGED <<poisoned, task, toTask, toTaskParked, session, accepted, written, incoming>>

PollPending ==
    /\ opt_pending # <<>>
    /\ Deliver(opt_pending[1])
    /\ UNCHANGED <<poisoned, task, toTask, toTaskParked, out, outParked, session, accepted, written, incoming>>

TaskStep(i) ==
    \/ TaskAdded(i) \/ TakeManagerMessage(i) \/ TakePeerMessage(i) \/ TakeHeartbeatInterval(i)
    \/ TakePeerFailure(i) \/ WriteToPeer(i) \/ WriteFails(i) \/ ForwardMessage(i)
    \/ Acknowledge(i) \/ NextTurn(i)

Next ==
    \/ \E i \in Infos : AddPeer(i) \/ RemovePeer(i) \/ SendMessage(i) \/ TaskStep(i)
    \/ PollChannel \/ PollPending

Spec == Init /\ [][Next]_vars

\* The task has ended, or has something to report and is parked.
Halted(i) ==
    \/ Gone(i)
    \/ /\ IsParked(outParked, <<i, session[i]>>)
       /\ \/ task[i].pc = "adding"
          \/ task[i].pc = "turn" /\ task[i].turn.send = NoId /\ task[i].turn # NoTurn

\* The tasks run, the client polls the stream, and the stream does not lose
\* the race for the lock for ever: weak fairness of TaskStep(i) and PollChannel
\* and strong fairness of PollPending /\ opt_pending' = <<>>, with the
\* conditions under which they are enabled, and the changes by which they are
\* known, written out.
Fairness ==
    /\ \A i \in Infos : []<>Halted(i) \/ []<><<~Gone(i) /\ task'[i] # task[i]>>_task
    /\ []<>(opt_pending # <<>> \/ out = <<>>) \/ []<><<Len(out') < Len(out)>>_out
    /\ <>[](opt_pending = <<>> \/ poisoned) \/ []<><<opt_pending' = <<>>>>_opt_pending
FairSpec == Spec /\ Fairness

(***************************************************************************)
(* Properties.                                                             *)
(***************************************************************************)
\* Everything reported to the client so far, delivered or not.
Reported == log \o opt_pending \o out
\* What is still under way, and the shutdowns of a peer among it.
UnderWay == opt_pending \o out
Shutdowns(i) == {k \in DOMAIN UnderWay : UnderWay[k].info = i /\ UnderWay[k].kind \in Terminal}
\* The messages of one kind about the peer's last session.
Messages(i, kind) ==
    {k \in DOMAIN Reported : Reported[k].info = i /\ Reported[k].session = session[i] /\ Reported[k].kind = kind}

OutMessages == [info : Infos, session : Nat, id : Nat,
                kind : {"PeerAdded", "SentMessage", "ReceivedMessage"} \cup Terminal]
TaskMessages == [kind : {"SendMessage", "RemovePeer"}, id : Nat]
Acks == {NoAck} \cup [kind : {"SentMessage"}, id : Nat] \cup [kind : Terminal, id : {NoId}]
Turns == [send : Nat \cup {KeepAlive}, recv : Nat, ack : Acks, good : BOOLEAN]
Tasks == [pc : {"ended", "failed", "adding", "poll", "turn"}, turn : Turns, queued : Failures \cup {None}]

TypeOK ==
    /\ peers \subseteq Infos /\ poisoned \in BOOLEAN
    /\ task \in [Infos -> Tasks]
    /\ toTask \in [Infos -> Seq(TaskMessages)] /\ toTaskParked \in [Infos -> BOOLEAN]
    /\ \A i \in Infos : Len(toTask[i]) <= SinkCap + 1
    /\ out \in Seq(OutMessages) /\ opt_pending \in Seq(OutMessages) /\ log \in Seq(OutMessages)
    /\ Len(opt_pending) <= 1
    /\ session \in [Infos -> Nat]
    /\ accepted \in [Infos -> Seq(Nat)] /\ written \in [Infos -> Seq(Nat)] /\ incoming \in [Infos -> Seq(Nat)]
    /\ \A k \in DOMAIN Reported : Reported[k].session \in 1 .. session[Reported[k].info]

\* The last of the first n messages that is about the peer is not its shutdown.
Open(i, n) ==
    \E j \in 1 .. n : /\ Reported[j].info = i /\ Reported[j].kind \notin Terminal
                      /\ \A l \in j + 1 .. n : Reported[l].info # i

\* The client sees each peer in sessions: PeerAdded first, exactly one
\* PeerRemoved, PeerDisconnect or PeerError last, and nothing of one session
\* after the next has begun, although the stream may stash a shutdown, and a
\* removal may race with the peer's own disconnect.
SessionsWellFormed ==
    \A k \in DOMAIN Reported : Reported[k].kind = "PeerAdded" <=> ~Open(Reported[k].info, k - 1)

\* The messages at the positions ks carry the first of the ids, in their order.
CarryFirst(ks, ids) ==
    \A k \in ks : LET n == Cardinality({j \in ks : j <= k})
                  IN n <= Len(ids) /\ Reported[k].id = ids[n]

\* SentMessage is reported for exactly the messages that were written, in the
\* order the client sent them, and the peer's messages arrive in their order.
MessagesInOrder ==
    \A i \in Infos :
        /\ CarryFirst(Messages(i, "SentMessage"), written[i])
        /\ written[i] = SubSeq(accepted[i], 1, Len(written[i])) /\ Len(written[i]) <= Len(accepted[i])
        /\ CarryFirst(Messages(i, "ReceivedMessage"), incoming[i])

\* The map and the tasks agree.  There are never more tasks, each with two
\* timers of the timer wheel that from_builder sizes by peer_capacity, than the
\* map may hold peers; a peer whose task has ended, but by a failed write, is
\* about to be taken out of the map: its shutdown is under way to the stream
\* ("Intercept and propogate any messages indicating the peer shutdown so we
\* can remove them from our peer map"); and the stream never finds a shutdown
\* "With No Matching Peer In Map": a peer has at most one under way, and is in
\* the map until the client gets it.
MapMatchesTasks ==
    /\ TypeOK
    /\ Cardinality(peers) <= PeerCapacity
    /\ {i \in Infos : ~Gone(i)} \subseteq peers
    /\ \A i \in peers : task[i].pc = "ended" => Shutdowns(i) # {}
    /\ \A i \in Infos : Shutdowns(i) # {} => i \in peers /\ Cardinality(Shutdowns(i)) = 1

\* start_send never finds the receiver of a peer in the map dropped (the
\* panics "PeerManager Failed To Send RemovePeer" and "... SendMessage").
NeverPanics == ~poisoned

\* A peer the client asked to remove leaves the map, unless the manager
\* panicked or a write to the peer failed: also when its channel is full and
\* other peers keep the stream busy.
RemovalPending(i) == \E k \in DOMAIN toTask[i] : toTask[i][k].kind = "RemovePeer"
RemoveEnds == \A i \in Infos : RemovalPending(i) ~> (i \notin peers \/ poisoned \/ task[i].pc = "failed")

(***************************************************************************)
(* The inductive invariant from which PeerManager_proofs derives           *)
(* SessionsWellFormed, MessagesInOrder and MapMatchesTasks.                *)
(***************************************************************************)
\* What a turn has left to do: a message that is not written yet is the one
\* that is acknowledged, and the connection ends with a shutdown.
TurnOK(t) ==
    /\ t.good <=> t.ack.kind \notin Terminal
    /\ t.send \notin {NoId, KeepAlive} => t.ack = [kind |-> "SentMessage", id |-> t.send]
    /\ t.send = KeepAlive => t.ack = NoAck

\* A task takes part in the session that the client sees, and is in the map
\* until it has reported its end.
TaskOK(i) ==
    /\ IF task[i].pc = "turn" THEN TurnOK(task[i].turn) ELSE task[i].turn = NoTurn
    /\ task[i].pc \in {"poll", "turn", "failed"} <=> Open(i, Len(Reported))
    /\ task[i].pc # "ended" => i \in peers /\ session[i] > 0
    /\ toTaskParked[i] \/ Len(toTask[i]) <= SinkCap

\* A shutdown is under way exactly while the peer of an ended task is in the map.
ShutdownOK(i) ==
    /\ \A j, k \in Shutdowns(i) : j = k
    /\ Shutdowns(i) # {} <=> i \in peers /\ task[i].pc = "ended"

Numbered(s) == \A k \in DOMAIN s : s[k] = k
Sends(i) == {k \in DOMAIN toTask[i] : toTask[i][k].kind = "SendMessage"}
\* The number of messages that the task has taken from its channel.
Taken(i) == IF task[i].turn.send \in {NoId, KeepAlive} THEN Len(written[i]) ELSE Len(written[i]) + 1

\* The messages in the channel are those accepted and not yet taken, in order.
QueueOK(i) ==
    /\ Taken(i) <= Len(accepted[i])
    /\ {toTask[i][k].id : k \in Sends(i)} = Taken(i) + 1 .. Len(accepted[i])
    /\ \A j, k \in Sends(i) : j < k => toTask[i][j].id < toTask[i][k].id

\* The messages at the positions ks carry 1, 2, ..., n.
CarryUpTo(ks, n) ==
    /\ {Reported[k].id : k \in ks} = 1 .. n
    /\ \A j, k \in ks : j < k => Reported[j].id < Reported[k].id

\* All that was written is acknowledged, but what this turn has still to.
SentOK(i) ==
    LET ack == task[i].turn.ack
    IN /\ ack.kind = "SentMessage" => ack.id = Taken(i) /\ ack.id > 0
       /\ CarryUpTo(Messages(i, "SentMessage"), IF ack.kind = "SentMessage" THEN Taken(i) - 1 ELSE Len(written[i]))

\* All that came from the peer is forwarded, but what this turn has still to,
\* or what the failed task had.
ReceivedOK(i) ==
    LET recv == task[i].turn.recv
    IN /\ recv # NoId => recv = Len(incoming[i])
       /\ \E n \in 0 .. Len(incoming[i]) :
            /\ CarryUpTo(Messages(i, "ReceivedMessage"), n)
            /\ task[i].pc # "failed" => n = IF recv = NoId THEN Len(incoming[i]) ELSE Len(incoming[i]) - 1

HistoryOK(i) ==
    /\ Numbered(accepted[i]) /\ Numbered(written[i]) /\ Numbered(incoming[i])
    /\ Len(written[i]) <= Len(accepted[i])
    /\ ~Gone(i) => QueueOK(i)
    /\ SentOK(i)
    /\ ReceivedOK(i)

ManagerInvariant ==
    /\ TypeOK
    /\ Cardinality(peers) <= PeerCapacity
    /\ \A k \in DOMAIN opt_pending : opt_pending[k].kind \in Terminal
    /\ SessionsWellFormed
    /\ \A i \in Infos : TaskOK(i) /\ ShutdownOK(i) /\ HistoryOK(i)
=============================================================================
