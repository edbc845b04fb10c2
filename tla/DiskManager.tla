---------------------------- MODULE DiskManager ----------------------------
(***************************************************************************)
(* bip_disk: the back-pressure protocol of the DiskManager                 *)
(* (disk/manager.rs) between the clones of the sink, the worker pool that  *)
(* executes the accepted requests (disk/tasks/mod.rs, execute_on_pool) and *)
(* the single stream that hands the answers to the client.                 *)
(*                                                                         *)
(* Every atomic operation on shared state (fetch_add and fetch_sub on      *)
(* cur_capacity, push and try_pop on task_queue, one channel operation) is *)
(* a step of its own.  What a task does on the disk is abstracted here to  *)
(* the messages it sends (module DiskTasks has the rest): some number of   *)
(* FoundGoodPiece/FoundBadPiece messages, then one final message.          *)
(*                                                                         *)
(* Definitions named X_Slip are X with a plausible mistake in the code;    *)
(* they show that the properties notice it and are not part of Spec.       *)
(***************************************************************************)
EXTENDS Integers, Sequences, FiniteSets, Mpsc

CONSTANTS
    Sinks,          \* the clones of DiskManagerSink, each polled by its own task
    Requests,       \* the IDiskMessages the clients send
    Workers,        \* the threads of the CpuPool
    MaxCapacity,    \* sink_buffer_capacity of the builder
    ChannelCap,     \* stream_buffer_capacity of the builder
    MaxFound,       \* bound: piece messages one task sends before its final one
    Outcomes,       \* final messages a task may end with, a subset of {"ok", "err"}
    NoReq           \* no request (not a member of Requests)

ASSUME SinksFinite    == IsFiniteSet(Sinks)
ASSUME RequestsFinite == IsFiniteSet(Requests) /\ NoReq \notin Requests
ASSUME CapacityIsPos  == MaxCapacity \in Nat \ {0}
ASSUME ChannelCapNat  == ChannelCap \in Nat
ASSUME MaxFoundNat    == MaxFound \in Nat
ASSUME OutcomesKind   == Outcomes \subseteq {"ok", "err"}

VARIABLES
    pc,             \* where start_send of each sink is
    item,           \* the request each sink is trying to submit
    notified,       \* the wake-up flag of the task that polls each sink
    status,         \* how far each request has come
    cur_capacity,   \* the shared AtomicUsize
    task_queue,     \* the shared MsQueue of tasks to wake up
    worker,         \* the request each pool thread executes
    found,          \* piece messages the task of a request has yet to send
    out,            \* the mpsc channel to the stream
    parkedSenders,  \* senders that overran the channel's buffer, oldest first
    streamPc        \* where poll of the stream is

sinkVars   == <<pc, item, notified>>
poolVars   == <<worker, found, parkedSenders>>
vars == <<pc, item, notified, status, cur_capacity, task_queue, worker, found,
          out, parkedSenders, streamPc>>

SinkPcs   == {"out", "undo1", "enqueue", "try2", "undo2", "parked"}
StreamPcs == {"poll", "complete", "drain"}
Statuses  == {"unsent", "offered", "pooled", "running", "answered", "taken", "done", "leaked"}
Messages  == [req : Requests, kind : {"found", "ok", "err"}]

\* The requests that occupy a unit of cur_capacity.
Holding  == {r \in Requests : status[r] \in {"pooled", "running", "answered", "taken", "leaked"}}
\* The sinks between a failed fetch_add and the fetch_sub that takes it back.
Overshot == {s \in Sinks : pc[s] \in {"undo1", "undo2"}}

Init ==
    /\ pc = [s \in Sinks |-> "out"]
    /\ item = [s \in Sinks |-> NoReq]
    /\ notified = [s \in Sinks |-> FALSE]
    /\ status = [r \in Requests |-> "unsent"]
    /\ cur_capacity = 0
    /\ task_queue = <<>>
    /\ worker = [w \in Workers |-> NoReq]
    /\ found = [r \in Requests |-> 0]
    /\ out = <<>>
    /\ parkedSenders = <<>>
    /\ streamPc = "poll"

(***************************************************************************)
(* The sink.  try_submit_work is a fetch_add that, when it sees the        *)
(* capacity exhausted, is undone by a separate fetch_sub.                  *)
(***************************************************************************)
CanSubmit == cur_capacity < MaxCapacity

\* try_submit_work by sink s for request r; a failure leads to pc onFail.
TrySubmitWork(s, r, onFail) ==
    /\ cur_capacity' = cur_capacity + 1
    /\ IF CanSubmit
         THEN /\ status' = [status EXCEPT ![r] = "pooled"]      \* execute_on_pool
              /\ item' = [item EXCEPT ![s] = NoReq]
              /\ pc' = [pc EXCEPT ![s] = "out"]
         ELSE /\ status' = [status EXCEPT ![r] = "offered"]
              /\ item' = [item EXCEPT ![s] = r]
              /\ pc' = [pc EXCEPT ![s] = onFail]

\* A client calls start_send with a new request: the first attempt.
StartSend(s) ==
    /\ pc[s] = "out"
    /\ \E r \in Requests : status[r] = "unsent" /\ TrySubmitWork(s, r, "undo1")
    /\ notified' = [notified EXCEPT ![s] = FALSE]
    /\ UNCHANGED <<task_queue, poolVars, out, streamPc>>

\* The task of a sink that returned NotReady was notified and calls
\* start_send again with the same request.
Repoll(s) ==
    /\ pc[s] = "parked" /\ notified[s]
    /\ TrySubmitWork(s, item[s], "undo1")
    /\ notified' = [notified EXCEPT ![s] = FALSE]
    /\ UNCHANGED <<task_queue, poolVars, out, streamPc>>

UndoFirst(s) ==
    /\ pc[s] = "undo1"
    /\ cur_capacity' = cur_capacity - 1
    /\ pc' = [pc EXCEPT ![s] = "enqueue"]
    /\ UNCHANGED <<item, notified, status, task_queue, poolVars, out, streamPc>>

Enqueue(s) ==
    /\ pc[s] = "enqueue"
    /\ task_queue' = Append(task_queue, s)
    /\ pc' = [pc EXCEPT ![s] = "try2"]
    /\ UNCHANGED <<item, notified, status, cur_capacity, poolVars, out, streamPc>>

\* No second attempt.
TrySecond_Slip(s) ==
    /\ pc[s] = "try2"
    /\ pc' = [pc EXCEPT ![s] = "parked"]
    /\ UNCHANGED <<item, notified, status, cur_capacity, task_queue, poolVars, out, streamPc>>

\* The second attempt, after the task was queued.
TrySecond(s) ==
    /\ pc[s] = "try2"
    /\ TrySubmitWork(s, item[s], "undo2")
    /\ UNCHANGED <<notified, task_queue, poolVars, out, streamPc>>

\* The second attempt failed: start_send returns NotReady.
UndoSecond(s) ==
    /\ pc[s] = "undo2"
    /\ cur_capacity' = cur_capacity - 1
    /\ pc' = [pc EXCEPT ![s] = "parked"]
    /\ UNCHANGED <<item, notified, status, task_queue, poolVars, out, streamPc>>

SinkStep(s) == Repoll(s) \/ UndoFirst(s) \/ Enqueue(s) \/ TrySecond(s) \/ UndoSecond(s)

(***************************************************************************)
(* The pool.  A task has its own clone of the channel's sender, named here *)
(* by its request.                                                         *)
(***************************************************************************)
SendBlocking(r, kind) ==
    /\ ~IsParked(parkedSenders, r)
    /\ out' = Append(out, [req |-> r, kind |-> kind])
    /\ parkedSenders' = ParkedAfterSend(parkedSenders, Len(out), ChannelCap, r)

\* A pool thread takes up a request.
Execute(w) ==
    /\ worker[w] = NoReq
    /\ \E r \in Requests, n \in 0 .. MaxFound :
         /\ status[r] = "pooled"
         /\ status' = [status EXCEPT ![r] = "running"]
         /\ worker' = [worker EXCEPT ![w] = r]
         /\ found' = [found EXCEPT ![r] = n]
    /\ UNCHANGED <<sinkVars, cur_capacity, task_queue, out, parkedSenders, streamPc>>

\* send_piece_diff sends one FoundGoodPiece or FoundBadPiece message.
SendPieceState(w) ==
    /\ worker[w] # NoReq /\ found[worker[w]] > 0
    /\ SendBlocking(worker[w], "found")
    /\ found' = [found EXCEPT ![worker[w]] = @ - 1]
    /\ UNCHANGED <<sinkVars, status, cur_capacity, task_queue, worker, streamPc>>

\* The final message of the task; the thread is free again.
SendFinal(w) ==
    /\ worker[w] # NoReq /\ found[worker[w]] = 0
    /\ \E k \in Outcomes : SendBlocking(worker[w], k)
    /\ status' = [status EXCEPT ![worker[w]] = "answered"]
    /\ worker' = [worker EXCEPT ![w] = NoReq]
    /\ UNCHANGED <<sinkVars, cur_capacity, task_queue, found, streamPc>>

WorkerStep(w) == Execute(w) \/ SendPieceState(w) \/ SendFinal(w)

(***************************************************************************)
(* The stream.  Only the five success messages give capacity back and wake *)
(* the queued sinks; every other message is passed through.                *)
(***************************************************************************)
\* Every message that is not an error gives capacity back.
StreamRecv_Slip ==
    /\ streamPc = "poll" /\ out # <<>>
    /\ LET m == Head(out) IN
         /\ streamPc' = IF m.kind # "err" THEN "complete" ELSE "poll"
         /\ status' = CASE m.kind = "ok"  -> [status EXCEPT ![m.req] = "taken"]
                        [] m.kind = "err" -> [status EXCEPT ![m.req] = "leaked"]
                        [] OTHER          -> status
    /\ out' = Tail(out)
    /\ parkedSenders' = ParkedAfterRecv(parkedSenders)
    /\ UNCHANGED <<sinkVars, cur_capacity, task_queue, worker, found>>

\* Piece messages are left in the channel.
StreamRecv_Slip2 ==
    /\ streamPc = "poll" /\ out # <<>> /\ Head(out).kind # "found"
    /\ streamPc' = IF Head(out).kind = "ok" THEN "complete" ELSE "poll"
    /\ status' = [status EXCEPT ![Head(out).req] = IF Head(out).kind = "ok" THEN "taken" ELSE "leaked"]
    /\ out' = Tail(out)
    /\ parkedSenders' = ParkedAfterRecv(parkedSenders)
    /\ UNCHANGED <<sinkVars, cur_capacity, task_queue, worker, found>>

\* The receiver takes a message and unparks the oldest parked sender.
StreamRecv ==
    /\ streamPc = "poll" /\ out # <<>>
    /\ LET m == Head(out) IN
         /\ streamPc' = IF m.kind = "ok" THEN "complete" ELSE "poll"
         /\ status' = CASE m.kind = "ok"  -> [status EXCEPT ![m.req] = "taken"]
                        [] m.kind = "err" -> [status EXCEPT ![m.req] = "leaked"]
                        [] OTHER          -> status
    /\ out' = Tail(out)
    /\ parkedSenders' = ParkedAfterRecv(parkedSenders)
    /\ UNCHANGED <<sinkVars, cur_capacity, task_queue, worker, found>>

CompleteWork ==
    /\ streamPc = "complete"
    /\ cur_capacity' = cur_capacity - 1
    /\ status' = [r \in Requests |-> IF status[r] = "taken" THEN "done" ELSE status[r]]
    /\ streamPc' = "drain"
    /\ UNCHANGED <<sinkVars, task_queue, poolVars, out>>

\* One turn of the loop that wakes the queued tasks.
DrainNotify ==
    /\ streamPc = "drain" /\ task_queue # <<>>
    /\ notified' = [notified EXCEPT ![Head(task_queue)] = TRUE]
    /\ task_queue' = Tail(task_queue)
    /\ UNCHANGED <<pc, item, status, cur_capacity, poolVars, out, streamPc>>

\* try_pop found the queue empty: poll returns the message.
DrainEnd ==
    /\ streamPc = "drain" /\ task_queue = <<>>
    /\ streamPc' = "poll"
    /\ UNCHANGED <<sinkVars, status, cur_capacity, task_queue, poolVars, out>>

StreamStep == StreamRecv \/ CompleteWork \/ DrainNotify \/ DrainEnd

Next ==
    \/ \E s \in Sinks : StartSend(s) \/ SinkStep(s)
    \/ \E w \in Workers : WorkerStep(w)
    \/ StreamStep

\* The loop in poll that wakes the queued tasks ends: the sinks it wakes may
\* queue themselves again while it runs, and nothing in the code but the time
\* a wake-up takes keeps them from feeding it for ever.
DrainLoopEnds == []<>(streamPc # "drain")

\* The threads run, and the client keeps polling the stream.
Fairness ==
    /\ \A s \in Sinks : WF_vars(SinkStep(s))
    /\ \A w \in Workers : WF_vars(WorkerStep(w))
    /\ WF_vars(StreamStep)
    /\ DrainLoopEnds

Spec == Init /\ [][Next]_vars
FairSpec == Spec /\ Fairness
(***************************************************************************)
(* Properties.                                                             *)
(***************************************************************************)
\* Requests a pool thread or the stream will still bring to complete_work.
InProgress == {r \in Requests : status[r] \in {"pooled", "running", "answered", "taken"}}

\* Type correctness; cur_capacity is an unsigned atomic, so that it is a
\* natural number says that no fetch_sub ever wraps it around.
TypeOK ==
    /\ pc \in [Sinks -> SinkPcs]
    /\ item \in [Sinks -> Requests \cup {NoReq}]
    /\ notified \in [Sinks -> BOOLEAN]
    /\ status \in [Requests -> Statuses]
    /\ cur_capacity \in Nat
    /\ task_queue \in Seq(Sinks)
    /\ worker \in [Workers -> Requests \cup {NoReq}]
    /\ found \in [Requests -> 0 .. MaxFound]
    /\ out \in Seq(Messages)
    /\ parkedSenders \in Seq(Requests)
    /\ streamPc \in StreamPcs

\* The shared counter is exactly the number of requests that occupy a slot
\* plus the number of sinks whose failed fetch_add is not undone yet: the
\* fetch_add/fetch_sub pairs of try_submit_work and complete_work balance in
\* every interleaving.
CapacityAccounting == cur_capacity = Cardinality(Holding) + Cardinality(Overshot)

\* Back-pressure: however the sinks race, never more than sink_buffer_capacity
\* requests are between acceptance by start_send and complete_work.
BoundedWork == Cardinality(Holding) <= MaxCapacity

\* No lost wake-up: a sink whose start_send returned NotReady and whose task
\* was not notified is in task_queue, and something is still under way that
\* leads to the stream draining that queue: an accepted request, the draining
\* loop itself, or another sink in the middle of start_send.  The comment in
\* start_send says "Receiver will look at the queue eventually...".
Waiting(s) == pc[s] = "parked" /\ ~notified[s]
WakeupPending ==
    \A s \in Sinks : Waiting(s) =>
        /\ \E i \in 1 .. Len(task_queue) : task_queue[i] = s
        /\ \/ InProgress # {}
           \/ streamPc = "drain"
           \/ \E t \in Sinks : pc[t] # "out" /\ ~Waiting(t)

\* No slot is given back twice, and none on behalf of another task: the stream
\* holds one taken request exactly between taking its final message and
\* complete_work, and a request has one final message in the channel exactly
\* while it is answered and not taken.
IsFinal(m) == m.kind # "found"
OneSlotPerAnswer ==
    /\ streamPc = "complete" <=> \E r \in Requests : status[r] = "taken"
    /\ \A q, r \in Requests : status[q] = "taken" /\ status[r] = "taken" => q = r
    /\ \A i \in 1 .. Len(out) : IsFinal(out[i]) => status[out[i].req] = "answered"
    /\ \A i, j \in 1 .. Len(out) : IsFinal(out[i]) /\ IsFinal(out[j]) /\ out[i].req = out[j].req => i = j
    /\ \A r \in Requests : status[r] = "answered" =>
         \E i \in 1 .. Len(out) : IsFinal(out[i]) /\ out[i].req = r

\* A sink inside start_send, or turned away, has a request of its own that
\* occupies no slot.
ItemsOffered ==
    /\ \A s \in Sinks : pc[s] # "out" => item[s] \in Requests /\ status[item[s]] = "offered"
    /\ \A s, t \in Sinks : pc[s] # "out" /\ pc[t] # "out" /\ item[s] = item[t] => s = t

\* No request is executed by two threads.
WorkersDisjoint ==
    /\ \A w \in Workers : worker[w] # NoReq => status[worker[w]] = "running"
    /\ \A v, w \in Workers : worker[v] # NoReq /\ worker[v] = worker[w] => v = w

\* The inductive invariant behind CapacityAccounting and BoundedWork.
SlotInvariant ==
    TypeOK /\ ItemsOffered /\ WorkersDisjoint /\ OneSlotPerAnswer /\ CapacityAccounting /\ BoundedWork

\* A sink that is turned away is accepted later, without the client having to
\* poll it again on its own account, provided that no other clone is turned
\* away too and no request ends with an error: two clones can miss each other's
\* wake-up, and an error keeps its slot for ever.
Undisturbed(s) ==
    /\ \A t \in Sinks \ {s} : pc[t] = "out"
    /\ \A r \in Requests : status[r] # "leaked"
TurnedAwayIsAccepted ==
    \A s \in Sinks : []Undisturbed(s) => (pc[s] = "parked" ~> pc[s] = "out")

\* Every request handed to the pool is answered, and gives its slot back unless
\* it ended with an error.
AcceptedIsAnswered == \A r \in Requests : status[r] = "pooled" ~> status[r] \in {"done", "leaked"}
=============================================================================
