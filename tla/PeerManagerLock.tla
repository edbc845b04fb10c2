-------------------------- MODULE PeerManagerLock --------------------------
(***************************************************************************)
(* bip_peer: how the clones of PeerManagerSink and the PeerManagerStream   *)
(* share the map of peers (manager/mod.rs, run_with_lock_sink and the two  *)
(* run_with_lock_poll).  Nobody blocks on the mutex: who fails to lock it  *)
(* puts its task into task_queue, tries once more, and returns NotReady;   *)
(* who had the lock wakes one task from the queue.  An AddPeer that finds  *)
(* the map full also queues its task.                                      *)
(*                                                                         *)
(* The work under the lock is abstracted to the number of peers in the     *)
(* map: "add" needs a free place, "remove" (the stream, when a peer has    *)
(* shut down) frees one, "send" (RemovePeer, SendMessage) may find the     *)
(* channel to the peer's task full, "poll" (poll_complete) needs the lock  *)
(* only.  Definitions named X_Slip are X with a plausible mistake, to show *)
(* that the properties notice it.                                          *)
(***************************************************************************)
EXTENDS Integers, Sequences, FiniteSets

CONSTANTS
    Sinks,          \* clones of the sink, each polled by its own task
    Stream,         \* the stream, polled by its own task
    Free,           \* holder of the free mutex
    PeerCapacity,   \* peer_capacity of the builder
    MaxQueue        \* bound: with so many tasks queued calls no longer overlap

Actors == Sinks \cup {Stream}

ASSUME LockAssumption == Free \notin Actors /\ PeerCapacity \in Nat

VARIABLES
    pc,             \* where each actor's call is
    op,             \* what it wants to do
    notified,       \* the wake-up flag of its task
    lock,           \* holder of the mutex
    task_queue,     \* the shared MsQueue of tasks to wake up
    num_peers       \* peers in the map

peerVars == <<pc, op, notified, lock, task_queue, num_peers>>

\* "turnedAway" never had the lock, "notReady" had it and could not proceed.
Pcs == {"out", "lock1", "push", "lock2", "work", "wake", "wakeNotReady", "turnedAway", "notReady"}

LockInit ==
    /\ pc = [a \in Actors |-> "out"]
    /\ op = [a \in Actors |-> "poll"]
    /\ notified = [a \in Actors |-> FALSE]
    /\ lock = Free
    /\ task_queue = <<>>
    /\ num_peers = 0

Returned(a) == pc[a] \in {"turnedAway", "notReady"}
Waiting(a) == Returned(a) /\ ~notified[a]

\* Keeps the model finite: each overlap of two calls may leave one more entry.
QueueBound == Len(task_queue) < MaxQueue \/ \A b \in Actors : pc[b] = "out" \/ Returned(b)

Moves(a, l) == pc' = [pc EXCEPT ![a] = l]

\* The client calls start_send or poll_complete on a sink; a shutdown message
\* reaches the stream (one at most per peer in the map).
Call(a) ==
    /\ pc[a] = "out"
    /\ QueueBound
    /\ \E o \in IF a = Stream THEN {"remove"} ELSE {"add", "send", "poll"} :
         (o = "remove" => num_peers > 0) /\ op' = [op EXCEPT ![a] = o]
    /\ notified' = [notified EXCEPT ![a] = FALSE]
    /\ Moves(a, "lock1")
    /\ UNCHANGED <<lock, task_queue, num_peers>>

\* A task that returned NotReady was woken and makes the same call again.
Repoll(a) ==
    /\ Returned(a) /\ notified[a] /\ QueueBound
    /\ notified' = [notified EXCEPT ![a] = FALSE]
    /\ Moves(a, "lock1")
    /\ UNCHANGED <<op, lock, task_queue, num_peers>>

TryLock1(a) ==
    /\ pc[a] = "lock1"
    /\ \/ lock = Free /\ lock' = a /\ Moves(a, "work")
       \/ lock # Free /\ UNCHANGED lock /\ Moves(a, "push")
    /\ UNCHANGED <<op, notified, task_queue, num_peers>>

\* Only a sink queues its task.
PushTask_Slip(a) ==
    /\ pc[a] = "push"
    /\ task_queue' = IF a = Stream THEN task_queue ELSE Append(task_queue, a)
    /\ Moves(a, "lock2")
    /\ UNCHANGED <<op, notified, lock, num_peers>>

PushTask(a) ==
    /\ pc[a] = "push"
    /\ task_queue' = Append(task_queue, a)
    /\ Moves(a, "lock2")
    /\ UNCHANGED <<op, notified, lock, num_peers>>

TryLock2(a) ==
    /\ pc[a] = "lock2"
    /\ \/ lock = Free /\ lock' = a /\ Moves(a, "work")
       \/ lock # Free /\ UNCHANGED lock /\ Moves(a, "turnedAway")
    /\ UNCHANGED <<op, notified, task_queue, num_peers>>

\* The closure runs, a NotReady is queued, and the guard is dropped.
Work(a) ==
    /\ pc[a] = "work"
    /\ \/ /\ op[a] = "send" \/ (op[a] = "add" /\ num_peers >= PeerCapacity)
          /\ task_queue' = Append(task_queue, a)
          /\ Moves(a, "wakeNotReady")
          /\ UNCHANGED num_peers
       \/ /\ op[a] = "add" /\ num_peers < PeerCapacity
          /\ num_peers' = num_peers + 1
          /\ Moves(a, "wake")
          /\ UNCHANGED task_queue
       \/ /\ op[a] = "remove"
          /\ num_peers' = num_peers - 1
          /\ Moves(a, "wake")
          /\ UNCHANGED task_queue
       \/ /\ op[a] \in {"send", "poll"}
          /\ Moves(a, "wake")
          /\ UNCHANGED <<num_peers, task_queue>>
    /\ lock' = Free
    /\ UNCHANGED <<op, notified>>

\* "Just notify a single person waiting on the lock to reduce contention".
WakeOne(a) ==
    /\ pc[a] \in {"wake", "wakeNotReady"}
    /\ \/ /\ task_queue # <<>>
          /\ notified' = [notified EXCEPT ![Head(task_queue)] = TRUE]
          /\ task_queue' = Tail(task_queue)
       \/ task_queue = <<>> /\ UNCHANGED <<notified, task_queue>>
    /\ Moves(a, IF pc[a] = "wake" THEN "out" ELSE "notReady")
    /\ UNCHANGED <<op, lock, num_peers>>

\* The task of the peer takes a message: the channel wakes the sender it
\* turned away.
ChannelWakes(a) ==
    /\ pc[a] = "notReady" /\ op[a] = "send"
    /\ notified' = [notified EXCEPT ![a] = TRUE]
    /\ UNCHANGED <<pc, op, lock, task_queue, num_peers>>

ActorStep(a) ==
    Repoll(a) \/ TryLock1(a) \/ PushTask(a) \/ TryLock2(a) \/ Work(a) \/ WakeOne(a)

LockNext == \E a \in Actors : Call(a) \/ ChannelWakes(a) \/ ActorStep(a)

LockSpec == LockInit /\ [][LockNext]_peerVars

(***************************************************************************)
(* Properties.                                                             *)
(***************************************************************************)
LockTypeOK ==
    /\ pc \in [Actors -> Pcs]
    /\ op \in [Actors -> {"add", "remove", "send", "poll"}]
    /\ notified \in [Actors -> BOOLEAN]
    /\ lock \in Actors \cup {Free}
    /\ task_queue \in Seq(Actors)
    /\ num_peers \in 0 .. PeerCapacity

Queued(a) == \E k \in 1 .. Len(task_queue) : task_queue[k] = a

\* Who returned NotReady and was not woken is in task_queue: however the
\* others' calls overlap with its push and its second try_lock, a later call
\* can still wake it ("Closure could return not ready, need to stash in that
\* case").
WaiterIsQueued == LockTypeOK /\ \A a \in Actors : Waiting(a) => Queued(a)

(***************************************************************************)
(* The inductive invariant: one actor at most works on the map; from the   *)
(* push on, who may return NotReady is queued or was woken; and the peer   *)
(* whose shutdown the stream holds is in the map until it is taken out.    *)
(***************************************************************************)
LockInvariant ==
    /\ LockTypeOK
    /\ \A a \in Actors : lock = a <=> pc[a] = "work"
    /\ \A a \in Actors :
         pc[a] \in {"lock2", "wakeNotReady", "turnedAway", "notReady"} => notified[a] \/ Queued(a)
    /\ \A a \in Actors : op[a] = "remove" => a = Stream
    /\ \A a \in Actors : op[a] = "remove" /\ pc[a] \notin {"out", "wake"} => num_peers > 0
=============================================================================
