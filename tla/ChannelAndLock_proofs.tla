------------------------ MODULE ChannelAndLock_proofs ------------------------
(***************************************************************************)
(* Two small machines of bip_peer.  What the channel that the codecs       *)
(* implement (PeerWire, IsChannel) means to its clients, for every set of  *)
(* messages and every number of them; and that no waiter of the peer       *)
(* manager's lock is forgotten, for every number of sinks, every peer      *)
(* capacity and every queue length.                                        *)
(***************************************************************************)
EXTENDS PeerChannel, PeerManagerLock, SequenceTheorems, TLAPS

-----------------------------------------------------------------------------
(* The channel. *)

\* Every end of a connection has a peer.
LEMMA OtherIsPeer ==
    ASSUME ChannelAssumption, NEW p \in Peers
    PROVE  Other(p) \in Peers /\ Other(p) # p
BY DEF ChannelAssumption, Other

\* Appending leaves what was there.
LEMMA AppendKeeps ==
    ASSUME NEW S, NEW s \in Seq(S), NEW m \in S
    PROVE  /\ Append(s, m) \in Seq(S) /\ Len(Append(s, m)) = Len(s) + 1 /\ Len(s) \in Nat
           /\ \A i \in 1 .. Len(s) : Append(s, m)[i] = s[i]
           /\ Append(s, m)[Len(s) + 1] = m
BY AppendProperties, LenProperties

\* An end that gives up changes nothing of what was sent and received.
LEMMA BreakKeepsOrder ==
    ASSUME ChannelInvariant, UNCHANGED <<sent, received>>, broken' \subseteq Peers
    PROVE  ChannelInvariant'
<1>1. TypeOK'
  BY DEF ChannelInvariant, TypeOK
<1>2. InOrder' = InOrder
  BY DEF InOrder, Other
<1>3. IdsKnown' = IdsKnown
  BY DEF IdsKnown, HasId
<1> QED
  BY <1>1, <1>2, <1>3 DEF ChannelInvariant

\* A send changes the sender's history at its end only.
LEMMA SendKeepsOrder ==
    ASSUME ChannelAssumption, ChannelInvariant, NEW p \in Peers, NEW m \in Messages, Send(p, m)
    PROVE  ChannelInvariant'
<1>1. CASE UNCHANGED sent /\ broken' = broken \union {p}
  BY <1>1, BreakKeepsOrder DEF Send, ChannelInvariant, TypeOK
<1>2. CASE sent' = [sent EXCEPT ![p] = Append(@, m)] /\ UNCHANGED broken /\ (m \in NeedsId => HasId(p))
  <2>1. /\ Append(sent[p], m) \in Seq(Messages) /\ Len(Append(sent[p], m)) = Len(sent[p]) + 1
        /\ Len(sent[p]) \in Nat
        /\ \A i \in 1 .. Len(sent[p]) : Append(sent[p], m)[i] = sent[p][i]
        /\ Append(sent[p], m)[Len(sent[p]) + 1] = m
    BY AppendKeeps DEF ChannelInvariant, TypeOK
  <2>2. UNCHANGED received
    BY DEF Send
  <2>3. \A q \in Peers : HasId(q)' = HasId(q)
    BY <2>2 DEF HasId
  <2>4. TypeOK'
    BY <1>2, <2>1, <2>2 DEF ChannelInvariant, TypeOK
  <2>5. ASSUME NEW q \in Peers
        PROVE  /\ Len(sent[q]) <= Len(sent'[q]) /\ Len(sent[q]) \in Nat /\ Len(sent'[q]) \in Nat
               /\ \A i \in 1 .. Len(sent[q]) : sent'[q][i] = sent[q][i]
    <3>1. CASE q = p
      BY <1>2, <2>1, <3>1 DEF ChannelInvariant, TypeOK
    <3>2. CASE q # p
      BY <1>2, <3>2, LenProperties DEF ChannelInvariant, TypeOK
    <3> QED
      BY <3>1, <3>2
  <2>6. InOrder'
    <3> SUFFICES ASSUME NEW q \in Peers
                 PROVE  /\ Len(received[q]) <= Len(sent'[Other(q)])
                        /\ \A i \in 1 .. Len(received[q]) :
                             received[q][i] = sent'[Other(q)][i] /\ received[q][i] \notin Refused[q]
      BY <2>2 DEF InOrder, Other
    <3>1. Other(q) \in Peers /\ Len(received[q]) \in Nat
      BY OtherIsPeer, LenProperties DEF ChannelInvariant, TypeOK
    <3> QED
      BY <2>5, <3>1 DEF ChannelInvariant, InOrder
  <2>7. IdsKnown'
    <3> SUFFICES ASSUME NEW q \in Peers, NEW i \in 1 .. Len(sent'[q]), sent'[q][i] \in NeedsId
                 PROVE  HasId(q)
      BY <2>3 DEF IdsKnown
    <3>1. CASE i \in 1 .. Len(sent[q])
      BY <2>5, <3>1 DEF ChannelInvariant, IdsKnown
    <3>2. CASE q = p /\ i = Len(sent[p]) + 1
      BY <1>2, <2>1, <3>2 DEF ChannelInvariant, TypeOK
    <3> QED
      BY <1>2, <2>1, <2>5, <3>1, <3>2 DEF ChannelInvariant, TypeOK
  <2> QED
    BY <2>4, <2>6, <2>7 DEF ChannelInvariant
<1> QED
  BY <1>1, <1>2 DEF Send

\* What is received is the next message that was sent.
LEMMA ReceiveKeepsOrder ==
    ASSUME ChannelAssumption, ChannelInvariant, NEW p \in Peers, Receive(p)
    PROVE  ChannelInvariant'
<1> DEFINE k == Len(received[p]) + 1
           m == sent[Other(p)][k]
<1>1. CASE UNCHANGED received /\ broken' = broken \union {p}
  <2>1. UNCHANGED sent
    BY DEF Receive
  <2> QED
    BY <1>1, <2>1, BreakKeepsOrder DEF ChannelInvariant, TypeOK
<1>2. CASE received' = [received EXCEPT ![p] = Append(@, m)] /\ UNCHANGED broken /\ m \notin Refused[p]
  <2>1. Other(p) \in Peers /\ Len(received[p]) \in Nat /\ Len(sent[Other(p)]) \in Nat
    BY OtherIsPeer, LenProperties DEF ChannelInvariant, TypeOK
  <2>2. k \in 1 .. Len(sent[Other(p)])
    BY <2>1 DEF Receive, Deliverable
  <2>3. m \in Messages
    BY <2>1, <2>2, ElementOfSeq DEF ChannelInvariant, TypeOK
  <2>4. /\ Append(received[p], m) \in Seq(Messages) /\ Len(Append(received[p], m)) = k
        /\ \A i \in 1 .. Len(received[p]) : Append(received[p], m)[i] = received[p][i]
        /\ Append(received[p], m)[k] = m
    BY <2>3, AppendKeeps DEF ChannelInvariant, TypeOK
  <2>5. UNCHANGED sent
    BY DEF Receive
  <2> HIDE DEF m
  <2>6. TypeOK'
    BY <1>2, <2>4, <2>5 DEF ChannelInvariant, TypeOK
  <2>7. ASSUME NEW q \in Peers
        PROVE  /\ Len(received'[q]) <= Len(sent[Other(q)])
               /\ \A i \in 1 .. Len(received'[q]) :
                    received'[q][i] = sent[Other(q)][i] /\ received'[q][i] \notin Refused[q]
    <3>1. CASE q = p
      <4>1. received'[p] = Append(received[p], m)
        BY <1>2 DEF ChannelInvariant, TypeOK
      <4>2. ASSUME NEW i \in 1 .. k
            PROVE  received'[p][i] = sent[Other(p)][i] /\ received'[p][i] \notin Refused[p]
        <5>1. CASE i \in 1 .. Len(received[p])
          BY <2>4, <4>1, <5>1 DEF ChannelInvariant, InOrder
        <5>2. CASE i = k
          BY <1>2, <2>4, <4>1, <5>2 DEF m
        <5> QED
          BY <2>1, <5>1, <5>2
      <4> QED
        BY <2>2, <2>4, <3>1, <4>1, <4>2, <2>1
    <3>2. CASE q # p
      BY <1>2, <3>2 DEF ChannelInvariant, TypeOK, InOrder
    <3> QED
      BY <3>1, <3>2
  <2>8. InOrder'
    BY <2>5, <2>7 DEF InOrder, Other
  <2>9. ASSUME NEW q \in Peers, HasId(q)
        PROVE  HasId(q)'
    <3>1. PICK i \in DOMAIN received[q] : received[q][i] \in GivesId
      BY <2>9 DEF HasId
    <3>2. CASE q = p
      <4>1. received'[p] = Append(received[p], m)
        BY <1>2 DEF ChannelInvariant, TypeOK
      <4>2. DOMAIN received[p] = 1 .. Len(received[p]) /\ DOMAIN received'[p] = 1 .. k
        BY <2>4, <4>1, LenProperties DEF ChannelInvariant, TypeOK
      <4> QED
        BY <2>1, <2>4, <3>1, <3>2, <4>1, <4>2 DEF HasId
    <3>3. CASE q # p
      BY <1>2, <3>1, <3>3 DEF HasId, ChannelInvariant, TypeOK
    <3> QED
      BY <3>2, <3>3
  <2>10. IdsKnown'
    BY <2>5, <2>9 DEF ChannelInvariant, IdsKnown
  <2> QED
    BY <2>6, <2>8, <2>10 DEF ChannelInvariant
<1> QED
  BY <1>1, <1>2 DEF Receive

\* Over a connection each client gets the other's messages in order, whole and
\* unchanged, none larger than its max_payload, and no extension message is sent
\* to a peer that has given no id for it.
THEOREM ChannelDelivers ==
    ASSUME ChannelAssumption
    PROVE  Spec => []ChannelInvariant
<1>1. Init => ChannelInvariant
  <2> SUFFICES ASSUME Init
               PROVE  ChannelInvariant
    OBVIOUS
  <2>1. \A p \in Peers : /\ sent[p] = <<>> /\ received[p] = <<>> /\ Other(p) \in Peers
                         /\ Len(sent[p]) = 0 /\ Len(received[p]) = 0
    BY OtherIsPeer, Zenon DEF Init
  <2>2. TypeOK
    BY DEF Init, TypeOK
  <2>3. InOrder /\ IdsKnown
    BY <2>1 DEF InOrder, IdsKnown
  <2> QED
    BY <2>2, <2>3 DEF ChannelInvariant
<1>2. ChannelInvariant /\ [Next]_vars => ChannelInvariant'
  <2> SUFFICES ASSUME ChannelInvariant, [Next]_vars
               PROVE  ChannelInvariant'
    OBVIOUS
  <2>1. CASE UNCHANGED vars
    BY <2>1, BreakKeepsOrder DEF vars, ChannelInvariant, TypeOK
  <2>2. CASE Next
    BY <2>2, SendKeepsOrder, ReceiveKeepsOrder DEF Next
  <2> QED
    BY <2>1, <2>2
<1> QED
  BY <1>1, <1>2, PTL DEF Spec

-----------------------------------------------------------------------------
(* The lock of the peer manager. *)

\* Pushing a task keeps the queue well typed, keeps who is queued, and queues
\* the task that is pushed.
LEMMA PushQueues ==
    ASSUME task_queue \in Seq(Actors), NEW a \in Actors, task_queue' = Append(task_queue, a)
    PROVE  /\ task_queue' \in Seq(Actors)
           /\ \A b \in Actors : Queued(b) => Queued(b)'
           /\ Queued(a)'
<1>1. /\ task_queue' \in Seq(Actors)
      /\ Len(task_queue') = Len(task_queue) + 1
      /\ \A k \in 1 .. Len(task_queue) : task_queue'[k] = task_queue[k]
      /\ task_queue'[Len(task_queue) + 1] = a
  BY AppendProperties
<1>2. Len(task_queue) \in Nat
  BY LenProperties
<1> QED
  BY <1>1, <1>2 DEF Queued

\* Popping a task wakes it; everybody else stays queued.
LEMMA PopKeepsOthers ==
    ASSUME task_queue \in Seq(Actors), task_queue # <<>>, task_queue' = Tail(task_queue)
    PROVE  /\ task_queue' \in Seq(Actors)
           /\ Head(task_queue) \in Actors
           /\ \A b \in Actors : Queued(b) /\ b # Head(task_queue) => Queued(b)'
<1>1. /\ task_queue' \in Seq(Actors) /\ Head(task_queue) \in Actors
      /\ Head(task_queue) = task_queue[1]
      /\ Len(task_queue') = Len(task_queue) - 1
      /\ \A i \in 1 .. Len(task_queue') : task_queue'[i] = task_queue[i + 1]
  BY HeadTailProperties
<1>2. Len(task_queue) \in Nat
  BY LenProperties
<1>3. ASSUME NEW b \in Actors, Queued(b), b # Head(task_queue)
      PROVE  Queued(b)'
  <2>1. PICK k \in 1 .. Len(task_queue) : task_queue[k] = b
    BY <1>3 DEF Queued
  <2>2. k - 1 \in 1 .. Len(task_queue')
    BY <1>1, <1>2, <1>3, <2>1
  <2>3. task_queue'[k - 1] = b
    BY <1>1, <2>1, <2>2
  <2> QED
    BY <2>2, <2>3 DEF Queued
<1> QED
  BY <1>1, <1>3

LEMMA InitLock ==
    ASSUME LockInit
    PROVE  LockInvariant
BY LockAssumption DEF LockInit, LockInvariant, LockTypeOK, Pcs, Actors

\* A new call: a "remove" is only made for a peer of the map.
LEMMA CallKeepsLock ==
    ASSUME LockInvariant, NEW a \in Actors, Call(a)
    PROVE  LockInvariant'
<1>1. PICK o \in {"add", "remove", "send", "poll"} :
        /\ op' = [op EXCEPT ![a] = o]
        /\ o = "remove" => num_peers > 0 /\ a = Stream
  BY Zenon DEF Call
<1> QED
  BY <1>1 DEF Call, Moves, LockInvariant, LockTypeOK, Pcs, Queued

LEMMA RepollKeepsLock ==
    ASSUME LockInvariant, NEW a \in Actors, Repoll(a)
    PROVE  LockInvariant'
BY DEF Repoll, Returned, Moves, LockInvariant, LockTypeOK, Pcs, Queued

LEMMA TryLock1KeepsLock ==
    ASSUME LockInvariant, NEW a \in Actors, TryLock1(a)
    PROVE  LockInvariant'
<1>1. \A b \in Actors : Queued(b)' = Queued(b)
  BY DEF TryLock1, Queued
<1>2. CASE lock = Free /\ lock' = a /\ Moves(a, "work")
  BY <1>1, <1>2, LockAssumption DEF TryLock1, Moves, LockInvariant, LockTypeOK, Pcs
<1>3. CASE lock # Free /\ UNCHANGED lock /\ Moves(a, "push")
  BY <1>1, <1>3, LockAssumption DEF TryLock1, Moves, LockInvariant, LockTypeOK, Pcs
<1> QED
  BY <1>2, <1>3 DEF TryLock1

LEMMA TryLock2KeepsLock ==
    ASSUME LockInvariant, NEW a \in Actors, TryLock2(a)
    PROVE  LockInvariant'
<1>1. \A b \in Actors : Queued(b)' = Queued(b)
  BY DEF TryLock2, Queued
<1>2. CASE lock = Free /\ lock' = a /\ Moves(a, "work")
  BY <1>1, <1>2, LockAssumption DEF TryLock2, Moves, LockInvariant, LockTypeOK, Pcs
<1>3. CASE lock # Free /\ UNCHANGED lock /\ Moves(a, "turnedAway")
  BY <1>1, <1>3, LockAssumption DEF TryLock2, Moves, LockInvariant, LockTypeOK, Pcs
<1> QED
  BY <1>2, <1>3 DEF TryLock2

LEMMA PushTaskKeepsLock ==
    ASSUME LockInvariant, NEW a \in Actors, PushTask(a)
    PROVE  LockInvariant'
<1>1. /\ task_queue' \in Seq(Actors) /\ Queued(a)'
      /\ \A b \in Actors : Queued(b) => Queued(b)'
  BY PushQueues DEF PushTask, LockInvariant, LockTypeOK
<1> QED
  BY <1>1 DEF PushTask, Moves, LockInvariant, LockTypeOK, Pcs

\* The work gives the lock back; one that cannot proceed is queued before.
LEMMA WorkKeepsLock ==
    ASSUME LockInvariant, NEW a \in Actors, Work(a)
    PROVE  LockInvariant'
<1>1. CASE /\ task_queue' = Append(task_queue, a)
           /\ Moves(a, "wakeNotReady") /\ UNCHANGED num_peers
  <2>1. /\ task_queue' \in Seq(Actors) /\ Queued(a)'
        /\ \A b \in Actors : Queued(b) => Queued(b)'
    BY <1>1, PushQueues DEF LockInvariant, LockTypeOK
  <2> QED
    BY <1>1, <2>1, LockAssumption DEF Work, Moves, LockInvariant, LockTypeOK, Pcs
<1>2. CASE /\ Moves(a, "wake") /\ UNCHANGED task_queue
           /\ \/ op[a] = "add" /\ num_peers < PeerCapacity /\ num_peers' = num_peers + 1
              \/ op[a] \in {"send", "poll"} /\ UNCHANGED num_peers
  BY <1>2, LockAssumption DEF Work, Moves, LockInvariant, LockTypeOK, Pcs, Queued
<1>3. CASE /\ op[a] = "remove" /\ num_peers' = num_peers - 1
           /\ Moves(a, "wake") /\ UNCHANGED task_queue
  BY <1>3, LockAssumption DEF Work, Moves, LockInvariant, LockTypeOK, Pcs, Queued
<1> QED
  BY <1>1, <1>2, <1>3 DEF Work

LEMMA WakeOneKeepsLock ==
    ASSUME LockInvariant, NEW a \in Actors, WakeOne(a)
    PROVE  LockInvariant'
<1>1. CASE /\ task_queue # <<>>
           /\ notified' = [notified EXCEPT ![Head(task_queue)] = TRUE]
           /\ task_queue' = Tail(task_queue)
  <2>1. /\ task_queue' \in Seq(Actors) /\ Head(task_queue) \in Actors
        /\ \A b \in Actors : Queued(b) /\ b # Head(task_queue) => Queued(b)'
    BY <1>1, PopKeepsOthers DEF LockInvariant, LockTypeOK
  <2>2. \A b \in Actors : notified[b] \/ Queued(b) => notified'[b] \/ Queued(b)'
    BY <1>1, <2>1 DEF LockInvariant, LockTypeOK
  <2>3. notified' \in [Actors -> BOOLEAN]
    BY <1>1 DEF LockInvariant, LockTypeOK
  <2> QED
    BY <2>1, <2>2, <2>3, Zenon DEF WakeOne, Moves, LockInvariant, LockTypeOK, Pcs
<1>2. CASE task_queue = <<>> /\ UNCHANGED <<notified, task_queue>>
  BY <1>2 DEF WakeOne, Moves, LockInvariant, LockTypeOK, Pcs, Queued
<1> QED
  BY <1>1, <1>2 DEF WakeOne

LEMMA ChannelWakesKeepsLock ==
    ASSUME LockInvariant, NEW a \in Actors, ChannelWakes(a)
    PROVE  LockInvariant'
BY DEF ChannelWakes, LockInvariant, LockTypeOK, Pcs, Queued

\* The invariant of run_with_lock_sink and run_with_lock_poll: one call at most
\* works on the map of peers, and from its push into task_queue on a call is
\* queued or woken.
THEOREM LockIsExclusive == LockSpec => []LockInvariant
<1>1. LockInit => LockInvariant
  BY InitLock
<1>2. LockInvariant /\ [LockNext]_peerVars => LockInvariant'
  <2> SUFFICES ASSUME LockInvariant, [LockNext]_peerVars
               PROVE  LockInvariant'
    OBVIOUS
  <2>1. CASE UNCHANGED peerVars
    BY <2>1 DEF peerVars, LockInvariant, LockTypeOK, Queued
  <2>2. ASSUME NEW a \in Actors, Call(a) \/ ChannelWakes(a) \/ ActorStep(a)
        PROVE  LockInvariant'
    BY <2>2, CallKeepsLock, ChannelWakesKeepsLock, RepollKeepsLock, TryLock1KeepsLock,
       PushTaskKeepsLock, TryLock2KeepsLock, WorkKeepsLock, WakeOneKeepsLock
    DEF ActorStep
  <2> QED
    BY <2>1, <2>2 DEF LockNext
<1> QED
  BY <1>1, <1>2, PTL DEF LockSpec

\* Who returned NotReady from the peer manager and was not woken is in
\* task_queue, whatever the number of sinks and the capacity.
THEOREM WaitersAreQueued == LockSpec => []WaiterIsQueued
<1>1. LockInvariant => WaiterIsQueued
  BY DEF LockInvariant, WaiterIsQueued, Waiting, Returned
<1> QED
  BY <1>1, LockIsExclusive, PTL

=============================================================================
