------------------------- MODULE DiskManager_proofs -------------------------
(***************************************************************************)
(* Proofs about DiskManager, for any number of sinks, requests and pool    *)
(* threads and any capacities: the shared counter accounts exactly for the *)
(* slots in use, it never wraps around, and no more requests than the      *)
(* sink's capacity are ever accepted and not completed.                    *)
(***************************************************************************)
EXTENDS DiskManager, FiniteSetTheorems, TLAPS

(***************************************************************************)
(* Sets of requests and sinks.                                             *)
(***************************************************************************)
\* Requests that hold a slot and sinks with an overshoot to undo are finite
\* sets, so that the sums in CapacityAccounting are natural numbers.
LEMMA HoldingFinite ==
    /\ IsFiniteSet(Holding) /\ Cardinality(Holding) \in Nat
    /\ IsFiniteSet(Overshot) /\ Cardinality(Overshot) \in Nat
<1>1. Holding \in SUBSET Requests /\ Overshot \in SUBSET Sinks
  BY Zenon DEF Holding, Overshot
<1>2. IsFiniteSet(Holding) /\ IsFiniteSet(Overshot)
  BY <1>1, SinksFinite, RequestsFinite, FS_Subset, Zenon
<1> QED
  BY <1>2, FS_CardinalityType, Zenon

\* One element more.
LEMMA CardAdd ==
    ASSUME NEW S, IsFiniteSet(S), NEW T, NEW x, x \notin S, T = S \cup {x}
    PROVE  Cardinality(T) = Cardinality(S) + 1
BY FS_AddElement, Zenon

\* One element less.
LEMMA CardRemove ==
    ASSUME NEW S, IsFiniteSet(S), NEW T, NEW x, x \in S, T = S \ {x}
    PROVE  Cardinality(T) = Cardinality(S) - 1
BY FS_RemoveElement, Zenon

(***************************************************************************)
(* One lemma per kind of step.                                             *)
(***************************************************************************)
\* What a message in the channel is.
LEMMA OutElement ==
    ASSUME TypeOK, NEW i \in 1 .. Len(out)
    PROVE  out[i] \in Messages /\ out[i].req \in Requests /\ out[i].kind \in {"found", "ok", "err"}
<1>1. out \in Seq(Messages)
  BY Zenon DEF TypeOK
<1>2. out[i] \in Messages
  BY <1>1
<1> QED
  BY <1>2, Zenon DEF Messages

\* Steps that neither touch the channel or the stream nor make a request
\* answered or taken keep OneSlotPerAnswer.
LEMMA AnswersUntouched ==
    ASSUME TypeOK, OneSlotPerAnswer, out' = out, streamPc' = streamPc,
           \A q \in Requests : \/ status'[q] = status[q]
                               \/ /\ status[q] \notin {"answered", "taken"}
                                  /\ status'[q] \notin {"answered", "taken"}
    PROVE  OneSlotPerAnswer'
<1>1. \A q \in Requests : (status'[q] = "answered" <=> status[q] = "answered")
                           /\ (status'[q] = "taken" <=> status[q] = "taken")
  BY Zenon
<1>2. \A i \in 1 .. Len(out) : out[i].req \in Requests
  BY OutElement, Zenon
<1>3. (streamPc = "complete" <=> \E r \in Requests : status[r] = "taken")'
  BY <1>1, Zenon DEF OneSlotPerAnswer
<1>4. (\A q, r \in Requests : status[q] = "taken" /\ status[r] = "taken" => q = r)'
  BY <1>1, Zenon DEF OneSlotPerAnswer
<1>5. (\A i \in 1 .. Len(out) : IsFinal(out[i]) => status[out[i].req] = "answered")'
  BY <1>1, <1>2, Zenon DEF OneSlotPerAnswer, IsFinal
<1>6. (\A i, j \in 1 .. Len(out) :
         IsFinal(out[i]) /\ IsFinal(out[j]) /\ out[i].req = out[j].req => i = j)'
  BY DEF OneSlotPerAnswer, IsFinal
<1>7. (\A r \in Requests : status[r] = "answered" =>
         \E i \in 1 .. Len(out) : IsFinal(out[i]) /\ out[i].req = r)'
  BY <1>1, Zenon DEF OneSlotPerAnswer, IsFinal
<1> QED
  BY <1>3, <1>4, <1>5, <1>6, <1>7, Zenon DEF OneSlotPerAnswer

\* try_submit_work, with the invariant's parts that it can disturb: an
\* accepted request is counted by the fetch_add it came with, a rejected one
\* leaves its fetch_add to be undone.
LEMMA TrySubmitKeepsSlots ==
    ASSUME SlotInvariant, NEW s \in Sinks, NEW r \in Requests,
           NEW onFail \in {"undo1", "undo2"}, TrySubmitWork(s, r, onFail),
           pc[s] \notin {"undo1", "undo2"}, status[r] \in {"unsent", "offered"},
           \A t \in Sinks : t # s /\ pc[t] # "out" => item[t] # r,
           UNCHANGED <<task_queue, worker, found, parkedSenders, out, streamPc>>,
           notified' \in [Sinks -> BOOLEAN]
    PROVE  SlotInvariant'
<1>1. TypeOK /\ ItemsOffered /\ WorkersDisjoint /\ OneSlotPerAnswer /\ CapacityAccounting /\ BoundedWork
  BY Zenon DEF SlotInvariant
<1>2. TypeOK'
  <2>1. pc' \in [Sinks -> SinkPcs]
    <3>1. \E x \in {"out", onFail} : pc' = [pc EXCEPT ![s] = x]
      BY Zenon DEF TrySubmitWork
    <3>2. {"out", onFail} \subseteq SinkPcs
      BY Zenon DEF SinkPcs
    <3> QED
      BY <1>1, <3>1, <3>2, Zenon DEF TypeOK
  <2>2. item' \in [Sinks -> Requests \cup {NoReq}]
    <3>1. \E x \in {NoReq, r} : item' = [item EXCEPT ![s] = x]
      BY Zenon DEF TrySubmitWork
    <3> QED
      BY <1>1, <3>1 DEF TypeOK
  <2>3. status' \in [Requests -> Statuses]
    BY <1>1, Zenon DEF TrySubmitWork, TypeOK, Statuses
  <2>4. cur_capacity' \in Nat
    BY <1>1 DEF TrySubmitWork, TypeOK
  <2>5. /\ task_queue' \in Seq(Sinks) /\ worker' \in [Workers -> Requests \cup {NoReq}]
        /\ found' \in [Requests -> 0 .. MaxFound] /\ out' \in Seq(Messages)
        /\ parkedSenders' \in Seq(Requests) /\ streamPc' \in StreamPcs
    BY <1>1, Zenon DEF TypeOK
  <2> QED
    BY <2>1, <2>2, <2>3, <2>4, <2>5, Zenon DEF TypeOK
<1>3. \A q \in Requests : q # r => status'[q] = status[q]
  BY <1>1, Zenon DEF TrySubmitWork, TypeOK
<1>4. status'[r] \in {"pooled", "offered"}
  BY <1>1, Zenon DEF TrySubmitWork, TypeOK
<1>5. ItemsOffered'
  <2>1. \A t \in Sinks : t # s => pc'[t] = pc[t] /\ item'[t] = item[t]
    BY <1>1, Zenon DEF TrySubmitWork, TypeOK
  <2>2. pc'[s] # "out" => item'[s] = r /\ status'[r] = "offered"
    BY <1>1, Zenon DEF TrySubmitWork, TypeOK
  <2>3. \A t \in Sinks : pc'[t] # "out" => item'[t] \in Requests /\ status'[item'[t]] = "offered"
    BY <1>1, <1>3, <2>1, <2>2 DEF ItemsOffered
  <2>4. \A t, u \in Sinks : pc'[t] # "out" /\ pc'[u] # "out" /\ item'[t] = item'[u] => t = u
    BY <1>1, <2>1, <2>2 DEF ItemsOffered
  <2> QED
    BY <2>3, <2>4, Zenon DEF ItemsOffered
<1>6. WorkersDisjoint'
  BY <1>1, <1>3 DEF WorkersDisjoint, TypeOK
<1>7. OneSlotPerAnswer'
  BY <1>1, <1>3, <1>4, AnswersUntouched, Zenon
<1>8. CapacityAccounting' /\ BoundedWork'
  <2>1. CASE CanSubmit
    <3>1. Holding' = Holding \cup {r} /\ r \notin Holding
      BY <1>1, <2>1 DEF TrySubmitWork, Holding, TypeOK
    <3>2. Overshot' = Overshot
      BY <1>1, <2>1, Zenon DEF TrySubmitWork, Overshot, TypeOK
    <3>3. Cardinality(Holding') = Cardinality(Holding) + 1
      BY <3>1, HoldingFinite, CardAdd, Zenon
    <3>4. cur_capacity < MaxCapacity /\ cur_capacity' = cur_capacity + 1
      BY <2>1, Zenon DEF TrySubmitWork, CanSubmit
    <3> QED
      BY <1>1, <3>2, <3>3, <3>4, HoldingFinite, CapacityIsPos DEF CapacityAccounting, BoundedWork
  <2>2. CASE ~CanSubmit
    <3>1. Holding' = Holding
      BY <1>1, <2>2, Zenon DEF TrySubmitWork, Holding, TypeOK
    <3>2. Overshot' = Overshot \cup {s} /\ s \notin Overshot
      BY <1>1, <2>2, Zenon DEF TrySubmitWork, Overshot, TypeOK
    <3>3. Cardinality(Overshot') = Cardinality(Overshot) + 1
      BY <3>2, HoldingFinite, CardAdd, Zenon
    <3>4. cur_capacity' = cur_capacity + 1
      BY Zenon DEF TrySubmitWork
    <3> QED
      BY <1>1, <3>1, <3>3, <3>4, HoldingFinite DEF CapacityAccounting, BoundedWork
  <2> QED
    BY <2>1, <2>2, Zenon
<1> QED
  BY <1>2, <1>5, <1>6, <1>7, <1>8, Zenon DEF SlotInvariant

\* The fetch_sub after a failed attempt takes back exactly what the attempt
\* added, so the counter is positive before it.
LEMMA UndoKeepsSlots ==
    ASSUME SlotInvariant, NEW s \in Sinks, UndoFirst(s) \/ UndoSecond(s)
    PROVE  SlotInvariant'
<1>1. TypeOK /\ ItemsOffered /\ WorkersDisjoint /\ OneSlotPerAnswer /\ CapacityAccounting /\ BoundedWork
  BY Zenon DEF SlotInvariant
<1>2. UNCHANGED <<item, notified, status, task_queue, worker, found, parkedSenders, out, streamPc>>
  BY Zenon DEF UndoFirst, UndoSecond, poolVars
<1>3. s \in Overshot /\ Overshot' = Overshot \ {s}
  BY <1>1, Zenon DEF UndoFirst, UndoSecond, Overshot, TypeOK
<1>4. Cardinality(Overshot') = Cardinality(Overshot) - 1
  BY <1>3, HoldingFinite, CardRemove, Zenon
<1>5. Cardinality(Overshot) # 0
  BY <1>3, HoldingFinite, FS_EmptySet, Zenon
<1>6. cur_capacity' = cur_capacity - 1
  BY Zenon DEF UndoFirst, UndoSecond
<1>7. Holding' = Holding
  BY <1>2, Zenon DEF Holding
<1>8. CapacityAccounting' /\ BoundedWork' /\ cur_capacity' \in Nat
  BY <1>1, <1>4, <1>5, <1>6, <1>7, HoldingFinite DEF CapacityAccounting, BoundedWork
<1>9. pc' \in [Sinks -> SinkPcs] /\ \A t \in Sinks : pc'[t] # "out" => pc[t] # "out"
  BY <1>1, Zenon DEF UndoFirst, UndoSecond, TypeOK, SinkPcs
<1>10. ItemsOffered'
  BY <1>1, <1>2, <1>9, Zenon DEF ItemsOffered
<1>11. WorkersDisjoint' /\ OneSlotPerAnswer'
  BY <1>1, <1>2 DEF WorkersDisjoint, OneSlotPerAnswer, IsFinal
<1>12. TypeOK'
  BY <1>1, <1>2, <1>8, <1>9, Zenon DEF TypeOK
<1> QED
  BY <1>8, <1>10, <1>11, <1>12, Zenon DEF SlotInvariant

\* Queueing the task, waking a queued task and the end of the loop touch
\* neither the counter nor a request.
LEMMA QueueKeepsSlots ==
    ASSUME SlotInvariant, (\E s \in Sinks : Enqueue(s)) \/ DrainNotify \/ DrainEnd
    PROVE  SlotInvariant'
<1>1. TypeOK /\ ItemsOffered /\ WorkersDisjoint /\ OneSlotPerAnswer /\ CapacityAccounting /\ BoundedWork
  BY Zenon DEF SlotInvariant
<1>2. UNCHANGED <<item, status, cur_capacity, worker, found, parkedSenders, out>>
  BY Zenon DEF Enqueue, DrainNotify, DrainEnd, sinkVars, poolVars
<1>3. pc' \in [Sinks -> SinkPcs]
  BY <1>1, Zenon DEF Enqueue, DrainNotify, DrainEnd, sinkVars, TypeOK, SinkPcs
<1>4. \A t \in Sinks : pc'[t] # "out" => pc[t] # "out"
  BY <1>1, Zenon DEF Enqueue, DrainNotify, DrainEnd, sinkVars, TypeOK
<1>5. Overshot' = Overshot
  BY <1>1, Zenon DEF Enqueue, DrainNotify, DrainEnd, sinkVars, TypeOK, Overshot
<1>6. notified' \in [Sinks -> BOOLEAN]
  <2>1. CASE DrainNotify
    BY <1>1, <2>1, Zenon DEF DrainNotify, TypeOK
  <2>2. CASE ~DrainNotify
    BY <1>1, <2>2, Zenon DEF Enqueue, DrainEnd, sinkVars, TypeOK
  <2> QED
    BY <2>1, <2>2, Zenon
<1>7. task_queue' \in Seq(Sinks)
  <2>1. CASE \E s \in Sinks : Enqueue(s)
    BY <1>1, <2>1 DEF Enqueue, TypeOK
  <2>2. CASE DrainNotify
    BY <1>1, <2>2 DEF DrainNotify, TypeOK
  <2>3. CASE DrainEnd
    BY <1>1, <2>3, Zenon DEF DrainEnd, TypeOK
  <2> QED
    BY <2>1, <2>2, <2>3, Zenon
<1>8. streamPc' \in StreamPcs /\ (streamPc' = "complete" <=> streamPc = "complete")
  BY <1>1, Zenon DEF Enqueue, DrainNotify, DrainEnd, TypeOK, StreamPcs
<1>9. TypeOK'
  BY <1>1, <1>2, <1>3, <1>6, <1>7, <1>8, Zenon DEF TypeOK
<1>10. ItemsOffered'
  BY <1>1, <1>2, <1>4, Zenon DEF ItemsOffered
<1>11. WorkersDisjoint' /\ OneSlotPerAnswer'
  BY <1>1, <1>2, <1>8 DEF WorkersDisjoint, OneSlotPerAnswer, IsFinal
<1>12. Holding' = Holding
  BY <1>2, Zenon DEF Holding
<1>13. CapacityAccounting' /\ BoundedWork'
  BY <1>1, <1>2, <1>5, <1>12, Zenon DEF CapacityAccounting, BoundedWork
<1> QED
  BY <1>9, <1>10, <1>11, <1>13, Zenon DEF SlotInvariant

\* A pool thread takes up a pooled request: the request keeps its slot.
LEMMA ExecuteKeepsSlots ==
    ASSUME SlotInvariant, NEW w \in Workers, Execute(w)
    PROVE  SlotInvariant'
<1>1. TypeOK /\ ItemsOffered /\ WorkersDisjoint /\ OneSlotPerAnswer /\ CapacityAccounting /\ BoundedWork
  BY Zenon DEF SlotInvariant
<1>2. PICK r \in Requests, n \in 0 .. MaxFound :
        /\ status[r] = "pooled"
        /\ status' = [status EXCEPT ![r] = "running"]
        /\ worker' = [worker EXCEPT ![w] = r]
        /\ found' = [found EXCEPT ![r] = n]
  BY Zenon DEF Execute
<1>3. UNCHANGED <<pc, item, notified, cur_capacity, task_queue, out, parkedSenders, streamPc>>
  BY Zenon DEF Execute, sinkVars
<1>4. TypeOK'
  <2>1. status' \in [Requests -> Statuses]
    BY <1>1, <1>2, Zenon DEF TypeOK, Statuses
  <2>2. worker' \in [Workers -> Requests \cup {NoReq}]
    BY <1>1, <1>2, Zenon DEF TypeOK
  <2>3. found' \in [Requests -> 0 .. MaxFound]
    BY <1>1, <1>2, Zenon DEF TypeOK
  <2> QED
    BY <1>1, <1>3, <2>1, <2>2, <2>3, Zenon DEF TypeOK
<1>5. status'[r] = "running" /\ \A q \in Requests : q # r => status'[q] = status[q]
  BY <1>1, <1>2, Zenon DEF TypeOK
<1>6. ItemsOffered'
  BY <1>1, <1>2, <1>3, <1>5 DEF ItemsOffered
<1>7. WorkersDisjoint'
  <2>1. worker'[w] = r /\ \A v \in Workers : v # w => worker'[v] = worker[v]
    BY <1>1, <1>2, Zenon DEF TypeOK
  <2>2. \A v \in Workers : worker[v] # NoReq => worker[v] \in Requests /\ worker[v] # r
    BY <1>1, <1>2, Zenon DEF WorkersDisjoint, TypeOK
  <2>3. (\A v \in Workers : worker[v] # NoReq => status[worker[v]] = "running")'
    BY <1>1, <1>5, <2>1, <2>2 DEF WorkersDisjoint
  <2>4. (\A u, v \in Workers : worker[u] # NoReq /\ worker[u] = worker[v] => u = v)'
    BY <1>1, <2>1, <2>2, Zenon DEF WorkersDisjoint
  <2> QED
    BY <2>3, <2>4, Zenon DEF WorkersDisjoint
<1>8. OneSlotPerAnswer'
  BY <1>1, <1>2, <1>3, <1>5, AnswersUntouched, Zenon
<1>9. Holding' = Holding /\ Overshot' = Overshot
  BY <1>2, <1>3, <1>5, Zenon DEF Holding, Overshot
<1>10. CapacityAccounting' /\ BoundedWork'
  BY <1>1, <1>3, <1>9, Zenon DEF CapacityAccounting, BoundedWork
<1> QED
  BY <1>4, <1>6, <1>7, <1>8, <1>10, Zenon DEF SlotInvariant

\* What a blocking send does to the channel.
LEMMA SendAppends ==
    ASSUME TypeOK, NEW r \in Requests, NEW k \in {"found", "ok", "err"}, SendBlocking(r, k)
    PROVE  /\ out' \in Seq(Messages) /\ parkedSenders' \in Seq(Requests)
           /\ Len(out') = Len(out) + 1 /\ Len(out) \in Nat
           /\ out'[Len(out) + 1] = [req |-> r, kind |-> k]
           /\ \A i \in 1 .. Len(out) : out'[i] = out[i]
<1>1. out \in Seq(Messages) /\ parkedSenders \in Seq(Requests)
  BY Zenon DEF TypeOK
<1>2. [req |-> r, kind |-> k] \in Messages
  BY Zenon DEF Messages
<1>3. out' = Append(out, [req |-> r, kind |-> k])
  BY Zenon DEF SendBlocking
<1>4. parkedSenders' \in Seq(Requests)
  BY <1>1 DEF SendBlocking, ParkedAfterSend
<1> QED
  BY <1>1, <1>2, <1>3, <1>4

\* FoundGoodPiece and FoundBadPiece messages carry no slot.
LEMMA SendPieceStateKeepsSlots ==
    ASSUME SlotInvariant, NEW w \in Workers, SendPieceState(w)
    PROVE  SlotInvariant'
<1>1. TypeOK /\ ItemsOffered /\ WorkersDisjoint /\ OneSlotPerAnswer /\ CapacityAccounting /\ BoundedWork
  BY DEF SlotInvariant
<1>2. worker[w] \in Requests /\ SendBlocking(worker[w], "found")
  BY <1>1, Zenon DEF SendPieceState, TypeOK
<1>3. UNCHANGED <<pc, item, notified, status, cur_capacity, task_queue, worker, streamPc>>
  BY Zenon DEF SendPieceState, sinkVars
<1>4. /\ out' \in Seq(Messages) /\ parkedSenders' \in Seq(Requests)
      /\ Len(out') = Len(out) + 1 /\ Len(out) \in Nat
      /\ out'[Len(out) + 1] = [req |-> worker[w], kind |-> "found"]
      /\ \A i \in 1 .. Len(out) : out'[i] = out[i]
  BY <1>1, <1>2, SendAppends, Zenon
<1>5. found' \in [Requests -> 0 .. MaxFound]
  <2>1. found[worker[w]] \in 0 .. MaxFound /\ found[worker[w]] > 0
    BY <1>1, <1>2, Zenon DEF SendPieceState, TypeOK
  <2>2. found[worker[w]] - 1 \in 0 .. MaxFound
    BY <2>1, MaxFoundNat
  <2> QED
    BY <1>1, <2>2, Zenon DEF SendPieceState, TypeOK
<1>6. TypeOK'
  BY <1>1, <1>3, <1>4, <1>5, Zenon DEF TypeOK
<1>7. ItemsOffered' /\ WorkersDisjoint'
  BY <1>1, <1>3, Zenon DEF ItemsOffered, WorkersDisjoint
<1>8. OneSlotPerAnswer'
  <2>1. \A i \in 1 .. Len(out') : IsFinal(out'[i]) => i \in 1 .. Len(out) /\ IsFinal(out[i]) /\ out'[i] = out[i]
    BY <1>4 DEF IsFinal
  <2>2. (\A i \in 1 .. Len(out) : IsFinal(out[i]) => status[out[i].req] = "answered")'
    BY <1>1, <1>3, <2>1 DEF OneSlotPerAnswer, IsFinal
  <2>3. (\A i, j \in 1 .. Len(out) :
           IsFinal(out[i]) /\ IsFinal(out[j]) /\ out[i].req = out[j].req => i = j)'
    BY <1>1, <2>1 DEF OneSlotPerAnswer, IsFinal
  <2>4. (\A r \in Requests : status[r] = "answered" =>
           \E i \in 1 .. Len(out) : IsFinal(out[i]) /\ out[i].req = r)'
    BY <1>1, <1>3, <1>4 DEF OneSlotPerAnswer, IsFinal
  <2> QED
    BY <1>1, <1>3, <2>2, <2>3, <2>4 DEF OneSlotPerAnswer
<1>9. Holding' = Holding /\ Overshot' = Overshot
  BY <1>3, Zenon DEF Holding, Overshot
<1>10. CapacityAccounting' /\ BoundedWork'
  BY <1>1, <1>3, <1>9, Zenon DEF CapacityAccounting, BoundedWork
<1> QED
  BY <1>6, <1>7, <1>8, <1>10, Zenon DEF SlotInvariant

\* The final message: the slot moves from the running task to the message.
LEMMA SendFinalKeepsSlots ==
    ASSUME SlotInvariant, NEW w \in Workers, SendFinal(w)
    PROVE  SlotInvariant'
<1> DEFINE r == worker[w]
<1>1. TypeOK /\ ItemsOffered /\ WorkersDisjoint /\ OneSlotPerAnswer /\ CapacityAccounting /\ BoundedWork
  BY DEF SlotInvariant
<1>2. r \in Requests /\ status[r] = "running"
  BY <1>1, Zenon DEF SendFinal, TypeOK, WorkersDisjoint
<1>3. PICK k \in {"ok", "err"} : SendBlocking(r, k)
  BY OutcomesKind, Zenon DEF SendFinal
<1>4. UNCHANGED <<pc, item, notified, cur_capacity, task_queue, found, streamPc>>
  BY Zenon DEF SendFinal, sinkVars
<1>5. /\ out' \in Seq(Messages) /\ parkedSenders' \in Seq(Requests)
      /\ Len(out') = Len(out) + 1 /\ Len(out) \in Nat
      /\ out'[Len(out) + 1] = [req |-> r, kind |-> k]
      /\ \A i \in 1 .. Len(out) : out'[i] = out[i]
  BY <1>1, <1>2, <1>3, SendAppends, Zenon
<1>6. status'[r] = "answered" /\ \A q \in Requests : q # r => status'[q] = status[q]
  BY <1>1, <1>2, Zenon DEF SendFinal, TypeOK
<1>7. worker'[w] = NoReq /\ \A v \in Workers : v # w => worker'[v] = worker[v]
  BY <1>1, Zenon DEF SendFinal, TypeOK
<1>8. TypeOK'
  <2>1. status' \in [Requests -> Statuses]
    BY <1>1, Zenon DEF SendFinal, TypeOK, Statuses
  <2>2. worker' \in [Workers -> Requests \cup {NoReq}]
    BY <1>1, Zenon DEF SendFinal, TypeOK
  <2> QED
    BY <1>1, <1>4, <1>5, <2>1, <2>2, Zenon DEF TypeOK
<1>9. ItemsOffered'
  BY <1>1, <1>2, <1>4, <1>6 DEF ItemsOffered
<1>10. WorkersDisjoint'
  <2>1. \A v \in Workers : worker[v] # NoReq => worker[v] \in Requests
    BY <1>1, Zenon DEF TypeOK
  <2>2. \A v \in Workers : worker'[v] # NoReq => v # w /\ worker'[v] = worker[v] /\ worker[v] # r
    BY <1>1, <1>2, <1>7, RequestsFinite, Zenon DEF WorkersDisjoint
  <2> QED
    BY <1>1, <1>6, <1>7, <2>1, <2>2 DEF WorkersDisjoint
<1>11. OneSlotPerAnswer'
  <2>1. \A i \in 1 .. Len(out) : out[i].req \in Requests /\ (IsFinal(out[i]) => out[i].req # r)
    BY <1>1, <1>2, OutElement, Zenon DEF OneSlotPerAnswer
  <2>2. \A i \in 1 .. Len(out') : i \in 1 .. Len(out) \/ i = Len(out) + 1
    BY <1>5
  <2>3. (\A i \in 1 .. Len(out) : IsFinal(out[i]) => status[out[i].req] = "answered")'
    BY <1>1, <1>5, <1>6, <2>1, <2>2 DEF OneSlotPerAnswer, IsFinal
  <2>4. (\A i, j \in 1 .. Len(out) :
           IsFinal(out[i]) /\ IsFinal(out[j]) /\ out[i].req = out[j].req => i = j)'
    BY <1>1, <1>5, <2>1, <2>2 DEF OneSlotPerAnswer, IsFinal
  <2>5. (\A q \in Requests : status[q] = "answered" =>
           \E i \in 1 .. Len(out) : IsFinal(out[i]) /\ out[i].req = q)'
    <3> SUFFICES ASSUME NEW q \in Requests, status'[q] = "answered"
                 PROVE  \E i \in 1 .. Len(out') : IsFinal(out'[i]) /\ out'[i].req = q
      BY Zenon DEF IsFinal
    <3>1. CASE q = r
      BY <1>5, <3>1 DEF IsFinal
    <3>2. CASE q # r
      <4>1. PICK i \in 1 .. Len(out) : IsFinal(out[i]) /\ out[i].req = q
        BY <1>1, <1>6, <3>2, Zenon DEF OneSlotPerAnswer
      <4>2. i \in 1 .. Len(out') /\ out'[i] = out[i]
        BY <1>1, <1>5
      <4> QED
        BY <4>1, <4>2, Zenon DEF IsFinal
    <3> QED
      BY <3>1, <3>2, Zenon
  <2>6. \A q \in Requests : status'[q] = "taken" <=> status[q] = "taken"
    BY <1>2, <1>6, Zenon
  <2> QED
    BY <1>1, <1>4, <2>3, <2>4, <2>5, <2>6 DEF OneSlotPerAnswer
<1>12. Holding' = Holding /\ Overshot' = Overshot
  BY <1>2, <1>4, <1>6, Zenon DEF Holding, Overshot
<1>13. CapacityAccounting' /\ BoundedWork'
  BY <1>1, <1>4, <1>12, Zenon DEF CapacityAccounting, BoundedWork
<1> QED
  BY <1>8, <1>9, <1>10, <1>11, <1>13, Zenon DEF SlotInvariant

\* The stream takes a message: a success becomes the one taken request, an
\* error keeps its slot for ever.
LEMMA StreamRecvKeepsSlots ==
    ASSUME SlotInvariant, StreamRecv
    PROVE  SlotInvariant'
<1> DEFINE m == Head(out)
<1>1. TypeOK /\ ItemsOffered /\ WorkersDisjoint /\ OneSlotPerAnswer /\ CapacityAccounting /\ BoundedWork
  BY Zenon DEF SlotInvariant
<1>2. UNCHANGED <<pc, item, notified, cur_capacity, task_queue, worker, found>>
  BY Zenon DEF StreamRecv, sinkVars
<1>3. out \in Seq(Messages) /\ out # <<>> /\ out' = Tail(out)
  BY <1>1, Zenon DEF TypeOK, StreamRecv
<1>4. /\ out' \in Seq(Messages) /\ Len(out) \in Nat \ {0} /\ Len(out') = Len(out) - 1
      /\ \A i \in 1 .. Len(out') : i + 1 \in 1 .. Len(out) /\ out'[i] = out[i + 1]
      /\ m = out[1] /\ 1 \in 1 .. Len(out)
  BY <1>3
<1>5. m \in Messages /\ m.req \in Requests /\ m.kind \in {"found", "ok", "err"}
  BY <1>1, <1>4, OutElement, Zenon
<1>6. parkedSenders' \in Seq(Requests)
  BY <1>1 DEF StreamRecv, ParkedAfterRecv, TypeOK
<1>7. \A q \in Requests : q # m.req => status'[q] = status[q]
  BY <1>1, <1>5, Zenon DEF StreamRecv, TypeOK
<1>8. status' \in [Requests -> Statuses]
  BY <1>1, <1>5, Zenon DEF StreamRecv, TypeOK, Statuses
<1>9. streamPc' \in StreamPcs
  BY Zenon DEF StreamRecv, StreamPcs
<1>10. TypeOK'
  BY <1>1, <1>2, <1>4, <1>6, <1>8, <1>9, Zenon DEF TypeOK
<1>11. \A q \in Requests : status[q] # "taken"
  BY <1>1, Zenon DEF StreamRecv, OneSlotPerAnswer
<1>once. (\A i, j \in 1 .. Len(out) :
           IsFinal(out[i]) /\ IsFinal(out[j]) /\ out[i].req = out[j].req => i = j)'
  <2> SUFFICES ASSUME NEW i \in 1 .. Len(out'), NEW j \in 1 .. Len(out'),
                      IsFinal(out'[i]), IsFinal(out'[j]), out'[i].req = out'[j].req
               PROVE  i = j
    BY Zenon DEF IsFinal
  <2>1. /\ i + 1 \in 1 .. Len(out) /\ out'[i] = out[i + 1]
        /\ j + 1 \in 1 .. Len(out) /\ out'[j] = out[j + 1]
    BY <1>4, Zenon
  <2>2. IsFinal(out[i + 1]) /\ IsFinal(out[j + 1]) /\ out[i + 1].req = out[j + 1].req
    BY <2>1, Zenon
  <2>3. i + 1 = j + 1
    BY <1>1, <2>1, <2>2 DEF OneSlotPerAnswer
  <2> QED
    BY <2>3
<1>12. CASE m.kind = "found"
  <2>1. status' = status /\ streamPc' = "poll"
    BY <1>12, Zenon DEF StreamRecv
  <2>2. ItemsOffered' /\ WorkersDisjoint'
    BY <1>1, <1>2, <2>1, Zenon DEF ItemsOffered, WorkersDisjoint
  <2>3. ~IsFinal(out[1])
    BY <1>4, <1>12, Zenon DEF IsFinal
  <2>4. (\A i \in 1 .. Len(out) : IsFinal(out[i]) => status[out[i].req] = "answered")'
    BY <1>1, <1>4, <2>1 DEF OneSlotPerAnswer, IsFinal
  <2>6. (\A r \in Requests : status[r] = "answered" =>
           \E i \in 1 .. Len(out) : IsFinal(out[i]) /\ out[i].req = r)'
    <3> SUFFICES ASSUME NEW r \in Requests, status[r] = "answered"
                 PROVE  \E i \in 1 .. Len(out') : IsFinal(out'[i]) /\ out'[i].req = r
      BY <2>1, Zenon
    <3>1. PICK j \in 1 .. Len(out) : IsFinal(out[j]) /\ out[j].req = r
      BY <1>1, Zenon DEF OneSlotPerAnswer
    <3>2. j # 1
      BY <2>3, <3>1, Zenon
    <3>3. j - 1 \in 1 .. Len(out') /\ out'[j - 1] = out[j]
      BY <1>4, <3>2
    <3> QED
      BY <3>1, <3>3, Zenon
  <2>7. OneSlotPerAnswer'
    BY <1>11, <1>once, <2>1, <2>4, <2>6, Zenon DEF OneSlotPerAnswer
  <2>8. Holding' = Holding /\ Overshot' = Overshot
    BY <1>2, <2>1, Zenon DEF Holding, Overshot
  <2>9. CapacityAccounting' /\ BoundedWork'
    BY <1>1, <1>2, <2>8, Zenon DEF CapacityAccounting, BoundedWork
  <2> QED
    BY <1>10, <2>2, <2>7, <2>9, Zenon DEF SlotInvariant
<1>13. CASE m.kind \in {"ok", "err"}
  <2>1. IsFinal(out[1]) /\ status[m.req] = "answered"
    BY <1>1, <1>4, <1>13, Zenon DEF IsFinal, OneSlotPerAnswer
  <2>2. /\ m.kind = "ok" => status'[m.req] = "taken" /\ streamPc' = "complete"
        /\ m.kind = "err" => status'[m.req] = "leaked" /\ streamPc' = "poll"
    BY <1>1, <1>5, <1>13, Zenon DEF StreamRecv, TypeOK
  <2>3. ItemsOffered'
    BY <1>1, <1>2, <1>7, <2>1 DEF ItemsOffered
  <2>4. WorkersDisjoint'
    <3>1. \A v \in Workers : worker[v] # NoReq => worker[v] \in Requests /\ worker[v] # m.req
      BY <1>1, <2>1, Zenon DEF TypeOK, WorkersDisjoint
    <3> QED
      BY <1>1, <1>2, <1>7, <3>1, Zenon DEF WorkersDisjoint
  <2>5. \A i \in 1 .. Len(out') : IsFinal(out'[i]) => out'[i].req \in Requests /\ out'[i].req # m.req
    BY <1>1, <1>4, <2>1, OutElement DEF OneSlotPerAnswer
  <2>6. (\A i \in 1 .. Len(out) : IsFinal(out[i]) => status[out[i].req] = "answered")'
    BY <1>1, <1>4, <1>7, <2>5 DEF OneSlotPerAnswer, IsFinal
  <2>8. (\A r \in Requests : status[r] = "answered" =>
           \E i \in 1 .. Len(out) : IsFinal(out[i]) /\ out[i].req = r)'
    <3> SUFFICES ASSUME NEW r \in Requests, status'[r] = "answered"
                 PROVE  \E i \in 1 .. Len(out') : IsFinal(out'[i]) /\ out'[i].req = r
      BY Zenon
    <3>1. r # m.req /\ status[r] = "answered"
      BY <1>5, <1>7, <1>13, <2>2, Zenon
    <3>2. PICK j \in 1 .. Len(out) : IsFinal(out[j]) /\ out[j].req = r
      BY <1>1, <3>1, Zenon DEF OneSlotPerAnswer
    <3>3. j # 1
      BY <1>4, <3>1, <3>2, Zenon
    <3>4. j - 1 \in 1 .. Len(out') /\ out'[j - 1] = out[j]
      BY <1>4, <3>3
    <3> QED
      BY <3>2, <3>4, Zenon
  <2>9. \A q \in Requests : status'[q] = "taken" <=> q = m.req /\ m.kind = "ok"
    BY <1>5, <1>7, <1>11, <1>13, <2>2, Zenon
  <2>10. OneSlotPerAnswer'
    BY <1>5, <1>13, <1>once, <2>2, <2>6, <2>8, <2>9, Zenon DEF OneSlotPerAnswer
  <2>11. Holding' = Holding /\ Overshot' = Overshot
    BY <1>2, <1>5, <1>7, <1>13, <2>1, <2>2, Zenon DEF Holding, Overshot
  <2>12. CapacityAccounting' /\ BoundedWork'
    BY <1>1, <1>2, <2>11 DEF CapacityAccounting, BoundedWork
  <2> QED
    BY <1>10, <2>3, <2>4, <2>10, <2>12, Zenon DEF SlotInvariant
<1> QED
  BY <1>5, <1>12, <1>13, Zenon

\* complete_work gives back the slot of the one taken request.
LEMMA CompleteWorkKeepsSlots ==
    ASSUME SlotInvariant, CompleteWork
    PROVE  SlotInvariant'
<1>1. TypeOK /\ ItemsOffered /\ WorkersDisjoint /\ OneSlotPerAnswer /\ CapacityAccounting /\ BoundedWork
  BY DEF SlotInvariant
<1>2. UNCHANGED <<pc, item, notified, task_queue, worker, found, parkedSenders, out>>
  BY Zenon DEF CompleteWork, sinkVars, poolVars
<1>3. PICK r \in Requests : status[r] = "taken"
  BY <1>1, Zenon DEF CompleteWork, OneSlotPerAnswer
<1>4. \A q \in Requests : q # r => status[q] # "taken"
  BY <1>1, <1>3, Zenon DEF OneSlotPerAnswer
<1>5. status'[r] = "done" /\ \A q \in Requests : q # r => status'[q] = status[q]
  BY <1>3, <1>4, Zenon DEF CompleteWork
<1>6. streamPc' = "drain" /\ cur_capacity' = cur_capacity - 1
  BY Zenon DEF CompleteWork
<1>7. r \in Holding /\ Holding' = Holding \ {r}
  BY <1>3, <1>5, Zenon DEF Holding
<1>8. Overshot' = Overshot
  BY <1>2, Zenon DEF Overshot
<1>9. Cardinality(Holding') = Cardinality(Holding) - 1
  BY <1>7, HoldingFinite, CardRemove, Zenon
<1>10. Cardinality(Holding) # 0
  BY <1>7, HoldingFinite, FS_EmptySet, Zenon
<1>11. CapacityAccounting' /\ BoundedWork' /\ cur_capacity' \in Nat
  BY <1>1, <1>6, <1>8, <1>9, <1>10, HoldingFinite, CapacityIsPos DEF CapacityAccounting, BoundedWork
<1>12. status' \in [Requests -> Statuses]
  BY <1>1, Zenon DEF CompleteWork, TypeOK, Statuses
<1>13. TypeOK'
  BY <1>1, <1>2, <1>6, <1>11, <1>12, Zenon DEF TypeOK, StreamPcs
<1>14. ItemsOffered'
  BY <1>1, <1>2, <1>3, <1>5 DEF ItemsOffered
<1>15. WorkersDisjoint'
  <2>1. \A v \in Workers : worker[v] # NoReq => worker[v] \in Requests /\ worker[v] # r
    BY <1>1, <1>3, Zenon DEF TypeOK, WorkersDisjoint
  <2> QED
    BY <1>1, <1>2, <1>5, <2>1, Zenon DEF WorkersDisjoint
<1>16. OneSlotPerAnswer'
  <2>1. \A q \in Requests : status'[q] # "taken" /\ (status'[q] = "answered" <=> status[q] = "answered")
    BY <1>3, <1>4, <1>5, Zenon
  <2>2. \A i \in 1 .. Len(out) : out[i].req \in Requests
    BY <1>1, OutElement, Zenon
  <2> QED
    BY <1>1, <1>2, <1>6, <2>1, <2>2 DEF OneSlotPerAnswer, IsFinal
<1> QED
  BY <1>11, <1>13, <1>14, <1>15, <1>16, Zenon DEF SlotInvariant

\* The three places where a sink calls try_submit_work.
LEMMA SubmitKeepsSlots ==
    ASSUME SlotInvariant, NEW s \in Sinks, StartSend(s) \/ Repoll(s) \/ TrySecond(s)
    PROVE  SlotInvariant'
<1>1. TypeOK /\ ItemsOffered
  BY Zenon DEF SlotInvariant
<1>2. CASE StartSend(s)
  <2>1. PICK r \in Requests : status[r] = "unsent" /\ TrySubmitWork(s, r, "undo1")
    BY <1>2, Zenon DEF StartSend
  <2>2. UNCHANGED <<task_queue, worker, found, parkedSenders, out, streamPc>>
    BY <1>2, Zenon DEF StartSend, poolVars
  <2>3. notified' \in [Sinks -> BOOLEAN] /\ pc[s] \notin {"undo1", "undo2"}
    BY <1>1, <1>2, Zenon DEF StartSend, TypeOK
  <2>4. \A t \in Sinks : t # s /\ pc[t] # "out" => item[t] # r
    BY <1>1, <2>1, Zenon DEF ItemsOffered
  <2> QED
    BY <2>1, <2>2, <2>3, <2>4, TrySubmitKeepsSlots
<1>3. ASSUME pc[s] # "out"
      PROVE  /\ item[s] \in Requests /\ status[item[s]] = "offered"
             /\ \A t \in Sinks : t # s /\ pc[t] # "out" => item[t] # item[s]
  BY <1>1, <1>3, Zenon DEF ItemsOffered
<1>4. CASE Repoll(s)
  <2>1. pc[s] = "parked" /\ TrySubmitWork(s, item[s], "undo1")
    BY <1>4, Zenon DEF Repoll
  <2>2. UNCHANGED <<task_queue, worker, found, parkedSenders, out, streamPc>>
    BY <1>4, Zenon DEF Repoll, poolVars
  <2>3. notified' \in [Sinks -> BOOLEAN]
    BY <1>1, <1>4, Zenon DEF Repoll, TypeOK
  <2> QED
    BY <1>3, <2>1, <2>2, <2>3, TrySubmitKeepsSlots
<1>5. CASE TrySecond(s)
  <2>1. pc[s] = "try2" /\ TrySubmitWork(s, item[s], "undo2")
    BY <1>5, Zenon DEF TrySecond
  <2>2. UNCHANGED <<task_queue, worker, found, parkedSenders, out, streamPc>>
    BY <1>5, Zenon DEF TrySecond, poolVars
  <2>3. notified' \in [Sinks -> BOOLEAN]
    BY <1>1, <1>5, Zenon DEF TrySecond, TypeOK
  <2> QED
    BY <1>3, <2>1, <2>2, <2>3, TrySubmitKeepsSlots
<1> QED
  BY <1>2, <1>4, <1>5, Zenon

\* from_builder starts with an empty pool, channel and queue.
LEMMA InitSlots ==
    ASSUME Init
    PROVE  SlotInvariant
<1>1. TypeOK
  BY MaxFoundNat DEF Init, TypeOK, SinkPcs, Statuses, StreamPcs
<1>2. ItemsOffered /\ WorkersDisjoint
  BY RequestsFinite, Zenon DEF Init, ItemsOffered, WorkersDisjoint
<1>3. OneSlotPerAnswer
  BY DEF Init, OneSlotPerAnswer
<1>4. Holding = {} /\ Overshot = {}
  BY Zenon DEF Init, Holding, Overshot
<1>5. CapacityAccounting /\ BoundedWork
  BY <1>4, FS_EmptySet, CapacityIsPos DEF Init, CapacityAccounting, BoundedWork
<1> QED
  BY <1>1, <1>2, <1>3, <1>5, Zenon DEF SlotInvariant

\* A step that changes nothing keeps the invariant.
LEMMA StutterKeepsSlots ==
    ASSUME SlotInvariant, UNCHANGED vars
    PROVE  SlotInvariant'
<1>1. UNCHANGED <<pc, item, notified, status, cur_capacity, task_queue, worker, found,
                  out, parkedSenders, streamPc>>
  BY Zenon DEF vars
<1>2. TypeOK' /\ ItemsOffered' /\ WorkersDisjoint'
  BY <1>1, Zenon DEF SlotInvariant, TypeOK, ItemsOffered, WorkersDisjoint
<1>3. OneSlotPerAnswer'
  BY <1>1, AnswersUntouched, Zenon DEF SlotInvariant
<1>4. CapacityAccounting' /\ BoundedWork'
  BY <1>1, Zenon DEF SlotInvariant, CapacityAccounting, BoundedWork, Holding, Overshot
<1> QED
  BY <1>2, <1>3, <1>4, Zenon DEF SlotInvariant

\* The slot invariant of the disk manager (manager.rs, try_submit_work and
\* complete_work): in every interleaving of the sinks' fetch_add/fetch_sub
\* pairs, the pool and the stream.
THEOREM SlotsInvariant == Spec => []SlotInvariant
<1>1. Init => SlotInvariant
  BY InitSlots, Zenon
<1>2. SlotInvariant /\ [Next]_vars => SlotInvariant'
  <2> SUFFICES ASSUME SlotInvariant, [Next]_vars
               PROVE  SlotInvariant'
    BY Zenon
  <2>1. ASSUME NEW s \in Sinks, StartSend(s) \/ SinkStep(s)
        PROVE  SlotInvariant'
    BY <2>1, SubmitKeepsSlots, UndoKeepsSlots, QueueKeepsSlots, Zenon DEF SinkStep
  <2>2. ASSUME NEW w \in Workers, WorkerStep(w)
        PROVE  SlotInvariant'
    BY <2>2, ExecuteKeepsSlots, SendPieceStateKeepsSlots, SendFinalKeepsSlots, Zenon DEF WorkerStep
  <2>3. CASE StreamStep
    BY <2>3, StreamRecvKeepsSlots, CompleteWorkKeepsSlots, QueueKeepsSlots, Zenon DEF StreamStep
  <2>4. CASE UNCHANGED vars
    BY <2>4, StutterKeepsSlots, Zenon
  <2> QED
    BY <2>1, <2>2, <2>3, <2>4, Zenon DEF Next
<1> QED
  BY <1>1, <1>2, PTL DEF Spec

\* Type correctness; in particular no fetch_sub wraps cur_capacity around.
THEOREM TypeCorrect == Spec => []TypeOK
<1>1. SlotInvariant => TypeOK
  BY Zenon DEF SlotInvariant
<1> QED
  BY <1>1, SlotsInvariant, PTL

\* cur_capacity counts the slots in use and the overshoots to be undone.
THEOREM CapacityIsAccounted == Spec => []CapacityAccounting
<1>1. SlotInvariant => CapacityAccounting
  BY Zenon DEF SlotInvariant
<1> QED
  BY <1>1, SlotsInvariant, PTL

\* Never more than sink_buffer_capacity requests are accepted and not
\* completed, for any number of sink clones racing in start_send.
THEOREM WorkIsBounded == Spec => []BoundedWork
<1>1. SlotInvariant => BoundedWork
  BY Zenon DEF SlotInvariant
<1> QED
  BY <1>1, SlotsInvariant, PTL

\* The stream's complete_work gives back exactly the slot of the request whose
\* final message it took.
THEOREM SlotsGivenBackOnce == Spec => []OneSlotPerAnswer
<1>1. SlotInvariant => OneSlotPerAnswer
  BY Zenon DEF SlotInvariant
<1> QED
  BY <1>1, SlotsInvariant, PTL
=============================================================================
