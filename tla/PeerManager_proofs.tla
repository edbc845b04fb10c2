------------------------- MODULE PeerManager_proofs -------------------------
(***************************************************************************)
(* What bip_peer's manager and the tasks of its peers keep true, for every *)
(* set of peers, every capacity and every number of sessions and messages: *)
(* ManagerInvariant is inductive, and the three properties of PeerManager  *)
(* about what the client sees and about the map follow from it.  The steps *)
(* of the tasks are in PeerTask_proofs; here are those of the client's two *)
(* ends, the sink and the stream.                                          *)
(***************************************************************************)
EXTENDS PeerTask_proofs, FiniteSetTheorems

\* Leaves that Zenon proves say so; the others are for the SMT solver.
USE SMTT(30)

-----------------------------------------------------------------------------
(* The sink. *)

\* AddPeer begins a session about which nothing has been reported.
LEMMA AddPeerStep ==
    ASSUME ManagerInvariant, NEW i \in Infos, AddPeer(i)
    PROVE  ManagerInvariant'
<1>1. /\ TypeOK /\ TaskOK(i) /\ ShutdownOK(i) /\ HistoryOK(i) /\ session[i] \in Nat
  BY PeerFacts, Zenon
<1>2. /\ i \notin peers /\ peers' = peers \cup {i}
      /\ task' = [task EXCEPT ![i] = [Ended EXCEPT !.pc = "adding"]]
      /\ session' = [session EXCEPT ![i] = @ + 1]
      /\ toTask' = [toTask EXCEPT ![i] = <<>>]
      /\ toTaskParked' = [toTaskParked EXCEPT ![i] = FALSE]
      /\ accepted' = [accepted EXCEPT ![i] = <<>>]
      /\ written' = [written EXCEPT ![i] = <<>>]
      /\ incoming' = [incoming EXCEPT ![i] = <<>>]
      /\ UNCHANGED <<poisoned, out, streamVars>>
  BY Zenon DEF AddPeer
<1>3. Silent
  BY <1>2, QuietStep, Zenon
<1>4. [Ended EXCEPT !.pc = "adding"] = [pc |-> "adding", turn |-> NoTurn, queued |-> None]
  BY DEF Ended
<1>5. NoTurn \in Turns /\ [pc |-> "adding", turn |-> NoTurn, queued |-> None] \in Tasks
  BY Zenon DEF NoTurn, Turn, Turns, Tasks, Acks, NoId
<1>6. TypeOK'
  <2>1. session' \in [Infos -> Nat] /\ \A j \in Infos : session[j] <= session'[j]
    BY <1>1, <1>2 DEF TypeOK
  <2>2. \A k \in DOMAIN Reported' : Reported'[k].session \in 1 .. session'[Reported'[k].info]
    BY <1>1, <1>3, <2>1, SessionNumbers
  <2>3. task' \in [Infos -> Tasks]
    BY <1>1, <1>2, <1>4, <1>5 DEF TypeOK
  <2>4. toTask' \in [Infos -> Seq(TaskMessages)] /\ \A j \in Infos : Len(toTask'[j]) <= SinkCap + 1
    BY <1>1, <1>2, PeerChannelCaps DEF TypeOK
  <2>5. /\ accepted' \in [Infos -> Seq(Nat)] /\ written' \in [Infos -> Seq(Nat)]
        /\ incoming' \in [Infos -> Seq(Nat)]
    BY <1>1, <1>2 DEF TypeOK
  <2> QED
    BY <1>1, <1>2, <2>1, <2>2, <2>3, <2>4, <2>5 DEF TypeOK, streamVars
<1>7. Cardinality(peers') <= PeerCapacity
  <2>1. IsFiniteSet(peers)
    BY <1>1, InfosFinite, FS_Subset, Zenon DEF TypeOK
  <2>2. Cardinality(peers) \in Nat /\ Cardinality(peers') = Cardinality(peers) + 1
    BY <1>2, <2>1, FS_CardinalityType, FS_AddElement, Zenon
  <2>3. Cardinality(peers) < PeerCapacity
    BY Zenon DEF AddPeer, CanAdd
  <2> QED
    BY <2>2, <2>3, PeerCapacityNat
<1>8. /\ task'[i].pc = "adding" /\ task'[i].turn = NoTurn /\ session'[i] = session[i] + 1
      /\ toTask'[i] = <<>> /\ accepted'[i] = <<>> /\ written'[i] = <<>> /\ incoming'[i] = <<>>
  BY <1>1, <1>2, <1>4, Zenon DEF TypeOK
<1>9. task[i].pc = "ended" /\ ~Open(i, Len(Reported)) /\ Shutdowns(i) = {}
  <2>1. task[i].pc = "ended"
    BY <1>1, <1>2, Zenon DEF TaskOK
  <2> QED
    BY <1>1, <1>2, <2>1, Zenon DEF TaskOK, ShutdownOK
<1>10. TaskOK(i)'
  <2>1. ~Open(i, Len(Reported))'
    BY <1>3, <1>9, OpenStays, Zenon
  <2> QED
    BY <1>1, <1>2, <1>8, <2>1, PeerChannelCaps DEF TaskOK, TypeOK
<1>11. ShutdownOK(i)'
  <2>1. Shutdowns(i)' = {}
    BY <1>3, <1>9, Zenon DEF Shutdowns, Silent
  <2> QED
    BY <1>8, <2>1, Zenon DEF ShutdownOK
<1>12. HistoryOK(i)'
  <2>1. ASSUME NEW kind PROVE CarryUpTo(Messages(i, kind), 0)'
    <3>1. Messages(i, kind)' = {}
      <4>1. \A k \in DOMAIN Reported : Reported[k].info = i => Reported[k].session \in 1 .. session[i]
        BY <1>1, Zenon DEF TypeOK
      <4>2. \A k \in DOMAIN Reported : Reported[k].info = i => Reported[k].session # session'[i]
        BY <1>1, <1>8, <4>1
      <4> QED
        BY <1>3, <4>2, Zenon DEF Messages, Silent
    <3> QED
      BY <3>1 DEF CarryUpTo
  <2>2. Taken(i)' = 0 /\ Sends(i)' = {}
    BY <1>8 DEF Taken, Sends, NoTurn, Turn
  <2>3. QueueOK(i)'
    BY <1>8, <2>2 DEF QueueOK
  <2>4. SentOK(i)'
    <3>1. task'[i].turn.ack.kind # "SentMessage" /\ Len(written'[i]) = 0
      BY <1>8 DEF NoTurn, Turn, NoAck
    <3>2. CarryUpTo(Messages(i, "SentMessage"), 0)'
      BY <2>1, Zenon
    <3> QED
      BY <3>1, <3>2, Zenon DEF SentOK, CarryUpTo
  <2>5. ReceivedOK(i)'
    BY <1>8, <2>1 DEF ReceivedOK, NoTurn, Turn
  <2> QED
    BY <1>8, <2>3, <2>4, <2>5 DEF HistoryOK, Numbered
<1>13. \A j \in Infos \ {i} : Same(j) /\ (j \in peers' <=> j \in peers)
  BY <1>1, <1>2, Zenon DEF Same, TypeOK
<1> QED
  BY <1>2, <1>3, <1>6, <1>7, <1>10, <1>11, <1>12, <1>13, PeerStep, Zenon DEF streamVars

\* A message at the end of the channel to the task.
LEMMA QueueGrows ==
    ASSUME NEW i, toTask[i] \in Seq(TaskMessages), NEW m \in TaskMessages, toTask'[i] = Append(toTask[i], m)
    PROVE  /\ Sends(i)' = Sends(i) \cup (IF m.kind = "SendMessage" THEN {Len(toTask[i]) + 1} ELSE {})
           /\ toTask'[i][Len(toTask[i]) + 1] = m
           /\ \A k \in Sends(i) : toTask'[i][k] = toTask[i][k] /\ k \in 1 .. Len(toTask[i])
<1>1. /\ Len(toTask[i]) \in Nat
      /\ DOMAIN (toTask'[i]) = 1 .. Len(toTask[i]) + 1
      /\ toTask'[i][Len(toTask[i]) + 1] = m
      /\ \A k \in 1 .. Len(toTask[i]) : toTask'[i][k] = toTask[i][k]
  OBVIOUS
<1>2. DOMAIN (toTask[i]) = 1 .. Len(toTask[i])
  OBVIOUS
<1> QED
  BY <1>1, <1>2 DEF Sends

\* RemovePeer and SendMessage add to the channel of a task that runs, or panic.
LEMMA SendStep ==
    ASSUME ManagerInvariant, NEW i \in Infos, RemovePeer(i) \/ SendMessage(i)
    PROVE  ManagerInvariant'
<1> DEFINE q == toTask[i]
           n == Len(accepted[i])
<1>1. /\ TypeOK /\ TaskOK(i) /\ ShutdownOK(i) /\ HistoryOK(i) /\ session[i] \in Nat
      /\ q \in Seq(TaskMessages) /\ Len(q) \in Nat /\ accepted[i] \in Seq(Nat) /\ n \in Nat /\ Taken(i) \in Nat
  BY PeerFacts
<1>2. PICK m \in TaskMessages :
        /\ m.kind = "SendMessage" => m.id = Len(accepted[i]) + 1
        /\ SendToTask(i, m)
        /\ UNCHANGED <<peers, task, out, streamVars, session, written, incoming>>
        /\ accepted' = IF m.kind = "SendMessage" /\ ~poisoned' THEN [accepted EXCEPT ![i] = Append(@, m.id)] ELSE accepted
  <2>1. CASE RemovePeer(i)
    <3>1. [kind |-> "RemovePeer", id |-> NoId] \in TaskMessages
      BY Zenon DEF TaskMessages, NoId
    <3> QED
      BY <2>1, <3>1, Zenon DEF RemovePeer
  <2>2. CASE SendMessage(i)
    <3>1. [kind |-> "SendMessage", id |-> Len(accepted[i]) + 1] \in TaskMessages
      BY <1>1 DEF TaskMessages
    <3>2. accepted' = IF poisoned' THEN accepted ELSE [accepted EXCEPT ![i] = Append(@, Len(accepted[i]) + 1)]
      BY <1>1, <2>2, Zenon DEF SendMessage, TypeOK
    <3> QED
      BY <2>2, <3>1, <3>2, Zenon DEF SendMessage
  <2> QED
    BY <2>1, <2>2, Zenon
<1>3. Silent
  BY <1>2, QuietStep, Zenon
<1>4. Cardinality(peers') <= PeerCapacity /\ opt_pending' = opt_pending
  BY <1>2, Zenon DEF ManagerInvariant, streamVars
<1>5. \A k \in DOMAIN Reported' : Reported'[k].session \in 1 .. session'[Reported'[k].info]
  BY <1>1, <1>2, <1>3, Zenon DEF TypeOK, Silent
<1>6. CASE Gone(i)
  <2>1. poisoned' = TRUE /\ UNCHANGED <<toTask, toTaskParked, accepted>>
    BY <1>2, <1>6, Zenon DEF SendToTask
  <2>2. TypeOK'
    BY <1>1, <1>2, <1>5, <2>1 DEF TypeOK, streamVars
  <2>3. \A j \in Infos : Same(j) /\ (j \in peers' <=> j \in peers)
    BY <1>2, <2>1, Zenon DEF Same
  <2>4. TaskOK(i)' /\ ShutdownOK(i)' /\ HistoryOK(i)'
    BY <1>1, <1>3, <2>3, PeerStays, Zenon
  <2> QED
    BY <1>3, <1>4, <2>2, <2>3, <2>4, PeerStep, Zenon
<1>7. CASE ~Gone(i)
  <2>1. /\ ~toTaskParked[i] /\ poisoned' = poisoned /\ ~poisoned
        /\ toTask' = [toTask EXCEPT ![i] = Append(@, m)]
        /\ toTaskParked' = [toTaskParked EXCEPT ![i] = Len(toTask[i]) + 1 > SinkCap]
    BY <1>2, <1>7, Zenon DEF SendToTask
  <2>2. /\ toTask'[i] = Append(q, m) /\ Len(toTask'[i]) = Len(q) + 1
        /\ toTaskParked'[i] = (Len(q) + 1 > SinkCap)
        /\ Len(q) <= SinkCap
    BY <1>1, <2>1 DEF TypeOK, TaskOK
  <2>3. /\ accepted' \in [Infos -> Seq(Nat)]
        /\ m.kind = "SendMessage" => accepted'[i] = Append(accepted[i], n + 1)
        /\ m.kind # "SendMessage" => accepted'[i] = accepted[i]
        /\ \A j \in Infos \ {i} : accepted'[j] = accepted[j]
    BY <1>1, <1>2, <2>1 DEF TypeOK, TaskMessages
  <2>4. TypeOK'
    <3>1. toTask' \in [Infos -> Seq(TaskMessages)]
      BY <1>1, <2>1 DEF TypeOK
    <3>2. toTaskParked' \in [Infos -> BOOLEAN]
      BY <1>1, <2>1 DEF TypeOK
    <3>3. \A j \in Infos : Len(toTask'[j]) <= SinkCap + 1
      BY <1>1, <2>1, <2>2, PeerChannelCaps DEF TypeOK
    <3> QED
      BY <1>1, <1>2, <1>5, <2>1, <2>3, <3>1, <3>2, <3>3, Zenon DEF TypeOK, streamVars
  <2>5. \A j \in Infos \ {i} : Same(j) /\ (j \in peers' <=> j \in peers)
    BY <1>1, <1>2, <2>1, <2>3, Zenon DEF Same, TypeOK
  <2>6. TaskOK(i)'
    <3>1. Open(i, Len(Reported))' <=> Open(i, Len(Reported))
      BY <1>3, OpenStays, Zenon
    <3>2. toTaskParked'[i] \/ Len(toTask'[i]) <= SinkCap
      <4>1. CASE Len(q) + 1 > SinkCap
        BY <2>2, <4>1, Zenon
      <4>2. CASE Len(q) + 1 <= SinkCap
        BY <2>2, <4>2, Zenon
      <4> QED
        BY <1>1, <4>1, <4>2, PeerChannelCaps
    <3> QED
      BY <1>1, <1>2, <3>1, <3>2, Zenon DEF TaskOK
  <2>7. ShutdownOK(i)'
    BY <1>1, <1>2, <1>3 DEF ShutdownOK, Shutdowns, Silent
  <2>8. HistoryOK(i)'
    <3>1. Taken(i)' = Taken(i) /\ ~Gone(i)'
      BY <1>2, <1>7, Zenon DEF Taken, Gone
    <3>2. SentOK(i)' /\ ReceivedOK(i)'
      BY <1>1, <1>2, <1>3, <3>1, SentSilent, ReceivedSilent, Zenon DEF HistoryOK
    <3>3. /\ Sends(i)' = Sends(i) \cup (IF m.kind = "SendMessage" THEN {Len(q) + 1} ELSE {})
          /\ toTask'[i][Len(q) + 1] = m
          /\ \A k \in Sends(i) : toTask'[i][k] = toTask[i][k] /\ k \in 1 .. Len(q)
      BY <1>1, <2>2, QueueGrows, Zenon
    <3>4. QueueOK(i)
      BY <1>1, <1>7, Zenon DEF HistoryOK
    <3>5. CASE m.kind = "SendMessage"
      <4>1. accepted'[i] = Append(accepted[i], n + 1) /\ Len(accepted'[i]) = n + 1
        BY <1>1, <2>3, <3>5
      <4>2. m.id = n + 1
        BY <1>2, <3>5, Zenon
      <4>3. Numbered(accepted'[i])
        BY <1>1, <4>1 DEF HistoryOK, Numbered
      <4>4. {toTask'[i][k].id : k \in Sends(i)'} = Taken(i) + 1 .. n + 1
        <5>1. {toTask'[i][k].id : k \in Sends(i)'} = {toTask[i][k].id : k \in Sends(i)} \cup {n + 1}
          BY <3>3, <3>5, <4>2, Zenon
        <5>2. {toTask[i][k].id : k \in Sends(i)} = Taken(i) + 1 .. n /\ Taken(i) <= n
          BY <3>4, Zenon DEF QueueOK
        <5>3. (Taken(i) + 1 .. n) \cup {n + 1} = Taken(i) + 1 .. n + 1
          BY <1>1, <5>2
        <5> QED
          BY <5>1, <5>2, <5>3, Zenon
      <4>5. ASSUME NEW j \in Sends(i)', NEW k \in Sends(i)', j < k
            PROVE  toTask'[i][j].id < toTask'[i][k].id
        <5>1. j \in Sends(i)
          BY <1>1, <3>3, <3>5, <4>5
        <5>2. CASE k \in Sends(i)
          BY <3>3, <3>4, <4>5, <5>1, <5>2 DEF QueueOK
        <5>3. CASE k = Len(q) + 1
          <6>1. toTask[i][j].id \in Taken(i) + 1 .. n
            BY <3>4, <5>1, Zenon DEF QueueOK
          <6>2. toTask'[i][j].id = toTask[i][j].id /\ toTask'[i][k].id = n + 1
            BY <3>3, <3>5, <4>2, <5>1, <5>3
          <6> QED
            BY <1>1, <6>1, <6>2
        <5> QED
          BY <3>3, <3>5, <5>2, <5>3, Zenon
      <4>6. QueueOK(i)'
        BY <1>1, <3>1, <3>4, <4>1, <4>4, <4>5 DEF QueueOK
      <4>7. Len(written[i]) <= Len(accepted'[i])
        <5>1. Len(written[i]) \in Nat
          BY PeerFacts
        <5> QED
          BY <1>1, <4>1, <5>1 DEF HistoryOK
      <4> QED
        BY <1>1, <1>2, <3>2, <4>3, <4>6, <4>7 DEF HistoryOK
    <3>6. CASE m.kind # "SendMessage"
      <4>1. Sends(i)' = Sends(i) /\ accepted'[i] = accepted[i]
        BY <2>3, <3>3, <3>6, Zenon
      <4>2. QueueOK(i)'
        BY <3>1, <3>3, <3>4, <4>1 DEF QueueOK
      <4> QED
        BY <1>1, <1>2, <3>2, <4>1, <4>2, Zenon DEF HistoryOK
    <3> QED
      BY <3>5, <3>6, Zenon
  <2> QED
    BY <1>3, <1>4, <2>4, <2>5, <2>6, <2>7, <2>8, PeerStep
<1> QED
  BY <1>6, <1>7, Zenon

-----------------------------------------------------------------------------
(* The stream. *)

\* A poll moves one message along, from the channel to the client or to the
\* stash, or from the stash to the client; the peer of a shutdown that gets to
\* the client leaves the map.
LEMMA PollShifts ==
    ASSUME ManagerInvariant, PollChannel \/ PollPending
    PROVE  /\ Reported' = Reported
           /\ log' \in Seq(OutMessages) /\ opt_pending' \in Seq(OutMessages) /\ out' \in Seq(OutMessages)
           /\ Len(opt_pending') <= 1 /\ \A k \in DOMAIN opt_pending' : opt_pending'[k].kind \in Terminal
           /\ \/ UnderWay' = UnderWay /\ peers' = peers
              \/ /\ UnderWay # <<>> /\ UnderWay' = Tail(UnderWay)
                 /\ peers' = IF UnderWay[1].kind \in Terminal THEN peers \ {UnderWay[1].info} ELSE peers
<1>1. /\ log \in Seq(OutMessages) /\ opt_pending \in Seq(OutMessages) /\ out \in Seq(OutMessages)
      /\ Len(opt_pending) <= 1 /\ \A k \in DOMAIN opt_pending : opt_pending[k].kind \in Terminal
  BY Zenon DEF ManagerInvariant, TypeOK
<1>2. CASE PollChannel
  <2> DEFINE m == Head(out)
  <2>1. /\ opt_pending = <<>> /\ out # <<>> /\ Deliver(m) /\ out' = Tail(out)
    BY <1>2, Zenon DEF PollChannel
  <2>2. m \in OutMessages /\ Tail(out) \in Seq(OutMessages) /\ out[1] = m /\ <<m>> \o Tail(out) = out
    BY <1>1, <2>1
  <2>3. UnderWay = out /\ Reported = log \o out
    BY <1>1, <2>1 DEF UnderWay, Reported
  <2>4. CASE m.kind \in Terminal /\ opt_pending' = <<m>> /\ UNCHANGED <<peers, log>>
    <3>1. UnderWay' = out
      BY <2>1, <2>2, <2>4, Zenon DEF UnderWay
    <3>2. Reported' = log \o out
      <4>1. Reported' = (log \o <<m>>) \o Tail(out)
        BY <2>1, <2>4, Zenon DEF Reported
      <4>2. (log \o <<m>>) \o Tail(out) = log \o (<<m>> \o Tail(out))
        BY <1>1, <2>2
      <4> QED
        BY <2>2, <4>1, <4>2, Zenon
    <3>3. opt_pending' \in Seq(OutMessages) /\ Len(opt_pending') = 1 /\ DOMAIN opt_pending' = {1} /\ opt_pending'[1] = m
      BY <2>2, <2>4
    <3> QED
      BY <1>1, <2>1, <2>2, <2>3, <2>4, <3>1, <3>2, <3>3
  <2>5. CASE /\ log' = Append(log, m) /\ opt_pending' = <<>>
             /\ peers' = IF m.kind \in Terminal THEN peers \ {m.info} ELSE peers
    <3>1. UnderWay' = Tail(out)
      BY <2>1, <2>2, <2>5 DEF UnderWay
    <3>2. Reported' = log \o out
      <4>1. Reported' = (Append(log, m) \o <<>>) \o Tail(out)
        BY <2>1, <2>5, Zenon DEF Reported
      <4>2. (Append(log, m) \o <<>>) \o Tail(out) = log \o (<<m>> \o Tail(out))
        <5>1. Append(log, m) \o <<>> = log \o <<m>>
          BY <1>1, <2>2
        <5>2. (log \o <<m>>) \o Tail(out) = log \o (<<m>> \o Tail(out))
          BY <1>1, <2>2
        <5> QED
          BY <5>1, <5>2, Zenon
      <4> QED
        BY <2>2, <4>1, <4>2
    <3>3. log' \in Seq(OutMessages) /\ opt_pending' \in Seq(OutMessages) /\ Len(opt_pending') = 0 /\ DOMAIN opt_pending' = {}
      BY <1>1, <2>2, <2>5
    <3> QED
      BY <1>1, <2>1, <2>2, <2>3, <2>5, <3>1, <3>2, <3>3, Zenon
  <2> QED
    BY <2>1, <2>4, <2>5, Zenon DEF Deliver
<1>3. CASE PollPending
  <2> DEFINE m == opt_pending[1]
  <2>1. opt_pending # <<>> /\ Deliver(m) /\ out' = out
    BY <1>3, Zenon DEF PollPending
  <2>2. m \in OutMessages /\ m.kind \in Terminal /\ opt_pending = <<m>>
    <3>1. Len(opt_pending) = 1 /\ DOMAIN opt_pending = 1 .. 1
      <4>1. Len(opt_pending) \in Nat /\ DOMAIN opt_pending = 1 .. Len(opt_pending)
        BY <1>1
      <4>2. Len(opt_pending) # 0
        BY <1>1, <2>1
      <4>3. Len(opt_pending) = 1
        BY <1>1, <4>1, <4>2
      <4> QED
        BY <4>1, <4>3, Zenon
    <3>2. 1 \in DOMAIN opt_pending
      BY <3>1
    <3>3. m \in OutMessages /\ m.kind \in Terminal
      BY <1>1, <3>2
    <3>4. opt_pending = <<m>>
      BY <1>1, <3>1
    <3> QED
      BY <3>3, <3>4, Zenon
  <2>3. UnderWay = <<m>> \o out /\ UnderWay # <<>> /\ UnderWay[1] = m /\ Tail(UnderWay) = out
    <3>1. UnderWay = <<m>> \o out
      BY <2>2, Zenon DEF UnderWay
    <3> HIDE DEF m
    <3>2. PICK s \in Seq(OutMessages) : s = <<m>> \o out
      <4>1. <<m>> \in Seq(OutMessages)
        BY <2>2
      <4>2. <<m>> \o out \in Seq(OutMessages)
        BY <1>1, <4>1
      <4> QED
        BY <4>2, Zenon
    <3>3. Len(s) = Len(out) + 1 /\ s[1] = m /\ \A k \in 1 .. Len(out) : s[k + 1] = out[k]
      BY <1>1, <2>2, <3>2
    <3>4. s # <<>> /\ Tail(s) \in Seq(OutMessages) /\ Len(Tail(s)) = Len(out)
      BY <1>1, <3>3
    <3>5. \A k \in 1 .. Len(out) : Tail(s)[k] = out[k]
      BY <1>1, <3>3, <3>4
    <3>6. Tail(s) = out
      BY <1>1, <3>4, <3>5
    <3> QED
      BY <3>1, <3>2, <3>3, <3>4, <3>6
  <2>4. CASE opt_pending' = <<m>> /\ UNCHANGED <<peers, log>>
    BY <1>1, <2>1, <2>2, <2>4, Zenon DEF UnderWay, Reported
  <2>5. CASE /\ peers' = peers \ {m.info} /\ log' = Append(log, m) /\ opt_pending' = <<>>
    <3>1. UnderWay' = out
      BY <1>1, <2>1, <2>5 DEF UnderWay
    <3>2. Reported' = Reported
      <4>1. Reported' = (Append(log, m) \o <<>>) \o out
        BY <2>1, <2>5, Zenon DEF Reported
      <4>2. Reported = (log \o <<m>>) \o out
        BY <2>2, Zenon DEF Reported
      <4>3. Append(log, m) \o <<>> = log \o <<m>>
        BY <1>1, <2>2
      <4> QED
        BY <4>1, <4>2, <4>3, Zenon
    <3>3. log' \in Seq(OutMessages) /\ opt_pending' \in Seq(OutMessages) /\ Len(opt_pending') = 0 /\ DOMAIN opt_pending' = {}
      BY <1>1, <2>2, <2>5
    <3>4. peers' = IF UnderWay[1].kind \in Terminal THEN peers \ {UnderWay[1].info} ELSE peers
      BY <2>2, <2>3, <2>5, Zenon
    <3>5. UnderWay # <<>> /\ UnderWay' = Tail(UnderWay)
      BY <2>3, <3>1, Zenon
    <3> HIDE DEF m
    <3> QED
      BY <1>1, <2>1, <3>2, <3>3, <3>4, <3>5
  <2> QED
    BY <2>1, <2>2, <2>4, <2>5, Zenon DEF Deliver
<1> QED
  BY <1>2, <1>3, Zenon

\* What a poll leaves of a peer's history.
LEMMA HistoryStays ==
    ASSUME Reported' = Reported, NEW i, Same(i), HistoryOK(i)
    PROVE  HistoryOK(i)'
<1>1. \A kind : Messages(i, kind)' = Messages(i, kind)
  BY Zenon DEF Messages, Same
<1>2. Taken(i)' = Taken(i) /\ (QueueOK(i)' <=> QueueOK(i)) /\ (Gone(i)' <=> Gone(i))
  BY DEF Taken, QueueOK, Sends, Gone, Same
<1>3. SentOK(i)'
  BY <1>1, <1>2 DEF HistoryOK, SentOK, CarryUpTo, Same
<1>4. ReceivedOK(i)'
  BY <1>1 DEF HistoryOK, ReceivedOK, CarryUpTo, Same
<1> QED
  BY <1>2, <1>3, <1>4, Zenon DEF HistoryOK, Same

\* The stream finds the peer of every shutdown in the map, and takes it out.
LEMMA PollStep ==
    ASSUME ManagerInvariant, PollChannel \/ PollPending
    PROVE  ManagerInvariant'
<1>1. /\ Reported' = Reported
      /\ log' \in Seq(OutMessages) /\ opt_pending' \in Seq(OutMessages) /\ out' \in Seq(OutMessages)
      /\ Len(opt_pending') <= 1 /\ \A k \in DOMAIN opt_pending' : opt_pending'[k].kind \in Terminal
      /\ \/ UnderWay' = UnderWay /\ peers' = peers
         \/ /\ UnderWay # <<>> /\ UnderWay' = Tail(UnderWay)
            /\ peers' = IF UnderWay[1].kind \in Terminal THEN peers \ {UnderWay[1].info} ELSE peers
  BY PollShifts, Zenon
<1>2. UNCHANGED <<poisoned, task, toTask, toTaskParked, session, accepted, written, incoming>>
  BY Zenon DEF PollChannel, PollPending
<1>3. TypeOK /\ peers' \subseteq peers
  BY <1>1, Zenon DEF ManagerInvariant
<1>4. TypeOK'
  BY <1>1, <1>2, <1>3, Zenon DEF TypeOK
<1>5. Cardinality(peers') <= PeerCapacity
  <2>1. IsFiniteSet(peers)
    BY <1>3, InfosFinite, FS_Subset, Zenon DEF TypeOK
  <2>2. Cardinality(peers') <= Cardinality(peers) /\ Cardinality(peers) \in Nat /\ Cardinality(peers') \in Nat
    BY <1>3, <2>1, FS_Subset, FS_CardinalityType, Zenon
  <2> QED
    BY <2>2, PeerCapacityNat DEF ManagerInvariant
<1>6. SessionsWellFormed'
  BY <1>1 DEF SessionsWellFormed, Open, ManagerInvariant
<1>7. ASSUME NEW i \in Infos
      PROVE  TaskOK(i)' /\ ShutdownOK(i)' /\ HistoryOK(i)'
  <2>1. TaskOK(i) /\ ShutdownOK(i) /\ HistoryOK(i)
    BY Zenon DEF ManagerInvariant
  <2>2. Same(i)
    BY <1>2, Zenon DEF Same
  <2>5. Open(i, Len(Reported))' <=> Open(i, Len(Reported))
    BY <1>1, Zenon DEF Open
  <2>6. HistoryOK(i)'
    BY <1>1, <2>1, <2>2, HistoryStays, Zenon
  <2>3. CASE UnderWay' = UnderWay /\ peers' = peers
    BY <1>1, <1>3, <2>1, <2>2, <2>3, PeerStays, Zenon DEF Silent
  <2>4. CASE /\ UnderWay # <<>> /\ UnderWay' = Tail(UnderWay)
             /\ peers' = IF UnderWay[1].kind \in Terminal THEN peers \ {UnderWay[1].info} ELSE peers
    <3>1. UnderWay \in Seq(OutMessages) /\ Len(UnderWay) \in Nat \ {0}
      BY <1>3, <2>4, ReportedIsSeq
    <3>2. /\ DOMAIN (UnderWay') = 1 .. Len(UnderWay) - 1
          /\ \A k \in 1 .. Len(UnderWay) - 1 : UnderWay'[k] = UnderWay[k + 1]
          /\ DOMAIN UnderWay = 1 .. Len(UnderWay)
      BY <2>4, <3>1
    <3>3. /\ \A k : k \in Shutdowns(i)' <=> k \in 1 .. Len(UnderWay) - 1 /\ k + 1 \in Shutdowns(i)
          /\ Shutdowns(i) \subseteq 1 .. Len(UnderWay)
          /\ 1 \in Shutdowns(i) <=> UnderWay[1].info = i /\ UnderWay[1].kind \in Terminal
      BY <3>1, <3>2 DEF Shutdowns
    <3>4. \A j, k \in Shutdowns(i)' : j = k
      <4>1. ASSUME NEW j \in Shutdowns(i)', NEW k \in Shutdowns(i)' PROVE j = k
        <5>1. j + 1 \in Shutdowns(i) /\ k + 1 \in Shutdowns(i) /\ j \in Int /\ k \in Int
          BY <3>1, <3>3
        <5>2. j + 1 = k + 1
          BY <2>1, <5>1, Zenon DEF ShutdownOK
        <5> QED
          BY <5>1, <5>2
      <4> QED
        BY <4>1, Zenon
    <3>5. CASE 1 \in Shutdowns(i)
      <4>1. i \in peers /\ task[i].pc = "ended" /\ i \notin peers'
        BY <2>1, <2>4, <3>3, <3>5, Zenon DEF ShutdownOK
      <4>2. Shutdowns(i)' = {}
        <5>1. ASSUME NEW k \in Shutdowns(i)' PROVE FALSE
          <6>1. k + 1 \in Shutdowns(i) /\ k \in 1 .. Len(UnderWay) - 1
            BY <3>3, Zenon
          <6>2. k + 1 = 1
            BY <2>1, <3>5, <6>1, Zenon DEF ShutdownOK
          <6> QED
            BY <3>1, <6>1, <6>2
        <5> QED
          BY <5>1, Zenon
      <4>3. ShutdownOK(i)'
        BY <1>2, <2>1, <3>4, <4>1, <4>2, Zenon DEF ShutdownOK
      <4>4. TaskOK(i)'
        BY <1>2, <2>1, <2>5, <4>1, Zenon DEF TaskOK
      <4> QED
        BY <2>6, <4>3, <4>4, Zenon
    <3>6. CASE 1 \notin Shutdowns(i)
      <4>1. i \in peers' <=> i \in peers
        BY <2>4, <3>3, <3>6
      <4>2. Shutdowns(i)' # {} <=> Shutdowns(i) # {}
        <5>1. ASSUME NEW k \in Shutdowns(i) PROVE k - 1 \in Shutdowns(i)'
          <6>1. k - 1 \in 1 .. Len(UnderWay) - 1 /\ (k - 1) + 1 = k
            BY <3>1, <3>3, <3>6
          <6> QED
            BY <3>3, <6>1, Zenon
        <5> QED
          BY <3>3, <5>1, Zenon
      <4>3. ShutdownOK(i)'
        BY <1>2, <2>1, <3>4, <4>1, <4>2 DEF ShutdownOK
      <4>4. TaskOK(i)'
        BY <1>2, <2>1, <2>5, <4>1 DEF TaskOK
      <4> QED
        BY <2>6, <4>3, <4>4
    <3> QED
      BY <3>5, <3>6, Zenon
  <2> QED
    BY <1>1, <2>3, <2>4, Zenon
<1> QED
  BY <1>1, <1>4, <1>5, <1>6, <1>7, Zenon DEF ManagerInvariant

-----------------------------------------------------------------------------
\* Before the first AddPeer.
LEMMA InvariantInit == Init => ManagerInvariant
<1> SUFFICES ASSUME Init PROVE ManagerInvariant
  BY Zenon
<1>1. Ended \in Tasks /\ Ended.pc = "ended" /\ Ended.turn = NoTurn
  BY Zenon DEF Ended, NoTurn, Turn, Turns, Tasks, Acks, NoId
<1>2. NoTurn.send = NoId /\ NoTurn.recv = NoId /\ NoTurn.ack.kind # "SentMessage"
  BY Zenon DEF NoTurn, Turn, NoAck
<1>3. Reported = <<>> /\ UnderWay = <<>>
  BY DEF Init, Reported, UnderWay
<1>4. TypeOK
  <2>1. DOMAIN Reported = {}
    BY <1>3
  <2>2. task \in [Infos -> Tasks] /\ toTask \in [Infos -> Seq(TaskMessages)] /\ toTaskParked \in [Infos -> BOOLEAN]
    BY <1>1 DEF Init
  <2>3. \A i \in Infos : Len(toTask[i]) <= SinkCap + 1
    BY PeerChannelCaps DEF Init
  <2>4. /\ out \in Seq(OutMessages) /\ opt_pending \in Seq(OutMessages) /\ log \in Seq(OutMessages)
        /\ Len(opt_pending) <= 1
    BY DEF Init
  <2>5. /\ session \in [Infos -> Nat] /\ accepted \in [Infos -> Seq(Nat)] /\ written \in [Infos -> Seq(Nat)]
        /\ incoming \in [Infos -> Seq(Nat)]
    BY DEF Init
  <2> QED
    BY <2>1, <2>2, <2>3, <2>4, <2>5, Zenon DEF Init, TypeOK
<1>5. Cardinality(peers) <= PeerCapacity
  BY FS_EmptySet, PeerCapacityNat DEF Init
<1>6. SessionsWellFormed /\ \A k \in DOMAIN opt_pending : opt_pending[k].kind \in Terminal
  BY <1>3 DEF Init, SessionsWellFormed
<1>7. ASSUME NEW i \in Infos
      PROVE  TaskOK(i) /\ ShutdownOK(i) /\ HistoryOK(i)
  <2>1. task[i] = Ended /\ toTask[i] = <<>> /\ accepted[i] = <<>> /\ written[i] = <<>> /\ incoming[i] = <<>>
    BY Zenon DEF Init
  <2>2. ~Open(i, Len(Reported)) /\ Shutdowns(i) = {} /\ \A kind : Messages(i, kind) = {}
    BY <1>3 DEF Open, Shutdowns, Messages
  <2>3. TaskOK(i) /\ ShutdownOK(i)
    BY <1>1, <2>1, <2>2, PeerChannelCaps DEF TaskOK, ShutdownOK, Init
  <2>4. \A kind : CarryUpTo(Messages(i, kind), 0)
    BY <2>2 DEF CarryUpTo
  <2>5. SentOK(i)
    BY <1>1, <1>2, <2>1, <2>4, Zenon DEF SentOK
  <2>6. ReceivedOK(i)
    BY <1>1, <1>2, <2>1, <2>4 DEF ReceivedOK
  <2> QED
    BY <1>1, <2>1, <2>3, <2>5, <2>6 DEF HistoryOK, Numbered, Gone
<1> QED
  BY <1>4, <1>5, <1>6, <1>7, Zenon DEF ManagerInvariant

\* Every step keeps the invariant.
LEMMA InvariantNext == ManagerInvariant /\ [Next]_vars => ManagerInvariant'
<1> SUFFICES ASSUME ManagerInvariant, [Next]_vars PROVE ManagerInvariant'
  BY Zenon
<1>1. CASE UNCHANGED vars
  <2>1. Silent /\ peers' = peers /\ opt_pending' = opt_pending /\ \A i \in Infos : Same(i)
    BY <1>1, Zenon DEF vars, Silent, Same, Reported, UnderWay
  <2>2. TypeOK /\ SessionsWellFormed /\ \A i \in Infos : TaskOK(i) /\ ShutdownOK(i) /\ HistoryOK(i)
    BY Zenon DEF ManagerInvariant
  <2>3. TypeOK'
    BY <1>1, <2>1, <2>2, Zenon DEF vars, TypeOK, Silent
  <2>4. SessionsWellFormed'
    BY <2>1, <2>2 DEF SessionsWellFormed, Open, Silent
  <2>5. \A i \in Infos : TaskOK(i)' /\ ShutdownOK(i)' /\ HistoryOK(i)'
    BY <2>1, <2>2, PeerStays, Zenon
  <2> QED
    BY <2>1, <2>3, <2>4, <2>5, Zenon DEF ManagerInvariant
<1>2. ASSUME NEW i \in Infos, AddPeer(i) PROVE ManagerInvariant'
  BY <1>2, AddPeerStep, Zenon
<1>3. ASSUME NEW i \in Infos, RemovePeer(i) \/ SendMessage(i) PROVE ManagerInvariant'
  BY <1>3, SendStep, Zenon
<1>4. ASSUME NEW i \in Infos, TaskStep(i) PROVE ManagerInvariant'
  BY <1>4, TaskAddedStep, TakeManagerMessageStep, TakeOtherStep, WriteToPeerStep, WriteFailsStep,
     ForwardMessageStep, AcknowledgeStep, NextTurnStep DEF TaskStep
<1>5. CASE PollChannel \/ PollPending
  BY <1>5, PollStep, Zenon
<1> QED
  BY <1>1, <1>2, <1>3, <1>4, <1>5, Zenon DEF Next

\* ManagerInvariant holds at every step of the manager, its tasks and the stream.
THEOREM ManagerIsCorrect == Spec => []ManagerInvariant
  BY InvariantInit, InvariantNext, PTL DEF Spec

\* The client sees every peer in sessions that PeerAdded begins and one
\* shutdown ends, for any peers, any capacities and any number of sessions.
THEOREM SessionsAreWellFormed == Spec => []SessionsWellFormed
<1>1. ManagerInvariant => SessionsWellFormed
  BY Zenon DEF ManagerInvariant
<1> QED
  BY <1>1, ManagerIsCorrect, PTL

\* The map never holds more peers than it may, and it holds the peer of every
\* task that runs and of every shutdown that is under way, of which there is
\* one: the stream finds the peer that it removes.
THEOREM MapAndTasksMatch == Spec => []MapMatchesTasks
<1>1. ASSUME ManagerInvariant
      PROVE  MapMatchesTasks
  <2>1. TypeOK /\ Cardinality(peers) <= PeerCapacity /\ \A i \in Infos : TaskOK(i) /\ ShutdownOK(i)
    BY <1>1, Zenon DEF ManagerInvariant
  <2>2. {i \in Infos : ~Gone(i)} \subseteq peers
    BY <2>1, Zenon DEF TaskOK, Gone
  <2>3. \A i \in peers : task[i].pc = "ended" => Shutdowns(i) # {}
    BY <2>1, Zenon DEF ShutdownOK, TypeOK
  <2>4. ASSUME NEW i \in Infos, Shutdowns(i) # {}
        PROVE  i \in peers /\ Cardinality(Shutdowns(i)) = 1
    <3>1. ShutdownOK(i)
      BY <2>1, Zenon
    <3>2. PICK k \in Shutdowns(i) : TRUE
      BY <2>4, Zenon
    <3>3. Shutdowns(i) = {k}
      BY <3>1, <3>2, Zenon DEF ShutdownOK
    <3> QED
      BY <2>4, <3>1, <3>3, FS_Singleton, Zenon DEF ShutdownOK
  <2> QED
    BY <2>1, <2>2, <2>3, <2>4, Zenon DEF MapMatchesTasks
<1> QED
  BY <1>1, ManagerIsCorrect, PTL

\* Messages that carry 1, 2, ..., n in this order: each carries the number of
\* those up to it.
LEMMA CountIsNumber ==
    ASSUME TypeOK, NEW ks \in SUBSET DOMAIN Reported, NEW n \in Nat, CarryUpTo(ks, n), NEW k \in ks
    PROVE  Cardinality({j \in ks : j <= k}) = Reported[k].id
<1> DEFINE id(j) == Reported[j].id
           S == {j \in ks : j <= k}
           x == Reported[k].id
           f == [y \in 1 .. x |-> CHOOSE j \in ks : id(j) = y]
<1>1. ks \subseteq Nat
  <2>1. Reported \in Seq(OutMessages)
    BY ReportedIsSeq, Zenon
  <2> QED
    BY <2>1
<1>2. {id(j) : j \in ks} = 1 .. n /\ \A j, l \in ks : j < l => id(j) < id(l)
  BY Zenon DEF CarryUpTo
<1>3. x \in 1 .. n
  BY <1>2, Zenon
<1>4. \A j \in ks : id(j) \in 1 .. n
  BY <1>2, Zenon
<1>5. \A j, l \in ks : id(j) <= id(l) => j <= l
  <2>1. ASSUME NEW j \in ks, NEW l \in ks, id(j) <= id(l), ~(j <= l) PROVE FALSE
    <3>1. l < j
      BY <1>1, <2>1
    <3>2. id(l) < id(j) /\ id(l) \in 1 .. n /\ id(j) \in 1 .. n
      BY <1>2, <1>4, <3>1, Zenon
    <3> HIDE DEF id
    <3> QED
      BY <2>1, <3>2
  <2> QED
    BY <2>1, Zenon
<1>6. ASSUME NEW y \in 1 .. x
      PROVE  f[y] \in S /\ id(f[y]) = y
  <2>1. y \in 1 .. n /\ y <= x
    BY <1>3
  <2>2. \E j \in ks : id(j) = y
    BY <1>2, <2>1, Zenon
  <2>3. f[y] \in ks /\ id(f[y]) = y
    BY <2>2, Zenon
  <2>4. f[y] <= k
    <3>1. id(f[y]) <= id(k)
      BY <2>1, <2>3, Zenon
    <3> HIDE DEF id, f
    <3> QED
      BY <1>5, <2>3, <3>1, Zenon
  <2> QED
    BY <2>3, <2>4, Zenon
<1>7. \A j \in S : id(j) \in 1 .. x /\ f[id(j)] = j
  <2>1. ASSUME NEW j \in S PROVE id(j) \in 1 .. x /\ f[id(j)] = j
    <3>1. j \in ks /\ j <= k /\ id(j) \in 1 .. n
      BY <1>4, Zenon
    <3>2. id(j) <= x
      <4>1. CASE j = k
        BY <1>3, <4>1
      <4>2. CASE j < k
        BY <1>2, <1>3, <3>1, <4>2
      <4> QED
        BY <1>1, <3>1, <4>1, <4>2
    <3>3. id(j) \in 1 .. x
      BY <1>3, <3>1, <3>2
    <3>4. f[id(j)] \in ks /\ id(f[id(j)]) = id(j)
      BY <1>6, <3>3, Zenon
    <3> HIDE DEF id, f
    <3>5. id(f[id(j)]) <= id(j) /\ id(j) <= id(f[id(j)])
      BY <3>1, <3>4
    <3>6. f[id(j)] <= j /\ j <= f[id(j)]
      BY <1>5, <3>1, <3>4, <3>5, Zenon
    <3>7. f[id(j)] = j
      BY <1>1, <3>1, <3>4, <3>6
    <3> QED
      BY <3>3, <3>7, Zenon
  <2> QED
    BY <2>1, Zenon
<1>8. f \in [1 .. x -> S]
  BY <1>6, Zenon
<1> HIDE DEF f
<1>9. f \in Bijection(1 .. x, S)
  <2>1. \A y, z \in 1 .. x : f[y] = f[z] => y = z
    BY <1>6, Zenon
  <2>2. \A j \in S : \E y \in 1 .. x : f[y] = j
    BY <1>7, Zenon
  <2> QED
    BY <1>8, <2>1, <2>2, Zenon DEF Bijection, Injection, IsInjective, Surjection
<1> HIDE DEF S
<1>10. ExistsBijection(1 .. x, S)
  BY <1>9, Zenon DEF ExistsBijection
<1>11. Cardinality(S) = x
  BY <1>3, <1>10, FS_CountingElements
<1> QED
  BY <1>11, Zenon DEF S

\* SentMessage is reported for what was written, in the order in which the
\* client sent it, and the messages of the peer in their order, for any
\* capacity of the channels and any number of messages.
THEOREM MessagesStayInOrder == Spec => []MessagesInOrder
<1>1. ASSUME ManagerInvariant, NEW i \in Infos
      PROVE  /\ CarryFirst(Messages(i, "SentMessage"), written[i])
             /\ written[i] = SubSeq(accepted[i], 1, Len(written[i])) /\ Len(written[i]) <= Len(accepted[i])
             /\ CarryFirst(Messages(i, "ReceivedMessage"), incoming[i])
  <2>1. /\ TypeOK /\ HistoryOK(i) /\ Taken(i) \in Nat
        /\ written[i] \in Seq(Nat) /\ accepted[i] \in Seq(Nat) /\ incoming[i] \in Seq(Nat)
    BY <1>1, PeerFacts, Zenon
  <2>2. ASSUME NEW kind, NEW n \in Nat, CarryUpTo(Messages(i, kind), n),
               NEW ids \in Seq(Nat), Numbered(ids), n <= Len(ids)
        PROVE  CarryFirst(Messages(i, kind), ids)
    <3>1. ASSUME NEW k \in Messages(i, kind)
          PROVE  LET c == Cardinality({j \in Messages(i, kind) : j <= k})
                 IN c <= Len(ids) /\ Reported[k].id = ids[c]
      <4>1. Cardinality({j \in Messages(i, kind) : j <= k}) = Reported[k].id
        BY <2>1, <2>2, CountIsNumber, Zenon DEF Messages
      <4>2. Reported[k].id \in 1 .. n
        BY <2>2, Zenon DEF CarryUpTo
      <4>3. Reported[k].id <= Len(ids) /\ ids[Reported[k].id] = Reported[k].id
        BY <2>2, <4>2 DEF Numbered
      <4> QED
        BY <4>1, <4>3, Zenon
    <3> QED
      BY <3>1, Zenon DEF CarryFirst
  <2>3. CarryFirst(Messages(i, "SentMessage"), written[i])
    <3>1. PICK n : n = IF task[i].turn.ack.kind = "SentMessage" THEN Taken(i) - 1 ELSE Len(written[i])
      BY Zenon
    <3>2. CarryUpTo(Messages(i, "SentMessage"), n)
      BY <2>1, <3>1, Zenon DEF HistoryOK, SentOK
    <3>3. Len(written[i]) \in Nat /\ Taken(i) <= Len(written[i]) + 1
      BY <2>1 DEF Taken
    <3>4. task[i].turn.ack.kind = "SentMessage" => Taken(i) > 0
      BY <2>1, Zenon DEF HistoryOK, SentOK
    <3>5. n \in Nat /\ n <= Len(written[i])
      BY <2>1, <3>1, <3>3, <3>4
    <3> QED
      BY <2>1, <2>2, <3>2, <3>5, Zenon DEF HistoryOK
  <2>4. CarryFirst(Messages(i, "ReceivedMessage"), incoming[i])
    <3>1. PICK n \in 0 .. Len(incoming[i]) : CarryUpTo(Messages(i, "ReceivedMessage"), n)
      BY <2>1, Zenon DEF HistoryOK, ReceivedOK
    <3>2. n \in Nat /\ n <= Len(incoming[i])
      BY <2>1, <3>1
    <3> QED
      BY <2>1, <2>2, <3>1, <3>2, Zenon DEF HistoryOK
  <2>5. written[i] = SubSeq(accepted[i], 1, Len(written[i])) /\ Len(written[i]) <= Len(accepted[i])
    <3>1. /\ Numbered(written[i]) /\ Numbered(accepted[i]) /\ Len(written[i]) <= Len(accepted[i])
          /\ Len(written[i]) \in Nat /\ Len(accepted[i]) \in Nat
      BY <2>1 DEF HistoryOK
    <3>2. \A k \in 1 .. Len(written[i]) : written[i][k] = accepted[i][k]
      BY <2>1, <3>1 DEF Numbered
    <3> QED
      BY <2>1, <3>1, <3>2
  <2> QED
    BY <2>3, <2>4, <2>5, Zenon
<1>2. ManagerInvariant => MessagesInOrder
  BY <1>1, Zenon DEF MessagesInOrder
<1> QED
  BY <1>2, ManagerIsCorrect, PTL
=============================================================================
