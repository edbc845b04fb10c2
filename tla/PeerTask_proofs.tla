-------------------------- MODULE PeerTask_proofs ---------------------------
(***************************************************************************)
(* What the messages that bip_peer's manager reports say of its sessions,  *)
(* and why a step that concerns one peer keeps ManagerInvariant.  Then the *)
(* steps of a peer's task: it takes a message of the manager, a message or *)
(* an error of the peer, or a heartbeat; it writes to the peer, forwards   *)
(* the peer's message, and acknowledges or ends.                           *)
(***************************************************************************)
EXTENDS PeerManager, TLAPS

\* Leaves that Zenon proves say so; the others are for the SMT solver.
USE SMTT(30)

Silent  == Reported' = Reported /\ UnderWay' = UnderWay
Says(m) == m \in OutMessages /\ Reported' = Append(Reported, m) /\ UnderWay' = Append(UnderWay, m)

\* A step that leaves the peer's task, channel and history alone.
Same(i) ==
    /\ task'[i] = task[i] /\ toTask'[i] = toTask[i] /\ toTaskParked'[i] = toTaskParked[i]
    /\ session'[i] = session[i] /\ accepted'[i] = accepted[i]
    /\ written'[i] = written[i] /\ incoming'[i] = incoming[i]

\* What is reported is a sequence of messages, the last ones still under way.
LEMMA ReportedIsSeq ==
    ASSUME TypeOK
    PROVE  /\ Reported \in Seq(OutMessages) /\ UnderWay \in Seq(OutMessages)
           /\ Reported = log \o UnderWay
<1>1. log \in Seq(OutMessages) /\ opt_pending \in Seq(OutMessages) /\ out \in Seq(OutMessages)
  BY Zenon DEF TypeOK
<1>2. UnderWay \in Seq(OutMessages) /\ Reported \in Seq(OutMessages)
  BY <1>1 DEF UnderWay, Reported
<1>3. (log \o opt_pending) \o out = log \o (opt_pending \o out)
  BY <1>1
<1> QED
  BY <1>2, <1>3, Zenon DEF Reported, UnderWay

\* Report puts one message at the end.
LEMMA ReportSays ==
    ASSUME TypeOK, NEW m \in OutMessages, out' = Append(out, m), UNCHANGED streamVars
    PROVE  Says(m)
<1>1. log \in Seq(OutMessages) /\ opt_pending \in Seq(OutMessages) /\ out \in Seq(OutMessages)
  BY Zenon DEF TypeOK
<1>2. log' = log /\ opt_pending' = opt_pending
  BY Zenon DEF streamVars
<1>3. opt_pending \o Append(out, m) = Append(opt_pending \o out, m)
  BY <1>1
<1>4. (log \o opt_pending) \o Append(out, m) = Append((log \o opt_pending) \o out, m)
  <2>1. log \o opt_pending \in Seq(OutMessages)
    BY <1>1
  <2> QED
    BY <1>1, <2>1
<1> QED
  BY <1>2, <1>3, <1>4, Zenon DEF Says, Reported, UnderWay

\* Steps that touch neither the channel to the client nor the stream are silent.
LEMMA QuietStep ==
    ASSUME UNCHANGED <<out, streamVars>>
    PROVE  Silent
  BY Zenon DEF Silent, streamVars, Reported, UnderWay

-----------------------------------------------------------------------------
\* A peer's session is open after a message about it that is no shutdown, and
\* messages do not change what was open before them.
LEMMA OpenAppend ==
    ASSUME TypeOK, NEW m, Says(m), NEW i
    PROVE  /\ Open(i, Len(Reported))' <=> IF m.info = i THEN m.kind \notin Terminal ELSE Open(i, Len(Reported))
           /\ \A n \in 0 .. Len(Reported) : Open(i, n)' <=> Open(i, n)
<1> DEFINE L == Len(Reported)
<1>1. Reported \in Seq(OutMessages) /\ L \in Nat
  BY ReportedIsSeq
<1>2. /\ Len(Reported') = L + 1
      /\ Reported'[L + 1] = m
      /\ \A k \in 1 .. L : Reported'[k] = Reported[k]
  BY <1>1 DEF Says
<1>3. ASSUME NEW n \in 0 .. Len(Reported)
      PROVE  Open(i, n)' <=> Open(i, n)
  <2>1. \A k \in 1 .. n : Reported'[k] = Reported[k] /\ \A l \in k + 1 .. n : Reported'[l] = Reported[l]
    BY <1>1, <1>2
  <2> QED
    BY <2>1 DEF Open
<1>4. Open(i, Len(Reported))' <=>
        \E j \in 1 .. L + 1 : /\ Reported'[j].info = i /\ Reported'[j].kind \notin Terminal
                              /\ \A l \in j + 1 .. L + 1 : Reported'[l].info # i
  BY <1>2, Zenon DEF Open
<1>5. CASE m.info = i
  <2>1. ASSUME m.kind \notin Terminal
        PROVE  Open(i, Len(Reported))'
    <3>1. Reported'[L + 1].info = i /\ Reported'[L + 1].kind \notin Terminal /\ L + 1 \in 1 .. L + 1
      BY <1>1, <1>2, <1>5, <2>1
    <3>2. \A l \in (L + 1) + 1 .. L + 1 : FALSE
      BY <1>1
    <3> QED
      BY <1>4, <3>1, <3>2, Zenon
  <2>2. ASSUME Open(i, Len(Reported))'
        PROVE  m.kind \notin Terminal
    <3>1. PICK j \in 1 .. L + 1 : /\ Reported'[j].info = i /\ Reported'[j].kind \notin Terminal
                                  /\ \A l \in j + 1 .. L + 1 : Reported'[l].info # i
      BY <1>4, <2>2, Zenon
    <3>2. j = L + 1
      BY <1>1, <1>2, <1>5, <3>1
    <3> QED
      BY <1>2, <3>1, <3>2, Zenon
  <2> QED
    BY <1>3, <1>5, <2>1, <2>2, Zenon
<1>6. CASE m.info # i
  <2>1. ASSUME Open(i, Len(Reported))
        PROVE  Open(i, Len(Reported))'
    <3>1. PICK j \in 1 .. L : /\ Reported[j].info = i /\ Reported[j].kind \notin Terminal
                              /\ \A l \in j + 1 .. L : Reported[l].info # i
      BY <2>1, Zenon DEF Open
    <3>2. j \in 1 .. L + 1 /\ Reported'[j] = Reported[j]
      BY <1>1, <1>2
    <3>3. ASSUME NEW l \in j + 1 .. L + 1 PROVE Reported'[l].info # i
      BY <1>1, <1>2, <1>6, <3>1
    <3> QED
      BY <1>4, <3>1, <3>2, <3>3, Zenon
  <2>2. ASSUME Open(i, Len(Reported))'
        PROVE  Open(i, Len(Reported))
    <3>1. PICK j \in 1 .. L + 1 : /\ Reported'[j].info = i /\ Reported'[j].kind \notin Terminal
                                  /\ \A l \in j + 1 .. L + 1 : Reported'[l].info # i
      BY <1>4, <2>2
    <3>2. j \in 1 .. L /\ Reported'[j] = Reported[j]
      BY <1>1, <1>2, <1>6, <3>1
    <3>3. ASSUME NEW l \in j + 1 .. L PROVE Reported[l].info # i
      BY <1>1, <1>2, <3>1, <3>2
    <3> QED
      BY <3>1, <3>2, <3>3, Zenon DEF Open
  <2> QED
    BY <1>3, <1>6, <2>1, <2>2, Zenon
<1> QED
  BY <1>5, <1>6, Zenon

\* What a silent step leaves alone.
LEMMA OpenStays ==
    ASSUME Silent, NEW i
    PROVE  Open(i, Len(Reported))' <=> Open(i, Len(Reported))
  BY Zenon DEF Silent, Open

\* PeerAdded begins a session, and every other message belongs to one.
LEMMA SessionsAppend ==
    ASSUME TypeOK, SessionsWellFormed, NEW m, Says(m),
           m.kind = "PeerAdded" <=> ~Open(m.info, Len(Reported))
    PROVE  SessionsWellFormed'
<1> DEFINE L == Len(Reported)
<1>1. Reported \in Seq(OutMessages) /\ L \in Nat
  BY ReportedIsSeq
<1>2. /\ DOMAIN (Reported') = 1 .. L + 1
      /\ Reported'[L + 1] = m
      /\ \A k \in 1 .. L : Reported'[k] = Reported[k]
  BY <1>1 DEF Says
<1>3. ASSUME NEW k \in 1 .. L + 1, NEW i
      PROVE  Open(i, k - 1)' <=> Open(i, k - 1)
  <2>1. \A n \in 0 .. Len(Reported) : Open(i, n)' <=> Open(i, n)
    BY OpenAppend, Zenon
  <2>2. k - 1 \in 0 .. Len(Reported)
    BY <1>1
  <2> QED
    BY <2>1, <2>2, Zenon
<1>4. ASSUME NEW k \in 1 .. L + 1
      PROVE  Reported'[k].kind = "PeerAdded" <=> ~Open(Reported'[k].info, k - 1)
  <2>1. CASE k = L + 1
    BY <1>1, <1>2, <2>1
  <2>2. CASE k # L + 1
    BY <1>1, <1>2, <2>2 DEF SessionsWellFormed
  <2> QED
    BY <2>1, <2>2, Zenon
<1>5. ASSUME NEW k \in 1 .. L + 1
      PROVE  Open((Reported[k]).info, k - 1)' <=> Open(Reported'[k].info, k - 1)
  <2>1. PICK i : i = Reported'[k].info
    BY Zenon
  <2>2. Open((Reported[k]).info, k - 1)' <=> Open(i, k - 1)'
    BY <2>1, Zenon DEF Open
  <2> QED
    BY <1>3, <2>1, <2>2, Zenon
<1> QED
  BY <1>2, <1>4, <1>5, Zenon DEF SessionsWellFormed

-----------------------------------------------------------------------------
\* A message adds its own position to the messages of its kind about its peer.
LEMMA MessagesAppend ==
    ASSUME TypeOK, NEW m, Says(m), NEW i \in Infos, session'[i] = session[i], NEW kind
    PROVE  Messages(i, kind)' =
             Messages(i, kind) \cup (IF m.info = i /\ m.session = session[i] /\ m.kind = kind
                                     THEN {Len(Reported) + 1} ELSE {})
<1>1. Reported \in Seq(OutMessages) /\ Len(Reported) \in Nat
  BY ReportedIsSeq
<1>2. /\ DOMAIN (Reported') = 1 .. Len(Reported) + 1
      /\ Reported'[Len(Reported) + 1] = m
      /\ \A k \in 1 .. Len(Reported) : Reported'[k] = Reported[k]
  BY <1>1 DEF Says
<1> QED
  BY <1>1, <1>2 DEF Messages

\* Messages of other kinds, or about other peers, do not matter.
LEMMA CarryStays ==
    ASSUME TypeOK, NEW m, Says(m), NEW i \in Infos, session'[i] = session[i], NEW kind, NEW n,
           ~(m.info = i /\ m.session = session[i] /\ m.kind = kind),
           CarryUpTo(Messages(i, kind), n)
    PROVE  CarryUpTo(Messages(i, kind), n)'
<1>1. Messages(i, kind)' = Messages(i, kind)
  <2>1. Messages(i, kind)' =
          Messages(i, kind) \cup (IF m.info = i /\ m.session = session[i] /\ m.kind = kind
                                  THEN {Len(Reported) + 1} ELSE {})
    BY MessagesAppend
  <2> QED
    BY <2>1, Zenon
<1>2. Reported \in Seq(OutMessages)
  BY ReportedIsSeq, Zenon
<1>3. \A k \in Messages(i, kind) : Reported'[k] = Reported[k]
  BY <1>2 DEF Says, Messages
<1> QED
  BY <1>1, <1>3, Zenon DEF CarryUpTo

\* The next message of the kind carries the next number.
LEMMA CarryGrows ==
    ASSUME TypeOK, NEW m, Says(m), NEW i \in Infos, session'[i] = session[i], NEW kind, NEW n \in Nat,
           m.info = i, m.session = session[i], m.kind = kind, m.id = n + 1,
           CarryUpTo(Messages(i, kind), n)
    PROVE  CarryUpTo(Messages(i, kind), n + 1)'
<1> DEFINE L == Len(Reported)
           ks == Messages(i, kind)
<1>1. Reported \in Seq(OutMessages) /\ L \in Nat
  BY ReportedIsSeq
<1>2. Messages(i, kind)' = Messages(i, kind) \cup {Len(Reported) + 1}
  BY MessagesAppend, Zenon
<1>3. ks \subseteq 1 .. L
  BY <1>1 DEF Messages
<1>4. Reported'[L + 1] = m /\ \A k \in ks : Reported'[k] = Reported[k]
  BY <1>1, <1>3 DEF Says
<1>5. /\ {Reported[k].id : k \in ks} = 1 .. n
      /\ \A j, k \in ks : j < k => Reported[j].id < Reported[k].id
  BY Zenon DEF CarryUpTo
<1> HIDE DEF ks, L
<1>6. {Reported'[k].id : k \in ks \cup {L + 1}} = 1 .. n + 1
  <2>1. {Reported'[k].id : k \in ks \cup {L + 1}} = {Reported[k].id : k \in ks} \cup {m.id}
    BY <1>4, Zenon
  <2> QED
    BY <1>5, <2>1
<1>7. ASSUME NEW j \in ks \cup {L + 1}, NEW k \in ks \cup {L + 1}, j < k
      PROVE  Reported'[j].id < Reported'[k].id
  <2>1. j \in ks
    BY <1>1, <1>3, <1>7
  <2>2. CASE k \in ks
    BY <1>4, <1>5, <1>7, <2>1, <2>2, Zenon
  <2>3. CASE k = L + 1
    <3>1. Reported[j].id \in 1 .. n
      BY <1>5, <2>1, Zenon
    <3> QED
      BY <1>4, <2>1, <2>3, <3>1
  <2> QED
    BY <2>2, <2>3, Zenon
<1>8. CarryUpTo(Messages(i, kind), n + 1)' <=>
        /\ {Reported'[k].id : k \in Messages(i, kind)'} = 1 .. n + 1
        /\ \A j, k \in Messages(i, kind)' : j < k => Reported'[j].id < Reported'[k].id
  BY Zenon DEF CarryUpTo
<1> QED
  BY <1>2, <1>6, <1>7, <1>8, Zenon DEF ks, L

-----------------------------------------------------------------------------
\* A message adds its own position to the shutdowns, if it is one.
LEMMA ShutdownsAppend ==
    ASSUME TypeOK, NEW m, Says(m), NEW i
    PROVE  /\ Shutdowns(i)' = Shutdowns(i) \cup (IF m.info = i /\ m.kind \in Terminal
                                                 THEN {Len(UnderWay) + 1} ELSE {})
           /\ \A k \in Shutdowns(i) : k \in 1 .. Len(UnderWay)
<1>1. UnderWay \in Seq(OutMessages) /\ Len(UnderWay) \in Nat
  BY ReportedIsSeq
<1>2. /\ DOMAIN (UnderWay') = 1 .. Len(UnderWay) + 1
      /\ UnderWay'[Len(UnderWay) + 1] = m
      /\ \A k \in 1 .. Len(UnderWay) : UnderWay'[k] = UnderWay[k]
  BY <1>1 DEF Says
<1> QED
  BY <1>1, <1>2 DEF Shutdowns

\* A silent step keeps the numbers that were reported.
LEMMA CarrySilent ==
    ASSUME Silent, NEW i, session'[i] = session[i], NEW kind, NEW n, CarryUpTo(Messages(i, kind), n)
    PROVE  CarryUpTo(Messages(i, kind), n)'
<1>1. Messages(i, kind)' = Messages(i, kind)
  BY Zenon DEF Messages, Silent
<1> QED
  BY <1>1, Zenon DEF CarryUpTo, Silent

\* A peer whose task, channel and history stay as they are, while others report.
LEMMA PeerStays ==
    ASSUME TypeOK, NEW i \in Infos, TaskOK(i), ShutdownOK(i), HistoryOK(i), Same(i),
           i \in peers' <=> i \in peers,
           Silent \/ \E m : Says(m) /\ m.info # i
    PROVE  TaskOK(i)' /\ ShutdownOK(i)' /\ HistoryOK(i)'
<1>1. Open(i, Len(Reported))' <=> Open(i, Len(Reported))
  BY OpenStays, OpenAppend, Zenon
<1>2. Shutdowns(i)' = Shutdowns(i)
  <2>1. CASE Silent
    BY <2>1, Zenon DEF Silent, Shutdowns
  <2>2. ASSUME NEW m, Says(m), m.info # i
        PROVE  Shutdowns(i)' = Shutdowns(i)
    <3>1. Shutdowns(i)' = Shutdowns(i) \cup (IF m.info = i /\ m.kind \in Terminal
                                             THEN {Len(UnderWay) + 1} ELSE {})
      BY <2>2, ShutdownsAppend, Zenon
    <3> QED
      BY <2>2, <3>1, Zenon
  <2> QED
    BY <2>1, <2>2, Zenon
<1>3. ASSUME NEW kind, NEW n, CarryUpTo(Messages(i, kind), n)
      PROVE  CarryUpTo(Messages(i, kind), n)'
  <2>1. session'[i] = session[i]
    BY Zenon DEF Same
  <2>2. CASE Silent
    BY <1>3, <2>1, <2>2, CarrySilent, Zenon
  <2>3. ASSUME NEW m, Says(m), m.info # i
        PROVE  CarryUpTo(Messages(i, kind), n)'
    BY <1>3, <2>1, <2>3, CarryStays, Zenon
  <2> QED
    BY <2>2, <2>3, Zenon
<1>4. TaskOK(i)'
  BY <1>1, Zenon DEF TaskOK, Same
<1>5. ShutdownOK(i)'
  BY <1>2, Zenon DEF ShutdownOK, Same
<1>6. Taken(i)' = Taken(i) /\ (QueueOK(i)' <=> QueueOK(i)) /\ (Gone(i)' <=> Gone(i))
  BY DEF Taken, QueueOK, Sends, Gone, Same
<1>7. SentOK(i)'
  <2>1. task[i].turn.ack.kind = "SentMessage" => task[i].turn.ack.id = Taken(i) /\ task[i].turn.ack.id > 0
    BY Zenon DEF HistoryOK, SentOK
  <2>2. CarryUpTo(Messages(i, "SentMessage"),
                  IF task[i].turn.ack.kind = "SentMessage" THEN Taken(i) - 1 ELSE Len(written[i]))
    BY Zenon DEF HistoryOK, SentOK
  <2>3. PICK n : n = IF task[i].turn.ack.kind = "SentMessage" THEN Taken(i) - 1 ELSE Len(written[i])
    BY Zenon
  <2>4. CarryUpTo(Messages(i, "SentMessage"), n)'
    BY <1>3, <2>2, <2>3, Zenon
  <2>5. n = (IF task[i].turn.ack.kind = "SentMessage" THEN Taken(i) - 1 ELSE Len(written[i]))'
    BY <1>6, <2>3, Zenon DEF Same
  <2> QED
    BY <1>6, <2>1, <2>4, <2>5, Zenon DEF SentOK, Same, CarryUpTo
<1>8. ReceivedOK(i)'
  <2>1. PICK n \in 0 .. Len(incoming[i]) :
          /\ CarryUpTo(Messages(i, "ReceivedMessage"), n)
          /\ task[i].pc # "failed" => n = IF task[i].turn.recv = NoId THEN Len(incoming[i]) ELSE Len(incoming[i]) - 1
    BY Zenon DEF HistoryOK, ReceivedOK
  <2>2. CarryUpTo(Messages(i, "ReceivedMessage"), n)'
    BY <1>3, <2>1, Zenon
  <2>3. task[i].turn.recv # NoId => task[i].turn.recv = Len(incoming[i])
    BY Zenon DEF HistoryOK, ReceivedOK
  <2> QED
    BY <2>1, <2>2, <2>3, Zenon DEF ReceivedOK, Same
<1>9. HistoryOK(i)'
  BY <1>6, <1>7, <1>8, Zenon DEF HistoryOK, Same
<1> QED
  BY <1>4, <1>5, <1>9, Zenon

\* The messages keep the numbers of their sessions.
LEMMA SessionNumbers ==
    ASSUME TypeOK, session' \in [Infos -> Nat], \A j \in Infos : session[j] <= session'[j],
           Silent \/ \E m : Says(m) /\ m.session \in 1 .. session'[m.info]
    PROVE  \A k \in DOMAIN Reported' : Reported'[k].session \in 1 .. session'[Reported'[k].info]
<1>1. Reported \in Seq(OutMessages)
  BY ReportedIsSeq, Zenon
<1>2. ASSUME NEW k \in 1 .. Len(Reported)
      PROVE  Reported[k].session \in 1 .. session'[Reported[k].info]
  <2>1. Reported[k] \in OutMessages
    BY <1>1
  <2>2. Reported[k].info \in Infos /\ Reported[k].session \in 1 .. session[Reported[k].info]
    <3>1. k \in DOMAIN Reported
      BY <1>1
    <3> QED
      BY <2>1, <3>1, Zenon DEF TypeOK, OutMessages
  <2>3. session[Reported[k].info] \in Nat /\ session'[Reported[k].info] \in Nat
    BY <2>2, Zenon DEF TypeOK
  <2> QED
    BY <2>2, <2>3
<1>3. CASE Silent
  BY <1>1, <1>2, <1>3 DEF Silent
<1>4. ASSUME NEW m, Says(m), m.session \in 1 .. session'[m.info], NEW k \in DOMAIN Reported'
      PROVE  Reported'[k].session \in 1 .. session'[Reported'[k].info]
  <2>1. /\ DOMAIN (Reported') = 1 .. Len(Reported) + 1
        /\ Reported'[Len(Reported) + 1] = m
        /\ \A l \in 1 .. Len(Reported) : Reported'[l] = Reported[l]
    BY <1>1, <1>4 DEF Says
  <2>2. CASE k = Len(Reported) + 1
    BY <1>4, <2>1, <2>2, Zenon
  <2>3. CASE k \in 1 .. Len(Reported)
    BY <1>2, <2>1, <2>3, Zenon
  <2> QED
    BY <1>1, <2>1, <2>2, <2>3
<1> QED
  BY <1>3, <1>4, Zenon

\* A step of one peer, silent or with a message about it.
LEMMA PeerStep ==
    ASSUME ManagerInvariant, NEW i \in Infos,
           TypeOK', Cardinality(peers') <= PeerCapacity, opt_pending' = opt_pending,
           \/ Silent
           \/ \E m : Says(m) /\ m.info = i /\ (m.kind = "PeerAdded" <=> ~Open(i, Len(Reported))),
           \A j \in Infos \ {i} : Same(j) /\ (j \in peers' <=> j \in peers),
           TaskOK(i)', ShutdownOK(i)', HistoryOK(i)'
    PROVE  ManagerInvariant'
<1>1. SessionsWellFormed'
  <2>1. CASE Silent
    BY <2>1 DEF Silent, SessionsWellFormed, Open, ManagerInvariant
  <2>2. ASSUME NEW m, Says(m), m.info = i, m.kind = "PeerAdded" <=> ~Open(i, Len(Reported))
        PROVE  SessionsWellFormed'
    BY <2>2, SessionsAppend, Zenon DEF ManagerInvariant
  <2> QED
    BY <2>1, <2>2, Zenon
<1>2. ASSUME NEW j \in Infos
      PROVE  TaskOK(j)' /\ ShutdownOK(j)' /\ HistoryOK(j)'
  <2>1. CASE j # i
    <3>1. TypeOK /\ TaskOK(j) /\ ShutdownOK(j) /\ HistoryOK(j)
      BY Zenon DEF ManagerInvariant
    <3>2. Silent \/ \E m : Says(m) /\ m.info # j
      BY <2>1, Zenon
    <3>3. Same(j) /\ (j \in peers' <=> j \in peers)
      BY <2>1, Zenon
    <3> QED
      BY <3>1, <3>2, <3>3, PeerStays, Zenon
  <2> QED
    BY <2>1, Zenon
<1>3. \A k \in DOMAIN opt_pending' : opt_pending'[k].kind \in Terminal
  BY Zenon DEF ManagerInvariant
<1> QED
  BY <1>1, <1>2, <1>3, Zenon DEF ManagerInvariant

\* Types after a step of a task.
LEMMA TaskTypes ==
    ASSUME TypeOK, UNCHANGED <<sinkVars, streamVars>>,
           task' \in [Infos -> Tasks], toTask' \in [Infos -> Seq(TaskMessages)], toTaskParked' \in [Infos -> BOOLEAN],
           \A j \in Infos : Len(toTask'[j]) <= SinkCap + 1,
           out' \in Seq(OutMessages), written' \in [Infos -> Seq(Nat)], incoming' \in [Infos -> Seq(Nat)],
           Silent \/ \E m : Says(m) /\ m.session \in 1 .. session[m.info]
    PROVE  TypeOK'
<1>1. session' = session /\ \A j \in Infos : session[j] <= session'[j]
  BY DEF sinkVars, TypeOK
<1>2. \A k \in DOMAIN Reported' : Reported'[k].session \in 1 .. session'[Reported'[k].info]
  BY <1>1, SessionNumbers, Zenon DEF TypeOK
<1> QED
  BY <1>1, <1>2, Zenon DEF TypeOK, sinkVars, streamVars

\* The invariant, as far as one peer goes.
LEMMA PeerFacts ==
    ASSUME ManagerInvariant, NEW i \in Infos
    PROVE  /\ TypeOK /\ TaskOK(i) /\ ShutdownOK(i) /\ HistoryOK(i)
           /\ task[i] \in Tasks /\ task[i].turn \in Turns /\ task[i].turn.ack \in Acks
           /\ session[i] \in Nat /\ toTask[i] \in Seq(TaskMessages)
           /\ accepted[i] \in Seq(Nat) /\ written[i] \in Seq(Nat) /\ incoming[i] \in Seq(Nat)
           /\ Taken(i) \in Nat
<1>1. task[i] \in Tasks /\ session[i] \in Nat /\ toTask[i] \in Seq(TaskMessages)
      /\ accepted[i] \in Seq(Nat) /\ written[i] \in Seq(Nat) /\ incoming[i] \in Seq(Nat)
  BY Zenon DEF ManagerInvariant, TypeOK
<1>2. task[i].turn \in Turns
  BY <1>1, Zenon DEF Tasks
<1>3. task[i].turn.ack \in Acks
  BY <1>2, Zenon DEF Turns
<1>4. Taken(i) \in Nat
  <2>1. Len(written[i]) \in Nat
    BY <1>1
  <2> QED
    BY <2>1 DEF Taken
<1> QED
  BY <1>1, <1>2, <1>3, <1>4, Zenon DEF ManagerInvariant

-----------------------------------------------------------------------------
(* The task takes something from the merged streams. *)

\* A task that waits has nothing left to do for what it took before.
LEMMA PollFacts ==
    ASSUME ManagerInvariant, NEW i \in Infos, task[i].pc = "poll"
    PROVE  /\ Open(i, Len(Reported)) /\ i \in peers /\ session[i] > 0
           /\ Taken(i) = Len(written[i]) /\ QueueOK(i) /\ Shutdowns(i) = {}
           /\ CarryUpTo(Messages(i, "SentMessage"), Len(written[i]))
           /\ CarryUpTo(Messages(i, "ReceivedMessage"), Len(incoming[i]))
<1>1. TaskOK(i) /\ ShutdownOK(i) /\ HistoryOK(i)
  BY PeerFacts, Zenon
<1>2. task[i].turn = NoTurn
  BY <1>1, Zenon DEF TaskOK
<1>3. task[i].turn.send = NoId /\ task[i].turn.recv = NoId /\ task[i].turn.ack.kind # "SentMessage"
  BY <1>2 DEF NoTurn, Turn, NoAck
<1>4. Taken(i) = Len(written[i])
  BY <1>3, Zenon DEF Taken
<1>5. CarryUpTo(Messages(i, "SentMessage"), Len(written[i]))
  BY <1>1, <1>3, Zenon DEF HistoryOK, SentOK
<1>6. CarryUpTo(Messages(i, "ReceivedMessage"), Len(incoming[i]))
  BY <1>1, <1>3, Zenon DEF HistoryOK, ReceivedOK
<1>7. Open(i, Len(Reported)) /\ i \in peers /\ session[i] > 0 /\ Shutdowns(i) = {}
  BY <1>1, Zenon DEF TaskOK, ShutdownOK
<1>8. QueueOK(i)
  BY <1>1, Zenon DEF HistoryOK, Gone
<1> QED
  BY <1>4, <1>5, <1>6, <1>7, <1>8, Zenon

\* The head of the channel is the next message that was accepted, or it is
\* none; what stays behind follows it.
LEMMA QueueShrinks ==
    ASSUME NEW i, toTask[i] \in Seq(TaskMessages), toTask[i] # <<>>, QueueOK(i),
           Taken(i) \in Nat, Len(accepted[i]) \in Nat,
           toTask'[i] = Tail(toTask[i]), accepted'[i] = accepted[i],
           Taken(i)' = IF Head(toTask[i]).kind = "SendMessage" THEN Taken(i) + 1 ELSE Taken(i)
    PROVE  /\ QueueOK(i)'
           /\ Head(toTask[i]).kind = "SendMessage" => Head(toTask[i]).id = Taken(i) + 1
<1> DEFINE q == toTask[i]
           L == Len(toTask[i])
           n == Len(accepted[i])
<1>1. /\ L \in Nat \ {0} /\ DOMAIN q = 1 .. L /\ Head(q) = q[1]
      /\ DOMAIN (toTask'[i]) = 1 .. L - 1
      /\ \A k \in 1 .. L - 1 : toTask'[i][k] = q[k + 1]
  OBVIOUS
<1>2. /\ Taken(i) <= n
      /\ {q[k].id : k \in Sends(i)} = Taken(i) + 1 .. n
      /\ \A j, k \in Sends(i) : j < k => q[j].id < q[k].id
  BY Zenon DEF QueueOK
<1>3. Sends(i) \subseteq 1 .. L /\ (1 \in Sends(i) <=> Head(q).kind = "SendMessage")
  BY <1>1 DEF Sends
<1>4. \A k : k \in Sends(i)' <=> k \in 1 .. L - 1 /\ k + 1 \in Sends(i)
  BY <1>1 DEF Sends
<1> HIDE DEF q, L, n
<1>5. {toTask'[i][k].id : k \in Sends(i)'} = {q[k].id : k \in Sends(i) \ {1}}
  <2>1. ASSUME NEW k \in Sends(i)'
        PROVE  k + 1 \in Sends(i) \ {1} /\ toTask'[i][k].id = q[k + 1].id
    BY <1>1, <1>4
  <2>2. ASSUME NEW k \in Sends(i) \ {1}
        PROVE  k - 1 \in Sends(i)' /\ toTask'[i][k - 1].id = q[k].id
    <3>1. k - 1 \in 1 .. L - 1 /\ (k - 1) + 1 = k
      BY <1>1, <1>3
    <3> QED
      BY <1>1, <1>4, <3>1, Zenon
  <2>3. ASSUME NEW x, x \in {toTask'[i][k].id : k \in Sends(i)'}
        PROVE  x \in {q[k].id : k \in Sends(i) \ {1}}
    BY <2>1, <2>3, Zenon
  <2>4. ASSUME NEW x, x \in {q[k].id : k \in Sends(i) \ {1}}
        PROVE  x \in {toTask'[i][k].id : k \in Sends(i)'}
    BY <2>2, <2>4, Zenon
  <2> QED
    BY <2>3, <2>4, Zenon
<1>6. ASSUME NEW j \in Sends(i)', NEW k \in Sends(i)', j < k
      PROVE  toTask'[i][j].id < toTask'[i][k].id
  <2>1. /\ j \in 1 .. L - 1 /\ k \in 1 .. L - 1 /\ j + 1 \in Sends(i) /\ k + 1 \in Sends(i)
        /\ j + 1 < k + 1
    BY <1>1, <1>4, <1>6
  <2> QED
    BY <1>1, <1>2, <2>1, Zenon
<1>7. CASE Head(q).kind = "SendMessage"
  <2>1. 1 \in Sends(i) /\ q[1].id \in Taken(i) + 1 .. n
    BY <1>2, <1>3, <1>7, Zenon
  <2>2. PICK p \in Sends(i) : q[p].id = Taken(i) + 1
    <3>1. Taken(i) + 1 \in Taken(i) + 1 .. n
      BY <2>1 DEF n
    <3> QED
      BY <1>2, <3>1, Zenon
  <2>3. q[1].id = Taken(i) + 1
    <3>1. CASE p # 1
      <4>1. 1 < p
        BY <1>1, <1>3, <3>1
      <4>2. q[1].id < q[p].id
        BY <1>2, <2>1, <4>1, Zenon
      <4> QED
        BY <2>1, <2>2, <4>2 DEF n
    <3> QED
      BY <2>2, <3>1, Zenon
  <2>4. {q[k].id : k \in Sends(i) \ {1}} = Taken(i) + 2 .. n
    <3>1. ASSUME NEW k \in Sends(i) \ {1} PROVE q[k].id \in Taken(i) + 2 .. n
      <4>1. 1 < k
        BY <1>1, <1>3
      <4>2. q[1].id < q[k].id /\ q[k].id \in Taken(i) + 1 .. n
        BY <1>2, <2>1, <4>1, Zenon
      <4> QED
        BY <2>3, <4>2 DEF n
    <3>2. ASSUME NEW x \in Taken(i) + 2 .. n PROVE x \in {q[k].id : k \in Sends(i) \ {1}}
      <4>1. x \in Taken(i) + 1 .. n /\ x # Taken(i) + 1
        BY DEF n
      <4>2. PICK k \in Sends(i) : q[k].id = x
        BY <1>2, <4>1, Zenon
      <4> QED
        BY <2>3, <4>1, <4>2, Zenon
    <3> QED
      BY <3>1, <3>2, Zenon
  <2>5. Taken(i)' = Taken(i) + 1 /\ Taken(i) + 1 <= n
    BY <1>7, <2>1 DEF n, q
  <2>6. {toTask'[i][k].id : k \in Sends(i)'} = Taken(i)' + 1 .. n
    <3>1. Taken(i)' + 1 = Taken(i) + 2
      BY <2>5
    <3> QED
      BY <1>5, <2>4, <3>1, Zenon
  <2> QED
    BY <1>1, <1>6, <2>3, <2>5, <2>6, Zenon DEF QueueOK, n, q
<1>8. CASE Head(q).kind # "SendMessage"
  <2>1. Sends(i) \ {1} = Sends(i) /\ Taken(i)' = Taken(i)
    BY <1>3, <1>8, Zenon DEF q
  <2> QED
    BY <1>2, <1>5, <1>6, <1>8, <2>1, Zenon DEF QueueOK, n, q
<1> QED
  BY <1>7, <1>8, Zenon

\* A turn begins with what was taken: a message of the manager, in which case
\* it is to be written and acknowledged, and a message of the peer, or neither.
TakesTurn(i, t, e) ==
    /\ task[i].pc = "poll" /\ t \in Turns /\ TurnOK(t) /\ e \in Failures \cup {None} /\ Begin(i, t, e)
    /\ UNCHANGED <<sinkVars, out, streamVars, written>>
    /\ toTask' \in [Infos -> Seq(TaskMessages)] /\ toTaskParked' \in [Infos -> BOOLEAN]
    /\ \A j \in Infos : Len(toTask'[j]) <= SinkCap + 1
    /\ \A j \in Infos \ {i} : toTask'[j] = toTask[j] /\ toTaskParked'[j] = toTaskParked[j]
    /\ toTaskParked'[i] \/ Len(toTask'[i]) <= SinkCap
    /\ QueueOK(i)'
    /\ t.ack.kind = "SentMessage" => t.send = Len(written[i]) + 1 /\ t.ack.id = t.send
    /\ \/ t.recv = NoId /\ incoming' = incoming
       \/ t.recv = Len(incoming[i]) + 1 /\ incoming' = [incoming EXCEPT ![i] = Append(@, Len(@) + 1)]

\* The invariant survives the beginning of a turn.
LEMMA TurnBegins ==
    ASSUME ManagerInvariant, NEW i \in Infos, NEW t, NEW e, TakesTurn(i, t, e)
    PROVE  ManagerInvariant'
<1>1. task[i].pc = "poll" /\ t \in Turns /\ TurnOK(t) /\ e \in Failures \cup {None} /\ Begin(i, t, e)
  BY Zenon DEF TakesTurn
<1>2. UNCHANGED <<sinkVars, out, streamVars, written>>
  BY Zenon DEF TakesTurn
<1>3. /\ toTask' \in [Infos -> Seq(TaskMessages)] /\ toTaskParked' \in [Infos -> BOOLEAN]
      /\ \A j \in Infos : Len(toTask'[j]) <= SinkCap + 1
      /\ \A j \in Infos \ {i} : toTask'[j] = toTask[j] /\ toTaskParked'[j] = toTaskParked[j]
      /\ toTaskParked'[i] \/ Len(toTask'[i]) <= SinkCap
      /\ QueueOK(i)'
  BY Zenon DEF TakesTurn
<1>4. t.ack.kind = "SentMessage" => t.send = Len(written[i]) + 1 /\ t.ack.id = t.send
  BY Zenon DEF TakesTurn
<1>5. /\ TypeOK /\ TaskOK(i) /\ ShutdownOK(i) /\ HistoryOK(i)
      /\ written[i] \in Seq(Nat) /\ incoming[i] \in Seq(Nat)
      /\ Len(written[i]) \in Nat /\ Len(incoming[i]) \in Nat
  BY PeerFacts
<1>6. /\ Open(i, Len(Reported)) /\ i \in peers /\ session[i] > 0 /\ Shutdowns(i) = {}
      /\ CarryUpTo(Messages(i, "SentMessage"), Len(written[i]))
      /\ CarryUpTo(Messages(i, "ReceivedMessage"), Len(incoming[i]))
  BY <1>1, PollFacts, Zenon
<1>7. Silent
  BY <1>2, QuietStep, Zenon
<1>8. /\ task' \in [Infos -> Tasks]
      /\ task'[i] = [pc |-> "turn", turn |-> t, queued |-> e]
      /\ \A j \in Infos \ {i} : task'[j] = task[j]
  <2>1. [pc |-> "turn", turn |-> t, queued |-> e] \in Tasks
    BY <1>1, Zenon DEF Tasks
  <2> QED
    BY <1>1, <1>5, <2>1, Zenon DEF Begin, TypeOK
<1>9. task'[i].pc = "turn" /\ task'[i].turn = t
  BY <1>8
<1>10. /\ incoming' \in [Infos -> Seq(Nat)]
       /\ \A j \in Infos \ {i} : incoming'[j] = incoming[j]
       /\ Numbered(incoming'[i])
       /\ t.recv = NoId => incoming'[i] = incoming[i]
       /\ t.recv # NoId => Len(incoming'[i]) = Len(incoming[i]) + 1 /\ t.recv = Len(incoming[i]) + 1
  <2>1. CASE t.recv = NoId /\ incoming' = incoming
    BY <1>5, <2>1, Zenon DEF TypeOK, HistoryOK
  <2>2. CASE t.recv = Len(incoming[i]) + 1 /\ incoming' = [incoming EXCEPT ![i] = Append(@, Len(@) + 1)]
    <3>1. incoming'[i] = Append(incoming[i], Len(incoming[i]) + 1)
      BY <1>5, <2>2, Zenon DEF TypeOK
    <3>2. Numbered(incoming'[i]) /\ Len(incoming'[i]) = Len(incoming[i]) + 1
      BY <1>5, <3>1 DEF HistoryOK, Numbered
    <3>3. incoming' \in [Infos -> Seq(Nat)] /\ \A j \in Infos \ {i} : incoming'[j] = incoming[j]
      BY <1>5, <2>2 DEF TypeOK
    <3> QED
      BY <1>5, <2>2, <3>2, <3>3 DEF NoId
  <2> QED
    BY <2>1, <2>2, Zenon DEF TakesTurn
<1>11. TypeOK'
  <2>1. out' \in Seq(OutMessages) /\ written' \in [Infos -> Seq(Nat)]
    BY <1>2, <1>5, Zenon DEF TypeOK
  <2> QED
    BY <1>2, <1>3, <1>5, <1>7, <1>8, <1>10, <2>1, TaskTypes, Zenon
<1>12. Cardinality(peers') <= PeerCapacity /\ opt_pending' = opt_pending
  BY <1>2, Zenon DEF ManagerInvariant, sinkVars, streamVars
<1>13. \A j \in Infos \ {i} : Same(j) /\ (j \in peers' <=> j \in peers)
  BY <1>2, <1>3, <1>8, <1>10, Zenon DEF Same, sinkVars
<1>14. TaskOK(i)'
  <2>1. Open(i, Len(Reported))'
    BY <1>6, <1>7, OpenStays, Zenon
  <2> QED
    BY <1>1, <1>2, <1>3, <1>6, <1>9, <2>1, Zenon DEF TaskOK, sinkVars
<1>15. ShutdownOK(i)'
  BY <1>2, <1>6, <1>7, <1>9, Zenon DEF ShutdownOK, Shutdowns, Silent, sinkVars
<1>16. session'[i] = session[i] /\ written'[i] = written[i] /\ accepted'[i] = accepted[i]
  BY <1>2, Zenon DEF sinkVars
<1>17. SentOK(i)'
  <2>1. PICK n : n = Len(written[i])
    BY Zenon
  <2>2. CarryUpTo(Messages(i, "SentMessage"), n)'
    BY <1>6, <1>7, <1>16, <2>1, CarrySilent, Zenon
  <2>3. t.ack.kind = "SentMessage" => t.ack.id = Taken(i)' /\ t.ack.id > 0 /\ Taken(i)' - 1 = n
    <3>1. ASSUME t.ack.kind = "SentMessage"
          PROVE  Taken(i)' = Len(written[i]) + 1
      <4>1. t.send \notin {NoId, KeepAlive}
        BY <1>4, <1>5, <3>1 DEF NoId, KeepAlive
      <4> QED
        BY <1>9, <1>16, <4>1, Zenon DEF Taken
    <3> QED
      BY <1>4, <1>5, <2>1, <3>1
  <2>4. n = (IF task[i].turn.ack.kind = "SentMessage" THEN Taken(i) - 1 ELSE Len(written[i]))'
    BY <1>9, <1>16, <2>1, <2>3, Zenon
  <2> QED
    BY <1>9, <2>2, <2>3, <2>4, Zenon DEF SentOK, CarryUpTo
<1>18. ReceivedOK(i)'
  <2>1. PICK n \in Nat : n = Len(incoming[i])
    BY <1>5, Zenon
  <2>2. CarryUpTo(Messages(i, "ReceivedMessage"), n)'
    BY <1>6, <1>7, <1>16, <2>1, CarrySilent, Zenon
  <2>3. t.recv # NoId => t.recv = Len(incoming'[i])
    BY <1>10, Zenon
  <2>4. n \in 0 .. Len(incoming'[i]) /\ n = IF t.recv = NoId THEN Len(incoming'[i]) ELSE Len(incoming'[i]) - 1
    BY <1>10, <2>1
  <2> QED
    BY <1>9, <2>2, <2>3, <2>4, Zenon DEF ReceivedOK
<1>19. HistoryOK(i)'
  BY <1>3, <1>5, <1>10, <1>16, <1>17, <1>18, Zenon DEF HistoryOK
<1> QED
  BY <1>7, <1>11, <1>12, <1>13, <1>14, <1>15, <1>19, PeerStep, Zenon

\* The manager's message, with or without one of the peer or an error of it.
LEMMA TakeManagerMessageStep ==
    ASSUME ManagerInvariant, NEW i \in Infos, TakeManagerMessage(i)
    PROVE  ManagerInvariant'
<1> DEFINE m == Head(toTask[i])
<1>1. /\ TypeOK /\ toTask[i] \in Seq(TaskMessages) /\ Taken(i) \in Nat
      /\ Len(written[i]) \in Nat /\ Len(incoming[i]) \in Nat /\ Len(accepted[i]) \in Nat
  BY PeerFacts
<1>2. /\ task[i].pc = "poll" /\ toTask[i] # <<>>
      /\ toTask' = [toTask EXCEPT ![i] = Tail(@)]
      /\ toTaskParked' = [toTaskParked EXCEPT ![i] = FALSE]
      /\ UNCHANGED <<sinkVars, out, streamVars, written>>
  BY Zenon DEF TakeManagerMessage
<1>3. PICK recv \in Nat, e \in Failures \cup {None} :
        /\ Begin(i, ManagerTurn(m, recv), e)
        /\ \/ recv = NoId /\ incoming' = incoming
           \/ recv = Len(incoming[i]) + 1 /\ incoming' = [incoming EXCEPT ![i] = Append(@, Len(@) + 1)]
  BY <1>1 DEF TakeManagerMessage, FromPeer, NoId
<1>4. Taken(i) = Len(written[i]) /\ QueueOK(i)
  BY <1>2, PollFacts, Zenon
<1>5. m \in TaskMessages
  BY <1>1, <1>2
<1>6. /\ toTask'[i] = Tail(toTask[i]) /\ Len(toTask'[i]) = Len(toTask[i]) - 1 /\ Len(toTask[i]) \in Nat
      /\ Len(toTask[i]) <= SinkCap + 1
      /\ toTask' \in [Infos -> Seq(TaskMessages)] /\ toTaskParked' \in [Infos -> BOOLEAN]
      /\ \A j \in Infos \ {i} : toTask'[j] = toTask[j] /\ toTaskParked'[j] = toTaskParked[j]
  BY <1>1, <1>2 DEF TypeOK
<1>7. Len(toTask'[i]) <= SinkCap /\ \A j \in Infos : Len(toTask'[j]) <= SinkCap + 1
  <2>1. Len(toTask'[i]) <= SinkCap
    BY <1>6, PeerChannelCaps
  <2>2. \A j \in Infos \ {i} : Len(toTask'[j]) <= SinkCap + 1
    BY <1>1, <1>6, Zenon DEF TypeOK
  <2> QED
    BY <1>6, <2>1, <2>2, PeerChannelCaps
<1> DEFINE t == ManagerTurn(m, recv)
<1>8. CASE m.kind = "SendMessage"
  <2>1. t = [send |-> m.id, recv |-> recv, ack |-> [kind |-> "SentMessage", id |-> m.id], good |-> TRUE]
    BY <1>8, Zenon DEF ManagerTurn, Turn
  <2>3. m.id \in {toTask[i][k].id : k \in Sends(i)}
    <3>1. 1 \in Sends(i) /\ m = toTask[i][1]
      BY <1>1, <1>2, <1>8 DEF Sends
    <3> QED
      BY <3>1, Zenon
  <2>4. m.id > 0 /\ m.id \in Nat
    <3>1. m.id \in Taken(i) + 1 .. Len(accepted[i])
      BY <1>4, <2>3, Zenon DEF QueueOK
    <3> QED
      BY <1>1, <3>1
  <2>5. Taken(i)' = Taken(i) + 1
    <3>1. task'[i].turn = t
      BY <1>1, <1>3, Zenon DEF Begin, TypeOK
    <3>2. task'[i].turn.send = m.id /\ m.id \notin {NoId, KeepAlive}
      BY <2>1, <2>4, <3>1 DEF NoId, KeepAlive
    <3> QED
      BY <1>2, <1>4, <3>2, Zenon DEF Taken
  <2>6. QueueOK(i)' /\ m.id = Taken(i) + 1
    BY <1>1, <1>2, <1>4, <1>6, <1>8, <2>5, QueueShrinks, Zenon DEF sinkVars
  <2>7. t \in Turns /\ TurnOK(t)
    <3>1. [kind |-> "SentMessage", id |-> m.id] \in Acks
      BY <2>4, Zenon DEF Acks
    <3>2. t \in Turns
      <4>1. \A x \in Nat, a \in Acks : [send |-> x, recv |-> recv, ack |-> a, good |-> TRUE] \in Turns
        BY Zenon DEF Turns
      <4> HIDE DEF t, m
      <4> QED
        BY <2>1, <2>4, <3>1, <4>1, Zenon
    <3>3. t.ack.kind \notin Terminal /\ t.good = TRUE
      BY <2>1 DEF Terminal, Failures
    <3>4. t.send # KeepAlive /\ t.ack = [kind |-> "SentMessage", id |-> t.send]
      BY <2>1, <2>4 DEF KeepAlive
    <3> QED
      BY <3>2, <3>3, <3>4, Zenon DEF TurnOK
  <2>8. t.ack.kind = "SentMessage" => t.send = Len(written[i]) + 1 /\ t.ack.id = t.send
    BY <1>4, <2>1, <2>6
  <2>9. t.recv = recv
    BY <2>1
  <2> HIDE DEF t, m
  <2> QED
    BY <1>2, <1>3, <1>6, <1>7, <2>6, <2>7, <2>8, <2>9, TurnBegins, Zenon DEF t, TakesTurn
<1>9. CASE m.kind # "SendMessage"
  <2>1. t = [send |-> NoId, recv |-> recv, ack |-> [kind |-> "PeerRemoved", id |-> NoId], good |-> FALSE]
    BY <1>9, Zenon DEF ManagerTurn, Turn
  <2>2. Taken(i)' = Taken(i)
    <3>1. task'[i].turn = t
      BY <1>1, <1>3 DEF Begin, TypeOK
    <3>2. task'[i].turn.send = NoId
      BY <2>1, <3>1
    <3> QED
      BY <1>2, <1>4, <3>2, Zenon DEF Taken
  <2>3. QueueOK(i)'
    BY <1>1, <1>2, <1>4, <1>6, <1>9, <2>2, QueueShrinks, Zenon DEF sinkVars
  <2>4. t \in Turns /\ TurnOK(t)
    <3>1. [kind |-> "PeerRemoved", id |-> NoId] \in Acks
      BY Zenon DEF Acks, Terminal
    <3>2. t \in Turns
      <4>1. \A a \in Acks : [send |-> NoId, recv |-> recv, ack |-> a, good |-> FALSE] \in Turns
        BY Zenon DEF Turns, NoId
      <4> HIDE DEF t, m
      <4> QED
        BY <2>1, <3>1, <4>1, Zenon
    <3>3. t.ack.kind \in Terminal /\ t.good = FALSE
      BY <2>1 DEF Terminal
    <3>4. t.send = NoId /\ t.send # KeepAlive
      BY <2>1 DEF NoId, KeepAlive
    <3> QED
      BY <3>2, <3>3, <3>4, Zenon DEF TurnOK
  <2>5. t.ack.kind # "SentMessage" /\ t.recv = recv
    BY <2>1
  <2> HIDE DEF t, m
  <2> QED
    BY <1>2, <1>3, <1>6, <1>7, <2>3, <2>4, <2>5, TurnBegins, Zenon DEF t, TakesTurn
<1> QED
  BY <1>8, <1>9, Zenon

\* A message or an error of the peer, or a heartbeat: the channel of the
\* manager is not touched.
LEMMA TakeOtherStep ==
    ASSUME ManagerInvariant, NEW i \in Infos,
           TakePeerMessage(i) \/ TakeHeartbeatInterval(i) \/ TakePeerFailure(i)
    PROVE  ManagerInvariant'
<1>1. /\ TypeOK /\ TaskOK(i) /\ Len(incoming[i]) \in Nat
  BY PeerFacts
<1>2. /\ task[i].pc = "poll"
      /\ UNCHANGED <<sinkVars, toTask, toTaskParked, out, streamVars, written>>
  BY Zenon DEF TakePeerMessage, TakeHeartbeatInterval, TakePeerFailure
<1>3. PICK t \in Turns :
        /\ TurnOK(t) /\ Begin(i, t, None)
        /\ t.send \in {NoId, KeepAlive} /\ t.ack.kind # "SentMessage"
        /\ \/ t.recv = NoId /\ incoming' = incoming
           \/ t.recv = Len(incoming[i]) + 1 /\ incoming' = [incoming EXCEPT ![i] = Append(@, Len(@) + 1)]
  <2>1. CASE TakePeerMessage(i)
    <3> DEFINE t == Turn(NoId, Len(incoming[i]) + 1, NoAck, TRUE)
    <3>1. t \in Turns
      BY <1>1 DEF Turns, Turn, Acks, NoId
    <3>2. TurnOK(t) /\ t.send = NoId /\ t.ack.kind # "SentMessage" /\ t.recv = Len(incoming[i]) + 1
      BY Zenon DEF TurnOK, Turn, NoAck, NoId, KeepAlive, Terminal, Failures
    <3> QED
      BY <2>1, <3>1, <3>2, Zenon DEF TakePeerMessage, FromPeer
  <2>2. CASE TakeHeartbeatInterval(i)
    <3> DEFINE t == Turn(KeepAlive, NoId, NoAck, TRUE)
    <3>1. t \in Turns
      BY Zenon DEF Turns, Turn, Acks, NoId
    <3>2. TurnOK(t) /\ t.send = KeepAlive /\ t.ack.kind # "SentMessage" /\ t.recv = NoId
      BY Zenon DEF TurnOK, Turn, NoAck, NoId, KeepAlive, Terminal, Failures
    <3> QED
      BY <2>2, <3>1, <3>2, Zenon DEF TakeHeartbeatInterval
  <2>3. CASE TakePeerFailure(i)
    <3>1. PICK e \in Failures : Begin(i, Turn(NoId, NoId, [kind |-> e, id |-> NoId], FALSE), None)
      BY <2>3, Zenon DEF TakePeerFailure
    <3> DEFINE t == Turn(NoId, NoId, [kind |-> e, id |-> NoId], FALSE)
    <3>2. t \in Turns
      BY Zenon DEF Turns, Turn, Acks, NoId, Terminal
    <3>3. TurnOK(t) /\ t.send = NoId /\ t.ack.kind # "SentMessage" /\ t.recv = NoId
      BY DEF TurnOK, Turn, NoId, KeepAlive, Terminal, Failures
    <3> QED
      BY <2>3, <3>1, <3>2, <3>3, Zenon DEF TakePeerFailure
  <2> QED
    BY <2>1, <2>2, <2>3, Zenon
<1>4. Taken(i) = Len(written[i]) /\ QueueOK(i)
  BY <1>2, PollFacts, Zenon
<1>5. QueueOK(i)'
  <2>1. task'[i].turn = t
    BY <1>1, <1>3, Zenon DEF Begin, TypeOK
  <2>2. Taken(i)' = Taken(i)
    BY <1>2, <1>3, <1>4, <2>1, Zenon DEF Taken
  <2> QED
    BY <1>2, <1>4, <2>2, Zenon DEF QueueOK, Sends, sinkVars
<1>6. /\ toTask' \in [Infos -> Seq(TaskMessages)] /\ toTaskParked' \in [Infos -> BOOLEAN]
      /\ \A j \in Infos : Len(toTask'[j]) <= SinkCap + 1
      /\ \A j \in Infos \ {i} : toTask'[j] = toTask[j] /\ toTaskParked'[j] = toTaskParked[j]
      /\ toTaskParked'[i] \/ Len(toTask'[i]) <= SinkCap
  BY <1>1, <1>2, Zenon DEF TypeOK, TaskOK
<1> QED
  BY <1>2, <1>3, <1>5, <1>6, TurnBegins, Zenon DEF TakesTurn

-----------------------------------------------------------------------------
(* The stages of a turn. *)

\* What is known of a task in the middle of a turn.
LEMMA TurnFacts ==
    ASSUME ManagerInvariant, NEW i \in Infos, task[i].pc = "turn"
    PROVE  /\ TurnOK(task[i].turn) /\ Open(i, Len(Reported)) /\ i \in peers /\ session[i] > 0
           /\ Shutdowns(i) = {} /\ QueueOK(i)
           /\ toTaskParked[i] \/ Len(toTask[i]) <= SinkCap
           /\ HistoryOK(i) /\ SentOK(i) /\ ReceivedOK(i)
<1>1. TaskOK(i) /\ ShutdownOK(i) /\ HistoryOK(i)
  BY PeerFacts, Zenon
<1>2. TurnOK(task[i].turn) /\ Open(i, Len(Reported)) /\ i \in peers /\ session[i] > 0
  BY <1>1, Zenon DEF TaskOK
<1>3. Shutdowns(i) = {} /\ (toTaskParked[i] \/ Len(toTask[i]) <= SinkCap)
  BY <1>1, Zenon DEF TaskOK, ShutdownOK
<1>4. QueueOK(i) /\ SentOK(i) /\ ReceivedOK(i)
  BY <1>1, Zenon DEF HistoryOK, Gone
<1> QED
  BY <1>1, <1>2, <1>3, <1>4, Zenon

\* What was acknowledged stays as it is in a silent step that leaves the
\* acknowledgement to come alone.
LEMMA SentSilent ==
    ASSUME Silent, NEW i, session'[i] = session[i], SentOK(i), task'[i].turn.ack = task[i].turn.ack,
           IF task[i].turn.ack.kind = "SentMessage" THEN Taken(i)' = Taken(i) ELSE Len(written'[i]) = Len(written[i])
    PROVE  SentOK(i)'
<1>1. PICK n : n = IF task[i].turn.ack.kind = "SentMessage" THEN Taken(i) - 1 ELSE Len(written[i])
  BY Zenon
<1>2. CarryUpTo(Messages(i, "SentMessage"), n)
  BY <1>1, Zenon DEF SentOK
<1>3. CarryUpTo(Messages(i, "SentMessage"), n)'
  BY <1>2, CarrySilent, Zenon
<1>4. n = (IF task[i].turn.ack.kind = "SentMessage" THEN Taken(i) - 1 ELSE Len(written[i]))'
  BY <1>1, Zenon
<1> QED
  BY <1>3, <1>4, Zenon DEF SentOK, CarryUpTo

\* And so does what was forwarded.
LEMMA ReceivedSilent ==
    ASSUME Silent, NEW i, session'[i] = session[i], ReceivedOK(i),
           task'[i].turn.recv = task[i].turn.recv, incoming'[i] = incoming[i],
           task[i].pc = "failed" => task'[i].pc = "failed"
    PROVE  ReceivedOK(i)'
<1>1. PICK n \in 0 .. Len(incoming[i]) :
        /\ CarryUpTo(Messages(i, "ReceivedMessage"), n)
        /\ task[i].pc # "failed" => n = IF task[i].turn.recv = NoId THEN Len(incoming[i]) ELSE Len(incoming[i]) - 1
  BY Zenon DEF ReceivedOK
<1>2. CarryUpTo(Messages(i, "ReceivedMessage"), n)'
  BY <1>1, CarrySilent, Zenon
<1> QED
  BY <1>1, <1>2, Zenon DEF ReceivedOK

\* Stage one: what is written is the next message that was accepted.
LEMMA WriteToPeerStep ==
    ASSUME ManagerInvariant, NEW i \in Infos, WriteToPeer(i)
    PROVE  ManagerInvariant'
<1> DEFINE t == task[i].turn
<1>1. /\ TypeOK /\ task[i] \in Tasks /\ t \in Turns /\ t.ack \in Acks
      /\ written[i] \in Seq(Nat) /\ Len(written[i]) \in Nat /\ Len(accepted[i]) \in Nat
  BY PeerFacts
<1>2. /\ task[i].pc = "turn" /\ t.send # NoId
      /\ task' = [task EXCEPT ![i].turn.send = NoId]
      /\ written' = [written EXCEPT ![i] = IF t.send = KeepAlive THEN @ ELSE Append(@, t.send)]
      /\ UNCHANGED <<sinkVars, toTask, toTaskParked, out, streamVars, incoming>>
  BY Zenon DEF WriteToPeer
<1>3. /\ TurnOK(t) /\ Open(i, Len(Reported)) /\ i \in peers /\ session[i] > 0
      /\ Shutdowns(i) = {} /\ QueueOK(i)
      /\ toTaskParked[i] \/ Len(toTask[i]) <= SinkCap
      /\ HistoryOK(i) /\ SentOK(i) /\ ReceivedOK(i)
  BY <1>2, TurnFacts, Zenon
<1>4. Silent
  BY <1>2, QuietStep, Zenon
<1>5. /\ task' \in [Infos -> Tasks] /\ task'[i].pc = "turn"
      /\ task'[i].turn = [t EXCEPT !.send = NoId]
      /\ \A j \in Infos \ {i} : task'[j] = task[j]
  <2>1. [t EXCEPT !.send = NoId] \in Turns
    BY <1>1, Zenon DEF Turns, NoId
  <2>2. task' = [task EXCEPT ![i] = [task[i] EXCEPT !.turn = [t EXCEPT !.send = NoId]]]
    BY <1>1, <1>2, Zenon DEF TypeOK, Tasks, Turns
  <2>3. [task[i] EXCEPT !.turn = [t EXCEPT !.send = NoId]] \in Tasks
    BY <1>1, <2>1, Zenon DEF Tasks
  <2>4. PICK u : u = [t EXCEPT !.send = NoId]
    BY Zenon
  <2>5. [task[i] EXCEPT !.turn = u].pc = task[i].pc /\ [task[i] EXCEPT !.turn = u].turn = u
    BY <1>1, Zenon DEF Tasks
  <2>6. task'[i] = [task[i] EXCEPT !.turn = u] /\ \A j \in Infos \ {i} : task'[j] = task[j]
    BY <1>1, <2>2, <2>4, Zenon DEF TypeOK
  <2>7. task' \in [Infos -> Tasks]
    BY <1>1, <2>2, <2>3, Zenon DEF TypeOK
  <2> QED
    BY <1>2, <2>4, <2>5, <2>6, <2>7, Zenon
<1>6. task'[i].turn.send = NoId /\ task'[i].turn.ack = t.ack /\ task'[i].turn.recv = t.recv /\ task'[i].turn.good = t.good
  BY <1>1, <1>5, Zenon DEF Turns
<1>7. /\ written' \in [Infos -> Seq(Nat)] /\ \A j \in Infos \ {i} : written'[j] = written[j]
      /\ Numbered(written'[i]) /\ Len(written'[i]) <= Len(accepted[i])
      /\ Taken(i)' = Taken(i)
      /\ t.ack.kind # "SentMessage" => Len(written'[i]) = Len(written[i])
  <2>1. CASE t.send = KeepAlive
    <3>1. written' = written /\ t.ack = NoAck
      BY <1>1, <1>2, <1>3, <2>1, Zenon DEF TypeOK, TurnOK
    <3>2. Taken(i)' = Taken(i)
      BY <1>6, <2>1, <3>1, Zenon DEF Taken
    <3> QED
      BY <1>1, <1>3, <3>1, <3>2, Zenon DEF TypeOK, HistoryOK
  <2>2. CASE t.send # KeepAlive
    <3>1. t.ack = [kind |-> "SentMessage", id |-> t.send]
      BY <1>2, <1>3, <2>2, Zenon DEF TurnOK
    <3>2. Taken(i) = Len(written[i]) + 1
      BY <1>2, <2>2, Zenon DEF Taken
    <3>3. t.ack.kind = "SentMessage" /\ t.send = Len(written[i]) + 1
      BY <1>3, <3>1, <3>2 DEF SentOK
    <3>4. written' = [written EXCEPT ![i] = Append(@, t.send)]
      BY <1>2, <2>2, Zenon
    <3>5. written'[i] = Append(written[i], Len(written[i]) + 1)
      BY <1>1, <3>3, <3>4, Zenon DEF TypeOK
    <3>6. Len(written'[i]) = Len(written[i]) + 1 /\ Numbered(written'[i])
      BY <1>1, <1>3, <3>5 DEF Numbered, HistoryOK
    <3>7. written' \in [Infos -> Seq(Nat)] /\ \A j \in Infos \ {i} : written'[j] = written[j]
      BY <1>1, <3>3, <3>4 DEF TypeOK
    <3>8. Taken(i)' = Taken(i)
      BY <1>6, <3>2, <3>6, Zenon DEF Taken
    <3>9. Len(written'[i]) <= Len(accepted[i])
      BY <1>3, <3>2, <3>6, Zenon DEF QueueOK
    <3> QED
      BY <3>3, <3>6, <3>7, <3>8, <3>9, Zenon
  <2> QED
    BY <2>1, <2>2, Zenon
<1>8. TypeOK'
  <2>1. /\ out' \in Seq(OutMessages) /\ incoming' \in [Infos -> Seq(Nat)]
        /\ toTask' \in [Infos -> Seq(TaskMessages)] /\ toTaskParked' \in [Infos -> BOOLEAN]
        /\ \A j \in Infos : Len(toTask'[j]) <= SinkCap + 1
    BY <1>1, <1>2, Zenon DEF TypeOK
  <2> QED
    BY <1>1, <1>2, <1>4, <1>5, <1>7, <2>1, TaskTypes, Zenon
<1>9. TaskOK(i)'
  <2>1. Open(i, Len(Reported))'
    BY <1>3, <1>4, OpenStays, Zenon
  <2>2. TurnOK(task'[i].turn)
    BY <1>3, <1>6 DEF TurnOK, NoId, KeepAlive
  <2> QED
    BY <1>2, <1>3, <1>5, <2>1, <2>2, Zenon DEF TaskOK, sinkVars
<1>10. ShutdownOK(i)'
  BY <1>3, <1>4, <1>5, Zenon DEF ShutdownOK, Shutdowns, Silent
<1>11. HistoryOK(i)'
  <2>1. session'[i] = session[i] /\ accepted'[i] = accepted[i] /\ incoming'[i] = incoming[i] /\ toTask'[i] = toTask[i]
    BY <1>2, Zenon DEF sinkVars
  <2>2. SentOK(i)'
    BY <1>3, <1>4, <1>6, <1>7, <2>1, SentSilent, Zenon
  <2>3. ReceivedOK(i)'
    BY <1>2, <1>3, <1>4, <1>6, <2>1, ReceivedSilent, Zenon
  <2>4. QueueOK(i)'
    BY <1>3, <1>7, <2>1 DEF QueueOK, Sends
  <2> QED
    BY <1>3, <1>7, <2>1, <2>2, <2>3, <2>4, Zenon DEF HistoryOK
<1>12. \A j \in Infos \ {i} : Same(j) /\ (j \in peers' <=> j \in peers)
  BY <1>2, <1>5, <1>7, Zenon DEF Same, sinkVars
<1>13. Cardinality(peers') <= PeerCapacity /\ opt_pending' = opt_pending
  BY <1>2, Zenon DEF ManagerInvariant, sinkVars, streamVars
<1> QED
  BY <1>4, <1>8, <1>9, <1>10, <1>11, <1>12, <1>13, PeerStep, Zenon

\* A write that fails: the task ends, and its peer stays in the map.
LEMMA WriteFailsStep ==
    ASSUME ManagerInvariant, NEW i \in Infos, WriteFails(i)
    PROVE  ManagerInvariant'
<1> DEFINE t == task[i].turn
<1>1. /\ TypeOK /\ t \in Turns /\ t.ack \in Acks /\ Len(written[i]) \in Nat
  BY PeerFacts
<1>2. /\ task[i].pc = "turn" /\ t.send # NoId
      /\ task' = [task EXCEPT ![i] = [Ended EXCEPT !.pc = "failed"]]
      /\ UNCHANGED <<sinkVars, toTask, toTaskParked, out, streamVars, written, incoming>>
  BY Zenon DEF WriteFails
<1>3. /\ TurnOK(t) /\ Open(i, Len(Reported)) /\ i \in peers /\ session[i] > 0
      /\ Shutdowns(i) = {}
      /\ toTaskParked[i] \/ Len(toTask[i]) <= SinkCap
      /\ HistoryOK(i) /\ SentOK(i) /\ ReceivedOK(i)
  BY <1>2, TurnFacts, Zenon
<1>4. Silent
  BY <1>2, QuietStep, Zenon
<1>5. /\ task' \in [Infos -> Tasks] /\ task'[i].pc = "failed" /\ task'[i].turn = NoTurn
      /\ \A j \in Infos \ {i} : task'[j] = task[j]
  <2>1. [Ended EXCEPT !.pc = "failed"] = [pc |-> "failed", turn |-> NoTurn, queued |-> None]
    BY DEF Ended
  <2>2. NoTurn \in Turns /\ [pc |-> "failed", turn |-> NoTurn, queued |-> None] \in Tasks
    BY Zenon DEF NoTurn, Turn, Turns, Tasks, Acks, NoId
  <2> QED
    BY <1>1, <1>2, <2>1, <2>2, Zenon DEF TypeOK
<1>6. TypeOK'
  <2>1. /\ out' \in Seq(OutMessages) /\ incoming' \in [Infos -> Seq(Nat)] /\ written' \in [Infos -> Seq(Nat)]
        /\ toTask' \in [Infos -> Seq(TaskMessages)] /\ toTaskParked' \in [Infos -> BOOLEAN]
        /\ \A j \in Infos : Len(toTask'[j]) <= SinkCap + 1
    BY <1>1, <1>2, Zenon DEF TypeOK
  <2> QED
    BY <1>1, <1>2, <1>4, <1>5, <2>1, TaskTypes, Zenon
<1>7. TaskOK(i)'
  <2>1. Open(i, Len(Reported))'
    BY <1>3, <1>4, OpenStays, Zenon
  <2> QED
    BY <1>2, <1>3, <1>5, <2>1, Zenon DEF TaskOK, sinkVars
<1>8. ShutdownOK(i)'
  BY <1>3, <1>4, <1>5, Zenon DEF ShutdownOK, Shutdowns, Silent
<1>9. HistoryOK(i)'
  <2>1. /\ session'[i] = session[i] /\ accepted'[i] = accepted[i] /\ incoming'[i] = incoming[i]
        /\ written'[i] = written[i] /\ Gone(i)'
    BY <1>2, <1>5, Zenon DEF sinkVars, Gone
  <2>2. SentOK(i)'
    <3>1. CarryUpTo(Messages(i, "SentMessage"), Len(written[i]))
      <4>1. CASE t.ack.kind = "SentMessage"
        <5>1. t.send # KeepAlive
          BY <1>3, <4>1 DEF TurnOK, NoAck
        <5>2. Taken(i) = Len(written[i]) + 1
          BY <1>2, <5>1, Zenon DEF Taken
        <5>3. Taken(i) - 1 = Len(written[i])
          BY <1>1, <5>2
        <5> QED
          BY <1>3, <4>1, <5>3, Zenon DEF SentOK
      <4>2. CASE t.ack.kind # "SentMessage"
        BY <1>3, <4>2, Zenon DEF SentOK
      <4> QED
        BY <4>1, <4>2, Zenon
    <3>2. PICK n : n = Len(written[i])
      BY Zenon
    <3>3. CarryUpTo(Messages(i, "SentMessage"), n)'
      BY <1>4, <2>1, <3>1, <3>2, CarrySilent, Zenon
    <3>4. task'[i].turn.ack.kind # "SentMessage" /\ n = Len(written'[i])
      BY <1>5, <2>1, <3>2 DEF NoTurn, Turn, NoAck
    <3> QED
      BY <3>3, <3>4, Zenon DEF SentOK, CarryUpTo
  <2>3. ReceivedOK(i)'
    <3>1. PICK n \in 0 .. Len(incoming[i]) : CarryUpTo(Messages(i, "ReceivedMessage"), n)
      BY <1>3, Zenon DEF ReceivedOK
    <3>2. CarryUpTo(Messages(i, "ReceivedMessage"), n)'
      BY <1>4, <2>1, <3>1, CarrySilent, Zenon
    <3>3. task'[i].turn.recv = NoId
      BY <1>5 DEF NoTurn, Turn
    <3> QED
      BY <1>5, <2>1, <3>2, <3>3, Zenon DEF ReceivedOK
  <2> QED
    BY <1>3, <2>1, <2>2, <2>3, Zenon DEF HistoryOK
<1>10. \A j \in Infos \ {i} : Same(j) /\ (j \in peers' <=> j \in peers)
  BY <1>2, <1>5, Zenon DEF Same, sinkVars
<1>11. Cardinality(peers') <= PeerCapacity /\ opt_pending' = opt_pending
  BY <1>2, Zenon DEF ManagerInvariant, sinkVars, streamVars
<1> QED
  BY <1>4, <1>6, <1>7, <1>8, <1>9, <1>10, <1>11, PeerStep

\* The turn is over.
LEMMA NextTurnStep ==
    ASSUME ManagerInvariant, NEW i \in Infos, NextTurn(i)
    PROVE  ManagerInvariant'
<1>1. /\ TypeOK /\ task[i] \in Tasks
  BY PeerFacts, Zenon
<1>2. /\ task[i].pc = "turn" /\ task[i].turn = NoTurn
      /\ task' = [task EXCEPT ![i].pc = "poll"]
      /\ UNCHANGED <<sinkVars, toTask, toTaskParked, out, streamVars, written, incoming>>
  BY Zenon DEF NextTurn
<1>3. /\ Open(i, Len(Reported)) /\ i \in peers /\ session[i] > 0
      /\ Shutdowns(i) = {} /\ QueueOK(i)
      /\ toTaskParked[i] \/ Len(toTask[i]) <= SinkCap
      /\ HistoryOK(i) /\ SentOK(i) /\ ReceivedOK(i)
  BY <1>2, TurnFacts, Zenon
<1>4. Silent
  BY <1>2, QuietStep, Zenon
<1>5. /\ task' \in [Infos -> Tasks] /\ task'[i].pc = "poll" /\ task'[i].turn = NoTurn
      /\ \A j \in Infos \ {i} : task'[j] = task[j]
  <2>1. [task[i] EXCEPT !.pc = "poll"] \in Tasks
    BY <1>1, Zenon DEF Tasks
  <2>2. [task[i] EXCEPT !.pc = "poll"].pc = "poll" /\ [task[i] EXCEPT !.pc = "poll"].turn = NoTurn
    BY <1>1, <1>2, Zenon DEF Tasks
  <2>3. task' = [task EXCEPT ![i] = [task[i] EXCEPT !.pc = "poll"]]
    BY <1>2, Zenon
  <2> QED
    BY <1>1, <2>1, <2>2, <2>3, Zenon DEF TypeOK
<1>6. TypeOK'
  <2>1. /\ out' \in Seq(OutMessages) /\ incoming' \in [Infos -> Seq(Nat)] /\ written' \in [Infos -> Seq(Nat)]
        /\ toTask' \in [Infos -> Seq(TaskMessages)] /\ toTaskParked' \in [Infos -> BOOLEAN]
        /\ \A j \in Infos : Len(toTask'[j]) <= SinkCap + 1
    BY <1>1, <1>2, Zenon DEF TypeOK
  <2> QED
    BY <1>1, <1>2, <1>4, <1>5, <2>1, TaskTypes, Zenon
<1>7. TaskOK(i)'
  <2>1. Open(i, Len(Reported))'
    BY <1>3, <1>4, OpenStays, Zenon
  <2> QED
    BY <1>2, <1>3, <1>5, <2>1, Zenon DEF TaskOK, sinkVars
<1>8. ShutdownOK(i)'
  BY <1>3, <1>4, <1>5, Zenon DEF ShutdownOK, Shutdowns, Silent
<1>9. HistoryOK(i)'
  <2>1. /\ session'[i] = session[i] /\ accepted'[i] = accepted[i] /\ incoming'[i] = incoming[i]
        /\ written'[i] = written[i] /\ toTask'[i] = toTask[i] /\ Taken(i)' = Taken(i)
    BY <1>2, <1>5, Zenon DEF sinkVars, Taken
  <2>2. SentOK(i)'
    BY <1>2, <1>3, <1>4, <1>5, <2>1, SentSilent, Zenon
  <2>3. ReceivedOK(i)'
    BY <1>2, <1>3, <1>4, <1>5, <2>1, ReceivedSilent, Zenon
  <2>4. QueueOK(i)'
    BY <1>3, <2>1 DEF QueueOK, Sends
  <2> QED
    BY <1>3, <2>1, <2>2, <2>3, <2>4, Zenon DEF HistoryOK
<1>10. \A j \in Infos \ {i} : Same(j) /\ (j \in peers' <=> j \in peers)
  BY <1>2, <1>5, Zenon DEF Same, sinkVars
<1>11. Cardinality(peers') <= PeerCapacity /\ opt_pending' = opt_pending
  BY <1>2, Zenon DEF ManagerInvariant, sinkVars, streamVars
<1> QED
  BY <1>4, <1>6, <1>7, <1>8, <1>9, <1>10, <1>11, PeerStep

-----------------------------------------------------------------------------
(* The task reports to the client. *)

\* A task of the peer's session reports one message of that session.
Reports(i, kind, id) ==
    /\ Report(i, kind, id) /\ Out(i, kind, id) \in OutMessages
    /\ session[i] > 0 /\ i \in peers /\ Shutdowns(i) = {} /\ ~Gone(i)
    /\ kind = "PeerAdded" <=> ~Open(i, Len(Reported))
    /\ UNCHANGED <<sinkVars, toTask, toTaskParked, streamVars, written, incoming>>
    /\ task' \in [Infos -> Tasks] /\ \A j \in Infos \ {i} : task'[j] = task[j]
    /\ IF task'[i].pc = "turn" THEN TurnOK(task'[i].turn) ELSE task'[i].turn = NoTurn
    /\ task'[i].pc \in {"poll", "turn", "failed"} <=> kind \notin Terminal
    /\ task'[i].pc = "ended" <=> kind \in Terminal

\* The invariant survives a report; what is left to show are the numbers.
LEMMA ReportStep ==
    ASSUME ManagerInvariant, NEW i \in Infos, NEW kind, NEW id, Reports(i, kind, id),
           Taken(i)' = Taken(i), SentOK(i)', ReceivedOK(i)'
    PROVE  ManagerInvariant'
<1>1. /\ Report(i, kind, id) /\ Out(i, kind, id) \in OutMessages
      /\ session[i] > 0 /\ i \in peers /\ Shutdowns(i) = {} /\ ~Gone(i)
      /\ kind = "PeerAdded" <=> ~Open(i, Len(Reported))
  BY Zenon DEF Reports
<1>2. UNCHANGED <<sinkVars, toTask, toTaskParked, streamVars, written, incoming>>
  BY Zenon DEF Reports
<1>3. task' \in [Infos -> Tasks] /\ \A j \in Infos \ {i} : task'[j] = task[j]
  BY Zenon DEF Reports
<1> DEFINE m == Out(i, kind, id)
<1>4. TypeOK /\ TaskOK(i) /\ HistoryOK(i) /\ session[i] \in Nat
  BY PeerFacts, Zenon
<1>5. m.info = i /\ m.session = session[i] /\ m.kind = kind
  BY Zenon DEF Out
<1>6. out' = Append(out, m)
  BY <1>1, Zenon DEF Report
<1> HIDE DEF m
<1>7. Says(m)
  BY <1>1, <1>2, <1>4, <1>6, ReportSays, Zenon DEF m
<1>8. TypeOK'
  <2>1. /\ out' \in Seq(OutMessages) /\ incoming' \in [Infos -> Seq(Nat)] /\ written' \in [Infos -> Seq(Nat)]
        /\ toTask' \in [Infos -> Seq(TaskMessages)] /\ toTaskParked' \in [Infos -> BOOLEAN]
        /\ \A j \in Infos : Len(toTask'[j]) <= SinkCap + 1
    BY <1>1, <1>2, <1>4, <1>6 DEF TypeOK, m
  <2>2. m.session \in 1 .. session[m.info]
    BY <1>1, <1>4, <1>5
  <2> QED
    BY <1>2, <1>3, <1>4, <1>7, <2>1, <2>2, TaskTypes, Zenon
<1>9. TaskOK(i)'
  <2>1. Open(i, Len(Reported))' <=> kind \notin Terminal
    <3>1. Open(i, Len(Reported))' <=> IF m.info = i THEN m.kind \notin Terminal ELSE Open(i, Len(Reported))
      BY <1>4, <1>7, OpenAppend, Zenon
    <3> QED
      BY <1>5, <3>1, Zenon
  <2>2. /\ IF task'[i].pc = "turn" THEN TurnOK(task'[i].turn) ELSE task'[i].turn = NoTurn
        /\ task'[i].pc \in {"poll", "turn", "failed"} <=> kind \notin Terminal
    BY Zenon DEF Reports
  <2>3. peers' = peers /\ session' = session /\ toTask' = toTask /\ toTaskParked' = toTaskParked
    BY <1>2, Zenon DEF sinkVars
  <2>4. toTaskParked[i] \/ Len(toTask[i]) <= SinkCap
    BY <1>4, Zenon DEF TaskOK
  <2> QED
    BY <1>1, <2>1, <2>2, <2>3, <2>4, Zenon DEF TaskOK
<1>10. ShutdownOK(i)'
  <2>1. Shutdowns(i)' = IF kind \in Terminal THEN {Len(UnderWay) + 1} ELSE {}
    <3>1. Shutdowns(i)' = Shutdowns(i) \cup (IF m.info = i /\ m.kind \in Terminal
                                             THEN {Len(UnderWay) + 1} ELSE {})
      BY <1>4, <1>7, ShutdownsAppend, Zenon
    <3> QED
      BY <1>1, <1>5, <3>1, Zenon
  <2> QED
    <3>1. i \in peers' /\ (task'[i].pc = "ended" <=> kind \in Terminal)
      BY <1>1, <1>2, Zenon DEF Reports, sinkVars
    <3> QED
      BY <2>1, <3>1, Zenon DEF ShutdownOK
<1>11. HistoryOK(i)'
  <2>1. accepted'[i] = accepted[i] /\ incoming'[i] = incoming[i] /\ written'[i] = written[i] /\ toTask'[i] = toTask[i]
    BY <1>2, Zenon DEF sinkVars
  <2>2. QueueOK(i)'
    BY <1>1, <1>4, <2>1 DEF HistoryOK, QueueOK, Sends
  <2> QED
    BY <1>4, <2>1, <2>2, Zenon DEF HistoryOK
<1>12. \A j \in Infos \ {i} : Same(j) /\ (j \in peers' <=> j \in peers)
  BY <1>2, <1>3, Zenon DEF Same, sinkVars
<1>13. Cardinality(peers') <= PeerCapacity /\ opt_pending' = opt_pending
  BY <1>2, Zenon DEF ManagerInvariant, sinkVars, streamVars
<1>14. \E x : Says(x) /\ x.info = i /\ (x.kind = "PeerAdded" <=> ~Open(i, Len(Reported)))
  BY <1>1, <1>5, <1>7, Zenon
<1> QED
  BY <1>8, <1>9, <1>10, <1>11, <1>12, <1>13, <1>14, PeerStep, Zenon

\* The first message of a session.
LEMMA TaskAddedStep ==
    ASSUME ManagerInvariant, NEW i \in Infos, TaskAdded(i)
    PROVE  ManagerInvariant'
<1>1. /\ TypeOK /\ TaskOK(i) /\ ShutdownOK(i) /\ HistoryOK(i) /\ task[i] \in Tasks /\ session[i] \in Nat
  BY PeerFacts, Zenon
<1>2. /\ task[i].pc = "adding" /\ Report(i, "PeerAdded", NoId)
      /\ task' = [task EXCEPT ![i].pc = "poll"]
      /\ UNCHANGED <<sinkVars, toTask, toTaskParked, streamVars, written, incoming>>
  BY Zenon DEF TaskAdded
<1>3. task[i].turn = NoTurn /\ ~Open(i, Len(Reported)) /\ i \in peers /\ session[i] > 0 /\ Shutdowns(i) = {} /\ ~Gone(i)
  BY <1>1, <1>2, Zenon DEF TaskOK, ShutdownOK, Gone
<1>4. Out(i, "PeerAdded", NoId) \in OutMessages
  BY <1>1, Zenon DEF Out, OutMessages, NoId
<1>5. /\ task' \in [Infos -> Tasks] /\ task'[i].pc = "poll" /\ task'[i].turn = NoTurn
      /\ \A j \in Infos \ {i} : task'[j] = task[j]
  <2>1. [task[i] EXCEPT !.pc = "poll"] \in Tasks
    BY <1>1, Zenon DEF Tasks
  <2>2. [task[i] EXCEPT !.pc = "poll"].pc = "poll" /\ [task[i] EXCEPT !.pc = "poll"].turn = NoTurn
    BY <1>1, <1>3, Zenon DEF Tasks
  <2>3. task' = [task EXCEPT ![i] = [task[i] EXCEPT !.pc = "poll"]]
    BY <1>2, Zenon
  <2> QED
    BY <1>1, <2>1, <2>2, <2>3, Zenon DEF TypeOK
<1> DEFINE m == Out(i, "PeerAdded", NoId)
<1>6. Says(m) /\ m.kind = "PeerAdded"
  BY <1>1, <1>2, <1>4, ReportSays, Zenon DEF Report, Out
<1> HIDE DEF m
<1>7. /\ session'[i] = session[i] /\ written'[i] = written[i] /\ incoming'[i] = incoming[i]
      /\ Taken(i)' = Taken(i)
  BY <1>2, <1>3, <1>5, Zenon DEF sinkVars, Taken
<1>8. SentOK(i)'
  <2>1. PICK n : n = Len(written[i])
    BY Zenon
  <2>2. NoTurn.ack.kind # "SentMessage"
    BY Zenon DEF NoTurn, Turn, NoAck
  <2>3. CarryUpTo(Messages(i, "SentMessage"), n)
    BY <1>1, <1>3, <2>1, <2>2, Zenon DEF HistoryOK, SentOK
  <2>4. CarryUpTo(Messages(i, "SentMessage"), n)'
    BY <1>1, <1>6, <1>7, <2>3, CarryStays
  <2> QED
    BY <1>5, <1>7, <2>1, <2>2, <2>4, Zenon DEF SentOK, CarryUpTo
<1>9. ReceivedOK(i)'
  <2>1. PICK n \in 0 .. Len(incoming[i]) :
          /\ CarryUpTo(Messages(i, "ReceivedMessage"), n)
          /\ n = IF task[i].turn.recv = NoId THEN Len(incoming[i]) ELSE Len(incoming[i]) - 1
    BY <1>1, <1>2, Zenon DEF HistoryOK, ReceivedOK
  <2>2. CarryUpTo(Messages(i, "ReceivedMessage"), n)'
    BY <1>1, <1>6, <1>7, <2>1, CarryStays
  <2>3. NoTurn.recv = NoId
    BY Zenon DEF NoTurn, Turn
  <2> QED
    BY <1>3, <1>5, <1>7, <2>1, <2>2, <2>3, Zenon DEF ReceivedOK
<1> QED
  BY <1>2, <1>3, <1>4, <1>5, <1>7, <1>8, <1>9, ReportStep, Zenon DEF Reports, Terminal, Failures

\* Stage two: the message of the peer is forwarded.
LEMMA ForwardMessageStep ==
    ASSUME ManagerInvariant, NEW i \in Infos, ForwardMessage(i)
    PROVE  ManagerInvariant'
<1> DEFINE t == task[i].turn
<1>1. /\ TypeOK /\ task[i] \in Tasks /\ t \in Turns /\ session[i] \in Nat
      /\ Len(incoming[i]) \in Nat
  BY PeerFacts
<1>2. /\ task[i].pc = "turn" /\ t.send = NoId /\ t.recv # NoId
      /\ Report(i, "ReceivedMessage", t.recv)
      /\ task' = [task EXCEPT ![i].turn.recv = NoId]
      /\ UNCHANGED <<sinkVars, toTask, toTaskParked, streamVars, written, incoming>>
  BY Zenon DEF ForwardMessage
<1>3. /\ TurnOK(t) /\ Open(i, Len(Reported)) /\ i \in peers /\ session[i] > 0 /\ Shutdowns(i) = {} /\ ~Gone(i)
      /\ SentOK(i) /\ ReceivedOK(i)
  BY <1>2, TurnFacts, Zenon DEF Gone
<1>4. Out(i, "ReceivedMessage", t.recv) \in OutMessages
  BY <1>1, Zenon DEF Out, OutMessages, Turns
<1>5. /\ task' \in [Infos -> Tasks] /\ task'[i].pc = "turn"
      /\ task'[i].turn = [t EXCEPT !.recv = NoId]
      /\ \A j \in Infos \ {i} : task'[j] = task[j]
  <2>1. [t EXCEPT !.recv = NoId] \in Turns
    BY <1>1, Zenon DEF Turns, NoId
  <2>2. task' = [task EXCEPT ![i] = [task[i] EXCEPT !.turn = [t EXCEPT !.recv = NoId]]]
    BY <1>1, <1>2, Zenon DEF TypeOK, Tasks, Turns
  <2>3. [task[i] EXCEPT !.turn = [t EXCEPT !.recv = NoId]] \in Tasks
    BY <1>1, <2>1, Zenon DEF Tasks
  <2>4. PICK u : u = [t EXCEPT !.recv = NoId]
    BY Zenon
  <2>5. [task[i] EXCEPT !.turn = u].pc = task[i].pc /\ [task[i] EXCEPT !.turn = u].turn = u
    BY <1>1, Zenon DEF Tasks
  <2>6. task'[i] = [task[i] EXCEPT !.turn = u] /\ \A j \in Infos \ {i} : task'[j] = task[j]
    BY <1>1, <2>2, <2>4, Zenon DEF TypeOK
  <2>7. task' \in [Infos -> Tasks]
    BY <1>1, <2>2, <2>3, Zenon DEF TypeOK
  <2> QED
    BY <1>2, <2>4, <2>5, <2>6, <2>7, Zenon
<1>6. task'[i].turn.send = t.send /\ task'[i].turn.ack = t.ack /\ task'[i].turn.recv = NoId /\ task'[i].turn.good = t.good
  BY <1>1, <1>5, Zenon DEF Turns
<1> DEFINE m == Out(i, "ReceivedMessage", t.recv)
<1>7. Says(m)
  BY <1>1, <1>2, <1>4, ReportSays, Zenon DEF Report
<1>8. m.info = i /\ m.session = session[i] /\ m.kind = "ReceivedMessage" /\ m.id = t.recv
  BY Zenon DEF Out
<1> HIDE DEF m
<1>9. /\ session'[i] = session[i] /\ written'[i] = written[i] /\ incoming'[i] = incoming[i]
      /\ Taken(i)' = Taken(i)
  BY <1>2, <1>6, Zenon DEF sinkVars, Taken
<1>10. SentOK(i)'
  <2>1. PICK n : n = IF t.ack.kind = "SentMessage" THEN Taken(i) - 1 ELSE Len(written[i])
    BY Zenon
  <2>2. CarryUpTo(Messages(i, "SentMessage"), n) /\ (t.ack.kind = "SentMessage" => t.ack.id = Taken(i) /\ t.ack.id > 0)
    BY <1>3, <2>1, Zenon DEF SentOK
  <2>3. CarryUpTo(Messages(i, "SentMessage"), n)'
    BY <1>1, <1>7, <1>8, <1>9, <2>2, CarryStays
  <2> QED
    BY <1>6, <1>9, <2>1, <2>2, <2>3, Zenon DEF SentOK, CarryUpTo
<1>11. ReceivedOK(i)'
  <2>1. PICK n \in 0 .. Len(incoming[i]) :
          /\ CarryUpTo(Messages(i, "ReceivedMessage"), n)
          /\ n = Len(incoming[i]) - 1 /\ t.recv = Len(incoming[i])
    BY <1>2, <1>3, Zenon DEF ReceivedOK
  <2>2. m.id = n + 1 /\ n \in Nat /\ n + 1 = Len(incoming[i])
    BY <1>1, <1>8, <2>1
  <2>3. CarryUpTo(Messages(i, "ReceivedMessage"), n + 1)'
    BY <1>1, <1>7, <1>8, <1>9, <2>1, <2>2, CarryGrows, Zenon
  <2>4. n + 1 \in 0 .. Len(incoming[i])
    BY <2>2
  <2> QED
    BY <1>6, <1>9, <2>2, <2>3, <2>4, Zenon DEF ReceivedOK
<1>12. TurnOK(task'[i].turn)
  BY <1>3, <1>6, Zenon DEF TurnOK
<1> QED
  BY <1>2, <1>3, <1>4, <1>5, <1>9, <1>10, <1>11, <1>12, ReportStep DEF Reports, Terminal, Failures

\* Stage three: the acknowledgement of what was written, after which the task
\* goes on, or the shutdown, after which it ends.
LEMMA AcknowledgeStep ==
    ASSUME ManagerInvariant, NEW i \in Infos, Acknowledge(i)
    PROVE  ManagerInvariant'
<1> DEFINE t == task[i].turn
           m == Out(i, task[i].turn.ack.kind, task[i].turn.ack.id)
<1>1. /\ TypeOK /\ task[i] \in Tasks /\ t \in Turns /\ t.ack \in Acks /\ session[i] \in Nat
      /\ Len(incoming[i]) \in Nat /\ Len(written[i]) \in Nat
  BY PeerFacts
<1>2. /\ task[i].pc = "turn" /\ t.send = NoId /\ t.recv = NoId /\ t.ack # NoAck
      /\ Report(i, t.ack.kind, t.ack.id)
      /\ task' = IF t.good THEN [task EXCEPT ![i].turn.ack = NoAck] ELSE [task EXCEPT ![i] = Ended]
      /\ UNCHANGED <<sinkVars, toTask, toTaskParked, streamVars, written, incoming>>
  BY Zenon DEF Acknowledge
<1>3. /\ TurnOK(t) /\ Open(i, Len(Reported)) /\ i \in peers /\ session[i] > 0 /\ Shutdowns(i) = {} /\ ~Gone(i)
      /\ SentOK(i) /\ ReceivedOK(i)
  BY <1>2, TurnFacts, Zenon DEF Gone
<1>4. \/ t.good = TRUE /\ t.ack.kind = "SentMessage" /\ t.ack.id \in Nat
      \/ t.good = FALSE /\ t.ack.kind \in Terminal /\ t.ack.id = NoId
  <2>1. \/ t.ack.kind = "SentMessage" /\ t.ack.id \in Nat
        \/ t.ack.kind \in Terminal /\ t.ack.id = NoId
    BY <1>1, <1>2, Zenon DEF Acks
  <2>2. t.good \in BOOLEAN
    BY <1>1, Zenon DEF Turns
  <2>3. t.good <=> t.ack.kind \notin Terminal
    BY <1>3, Zenon DEF TurnOK
  <2> QED
    BY <2>1, <2>2, <2>3, Zenon DEF Terminal, Failures
<1>5. m \in OutMessages
  BY <1>1, <1>4 DEF Out, OutMessages, NoId
<1>6. Says(m)
  BY <1>1, <1>2, <1>5, ReportSays, Zenon DEF Report
<1>7. m.info = i /\ m.session = session[i] /\ m.kind = t.ack.kind /\ m.id = t.ack.id
  BY Zenon DEF Out
<1>8. session'[i] = session[i] /\ written'[i] = written[i] /\ incoming'[i] = incoming[i]
  BY <1>2, Zenon DEF sinkVars
<1>9. Taken(i) = Len(written[i])
  BY <1>2, Zenon DEF Taken
<1>10. t.ack.kind # "PeerAdded" /\ t.ack.kind # "ReceivedMessage"
  BY <1>4, Zenon DEF Terminal, Failures
<1>11. PICK r \in 0 .. Len(incoming[i]) :
         /\ CarryUpTo(Messages(i, "ReceivedMessage"), r)'
         /\ r = Len(incoming[i])
  <2>1. PICK n \in 0 .. Len(incoming[i]) : CarryUpTo(Messages(i, "ReceivedMessage"), n) /\ n = Len(incoming[i])
    BY <1>2, <1>3, Zenon DEF ReceivedOK
  <2>2. CarryUpTo(Messages(i, "ReceivedMessage"), n)'
    <3> HIDE DEF m
    <3> QED
      BY <1>1, <1>6, <1>7, <1>8, <1>10, <2>1, CarryStays
  <2> QED
    BY <2>1, <2>2, Zenon
<1>12. CASE t.good = TRUE /\ t.ack.kind = "SentMessage"
  <2>1. /\ task' \in [Infos -> Tasks] /\ task'[i].pc = "turn"
        /\ task'[i].turn = [t EXCEPT !.ack = NoAck]
        /\ \A j \in Infos \ {i} : task'[j] = task[j]
    <3>1. [t EXCEPT !.ack = NoAck] \in Turns
      BY <1>1, Zenon DEF Turns, Acks
    <3>2. task' = [task EXCEPT ![i] = [task[i] EXCEPT !.turn = [t EXCEPT !.ack = NoAck]]]
      BY <1>1, <1>2, <1>12, Zenon DEF TypeOK, Tasks, Turns
    <3>3. [task[i] EXCEPT !.turn = [t EXCEPT !.ack = NoAck]] \in Tasks
      BY <1>1, <3>1, Zenon DEF Tasks
    <3>4. PICK u : u = [t EXCEPT !.ack = NoAck]
      BY Zenon
    <3>5. [task[i] EXCEPT !.turn = u].pc = task[i].pc /\ [task[i] EXCEPT !.turn = u].turn = u
      BY <1>1, Zenon DEF Tasks
    <3>6. task'[i] = [task[i] EXCEPT !.turn = u] /\ \A j \in Infos \ {i} : task'[j] = task[j]
      BY <1>1, <3>2, <3>4, Zenon DEF TypeOK
    <3>7. task' \in [Infos -> Tasks]
      BY <1>1, <3>2, <3>3, Zenon DEF TypeOK
    <3> QED
      BY <1>2, <3>4, <3>5, <3>6, <3>7, Zenon
  <2>2. task'[i].turn.send = NoId /\ task'[i].turn.ack = NoAck /\ task'[i].turn.recv = NoId /\ task'[i].turn.good = TRUE
    BY <1>1, <1>2, <1>12, <2>1 DEF Turns
  <2>3. Taken(i)' = Taken(i)
    BY <1>8, <1>9, <2>2, Zenon DEF Taken
  <2>4. SentOK(i)'
    <3>1. PICK n : n = Len(written[i]) - 1
      BY Zenon
    <3>2. CarryUpTo(Messages(i, "SentMessage"), n) /\ t.ack.id = Len(written[i]) /\ t.ack.id > 0
      BY <1>3, <1>9, <1>12, <3>1, Zenon DEF SentOK
    <3>3. n \in Nat /\ m.id = n + 1 /\ n + 1 = Len(written[i])
      BY <1>1, <1>7, <3>1, <3>2
    <3>4. CarryUpTo(Messages(i, "SentMessage"), n + 1)'
      <4> HIDE DEF m
      <4> QED
        BY <1>1, <1>6, <1>7, <1>8, <1>12, <3>2, <3>3, CarryGrows, Zenon
    <3>5. NoAck.kind # "SentMessage"
      BY Zenon DEF NoAck
    <3> QED
      BY <1>8, <2>2, <3>3, <3>4, <3>5, Zenon DEF SentOK, CarryUpTo
  <2>5. ReceivedOK(i)'
    BY <1>8, <1>11, <2>2, Zenon DEF ReceivedOK
  <2>6. TurnOK(task'[i].turn)
    BY <2>2 DEF TurnOK, NoAck, NoId, KeepAlive, Terminal, Failures
  <2>7. t.ack.kind \notin Terminal
    BY <1>12, Zenon DEF Terminal, Failures
  <2> QED
    BY <1>2, <1>3, <1>5, <1>10, <2>1, <2>3, <2>4, <2>5, <2>6, <2>7, ReportStep, Zenon DEF Reports
<1>13. CASE t.good = FALSE /\ t.ack.kind \in Terminal
  <2>1. task' = [task EXCEPT ![i] = Ended]
    BY <1>2, <1>13, Zenon
  <2>2. Ended \in Tasks /\ Ended.pc = "ended" /\ Ended.turn = NoTurn
    BY Zenon DEF Ended, NoTurn, Turn, Turns, Tasks, Acks, NoId
  <2>3. /\ task' \in [Infos -> Tasks] /\ task'[i].pc = "ended" /\ task'[i].turn = NoTurn
        /\ \A j \in Infos \ {i} : task'[j] = task[j]
    BY <1>1, <2>1, <2>2, Zenon DEF TypeOK
  <2>4. NoTurn.send = NoId /\ NoTurn.recv = NoId /\ NoTurn.ack.kind # "SentMessage"
    BY Zenon DEF NoTurn, Turn, NoAck
  <2>5. Taken(i)' = Taken(i)
    BY <1>8, <1>9, <2>3, <2>4, Zenon DEF Taken
  <2>6. SentOK(i)'
    <3>1. PICK n : n = Len(written[i])
      BY Zenon
    <3>2. t.ack.kind # "SentMessage"
      BY <1>13, Zenon DEF Terminal, Failures
    <3>3. CarryUpTo(Messages(i, "SentMessage"), n)
      BY <1>3, <3>1, <3>2, Zenon DEF SentOK
    <3>4. CarryUpTo(Messages(i, "SentMessage"), n)'
      <4> HIDE DEF m
      <4> QED
        BY <1>1, <1>6, <1>7, <1>8, <3>2, <3>3, CarryStays
    <3> QED
      BY <1>8, <2>3, <2>4, <3>1, <3>4, Zenon DEF SentOK, CarryUpTo
  <2>7. ReceivedOK(i)'
    BY <1>8, <1>11, <2>3, <2>4, Zenon DEF ReceivedOK
  <2> QED
    BY <1>2, <1>3, <1>5, <1>10, <1>13, <2>3, <2>5, <2>6, <2>7, ReportStep, Zenon DEF Reports
<1> QED
  BY <1>4, <1>12, <1>13, Zenon
=============================================================================
