------------------------ MODULE TrackerClient_proofs ------------------------
(***************************************************************************)
(* What the tracker client and its dispatcher keep true, for every         *)
(* capacity, every number of requests and whatever the trackers answer:    *)
(* TrackerInvariant is inductive.  The limiter is exact, every request has *)
(* one timeout while it waits and at most one result, and nothing panics   *)
(* where the channel has room for StartTimer and Shutdown besides the      *)
(* requests.                                                               *)
(***************************************************************************)
EXTENDS TrackerClient, FiniteSetTheorems, SequenceTheorems, TLAPS

\* How many requests may be unanswered: one less when one more was admitted.
Room == IF client = "admitted" THEN capacity - 1 ELSE capacity

\* The dispatcher's state d is in order, but for the timeouts of the requests
\* in hand.
InOrder(d, ask, h, extra, started, hand) ==
    /\ ask \in Seq(Requests) /\ Len(ask) <= MaxRequests /\ h \in 0 .. Len(ask) /\ extra \in Nat /\ started \in {0, 1}
    /\ DispatcherOK(d, ask, h, extra) /\ TimersOK(d, h, started, hand)
    /\ Cardinality(Unanswered(d, ask)) <= Room

\* A call that takes it from d to e.
Kept(d, e, ask, h, extra, started) ==
    InOrder(e, ask, h, extra, started, {}) /\ e.running = d.running /\ e.panic = d.panic

\* A step of the client that counts extra y requests, and nothing else.
Counted(d, e, ask, h, y) ==
    /\ DispatcherOK(e, ask, h, y) /\ Unanswered(e, ask) = Unanswered(d, ask)
    /\ e.running = d.running /\ e.panic = d.panic
    /\ \A started : TimersOK(d, h, started, {}) => TimersOK(e, h, started, {})

\* How a request ends: it is no longer active and has its result.
Finishes(d, e, token, r) ==
    /\ e = [requests |-> Restrict(d.requests, DOMAIN d.requests \ {token}), cache |-> e.cache, timers |-> d.timers,
            limiter |-> d.limiter - 1, wire |-> d.wire, results |-> [d.results EXCEPT ![token] = Append(@, r)],
            running |-> d.running, panic |-> d.panic]
    /\ DOMAIN e.cache \subseteq DOMAIN d.cache

\* How a request goes on: it is sent, and has a timeout.
GoesOn(d, e, token, c, msg) ==
    /\ e = [requests |-> [d.requests EXCEPT ![token] = c], cache |-> e.cache,
            timers |-> d.timers \cup {Timeout(Connect(token), 1)}, limiter |-> d.limiter,
            wire |-> d.wire \cup {msg}, results |-> d.results,
            running |-> d.running, panic |-> d.panic]
    /\ DOMAIN e.cache \subseteq DOMAIN d.cache
    /\ msg.token = token

-----------------------------------------------------------------------------
(* The requests that are not answered yet. *)

\* They are finitely many, and an answer leaves one less.
LEMMA UnansweredFinite ==
    ASSUME NEW ask \in Seq(Requests), NEW d
    PROVE  /\ IsFiniteSet(Unanswered(d, ask)) /\ Cardinality(Unanswered(d, ask)) \in Nat
           /\ Unanswered(d, ask) \subseteq 1 .. Len(ask)
<1>1. Len(ask) \in Nat
  OBVIOUS
<1>2. IsFiniteSet(1 .. Len(ask))
  BY <1>1, FS_Interval
<1>3. Unanswered(d, ask) \in SUBSET (1 .. Len(ask))
  BY Zenon DEF Unanswered
<1>4. IsFiniteSet(Unanswered(d, ask))
  BY <1>2, <1>3, FS_Subset, Zenon
<1> QED
  BY <1>3, <1>4, FS_CardinalityType, Zenon

LEMMA AnswerLeavesOneLess ==
    ASSUME NEW ask \in Seq(Requests), NEW d, NEW e, NEW token \in Unanswered(d, ask),
           \A t \in 1 .. Len(ask) : t # token => e.results[t] = d.results[t],
           e.results[token] # <<>>
    PROVE  Cardinality(Unanswered(e, ask)) = Cardinality(Unanswered(d, ask)) - 1
<1>1. Unanswered(e, ask) = Unanswered(d, ask) \ {token}
  BY Zenon DEF Unanswered
<1> QED
  BY <1>1, UnansweredFinite, FS_RemoveElement, Zenon

\* The timers of open requests, and the cleanup timer, fit into the event
\* loop's timer.
LEMMA TimersFit ==
    ASSUME NEW ask \in Seq(Requests), NEW d, NEW h \in 0 .. Len(ask), NEW started \in {0, 1}, NEW hand,
           TimersOK(d, h, started, hand), Cardinality(Unanswered(d, ask)) <= Room
    PROVE  Cardinality(d.timers) # TimerCapacity
<1>1. PICK U : U = Unanswered(d, ask)
  BY Zenon
<1>2. IsFiniteSet(U) /\ Cardinality(U) \in Nat /\ U \subseteq 1 .. Len(ask)
  BY <1>1, UnansweredFinite, Zenon
<1>3. Open(d, h) \subseteq U
  BY <1>1 DEF Open, Unanswered
<1>4. 0 \notin U
  BY <1>2
<1>5. IsFiniteSet(U \cup {0}) /\ Cardinality(U \cup {0}) = Cardinality(U) + 1
  BY <1>2, <1>4, FS_AddElement, Zenon
<1>6. PICK f : f = [x \in d.timers |-> x.task.token]
  BY Zenon
<1>7. ASSUME NEW x \in d.timers
      PROVE  \/ x = Timeout(CleanUpTask, 1)
             \/ \E t \in Open(d, h) : x = Timeout(Connect(t), 1)
  BY <1>7, Zenon DEF TimersOK
<1>8. ASSUME NEW x \in d.timers
      PROVE  x.task.token \in U \cup {0} /\ x = IF x.task.token = 0 THEN Timeout(CleanUpTask, 1) ELSE Timeout(Connect(x.task.token), 1)
  <2>1. CASE x = Timeout(CleanUpTask, 1)
    BY <2>1 DEF Timeout, CleanUpTask
  <2>2. CASE \E t \in Open(d, h) : x = Timeout(Connect(t), 1)
    <3>1. PICK t \in Open(d, h) : x = Timeout(Connect(t), 1)
      BY <2>2, Zenon
    <3>2. x.task.token = t /\ t \in U /\ t # 0
      BY <1>3, <1>4, <3>1 DEF Timeout, Connect
    <3> QED
      BY <3>1, <3>2, Zenon
  <2> QED
    BY <1>7, <2>1, <2>2, Zenon
<1>9. f \in Injection(d.timers, U \cup {0})
  <2>1. f \in [d.timers -> U \cup {0}]
    BY <1>6, <1>8, Zenon
  <2>2. \A x, y \in d.timers : f[x] = f[y] => x = y
    BY <1>6, <1>8, Zenon
  <2> QED
    BY <2>1, <2>2, Zenon DEF Injection, IsInjective
<1>10. IsFiniteSet(d.timers) /\ Cardinality(d.timers) <= Cardinality(U) + 1
  <2>1. IsFiniteSet(d.timers) /\ Cardinality(d.timers) <= Cardinality(U \cup {0})
    BY <1>5, <1>9, FS_Injection, Zenon
  <2> QED
    BY <1>5, <2>1, Zenon
<1>11. Cardinality(d.timers) \in Nat
  BY <1>10, FS_CardinalityType, Zenon
<1> QED
  BY <1>1, <1>2, <1>10, <1>11, TrackerCapacity DEF TimerCapacity, Room

-----------------------------------------------------------------------------
(* What the dispatcher does to a request. *)

\* The request ends, or is sent and goes on.
LEMMA ProcessCases ==
    ASSUME NEW ask \in Seq(Requests), NEW d, NEW h \in 0 .. Len(ask), NEW extra, DispatcherOK(d, ask, h, extra),
           NEW started \in {0, 1}, NEW token \in DOMAIN d.requests, TimersOK(d, h, started, {token}),
           Cardinality(Unanswered(d, ask)) <= Room,
           NEW timed_out, NEW e \in process_request(d, token, timed_out)
    PROVE  \/ Finishes(d, e, token, "Error")
           \/ \E c, msg : RequestOK(c, ask[token]) /\ GoesOn(d, e, token, c, msg)
<1>1. PICK c : c = d.requests[token]
  BY Zenon
<1>2. RequestOK(c, ask[token])
  BY <1>1, Zenon DEF DispatcherOK
<1>3. PICK d2 : d2 = CacheGet(d, c.addr)
  BY Zenon
<1>4. PICK rest : rest = d2.cache
  BY Zenon
<1>5. /\ d2 = [requests |-> d.requests, cache |-> rest, timers |-> d.timers, limiter |-> d.limiter,
               wire |-> d.wire, results |-> d.results, running |-> d.running, panic |-> d.panic]
      /\ DOMAIN rest \subseteq DOMAIN d.cache
  BY <1>3, <1>4 DEF CacheGet, DispatcherOK, Restrict
<1>6. Pending(d2, Connect(token)) = {}
  <2>1. d2.timers = d.timers
    BY <1>5
  <2>2. ASSUME NEW x \in d.timers
        PROVE  x.task # Connect(token)
    <3>1. CASE x = Timeout(CleanUpTask, 1)
      BY <3>1 DEF Timeout, CleanUpTask, Connect
    <3>2. CASE \E t \in Open(d, h) \ {token} : x = Timeout(Connect(t), 1)
      BY <3>2 DEF Timeout, Connect
    <3> QED
      BY <3>1, <3>2, Zenon DEF TimersOK
  <2> QED
    BY <2>1, <2>2, Zenon DEF Pending
<1>7. Cardinality(Pending(d2, Connect(token))) + 1 = 1
  BY <1>6, FS_EmptySet
<1>8. Cardinality(d2.timers) # TimerCapacity
  BY <1>5, TimersFit
<1>9. PICK s : s = set_timeout(d2, Connect(token))
  BY Zenon
<1>10. s = [requests |-> d.requests, cache |-> rest, timers |-> d.timers \cup {Timeout(Connect(token), 1)},
            limiter |-> d.limiter, wire |-> d.wire, results |-> d.results, running |-> d.running,
            panic |-> d.panic]
  <2>1. s = [requests |-> d.requests, cache |-> rest, timers |-> d.timers \cup {Timeout(Connect(token), 1)},
             limiter |-> d.limiter, wire |-> d.wire, results |-> d.results, running |-> d.running,
             panic |-> d.panic \/ FALSE]
    BY <1>5, <1>7, <1>8, <1>9, Zenon DEF set_timeout
  <2>2. (d.panic \/ FALSE) = d.panic
    BY Zenon DEF DispatcherOK
  <2> QED
    BY <2>1, <2>2, Zenon
<1>11. PICK msg : msg = [token |-> token, addr |-> c.addr,
                         type |-> IF c.addr \in DOMAIN d2.cache THEN c.kind ELSE "Connect"]
  BY Zenon
<1>12. \/ e = notify_client(Without(d, token), token, MaxTimeout)
       \/ \E t \in current_timeout(c, timed_out) : e = [s EXCEPT !.requests[token] = t, !.wire = @ \cup {msg}]
       \/ e = notify_client(Without(d2, token), token, MaxLength)
  BY <1>1, <1>3, <1>9, <1>11, Zenon DEF process_request
<1>13. CASE e = notify_client(Without(d, token), token, MaxTimeout)
  <2>1. Finishes(d, e, token, "Error")
    BY <1>13, Zenon DEF notify_client, Without, Finishes, DispatcherOK, MaxTimeout
  <2> QED
    BY <2>1, Zenon
<1>14. CASE e = notify_client(Without(d2, token), token, MaxLength)
  <2>1. Finishes(d, e, token, "Error")
    BY <1>5, <1>14, Zenon DEF notify_client, Without, Finishes, MaxLength
  <2> QED
    BY <2>1, Zenon
<1>15. ASSUME NEW t \in current_timeout(c, timed_out), e = [s EXCEPT !.requests[token] = t, !.wire = @ \cup {msg}]
       PROVE  RequestOK(t, ask[token]) /\ GoesOn(d, e, token, t, msg)
  <2>1. RequestOK(t, ask[token])
    <3>1. c.attempt \in 0 .. MAXIMUM_REQUEST_RETRANSMIT_ATTEMPTS /\ c.attempt # MAXIMUM_REQUEST_RETRANSMIT_ATTEMPTS
      BY <1>2, <1>15 DEF RequestOK, current_timeout
    <3>2. t = [c EXCEPT !.attempt = c.attempt + 1] \/ t = c
      BY <1>2, <1>15, <3>1 DEF current_timeout, RequestOK
    <3>3. c.attempt + 1 \in 0 .. MAXIMUM_REQUEST_RETRANSMIT_ATTEMPTS
      BY <3>1, TrackerCapacity
    <3> QED
      BY <1>2, <3>1, <3>2, <3>3 DEF RequestOK
  <2>2. e = [requests |-> [d.requests EXCEPT ![token] = t], cache |-> rest,
             timers |-> d.timers \cup {Timeout(Connect(token), 1)}, limiter |-> d.limiter,
             wire |-> d.wire \cup {msg}, results |-> d.results, running |-> d.running, panic |-> d.panic]
    BY <1>10, <1>15, Zenon
  <2> QED
    BY <1>5, <1>11, <2>1, <2>2 DEF GoesOn
<1> QED
  BY <1>12, <1>13, <1>14, <1>15, Zenon

\* A request that ends leaves the dispatcher in order.
LEMMA FinishKeeps ==
    ASSUME NEW d, NEW ask, NEW h, NEW extra, NEW started, NEW token, InOrder(d, ask, h, extra, started, {token}),
           token \in Open(d, h), NEW r \in {ask[token].kind, "Error"}, NEW e, Finishes(d, e, token, r)
    PROVE  InOrder(e, ask, h, extra, started, {})
<1>a. /\ ask \in Seq(Requests) /\ Len(ask) <= MaxRequests /\ h \in 0 .. Len(ask) /\ extra \in Nat /\ started \in {0, 1}
      /\ DispatcherOK(d, ask, h, extra) /\ TimersOK(d, h, started, {token})
      /\ Cardinality(Unanswered(d, ask)) <= Room
  BY Zenon DEF InOrder
<1>1. token \in 1 .. h /\ h \in Nat /\ Len(ask) \in Nat /\ MaxRequests \in Nat /\ d.results[token] = <<>>
  BY <1>a, TrackerBounds DEF Open
<1>2. token \in 1 .. Len(ask) /\ token \in 1 .. MaxRequests /\ token \in Unanswered(d, ask)
  BY <1>1, <1>a DEF Unanswered
<1>3. /\ e.results[token] = <<r>> /\ DOMAIN e.results = 1 .. MaxRequests
      /\ \A t \in 1 .. MaxRequests : t # token => e.results[t] = d.results[t]
  BY <1>1, <1>2, <1>a DEF Finishes, DispatcherOK
<1>4. /\ e.timers = d.timers /\ e.limiter = d.limiter - 1 /\ e.wire = d.wire /\ e.running = d.running
      /\ e.panic = d.panic /\ e.requests = Restrict(d.requests, DOMAIN d.requests \ {token})
      /\ DOMAIN e.cache \subseteq DOMAIN d.cache
      /\ e = [requests |-> e.requests, cache |-> e.cache, timers |-> e.timers, limiter |-> e.limiter,
              wire |-> e.wire, results |-> e.results, running |-> e.running, panic |-> e.panic]
  BY DEF Finishes
<1>5. /\ DOMAIN e.requests = DOMAIN d.requests \ {token}
      /\ \A t \in DOMAIN e.requests : e.requests[t] = d.requests[t]
      /\ e.requests = [t \in DOMAIN e.requests |-> e.requests[t]]
  BY <1>4, Zenon DEF Restrict
<1>6. \A t \in 1 .. Len(ask) : t \in 1 .. MaxRequests
  BY <1>1, <1>a
<1>7. Cardinality(Unanswered(e, ask)) = Cardinality(Unanswered(d, ask)) - 1
  <2>1. e.results[token] # <<>>
    BY <1>3
  <2>2. \A t \in 1 .. Len(ask) : t # token => e.results[t] = d.results[t]
    BY <1>3, <1>6, Zenon
  <2> QED
    BY <1>2, <1>a, <2>1, <2>2, AnswerLeavesOneLess, Zenon
<1>8. Open(e, h) = Open(d, h) \ {token}
  <2>1. e.results[token] # <<>>
    BY <1>3
  <2>2. \A t \in 1 .. h : t \in 1 .. MaxRequests
    BY <1>1, <1>a
  <2> QED
    BY <1>3, <2>1, <2>2, Zenon DEF Open
<1>9. DispatcherOK(e, ask, h, extra)
  <2>1. DOMAIN e.requests \subseteq Open(e, h) /\ \A t \in DOMAIN e.requests : RequestOK(e.requests[t], ask[t])
    BY <1>5, <1>8, <1>a, Zenon DEF DispatcherOK
  <2>2. \A t \in 1 .. h : e.results[t] \in {<<>>, <<ask[t].kind>>, <<"Error">>}
    <3>1. \A t \in 1 .. h : t \in 1 .. MaxRequests
      BY <1>1, <1>a
    <3> QED
      BY <1>3, <1>a, <3>1, Zenon DEF DispatcherOK
  <2>3. \A t \in h + 1 .. MaxRequests : e.results[t] = <<>>
    <3>1. \A t \in h + 1 .. MaxRequests : t \in 1 .. MaxRequests /\ t # token
      BY <1>1
    <3> QED
      BY <1>3, <1>a, <3>1, Zenon DEF DispatcherOK
  <2>4. e.limiter = Cardinality(Unanswered(e, ask)) + extra
    <3>1. Cardinality(Unanswered(d, ask)) \in Nat /\ d.limiter = Cardinality(Unanswered(d, ask)) + extra
      BY <1>a, UnansweredFinite, Zenon DEF DispatcherOK
    <3> QED
      BY <1>4, <1>7, <1>a, <3>1
  <2>5. (\A msg \in e.wire : msg.token \in 1 .. h) /\ DOMAIN e.cache \subseteq Addrs
        /\ e.running \in BOOLEAN /\ e.panic \in BOOLEAN
    BY <1>4, <1>a, Zenon DEF DispatcherOK
  <2> QED
    BY <1>3, <1>4, <1>5, <2>1, <2>2, <2>3, <2>4, <2>5, Zenon DEF DispatcherOK
<1>10. TimersOK(e, h, started, {})
  BY <1>4, <1>5, <1>8, <1>a, Zenon DEF TimersOK
<1>11. Cardinality(Unanswered(e, ask)) <= Room
  <2>1. Cardinality(Unanswered(d, ask)) \in Nat
    BY <1>a, UnansweredFinite, Zenon
  <2> QED
    BY <1>7, <1>a, <2>1, TrackerCapacity DEF Room
<1> QED
  BY <1>9, <1>10, <1>11, <1>a, Zenon DEF InOrder

\* A request that goes on leaves it in order as well.
LEMMA GoingOnKeeps ==
    ASSUME NEW d, NEW ask, NEW h, NEW extra, NEW started, NEW token, InOrder(d, ask, h, extra, started, {token}),
           token \in DOMAIN d.requests, NEW c, RequestOK(c, ask[token]), NEW msg, NEW e, GoesOn(d, e, token, c, msg)
    PROVE  InOrder(e, ask, h, extra, started, {})
<1>a. DispatcherOK(d, ask, h, extra) /\ TimersOK(d, h, started, {token})
  BY Zenon DEF InOrder
<1>1. /\ e.timers = d.timers \cup {Timeout(Connect(token), 1)} /\ e.limiter = d.limiter
      /\ e.wire = d.wire \cup {msg} /\ e.results = d.results /\ e.running = d.running
      /\ e.panic = d.panic /\ e.requests = [d.requests EXCEPT ![token] = c]
      /\ DOMAIN e.cache \subseteq DOMAIN d.cache /\ msg.token = token
      /\ e = [requests |-> e.requests, cache |-> e.cache, timers |-> e.timers, limiter |-> e.limiter,
              wire |-> e.wire, results |-> e.results, running |-> e.running, panic |-> e.panic]
  BY DEF GoesOn
<1>2. /\ DOMAIN e.requests = DOMAIN d.requests /\ e.requests[token] = c
      /\ \A t \in DOMAIN e.requests : t # token => e.requests[t] = d.requests[t]
      /\ e.requests = [t \in DOMAIN e.requests |-> e.requests[t]]
  <2>1. d.requests = [t \in DOMAIN d.requests |-> d.requests[t]]
    BY <1>a, Zenon DEF DispatcherOK
  <2> QED
    BY <1>1, <2>1
<1>3. Open(e, h) = Open(d, h) /\ Unanswered(e, ask) = Unanswered(d, ask) /\ token \in Open(d, h) /\ token \in 1 .. h
  BY <1>1, <1>a, Zenon DEF Open, Unanswered, DispatcherOK
<1>4. DispatcherOK(e, ask, h, extra)
  <2>1. DOMAIN e.requests \subseteq Open(e, h) /\ \A t \in DOMAIN e.requests : RequestOK(e.requests[t], ask[t])
    BY <1>2, <1>3, <1>a, Zenon DEF DispatcherOK
  <2>2. (\A m \in e.wire : m.token \in 1 .. h) /\ DOMAIN e.cache \subseteq Addrs
        /\ e.running \in BOOLEAN /\ e.panic \in BOOLEAN
    BY <1>1, <1>3, <1>a, Zenon DEF DispatcherOK
  <2>3. e.limiter = Cardinality(Unanswered(e, ask)) + extra
    BY <1>1, <1>3, <1>a, Zenon DEF DispatcherOK
  <2> QED
    BY <1>1, <1>2, <2>1, <2>2, <2>3, <1>a, Zenon DEF DispatcherOK
<1>5. TimersOK(e, h, started, {})
  <2>1. ASSUME NEW t \in DOMAIN e.requests \ {}
        PROVE  Timeout(Connect(t), 1) \in e.timers
    BY <1>1, <1>2, <2>1, <1>a, Zenon DEF TimersOK
  <2>2. PICK C : C = IF started = 1 THEN {Timeout(CleanUpTask, 1)} ELSE {}
    BY Zenon
  <2>3. d.timers \subseteq C \cup {Timeout(Connect(t), 1) : t \in Open(d, h) \ {token}}
    BY <1>a, <2>2, Zenon DEF TimersOK
  <2>4. e.timers \subseteq C \cup {Timeout(Connect(t), 1) : t \in Open(e, h) \ {}}
    <3>1. ASSUME NEW x \in e.timers
          PROVE  x \in C \/ \E t \in Open(e, h) \ {} : x = Timeout(Connect(t), 1)
      <4>1. CASE x = Timeout(Connect(token), 1)
        BY <1>3, <4>1, Zenon
      <4>2. CASE x \in d.timers
        BY <1>3, <2>3, <4>2, Zenon
      <4> QED
        BY <1>1, <4>1, <4>2, Zenon
    <3> QED
      BY <3>1, Zenon
  <2> QED
    BY <2>1, <2>2, <2>4, Zenon DEF TimersOK
<1> QED
  BY <1>3, <1>4, <1>5, Zenon DEF InOrder

\* What process_request keeps of a request that has no timeout at the moment.
LEMMA ProcessKeeps ==
    ASSUME NEW d, NEW ask, NEW h, NEW extra, NEW started, NEW token, InOrder(d, ask, h, extra, started, {token}),
           NEW timed_out, NEW e \in process_request(d, token, timed_out)
    PROVE  Kept(d, e, ask, h, extra, started)
<1>1. /\ ask \in Seq(Requests) /\ h \in 0 .. Len(ask) /\ started \in {0, 1}
      /\ DispatcherOK(d, ask, h, extra) /\ TimersOK(d, h, started, {token})
      /\ Cardinality(Unanswered(d, ask)) <= Room
  BY Zenon DEF InOrder
<1>2. CASE token \notin DOMAIN d.requests
  <2>1. e = d
    BY <1>2, Zenon DEF process_request
  <2>2. TimersOK(d, h, started, {})
    BY <1>1, <1>2, Zenon DEF TimersOK
  <2> QED
    BY <2>1, <2>2, Zenon DEF InOrder, Kept
<1>3. CASE token \in DOMAIN d.requests
  <2>1. CASE Finishes(d, e, token, "Error")
    <3>1. token \in Open(d, h)
      BY <1>1, <1>3, Zenon DEF DispatcherOK
    <3>2. InOrder(e, ask, h, extra, started, {})
      BY <2>1, <3>1, FinishKeeps, Zenon
    <3>3. e.running = d.running /\ e.panic = d.panic
      BY <2>1 DEF Finishes
    <3> QED
      BY <3>2, <3>3, Zenon DEF Kept
  <2>2. ASSUME NEW c, NEW msg, RequestOK(c, ask[token]), GoesOn(d, e, token, c, msg)
        PROVE  Kept(d, e, ask, h, extra, started)
    <3>1. InOrder(e, ask, h, extra, started, {})
      BY <1>3, <2>2, GoingOnKeeps, Zenon
    <3>2. e.running = d.running /\ e.panic = d.panic
      BY <2>2 DEF GoesOn
    <3> QED
      BY <3>1, <3>2, Zenon DEF Kept
  <2> QED
    BY <1>1, <1>3, <2>1, <2>2, ProcessCases, Zenon
<1> QED
  BY <1>2, <1>3, Zenon

\* The timeout of a request is taken away, or fires.
LEMMA ClearKeeps ==
    ASSUME NEW d, NEW ask, NEW h, NEW extra, NEW started, InOrder(d, ask, h, extra, started, {}), NEW token,
           NEW e, e = clear_timeout(d, Connect(token))
    PROVE  /\ InOrder(e, ask, h, extra, started, {token})
           /\ e.requests = d.requests /\ e.results = d.results /\ e.running = d.running /\ e.panic = d.panic
<1>1. DispatcherOK(d, ask, h, extra) /\ TimersOK(d, h, started, {})
  BY Zenon DEF InOrder
<1>2. PICK x : x = Timeout(Connect(token), Cardinality(Pending(d, Connect(token))))
  BY Zenon
<1>3. /\ e = [requests |-> d.requests, cache |-> d.cache, timers |-> d.timers \ {x}, limiter |-> d.limiter,
              wire |-> d.wire, results |-> d.results, running |-> d.running, panic |-> d.panic]
  BY <1>1, <1>2, Zenon DEF clear_timeout, DispatcherOK
<1>4. /\ e.requests = d.requests /\ e.cache = d.cache /\ e.timers = d.timers \ {x} /\ e.limiter = d.limiter
      /\ e.wire = d.wire /\ e.results = d.results /\ e.running = d.running /\ e.panic = d.panic
  BY <1>3
<1>5. Open(e, h) = Open(d, h) /\ Unanswered(e, ask) = Unanswered(d, ask)
  BY <1>4, Zenon DEF Open, Unanswered
<1>6. DispatcherOK(e, ask, h, extra)
  BY <1>1, <1>3, <1>4, <1>5, Zenon DEF DispatcherOK
<1>7. ASSUME Timeout(Connect(token), 1) \in d.timers
      PROVE  x = Timeout(Connect(token), 1)
  <2>1. ASSUME NEW y \in d.timers, y.task = Connect(token)
        PROVE  y = Timeout(Connect(token), 1)
    <3>1. CASE y = Timeout(CleanUpTask, 1)
      BY <2>1, <3>1 DEF Timeout, CleanUpTask, Connect
    <3>2. CASE \E t \in Open(d, h) : y = Timeout(Connect(t), 1)
      BY <2>1, <3>2 DEF Timeout
    <3> QED
      BY <1>1, <3>1, <3>2, Zenon DEF TimersOK
  <2>2. Timeout(Connect(token), 1).task = Connect(token)
    BY DEF Timeout
  <2>3. Pending(d, Connect(token)) = {Timeout(Connect(token), 1)}
    BY <1>7, <2>1, <2>2, Zenon DEF Pending
  <2> QED
    BY <1>2, <2>3, FS_Singleton, Zenon
<1>8. TimersOK(e, h, started, {token})
  <2>1. PICK C : C = IF started = 1 THEN {Timeout(CleanUpTask, 1)} ELSE {}
    BY Zenon
  <2>2. d.timers \subseteq C \cup {Timeout(Connect(t), 1) : t \in Open(d, h)}
    BY <1>1, <2>1, Zenon DEF TimersOK
  <2>3. e.timers \subseteq C \cup {Timeout(Connect(t), 1) : t \in Open(e, h) \ {token}}
    BY <1>4, <1>5, <1>7, <2>2, Zenon
  <2>4. ASSUME NEW t \in DOMAIN e.requests \ {token}
        PROVE  Timeout(Connect(t), 1) \in e.timers
    <3>1. Timeout(Connect(t), 1) \in d.timers
      BY <1>1, <1>4, <2>4, Zenon DEF TimersOK
    <3>2. Timeout(Connect(t), 1) # x
      BY <1>2, <2>4 DEF Timeout, Connect
    <3> QED
      BY <1>4, <3>1, <3>2, Zenon
  <2> QED
    BY <2>1, <2>3, <2>4, Zenon DEF TimersOK
<1> QED
  BY <1>4, <1>5, <1>6, <1>8, Zenon DEF InOrder

\* A request that is taken from the channel.
LEMMA SendRequestKeeps ==
    ASSUME NEW d, NEW ask, NEW h, NEW extra, NEW started, InOrder(d, ask, h, extra, started, {}),
           h + 1 <= Len(ask), NEW e \in send_request(d, h + 1, ask[h + 1])
    PROVE  Kept(d, e, ask, h + 1, extra, started)
<1>1. /\ ask \in Seq(Requests) /\ Len(ask) <= MaxRequests /\ h \in 0 .. Len(ask) /\ extra \in Nat /\ started \in {0, 1}
      /\ DispatcherOK(d, ask, h, extra) /\ TimersOK(d, h, started, {})
      /\ Cardinality(Unanswered(d, ask)) <= Room
  BY Zenon DEF InOrder
<1>2. PICK token : token = h + 1
  BY Zenon
<1>3. /\ token \in 0 .. Len(ask) /\ h \in Nat /\ token \in 1 .. MaxRequests /\ token \in h + 1 .. MaxRequests
      /\ token \notin 1 .. h /\ 1 .. token = (1 .. h) \cup {token}
      /\ \A t \in token + 1 .. MaxRequests : t \in h + 1 .. MaxRequests
  BY <1>1, <1>2, TrackerBounds
<1>4. d.results[token] = <<>> /\ token \notin DOMAIN d.requests
  BY <1>1, <1>2, <1>3, Zenon DEF DispatcherOK, Open
<1>5. Open(d, token) = Open(d, h) \cup {token} /\ token \notin Open(d, h)
  BY <1>3, <1>4, Zenon DEF Open
<1>6. DispatcherOK(d, ask, token, extra)
  BY <1>1, <1>3, <1>4, <1>5, Zenon DEF DispatcherOK
<1>7. TimersOK(d, token, started, {token})
  BY <1>1, <1>4, <1>5, Zenon DEF TimersOK
<1>8. InOrder(d, ask, token, extra, started, {token})
  BY <1>1, <1>3, <1>6, <1>7, Zenon DEF InOrder
<1>9. CASE ask[token].addr \in Mismatched
  <2>1. e = notify_client(d, token, IPVersionMismatch)
    BY <1>2, <1>9, Zenon DEF send_request
  <2>2. Restrict(d.requests, DOMAIN d.requests \ {token}) = d.requests
    <3>1. DOMAIN d.requests \ {token} = DOMAIN d.requests
      BY <1>4, Zenon
    <3>2. d.requests = [t \in DOMAIN d.requests |-> d.requests[t]]
      BY <1>1, Zenon DEF DispatcherOK
    <3> QED
      BY <3>1, <3>2, Zenon DEF Restrict
  <2>3. Finishes(d, e, token, "Error")
    <3>1. d = [requests |-> d.requests, cache |-> d.cache, timers |-> d.timers, limiter |-> d.limiter,
               wire |-> d.wire, results |-> d.results, running |-> d.running, panic |-> d.panic]
      BY <1>1, Zenon DEF DispatcherOK
    <3> QED
      BY <2>1, <2>2, <3>1, Zenon DEF notify_client, Finishes, IPVersionMismatch
  <2>4. InOrder(e, ask, token, extra, started, {})
    BY <1>5, <1>8, <2>3, FinishKeeps, Zenon
  <2> QED
    BY <1>2, <2>3, <2>4 DEF Finishes, Kept
<1>10. CASE ask[token].addr \notin Mismatched
  <2>1. PICK c : c = [addr |-> ask[token].addr, kind |-> ask[token].kind, attempt |-> 0]
    BY Zenon
  <2>2. PICK g : g = With(d, token, c)
    BY Zenon
  <2>3. e \in process_request(g, token, FALSE)
    BY <1>2, <1>10, <2>1, <2>2, Zenon DEF send_request
  <2>4. RequestOK(c, ask[token])
    BY <2>1, TrackerCapacity DEF RequestOK
  <2>5. /\ g = [requests |-> g.requests, cache |-> d.cache, timers |-> d.timers, limiter |-> d.limiter,
                wire |-> d.wire, results |-> d.results, running |-> d.running, panic |-> d.panic]
        /\ g.requests = [t \in {token} \cup DOMAIN d.requests |-> IF t = token THEN c ELSE d.requests[t]]
    BY <1>1, <2>2, Zenon DEF With, DispatcherOK
  <2>6. /\ g.cache = d.cache /\ g.timers = d.timers /\ g.limiter = d.limiter
        /\ g.wire = d.wire /\ g.results = d.results /\ g.running = d.running /\ g.panic = d.panic
    BY <2>5
  <2>7. /\ DOMAIN g.requests = {token} \cup DOMAIN d.requests /\ g.requests[token] = c
        /\ \A t \in DOMAIN d.requests : t # token => g.requests[t] = d.requests[t]
        /\ g.requests = [t \in DOMAIN g.requests |-> g.requests[t]]
    BY <2>5
  <2>8. Open(g, token) = Open(d, token) /\ Unanswered(g, ask) = Unanswered(d, ask)
    BY <2>6, Zenon DEF Open, Unanswered
  <2>9. DispatcherOK(g, ask, token, extra)
    <3>1. /\ DOMAIN g.requests \subseteq Open(g, token)
          /\ \A t \in DOMAIN g.requests : RequestOK(g.requests[t], ask[t])
      BY <1>5, <1>6, <2>4, <2>7, <2>8, Zenon DEF DispatcherOK
    <3> QED
      BY <1>6, <2>5, <2>6, <2>7, <2>8, <3>1, Zenon DEF DispatcherOK
  <2>10. TimersOK(g, token, started, {token})
    BY <1>7, <2>6, <2>7, <2>8, Zenon DEF TimersOK
  <2>11. InOrder(g, ask, token, extra, started, {token})
    BY <1>8, <2>8, <2>9, <2>10, Zenon DEF InOrder
  <2>12. Kept(g, e, ask, token, extra, started)
    BY <2>3, <2>11, ProcessKeeps, Zenon
  <2> QED
    BY <1>2, <2>6, <2>12, Zenon DEF Kept
<1> QED
  BY <1>9, <1>10, Zenon

\* An answer, from wherever it comes.
LEMMA RecvResponseKeeps ==
    ASSUME NEW d, NEW ask, NEW h, NEW extra, NEW started, InOrder(d, ask, h, extra, started, {}),
           NEW from, NEW token \in 1 .. h, NEW type, NEW e \in recv_response(d, from, token, type)
    PROVE  Kept(d, e, ask, h, extra, started)
<1>1. /\ ask \in Seq(Requests) /\ Len(ask) <= MaxRequests /\ h \in 0 .. Len(ask) /\ extra \in Nat /\ started \in {0, 1}
      /\ DispatcherOK(d, ask, h, extra) /\ TimersOK(d, h, started, {})
      /\ Cardinality(Unanswered(d, ask)) <= Room
  BY Zenon DEF InOrder
<1>2. CASE token \notin DOMAIN d.requests
  BY <1>2, Zenon DEF recv_response, Kept
<1>3. ASSUME token \in DOMAIN d.requests, d.requests[token].addr # from
      PROVE  Kept(d, e, ask, h, extra, started)
  <2>1. e = Without(d, token)
    BY <1>3, Zenon DEF recv_response
  <2>2. /\ e = [requests |-> e.requests, cache |-> d.cache, timers |-> d.timers, limiter |-> d.limiter,
                wire |-> d.wire, results |-> d.results, running |-> d.running, panic |-> d.panic]
        /\ e.requests = Restrict(d.requests, DOMAIN d.requests \ {token})
    BY <1>1, <2>1 DEF Without, DispatcherOK
  <2>3. /\ e.cache = d.cache /\ e.timers = d.timers /\ e.limiter = d.limiter
        /\ e.wire = d.wire /\ e.results = d.results /\ e.running = d.running /\ e.panic = d.panic
    BY <2>2
  <2>4. /\ DOMAIN e.requests = DOMAIN d.requests \ {token}
        /\ \A t \in DOMAIN e.requests : e.requests[t] = d.requests[t]
        /\ e.requests = [t \in DOMAIN e.requests |-> e.requests[t]]
    BY <2>2, Zenon DEF Restrict
  <2>5. Open(e, h) = Open(d, h) /\ Unanswered(e, ask) = Unanswered(d, ask)
    BY <2>3, Zenon DEF Open, Unanswered
  <2>6. DispatcherOK(e, ask, h, extra)
    <3>1. DOMAIN e.requests \subseteq Open(e, h) /\ \A t \in DOMAIN e.requests : RequestOK(e.requests[t], ask[t])
      BY <1>1, <2>4, <2>5, Zenon DEF DispatcherOK
    <3> QED
      BY <1>1, <2>2, <2>3, <2>4, <2>5, <3>1, Zenon DEF DispatcherOK
  <2>7. TimersOK(e, h, started, {})
    BY <1>1, <2>3, <2>4, <2>5, Zenon DEF TimersOK
  <2> QED
    BY <1>1, <2>3, <2>5, <2>6, <2>7, Zenon DEF InOrder, Kept
<1>4. ASSUME token \in DOMAIN d.requests, d.requests[token].addr = from
      PROVE  Kept(d, e, ask, h, extra, started)
  <2>1. PICK g : g = clear_timeout(d, Connect(token))
    BY Zenon
  <2>2. /\ InOrder(g, ask, h, extra, started, {token})
        /\ g.requests = d.requests /\ g.results = d.results /\ g.running = d.running /\ g.panic = d.panic
    BY <2>1, ClearKeeps, Zenon
  <2>3. DispatcherOK(g, ask, h, extra) /\ TimersOK(g, h, started, {token})
    BY <2>2, Zenon DEF InOrder
  <2>4. RequestOK(d.requests[token], ask[token]) /\ token \in Open(d, h)
    BY <1>1, <1>4, Zenon DEF DispatcherOK
  <2>5. CASE type = "Connect"
    <3>1. PICK k : k = CachePut(g, from)
      BY Zenon
    <3>2. e \in process_request(k, token, FALSE)
      BY <1>4, <2>1, <2>5, <3>1, Zenon DEF recv_response
    <3>3. from \in Addrs
      <4>1. ask[token] \in Requests
        BY <1>1
      <4>2. ask[token].addr \in Addrs
        BY <4>1 DEF Requests
      <4>3. d.requests[token].addr = ask[token].addr
        BY <2>4 DEF RequestOK
      <4> QED
        BY <1>4, <4>2, <4>3, Zenon
    <3>4. /\ k = [requests |-> g.requests, cache |-> k.cache, timers |-> g.timers, limiter |-> g.limiter,
                  wire |-> g.wire, results |-> g.results, running |-> g.running, panic |-> g.panic]
          /\ DOMAIN k.cache = {from} \cup DOMAIN g.cache
      BY <2>3, <3>1 DEF CachePut, DispatcherOK
    <3>5. /\ k.requests = g.requests /\ k.timers = g.timers /\ k.limiter = g.limiter
          /\ k.wire = g.wire /\ k.results = g.results /\ k.running = g.running /\ k.panic = g.panic
      BY <3>4
    <3>6. Open(k, h) = Open(g, h) /\ Unanswered(k, ask) = Unanswered(g, ask)
      BY <3>5, Zenon DEF Open, Unanswered
    <3>7. DispatcherOK(k, ask, h, extra)
      <4>1. DOMAIN k.cache \subseteq Addrs
        BY <2>3, <3>3, <3>4, Zenon DEF DispatcherOK
      <4> QED
        BY <2>3, <3>4, <3>5, <3>6, <4>1, Zenon DEF DispatcherOK
    <3>8. TimersOK(k, h, started, {token})
      BY <2>3, <3>5, <3>6, Zenon DEF TimersOK
    <3>9. InOrder(k, ask, h, extra, started, {token})
      BY <2>2, <3>6, <3>7, <3>8, Zenon DEF InOrder
    <3>10. Kept(k, e, ask, h, extra, started)
      BY <3>2, <3>9, ProcessKeeps, Zenon
    <3> QED
      BY <2>2, <3>5, <3>10, Zenon DEF Kept
  <2>6. CASE type # "Connect"
    <3>1. PICK r : r = ResultOf(d.requests[token], type)
      BY Zenon
    <3>2. e = notify_client(Without(g, token), token, r)
      BY <1>4, <2>1, <2>6, <3>1, Zenon DEF recv_response
    <3>3. r \in {ask[token].kind, "Error"}
      <4>1. d.requests[token].kind = ask[token].kind
        BY <2>4 DEF RequestOK
      <4> QED
        BY <3>1, <4>1 DEF ResultOf, ServerMessage, ServerError
    <3>4. Finishes(g, e, token, r)
      BY <2>3, <3>2, Zenon DEF notify_client, Without, Finishes, DispatcherOK
    <3>5. token \in Open(g, h)
      BY <2>2, <2>4, Zenon DEF Open
    <3>6. InOrder(e, ask, h, extra, started, {})
      BY <2>2, <3>3, <3>4, <3>5, FinishKeeps, Zenon
    <3>7. e.running = g.running /\ e.panic = g.panic
      BY <3>4 DEF Finishes
    <3> QED
      BY <2>2, <3>6, <3>7, Zenon DEF Kept
  <2> QED
    BY <2>5, <2>6, Zenon
<1> QED
  BY <1>2, <1>3, <1>4, Zenon

\* The cleanup timer is set again when none is pending; the cache only shrinks.
LEMMA CleanUpKeeps ==
    ASSUME NEW d, NEW ask, NEW h, NEW extra, NEW started, InOrder(d, ask, h, extra, started, {}),
           Pending(d, CleanUpTask) = {}, NEW e \in CleanUp(d)
    PROVE  Kept(d, e, ask, h, extra, 1)
<1>1. /\ ask \in Seq(Requests) /\ h \in 0 .. Len(ask) /\ started \in {0, 1}
      /\ DispatcherOK(d, ask, h, extra) /\ TimersOK(d, h, started, {})
      /\ Cardinality(Unanswered(d, ask)) <= Room
  BY Zenon DEF InOrder
<1>2. PICK g \in clean_expired(d) : e = set_timeout(g, CleanUpTask)
  BY Zenon DEF CleanUp
<1>3. PICK rest : rest = g.cache
  BY Zenon
<1>4. /\ g = [requests |-> d.requests, cache |-> rest, timers |-> d.timers, limiter |-> d.limiter,
              wire |-> d.wire, results |-> d.results, running |-> d.running, panic |-> d.panic]
      /\ DOMAIN rest \subseteq DOMAIN d.cache
  <2>1. PICK gone : g = [d EXCEPT !.cache = Restrict(d.cache, DOMAIN d.cache \ gone)]
    BY <1>1, <1>2, Zenon DEF clean_expired, DispatcherOK
  <2>2. d = [requests |-> d.requests, cache |-> d.cache, timers |-> d.timers, limiter |-> d.limiter,
             wire |-> d.wire, results |-> d.results, running |-> d.running, panic |-> d.panic]
    BY <1>1, Zenon DEF DispatcherOK
  <2> QED
    BY <1>3, <2>1, <2>2 DEF Restrict
<1>5. Cardinality(Pending(g, CleanUpTask)) + 1 = 1 /\ Cardinality(g.timers) # TimerCapacity
  <2>1. g.timers = d.timers
    BY <1>4
  <2>2. Pending(g, CleanUpTask) = {}
    BY <2>1, Zenon DEF Pending
  <2>3. Cardinality(d.timers) # TimerCapacity
    BY <1>1, TimersFit, Zenon
  <2> QED
    BY <2>1, <2>2, <2>3, FS_EmptySet
<1>6. e = [requests |-> d.requests, cache |-> rest, timers |-> d.timers \cup {Timeout(CleanUpTask, 1)},
           limiter |-> d.limiter, wire |-> d.wire, results |-> d.results, running |-> d.running,
           panic |-> d.panic]
  <2>1. e = [requests |-> d.requests, cache |-> rest, timers |-> d.timers \cup {Timeout(CleanUpTask, 1)},
             limiter |-> d.limiter, wire |-> d.wire, results |-> d.results, running |-> d.running,
             panic |-> d.panic \/ FALSE]
    BY <1>2, <1>4, <1>5, Zenon DEF set_timeout
  <2>2. (d.panic \/ FALSE) = d.panic
    BY <1>1, Zenon DEF DispatcherOK
  <2> QED
    BY <2>1, <2>2, Zenon
<1>7. /\ e.requests = d.requests /\ e.cache = rest /\ e.timers = d.timers \cup {Timeout(CleanUpTask, 1)}
      /\ e.limiter = d.limiter /\ e.wire = d.wire /\ e.results = d.results
      /\ e.running = d.running /\ e.panic = d.panic
  BY <1>6
<1>8. Open(e, h) = Open(d, h) /\ Unanswered(e, ask) = Unanswered(d, ask)
  BY <1>7, Zenon DEF Open, Unanswered
<1>9. DispatcherOK(e, ask, h, extra)
  <2>1. DOMAIN e.cache \subseteq Addrs
    BY <1>1, <1>4, <1>7, Zenon DEF DispatcherOK
  <2> QED
    BY <1>1, <1>6, <1>7, <1>8, <2>1, Zenon DEF DispatcherOK
<1>10. TimersOK(e, h, 1, {})
  <2>1. ASSUME NEW x \in e.timers
        PROVE  x = Timeout(CleanUpTask, 1) \/ \E t \in Open(e, h) \ {} : x = Timeout(Connect(t), 1)
    BY <1>1, <1>7, <1>8, <2>1, Zenon DEF TimersOK
  <2>2. e.timers \subseteq {Timeout(CleanUpTask, 1)} \cup {Timeout(Connect(t), 1) : t \in Open(e, h) \ {}}
    BY <2>1, Zenon
  <2>3. \A t \in DOMAIN e.requests \ {} : Timeout(Connect(t), 1) \in e.timers
    BY <1>1, <1>7, Zenon DEF TimersOK
  <2> QED
    BY <2>2, <2>3, Zenon DEF TimersOK
<1>11. InOrder(e, ask, h, extra, 1, {})
  BY <1>8, <1>9, <1>10, Zenon DEF InOrder
<1> QED
  BY <1>7, <1>11, Zenon DEF Kept

\* The cleanup timer has fired: it is no longer pending.
LEMMA CleanUpFires ==
    ASSUME NEW d, NEW ask, NEW h, NEW extra, NEW started, InOrder(d, ask, h, extra, started, {}),
           Pending(d, CleanUpTask) # {}, NEW e, e = clear_timeout(d, CleanUpTask)
    PROVE  /\ InOrder(e, ask, h, extra, started, {}) /\ Pending(e, CleanUpTask) = {}
           /\ started = 1 /\ e.running = d.running /\ e.panic = d.panic
<1>1. DispatcherOK(d, ask, h, extra) /\ TimersOK(d, h, started, {})
  BY Zenon DEF InOrder
<1>2. PICK c : c = Timeout(CleanUpTask, 1)
  BY Zenon
<1>3. ASSUME NEW x \in d.timers, x.task = CleanUpTask
      PROVE  x = c /\ started = 1
  <2>1. ASSUME NEW t, x = Timeout(Connect(t), 1)
        PROVE  FALSE
    BY <1>3, <2>1 DEF Timeout, CleanUpTask, Connect
  <2> QED
    BY <1>1, <1>2, <2>1, Zenon DEF TimersOK
<1>4. Pending(d, CleanUpTask) = {c} /\ c \in d.timers /\ started = 1
  BY <1>3, Zenon DEF Pending
<1>5. Cardinality(Pending(d, CleanUpTask)) = 1
  BY <1>4, FS_Singleton, Zenon
<1>6. e = [requests |-> d.requests, cache |-> d.cache, timers |-> d.timers \ {c}, limiter |-> d.limiter,
           wire |-> d.wire, results |-> d.results, running |-> d.running, panic |-> d.panic]
  BY <1>1, <1>2, <1>5, Zenon DEF clear_timeout, DispatcherOK
<1>7. /\ e.requests = d.requests /\ e.cache = d.cache /\ e.timers = d.timers \ {c} /\ e.limiter = d.limiter
      /\ e.wire = d.wire /\ e.results = d.results /\ e.running = d.running /\ e.panic = d.panic
  BY <1>6
<1>8. Open(e, h) = Open(d, h) /\ Unanswered(e, ask) = Unanswered(d, ask)
  BY <1>7, Zenon DEF Open, Unanswered
<1>9. DispatcherOK(e, ask, h, extra)
  BY <1>1, <1>6, <1>7, <1>8, Zenon DEF DispatcherOK
<1>10. TimersOK(e, h, started, {})
  <2>1. ASSUME NEW t
        PROVE  Timeout(Connect(t), 1) # c
    BY <1>2 DEF Timeout, CleanUpTask, Connect
  <2>2. \A t \in DOMAIN e.requests \ {} : Timeout(Connect(t), 1) \in e.timers
    BY <1>1, <1>7, <2>1, Zenon DEF TimersOK
  <2>3. e.timers \subseteq d.timers
    BY <1>7, Zenon
  <2> QED
    BY <1>1, <1>8, <2>2, <2>3, Zenon DEF TimersOK
<1>11. Pending(e, CleanUpTask) = {}
  BY <1>4, <1>7, Zenon DEF Pending
<1> QED
  BY <1>4, <1>7, <1>8, <1>9, <1>10, <1>11, Zenon DEF InOrder

\* The shutdown answers the requests that are active.
LEMMA ShutdownKeeps ==
    ASSUME NEW d, NEW ask, NEW h, NEW extra, NEW started, InOrder(d, ask, h, extra, started, {}),
           NEW e, e = shutdown(d)
    PROVE  /\ DispatcherOK(e, ask, h, extra) /\ e.running = FALSE /\ e.panic = d.panic
           /\ Cardinality(Unanswered(e, ask)) <= Cardinality(Unanswered(d, ask))
<1>1. /\ ask \in Seq(Requests) /\ Len(ask) <= MaxRequests /\ h \in 0 .. Len(ask) /\ extra \in Nat
      /\ DispatcherOK(d, ask, h, extra)
  BY Zenon DEF InOrder
<1>2. PICK active : active = DOMAIN d.requests
  BY Zenon
<1>3. PICK res : res = [t \in 1 .. MaxRequests |-> IF t \in active THEN Append(d.results[t], "Error") ELSE d.results[t]]
  BY Zenon
<1>4. e = [requests |-> <<>>, cache |-> d.cache, timers |-> d.timers,
           limiter |-> d.limiter - Cardinality(active), wire |-> d.wire, results |-> res,
           running |-> FALSE, panic |-> d.panic]
  BY <1>1, <1>2, <1>3, Zenon DEF shutdown, ClientShutdown, DispatcherOK
<1>5. /\ e.requests = <<>> /\ e.cache = d.cache /\ e.timers = d.timers
      /\ e.limiter = d.limiter - Cardinality(active) /\ e.wire = d.wire /\ e.results = res
      /\ e.running = FALSE /\ e.panic = d.panic
  BY <1>4
<1>6. /\ DOMAIN e.requests = {} /\ e.requests = [t \in DOMAIN e.requests |-> e.requests[t]]
  BY <1>5
<1>7. active \subseteq Open(d, h) /\ Open(d, h) \subseteq Unanswered(d, ask)
  <2>1. active \subseteq Open(d, h)
    BY <1>1, <1>2, Zenon DEF DispatcherOK
  <2>2. 1 .. h \subseteq 1 .. Len(ask)
    BY <1>1
  <2> QED
    BY <2>1, <2>2, Zenon DEF Open, Unanswered
<1>8. ASSUME NEW t \in 1 .. MaxRequests
      PROVE  IF t \in active THEN e.results[t] = <<"Error">> ELSE e.results[t] = d.results[t]
  <2>1. CASE t \in active
    <3>1. d.results[t] = <<>>
      BY <1>7, <2>1, Zenon DEF Open
    <3>2. e.results[t] = Append(d.results[t], "Error")
      BY <1>3, <1>5, <2>1, Zenon
    <3> QED
      BY <2>1, <3>1, <3>2
  <2>2. CASE t \notin active
    BY <1>3, <1>5, <2>2, Zenon
  <2> QED
    BY <2>1, <2>2, Zenon
<1>9. Unanswered(e, ask) = Unanswered(d, ask) \ active
  <2>1. 1 .. Len(ask) \subseteq 1 .. MaxRequests
    BY <1>1, TrackerBounds
  <2>2. <<"Error">> # <<>>
    OBVIOUS
  <2> QED
    BY <1>8, <2>1, <2>2, Zenon DEF Unanswered
<1>10. Cardinality(Unanswered(e, ask)) = Cardinality(Unanswered(d, ask)) - Cardinality(active)
       /\ Cardinality(active) \in Nat
  <2>1. IsFiniteSet(Unanswered(d, ask)) /\ active \subseteq Unanswered(d, ask)
    BY <1>1, <1>7, UnansweredFinite, Zenon
  <2>2. Unanswered(d, ask) \cap active = active
    BY <2>1, Zenon
  <2>3. IsFiniteSet(active)
    BY <2>1, FS_Subset, Zenon
  <2> QED
    BY <1>9, <2>1, <2>2, <2>3, FS_Difference, FS_CardinalityType, Zenon
<1>11. Cardinality(Unanswered(d, ask)) \in Nat /\ d.limiter = Cardinality(Unanswered(d, ask)) + extra
  BY <1>1, UnansweredFinite, Zenon DEF DispatcherOK
<1>12. e.limiter = Cardinality(Unanswered(e, ask)) + extra
  BY <1>1, <1>5, <1>10, <1>11
<1>13. \A t \in 1 .. h : e.results[t] \in {<<>>, <<ask[t].kind>>, <<"Error">>}
  <2>1. 1 .. h \subseteq 1 .. MaxRequests
    BY <1>1, TrackerBounds
  <2> QED
    BY <1>1, <1>8, <2>1, Zenon DEF DispatcherOK
<1>14. \A t \in h + 1 .. MaxRequests : e.results[t] = <<>>
  <2>1. ASSUME NEW t \in h + 1 .. MaxRequests
        PROVE  t \in 1 .. MaxRequests /\ t \notin 1 .. h
    BY <1>1
  <2>2. ASSUME NEW t \in h + 1 .. MaxRequests
        PROVE  t \notin active
    BY <1>7, <2>1, Zenon DEF Open
  <2> QED
    BY <1>1, <1>8, <2>1, <2>2, Zenon DEF DispatcherOK
<1>15. DOMAIN e.results = 1 .. MaxRequests /\ e.running \in BOOLEAN /\ e.panic \in BOOLEAN
  BY <1>1, <1>3, <1>5, Zenon DEF DispatcherOK
<1>16. /\ \A msg \in e.wire : msg.token \in 1 .. h
       /\ DOMAIN e.cache \subseteq Addrs
       /\ e = [requests |-> e.requests, cache |-> e.cache, timers |-> e.timers, limiter |-> e.limiter,
               wire |-> e.wire, results |-> e.results, running |-> e.running, panic |-> e.panic]
  BY <1>1, <1>4, <1>5, Zenon DEF DispatcherOK
<1>17. DispatcherOK(e, ask, h, extra)
  <2>1. DOMAIN e.requests \subseteq Open(e, h) /\ \A t \in DOMAIN e.requests : RequestOK(e.requests[t], ask[t])
    BY <1>6, Zenon
  <2> QED
    BY <1>6, <1>12, <1>13, <1>14, <1>15, <1>16, <2>1, Zenon DEF DispatcherOK
<1>18. Cardinality(Unanswered(e, ask)) <= Cardinality(Unanswered(d, ask))
  BY <1>10, <1>11
<1> QED
  BY <1>5, <1>17, <1>18, Zenon

-----------------------------------------------------------------------------
(* The channel. *)

\* The requests that are still in the channel have no result.
LEMMA QueuedUnanswered ==
    ASSUME NEW d, NEW ask \in Seq(Requests), Len(ask) <= MaxRequests, NEW h \in 0 .. Len(ask), NEW extra,
           DispatcherOK(d, ask, h, extra)
    PROVE  Len(ask) - h <= Cardinality(Unanswered(d, ask))
<1>1. h + 1 .. Len(ask) \subseteq Unanswered(d, ask)
  <2>1. ASSUME NEW t \in h + 1 .. Len(ask)
        PROVE  t \in 1 .. Len(ask) /\ t \in h + 1 .. MaxRequests
    BY TrackerBounds
  <2> QED
    BY <2>1, Zenon DEF DispatcherOK, Unanswered
<1>2. IsFiniteSet(Unanswered(d, ask)) /\ Cardinality(Unanswered(d, ask)) \in Nat
  BY UnansweredFinite, Zenon
<1>3. Cardinality(h + 1 .. Len(ask)) <= Cardinality(Unanswered(d, ask))
  BY <1>1, <1>2, FS_Subset, Zenon
<1>4. Cardinality(h + 1 .. Len(ask)) = IF h + 1 > Len(ask) THEN 0 ELSE Len(ask) - (h + 1) + 1
  <2>1. h + 1 \in Int /\ Len(ask) \in Int
    OBVIOUS
  <2> QED
    BY <2>1, FS_Interval, Zenon
<1> QED
  BY <1>2, <1>3, <1>4

LEMMA RequestQueued ==
    ASSUME NEW ch \in Seq(Messages), NEW started \in {0, 1}, NEW n \in Nat, NEW h \in 0 .. n,
           ChannelHolds(ch, started, h, n, 0), NEW m, m = [msg |-> "Request", token |-> n + 1]
    PROVE  ChannelHolds(Append(ch, m), started, h, n + 1, 0) /\ Append(ch, m) \in Seq(Messages)
<1>1. m \in Messages
  BY DEF Messages
<1>2. /\ Append(ch, m) \in Seq(Messages) /\ Len(Append(ch, m)) = Len(ch) + 1
      /\ Append(ch, m)[Len(ch) + 1] = m
      /\ \A i \in 1 .. Len(ch) : Append(ch, m)[i] = ch[i]
  BY <1>1
<1>3. Len(ch) = (1 - started) + (n - h)
  BY DEF ChannelHolds
<1>4. ASSUME NEW i \in 1 .. Len(ch) + 1
      PROVE  Append(ch, m)[i] = IF i <= 1 - started THEN [msg |-> "StartTimer"]
                 ELSE IF i <= (1 - started) + (n + 1 - h) THEN [msg |-> "Request", token |-> h + i - (1 - started)]
                 ELSE [msg |-> "Shutdown"]
  <2>1. CASE i = Len(ch) + 1
    <3>1. h + i - (1 - started) = n + 1 /\ ~ (i <= 1 - started) /\ i <= (1 - started) + (n + 1 - h)
      BY <1>3, <2>1
    <3> QED
      BY <1>2, <2>1, <3>1
  <2>2. CASE i \in 1 .. Len(ch)
    BY <1>2, <1>3, <2>2 DEF ChannelHolds
  <2> QED
    BY <1>3, <2>1, <2>2
<1> QED
  BY <1>2, <1>3, <1>4 DEF ChannelHolds

LEMMA ShutdownQueued ==
    ASSUME NEW ch \in Seq(Messages), NEW started \in {0, 1}, NEW n \in Nat, NEW h \in 0 .. n,
           ChannelHolds(ch, started, h, n, 0), NEW m, m = [msg |-> "Shutdown"]
    PROVE  ChannelHolds(Append(ch, m), started, h, n, 1) /\ Append(ch, m) \in Seq(Messages)
<1>1. m \in Messages
  BY DEF Messages
<1>2. /\ Append(ch, m) \in Seq(Messages) /\ Len(Append(ch, m)) = Len(ch) + 1
      /\ Append(ch, m)[Len(ch) + 1] = m
      /\ \A i \in 1 .. Len(ch) : Append(ch, m)[i] = ch[i]
  BY <1>1
<1>3. Len(ch) = (1 - started) + (n - h)
  BY DEF ChannelHolds
<1>4. ASSUME NEW i \in 1 .. Len(ch) + 1
      PROVE  Append(ch, m)[i] = IF i <= 1 - started THEN [msg |-> "StartTimer"]
                 ELSE IF i <= (1 - started) + (n - h) THEN [msg |-> "Request", token |-> h + i - (1 - started)]
                 ELSE [msg |-> "Shutdown"]
  <2>1. CASE i = Len(ch) + 1
    BY <1>2, <1>3, <2>1
  <2>2. CASE i \in 1 .. Len(ch)
    BY <1>2, <1>3, <2>2 DEF ChannelHolds
  <2> QED
    BY <1>3, <2>1, <2>2
<1> QED
  BY <1>2, <1>3, <1>4 DEF ChannelHolds

\* What is taken from the channel: StartTimer first, then the requests in the
\* order they were made, then Shutdown.
Taken(ch, started, h, n, sent) ==
    /\ Tail(ch) \in Seq(Messages) /\ Len(Tail(ch)) = Len(ch) - 1
    /\ \/ /\ started = 0 /\ Head(ch) = [msg |-> "StartTimer"]
          /\ ChannelHolds(Tail(ch), 1, h, n, sent)
       \/ /\ started = 1 /\ h < n /\ Head(ch) = [msg |-> "Request", token |-> h + 1]
          /\ ChannelHolds(Tail(ch), 1, h + 1, n, sent)
       \/ /\ started = 1 /\ h = n /\ sent = 1 /\ Head(ch) = [msg |-> "Shutdown"]
          /\ ChannelHolds(Tail(ch), 1, h, n, 0)

LEMMA MessageTaken ==
    ASSUME NEW ch \in Seq(Messages), NEW started \in {0, 1}, NEW n \in Nat, NEW h \in 0 .. n, NEW sent \in {0, 1},
           ChannelHolds(ch, started, h, n, sent), ch # <<>>
    PROVE  Taken(ch, started, h, n, sent)
<1>1. /\ Tail(ch) \in Seq(Messages) /\ Len(Tail(ch)) = Len(ch) - 1 /\ Head(ch) = ch[1] /\ 1 \in 1 .. Len(ch)
      /\ \A i \in 1 .. Len(ch) - 1 : Tail(ch)[i] = ch[i + 1] /\ i + 1 \in 1 .. Len(ch)
  OBVIOUS
<1>2. Len(ch) = (1 - started) + (n - h) + sent
  BY DEF ChannelHolds
<1>3. \A i \in 1 .. Len(ch) :
         ch[i] = IF i <= 1 - started THEN [msg |-> "StartTimer"]
                 ELSE IF i <= (1 - started) + (n - h) THEN [msg |-> "Request", token |-> h + i - (1 - started)]
                 ELSE [msg |-> "Shutdown"]
  BY DEF ChannelHolds
<1>4. CASE started = 0
  <2>1. ch[1] = [msg |-> "StartTimer"]
    BY <1>1, <1>3, <1>4
  <2>2. ASSUME NEW i \in 1 .. Len(ch) - 1
        PROVE  Tail(ch)[i] = IF i <= 1 - 1 THEN [msg |-> "StartTimer"]
                 ELSE IF i <= (1 - 1) + (n - h) THEN [msg |-> "Request", token |-> h + i - (1 - 1)]
                 ELSE [msg |-> "Shutdown"]
    BY <1>1, <1>2, <1>3, <1>4
  <2>3. ChannelHolds(Tail(ch), 1, h, n, sent)
    BY <1>1, <1>2, <1>4, <2>2 DEF ChannelHolds
  <2> QED
    BY <1>1, <1>4, <2>1, <2>3, Zenon DEF Taken
<1>5. CASE started = 1 /\ h < n
  <2>1. ch[1] = [msg |-> "Request", token |-> h + 1]
    BY <1>1, <1>3, <1>5
  <2>2. ASSUME NEW i \in 1 .. Len(ch) - 1
        PROVE  Tail(ch)[i] = IF i <= 1 - 1 THEN [msg |-> "StartTimer"]
                 ELSE IF i <= (1 - 1) + (n - (h + 1)) THEN [msg |-> "Request", token |-> h + 1 + i - (1 - 1)]
                 ELSE [msg |-> "Shutdown"]
    BY <1>1, <1>2, <1>3, <1>5
  <2>3. ChannelHolds(Tail(ch), 1, h + 1, n, sent)
    BY <1>1, <1>2, <1>5, <2>2 DEF ChannelHolds
  <2> QED
    BY <1>1, <1>5, <2>1, <2>3, Zenon DEF Taken
<1>6. CASE started = 1 /\ h = n
  <2>1. sent = 1 /\ Len(ch) = 1
    BY <1>1, <1>2, <1>6
  <2>2. ch[1] = [msg |-> "Shutdown"]
    BY <1>1, <1>3, <1>6
  <2>3. ChannelHolds(Tail(ch), 1, h, n, 0)
    <3>1. Len(Tail(ch)) = 0
      BY <1>1, <2>1
    <3>2. 0 = (1 - 1) + (n - h) + 0 /\ 1 .. 0 = {}
      BY <1>6
    <3> QED
      BY <3>1, <3>2, Zenon DEF ChannelHolds
  <2> QED
    BY <1>1, <1>6, <2>1, <2>2, <2>3, Zenon DEF Taken
<1> QED
  BY <1>1, <1>4, <1>5, <1>6

-----------------------------------------------------------------------------
(* The steps. *)

\* What the invariant says while the event loop runs.
LEMMA InvariantRunning ==
    ASSUME TrackerInvariant, Alive, disp.running
    PROVE  \E started \in {0, 1}, h \in 0 .. Len(asked) :
             /\ InOrder(disp, asked, h, Extra, started, {})
             /\ ChannelHolds(channel, started, h, Len(asked), ShutdownSent)
<1>1. PICK started \in {0, 1}, h \in 0 .. Len(asked) :
         /\ DispatcherOK(disp, asked, h, Extra)
         /\ TimersOK(disp, h, started, {})
         /\ ChannelHolds(channel, started, h, Len(asked), ShutdownSent)
  BY Zenon DEF TrackerInvariant
<1>2. asked \in Seq(Requests) /\ Len(asked) + Admitted <= MaxRequests
      /\ Cardinality(Unanswered(disp, asked)) + Admitted <= capacity
  BY Zenon DEF TrackerInvariant
<1>3. Len(asked) \in Nat /\ Cardinality(Unanswered(disp, asked)) \in Nat
  BY <1>2, UnansweredFinite
<1>4. Len(asked) <= MaxRequests /\ Extra \in Nat /\ Cardinality(Unanswered(disp, asked)) <= Room
  BY <1>2, <1>3, TrackerBounds, TrackerCapacity DEF Admitted, Extra, Room
<1> QED
  BY <1>1, <1>2, <1>4, Zenon DEF InOrder

\* A step of the event loop that leaves its state in order keeps the invariant.
LEMMA DispatcherStep ==
    ASSUME TrackerInvariant, Alive, disp.running, UNCHANGED <<client, asked>>,
           channel' \in Seq(Messages), Len(channel') <= ChannelCapacity,
           NEW h \in 0 .. Len(asked), NEW started \in {0, 1},
           Kept(disp, disp', asked, h, Extra, started),
           ChannelHolds(channel', started, h, Len(asked), ShutdownSent)
    PROVE  TrackerInvariant' /\ Alive'
<1>1. /\ asked \in Seq(Requests) /\ DispatcherOK(disp', asked, h, Extra) /\ TimersOK(disp', h, started, {})
      /\ Cardinality(Unanswered(disp', asked)) <= Room /\ disp'.running = disp.running /\ disp'.panic = disp.panic
  BY Zenon DEF Kept, InOrder
<1>2. Cardinality(Unanswered(disp', asked)) \in Nat
  BY <1>1, UnansweredFinite, Zenon
<1>3. Cardinality(Unanswered(disp', asked)) + Admitted <= capacity
  BY <1>1, <1>2, TrackerCapacity DEF Admitted, Room
<1>4. Admitted' = Admitted /\ Extra' = Extra /\ ShutdownSent' = ShutdownSent /\ Alive' /\ asked' = asked
  BY <1>1 DEF Admitted, Extra, ShutdownSent, Alive
<1>5. Unanswered(disp, asked)' = Unanswered(disp', asked)
  BY <1>4, Zenon
<1>6. client' \in {"idle", "admitted", "refused", "dropped"} /\ Len(asked') + Admitted' <= MaxRequests
  BY <1>4 DEF TrackerInvariant
<1>7. /\ DispatcherOK(disp, asked, h, Extra)' /\ TimersOK(disp, h, started, {})'
      /\ ChannelHolds(channel, started, h, Len(asked), ShutdownSent)'
  BY <1>1, <1>4, Zenon
<1>8. /\ (asked \in Seq(Requests))' /\ (channel \in Seq(Messages))' /\ (Len(channel) <= ChannelCapacity)'
      /\ (Cardinality(Unanswered(disp, asked)) + Admitted <= capacity)' /\ disp'.running
      /\ (h \in 0 .. Len(asked))'
  BY <1>1, <1>3, <1>4, <1>5, Zenon
<1> QED
  BY <1>4, <1>6, <1>7, <1>8, Zenon DEF TrackerInvariant

\* What the client does to the limiter leaves the dispatcher as it is.
LEMMA LimiterChanges ==
    ASSUME NEW d, NEW ask, NEW h, NEW x, DispatcherOK(d, ask, h, x),
           NEW y, NEW n, n = Cardinality(Unanswered(d, ask)) + y, NEW e, e = [d EXCEPT !.limiter = n]
    PROVE  Counted(d, e, ask, h, y)
<1>1. e = [requests |-> d.requests, cache |-> d.cache, timers |-> d.timers, limiter |-> n,
           wire |-> d.wire, results |-> d.results, running |-> d.running, panic |-> d.panic]
  BY DEF DispatcherOK
<1>2. /\ e.requests = d.requests /\ e.cache = d.cache /\ e.timers = d.timers /\ e.limiter = n
      /\ e.wire = d.wire /\ e.results = d.results /\ e.running = d.running /\ e.panic = d.panic
  BY <1>1
<1>3. Open(e, h) = Open(d, h) /\ Unanswered(e, ask) = Unanswered(d, ask)
  BY <1>2, Zenon DEF Open, Unanswered
<1>4. DispatcherOK(e, ask, h, y)
  BY <1>1, <1>2, <1>3, Zenon DEF DispatcherOK
<1>5. \A started : TimersOK(d, h, started, {}) => TimersOK(e, h, started, {})
  BY <1>2, <1>3, Zenon DEF TimersOK
<1> QED
  BY <1>2, <1>3, <1>4, <1>5, Zenon DEF Counted

LEMMA CanInitiateKeeps ==
    ASSUME TrackerInvariant, CanInitiate
    PROVE  TrackerInvariant' /\ Alive'
<1>1. /\ Alive /\ client = "idle" /\ disp.running
      /\ Len(asked) < MaxRequests \/ disp.limiter >= capacity
      /\ client' = IF disp.limiter < capacity THEN "admitted" ELSE "refused"
      /\ disp' = [disp EXCEPT !.limiter = disp.limiter + 1]
      /\ channel' = channel /\ asked' = asked
  BY DEF CanInitiate, TrackerInvariant
<1>2. PICK started \in {0, 1}, h \in 0 .. Len(asked) :
         /\ InOrder(disp, asked, h, Extra, started, {})
         /\ ChannelHolds(channel, started, h, Len(asked), ShutdownSent)
  BY <1>1, InvariantRunning, Zenon
<1>3. PICK U : U = Cardinality(Unanswered(disp, asked))
  BY Zenon
<1>4. /\ asked \in Seq(Requests) /\ Len(asked) \in Nat /\ Len(asked) <= MaxRequests
      /\ DispatcherOK(disp, asked, h, Extra) /\ TimersOK(disp, h, started, {})
      /\ U <= Room /\ disp.limiter = U + Extra
  BY <1>2, <1>3 DEF InOrder, DispatcherOK
<1>5. U \in Nat /\ U <= capacity /\ Extra = 0 /\ disp.limiter = U /\ Extra' = 1 /\ ShutdownSent = 0 /\ ShutdownSent' = 0
  BY <1>1, <1>3, <1>4, UnansweredFinite, TrackerCapacity DEF Extra, Room, ShutdownSent
<1>6. /\ DispatcherOK(disp', asked, h, 1) /\ Unanswered(disp', asked) = Unanswered(disp, asked)
      /\ disp'.running = disp.running /\ disp'.panic = disp.panic /\ TimersOK(disp', h, started, {})
  <2>1. PICK n : n = disp.limiter + 1
    BY Zenon
  <2>2. n = Cardinality(Unanswered(disp, asked)) + 1
    BY <1>3, <1>5, <2>1, Zenon
  <2>3. disp' = [disp EXCEPT !.limiter = n]
    BY <1>1, <2>1, Zenon
  <2>4. Counted(disp, disp', asked, h, 1)
    BY <1>4, <2>2, <2>3, LimiterChanges, Zenon
  <2> QED
    BY <1>4, <2>4, Zenon DEF Counted
<1>7. /\ client' \in {"idle", "admitted", "refused", "dropped"}
      /\ Len(asked) + Admitted' <= MaxRequests /\ U + Admitted' <= capacity
  BY <1>1, <1>4, <1>5, TrackerCapacity, TrackerBounds DEF Admitted
<1>8. Alive' /\ disp'.running
  BY <1>1, <1>6 DEF Alive
<1>9. /\ DispatcherOK(disp, asked, h, Extra)' /\ TimersOK(disp, h, started, {})'
      /\ ChannelHolds(channel, started, h, Len(asked), ShutdownSent)'
      /\ (h \in 0 .. Len(asked))' /\ (Cardinality(Unanswered(disp, asked)) + Admitted <= capacity)'
      /\ (Len(asked) + Admitted <= MaxRequests)'
  BY <1>1, <1>2, <1>3, <1>5, <1>6, <1>7, Zenon
<1>10. /\ (asked \in Seq(Requests))' /\ (channel \in Seq(Messages))' /\ (Len(channel) <= ChannelCapacity)'
  BY <1>1, Zenon DEF TrackerInvariant
<1> QED
  BY <1>7, <1>8, <1>9, <1>10, Zenon DEF TrackerInvariant

LEMMA RefuseKeeps ==
    ASSUME TrackerInvariant, Refuse
    PROVE  TrackerInvariant' /\ Alive'
<1>1. /\ Alive /\ client = "refused" /\ disp.running /\ client' = "idle"
      /\ disp' = [disp EXCEPT !.limiter = disp.limiter - 1]
      /\ channel' = channel /\ asked' = asked
  BY DEF Refuse, TrackerInvariant
<1>2. PICK started \in {0, 1}, h \in 0 .. Len(asked) :
         /\ InOrder(disp, asked, h, Extra, started, {})
         /\ ChannelHolds(channel, started, h, Len(asked), ShutdownSent)
  BY <1>1, InvariantRunning, Zenon
<1>3. PICK U : U = Cardinality(Unanswered(disp, asked))
  BY Zenon
<1>4. /\ asked \in Seq(Requests) /\ Len(asked) \in Nat /\ Len(asked) <= MaxRequests
      /\ DispatcherOK(disp, asked, h, Extra) /\ TimersOK(disp, h, started, {})
      /\ U <= Room /\ disp.limiter = U + Extra
  BY <1>2, <1>3 DEF InOrder, DispatcherOK
<1>5. U \in Nat /\ U + 0 <= capacity /\ disp.limiter - 1 = U + 0 /\ Extra' = 0
      /\ ShutdownSent = 0 /\ ShutdownSent' = 0 /\ Admitted' = 0 /\ Len(asked) + 0 <= MaxRequests
  BY <1>1, <1>3, <1>4, UnansweredFinite, TrackerCapacity DEF Extra, Room, ShutdownSent, Admitted
<1>6. /\ DispatcherOK(disp', asked, h, 0) /\ Unanswered(disp', asked) = Unanswered(disp, asked)
      /\ disp'.running = disp.running /\ disp'.panic = disp.panic /\ TimersOK(disp', h, started, {})
  <2>1. PICK n : n = disp.limiter - 1
    BY Zenon
  <2>2. n = Cardinality(Unanswered(disp, asked)) + 0
    BY <1>3, <1>5, <2>1, Zenon
  <2>3. disp' = [disp EXCEPT !.limiter = n]
    BY <1>1, <2>1, Zenon
  <2>4. Counted(disp, disp', asked, h, 0)
    BY <1>4, <2>2, <2>3, LimiterChanges, Zenon
  <2> QED
    BY <1>4, <2>4, Zenon DEF Counted
<1>7. Alive' /\ disp'.running /\ client' \in {"idle", "admitted", "refused", "dropped"}
  BY <1>1, <1>6 DEF Alive
<1>8. /\ DispatcherOK(disp, asked, h, Extra)' /\ TimersOK(disp, h, started, {})'
      /\ ChannelHolds(channel, started, h, Len(asked), ShutdownSent)'
      /\ (h \in 0 .. Len(asked))' /\ (Cardinality(Unanswered(disp, asked)) + Admitted <= capacity)'
      /\ (Len(asked) + Admitted <= MaxRequests)'
  BY <1>1, <1>2, <1>3, <1>5, <1>6, Zenon
<1>9. /\ (asked \in Seq(Requests))' /\ (channel \in Seq(Messages))' /\ (Len(channel) <= ChannelCapacity)'
  BY <1>1, Zenon DEF TrackerInvariant
<1> QED
  BY <1>7, <1>8, <1>9, Zenon DEF TrackerInvariant

\* There is room in the channel for every request that the limiter admits.
LEMMA RequestKeeps ==
    ASSUME TrackerInvariant, NEW request \in Requests, Request(request)
    PROVE  TrackerInvariant' /\ Alive'
<1>1. /\ Alive /\ client = "admitted" /\ disp.running /\ client' = "idle"
      /\ asked' = Append(asked, request)
      /\ Send([msg |-> "Request", token |-> Len(asked) + 1])
  BY DEF Request, TrackerInvariant
<1>2. PICK started \in {0, 1}, h \in 0 .. Len(asked) :
         /\ InOrder(disp, asked, h, Extra, started, {})
         /\ ChannelHolds(channel, started, h, Len(asked), ShutdownSent)
  BY <1>1, InvariantRunning, Zenon
<1>3. PICK n : n = Len(asked)
  BY Zenon
<1>4. PICK U : U = Cardinality(Unanswered(disp, asked))
  BY Zenon
<1>5. /\ asked \in Seq(Requests) /\ n \in Nat /\ h \in 0 .. n /\ n <= MaxRequests
      /\ DispatcherOK(disp, asked, h, Extra) /\ TimersOK(disp, h, started, {})
      /\ U <= Room /\ disp.limiter = U + Extra /\ n + Admitted <= MaxRequests
  BY <1>2, <1>3, <1>4 DEF InOrder, DispatcherOK, TrackerInvariant
<1>6. /\ U \in Nat /\ U + 1 <= capacity /\ Extra = 1 /\ disp.limiter = U + 1 /\ Extra' = 0
      /\ ShutdownSent = 0 /\ ShutdownSent' = 0 /\ Admitted' = 0 /\ n + 1 <= MaxRequests
  BY <1>1, <1>4, <1>5, UnansweredFinite, TrackerCapacity DEF Extra, Room, ShutdownSent, Admitted
<1>7. n - h <= U /\ Len(channel) = (1 - started) + (n - h) + 0 /\ channel \in Seq(Messages)
  BY <1>2, <1>3, <1>4, <1>5, <1>6, QueuedUnanswered DEF ChannelHolds, TrackerInvariant
<1>8. Len(channel) < ChannelCapacity
  BY <1>5, <1>6, <1>7, ChannelRoom, TrackerCapacity
<1>9. channel' = Append(channel, [msg |-> "Request", token |-> n + 1]) /\ disp' = disp
  BY <1>1, <1>3, <1>8, Zenon DEF Send
<1>10. ChannelHolds(channel', started, h, n + 1, 0) /\ channel' \in Seq(Messages)
  BY <1>2, <1>3, <1>5, <1>6, <1>7, <1>9, RequestQueued, Zenon
<1>11. /\ asked' \in Seq(Requests) /\ Len(asked') = n + 1 /\ h \in 0 .. n + 1
       /\ \A t \in 1 .. h : asked'[t] = asked[t]
       /\ Len(channel') <= ChannelCapacity
  <2>1. Len(channel') = Len(channel) + 1
    BY <1>7, <1>9
  <2>2. ChannelCapacity \in Nat
    BY ChannelRoom, TrackerCapacity
  <2> QED
    BY <1>1, <1>3, <1>5, <1>7, <1>8, <2>1, <2>2
<1>12. Cardinality(Unanswered(disp, asked')) = U + 1
  <2>1. n + 1 \notin Unanswered(disp, asked)
    BY <1>3, <1>5 DEF Unanswered
  <2>2. disp.results[n + 1] = <<>>
    <3>1. n + 1 \in h + 1 .. MaxRequests
      BY <1>5, <1>6, TrackerBounds
    <3> QED
      BY <1>5, <3>1, Zenon DEF DispatcherOK
  <2>3. 1 .. n + 1 = 1 .. n \cup {n + 1}
    BY <1>5
  <2>4. Unanswered(disp, asked') = Unanswered(disp, asked) \cup {n + 1}
    BY <1>3, <1>11, <2>2, <2>3, Zenon DEF Unanswered
  <2> QED
    BY <1>4, <1>5, <2>1, <2>4, UnansweredFinite, FS_AddElement, Zenon
<1>13. DispatcherOK(disp, asked', h, 0)
  <2>1. disp.limiter = Cardinality(Unanswered(disp, asked')) + 0
    BY <1>6, <1>12
  <2>2. Open(disp, h) \subseteq 1 .. h
    BY Zenon DEF Open
  <2>3. \A t \in DOMAIN disp.requests : RequestOK(disp.requests[t], asked'[t])
    BY <1>5, <1>11, <2>2, Zenon DEF DispatcherOK
  <2>4. \A t \in 1 .. h : disp.results[t] \in {<<>>, <<asked'[t].kind>>, <<"Error">>}
    BY <1>5, <1>11, Zenon DEF DispatcherOK
  <2> QED
    BY <1>5, <2>1, <2>3, <2>4, Zenon DEF DispatcherOK
<1>14. Alive' /\ disp'.running /\ client' \in {"idle", "admitted", "refused", "dropped"}
  BY <1>1, <1>9 DEF Alive
<1>15. n + 1 + 0 <= MaxRequests /\ U + 1 + 0 <= capacity
  BY <1>5, <1>6
<1>16. /\ DispatcherOK(disp, asked, h, Extra)' /\ TimersOK(disp, h, started, {})'
       /\ ChannelHolds(channel, started, h, Len(asked), ShutdownSent)'
       /\ (h \in 0 .. Len(asked))' /\ (Cardinality(Unanswered(disp, asked)) + Admitted <= capacity)'
       /\ (Len(asked) + Admitted <= MaxRequests)'
  BY <1>5, <1>6, <1>9, <1>10, <1>11, <1>12, <1>13, <1>15, Zenon
<1> QED
  BY <1>10, <1>11, <1>14, <1>16, Zenon DEF TrackerInvariant

\* The last message is Shutdown; there is room for it when the channel has room
\* for two messages besides the requests.
LEMMA DropKeeps ==
    ASSUME TrackerInvariant, Drop
    PROVE  TrackerInvariant' /\ (capacity + 2 <= ChannelCapacity => Alive')
<1>1. /\ Alive /\ client = "idle" /\ disp.running /\ client' = "dropped" /\ asked' = asked
      /\ Send([msg |-> "Shutdown"])
  BY DEF Drop, TrackerInvariant
<1>2. PICK started \in {0, 1}, h \in 0 .. Len(asked) :
         /\ InOrder(disp, asked, h, Extra, started, {})
         /\ ChannelHolds(channel, started, h, Len(asked), ShutdownSent)
  BY <1>1, InvariantRunning, Zenon
<1>3. PICK n : n = Len(asked)
  BY Zenon
<1>4. PICK U : U = Cardinality(Unanswered(disp, asked))
  BY Zenon
<1>5. /\ asked \in Seq(Requests) /\ n \in Nat /\ h \in 0 .. n /\ n <= MaxRequests
      /\ DispatcherOK(disp, asked, h, Extra) /\ TimersOK(disp, h, started, {})
      /\ U <= Room
  BY <1>2, <1>3, <1>4 DEF InOrder
<1>6. /\ U \in Nat /\ U + 0 <= capacity /\ Extra = 0 /\ Extra' = 0
      /\ ShutdownSent = 0 /\ Admitted' = 0 /\ n + 0 <= MaxRequests
  BY <1>1, <1>4, <1>5, UnansweredFinite, TrackerCapacity DEF Extra, Room, ShutdownSent, Admitted
<1>7. n - h <= U /\ Len(channel) = (1 - started) + (n - h) + 0
      /\ channel \in Seq(Messages) /\ Len(channel) <= ChannelCapacity
  BY <1>2, <1>3, <1>4, <1>5, <1>6, QueuedUnanswered DEF ChannelHolds, TrackerInvariant
<1>8. CASE Len(channel) < ChannelCapacity
  <2>1. channel' = Append(channel, [msg |-> "Shutdown"]) /\ disp' = disp
    BY <1>1, <1>8, Zenon DEF Send
  <2>2. ShutdownSent' = 1 /\ Alive' /\ disp'.running /\ client' \in {"idle", "admitted", "refused", "dropped"}
    BY <1>1, <2>1 DEF ShutdownSent, Alive
  <2>3. ChannelHolds(channel', started, h, n, 1) /\ channel' \in Seq(Messages)
    BY <1>2, <1>3, <1>5, <1>6, <1>7, <2>1, ShutdownQueued, Zenon
  <2>4. Len(channel') <= ChannelCapacity
    BY <1>7, <1>8, <2>1, ChannelRoom, TrackerCapacity
  <2>5. /\ DispatcherOK(disp, asked, h, Extra)' /\ TimersOK(disp, h, started, {})'
        /\ ChannelHolds(channel, started, h, Len(asked), ShutdownSent)'
        /\ (h \in 0 .. Len(asked))' /\ (Cardinality(Unanswered(disp, asked)) + Admitted <= capacity)'
        /\ (Len(asked) + Admitted <= MaxRequests)' /\ (asked \in Seq(Requests))'
    BY <1>1, <1>3, <1>4, <1>5, <1>6, <2>1, <2>2, <2>3, Zenon
  <2> QED
    BY <2>2, <2>3, <2>4, <2>5, Zenon DEF TrackerInvariant
<1>9. CASE ~ (Len(channel) < ChannelCapacity)
  <2>1. channel' = channel /\ disp' = [disp EXCEPT !.panic = TRUE]
    BY <1>1, <1>9, Zenon DEF Send
  <2>2. ~ (capacity + 2 <= ChannelCapacity)
    BY <1>5, <1>6, <1>7, <1>9, TrackerCapacity, ChannelRoom
  <2>3. disp' = [requests |-> disp.requests, cache |-> disp.cache, timers |-> disp.timers, limiter |-> disp.limiter,
                 wire |-> disp.wire, results |-> disp.results, running |-> disp.running, panic |-> TRUE]
    BY <1>5, <2>1, Zenon DEF DispatcherOK
  <2>4. /\ disp'.requests = disp.requests /\ disp'.cache = disp.cache /\ disp'.timers = disp.timers
        /\ disp'.limiter = disp.limiter /\ disp'.wire = disp.wire /\ disp'.results = disp.results
        /\ disp'.running = disp.running /\ disp'.panic = TRUE
    BY <2>3
  <2>5. Open(disp', h) = Open(disp, h) /\ Unanswered(disp', asked) = Unanswered(disp, asked)
    BY <2>4, Zenon DEF Open, Unanswered
  <2>6. DispatcherOK(disp', asked, h, Extra)
    BY <1>5, <2>3, <2>4, <2>5, Zenon DEF DispatcherOK
  <2>7. TimersOK(disp', h, started, {})
    BY <1>5, <2>4, <2>5, Zenon DEF TimersOK
  <2>8. ~Alive' /\ client' \in {"idle", "admitted", "refused", "dropped"} /\ disp'.running
    BY <1>1, <2>4 DEF Alive
  <2>9. /\ DispatcherOK(disp, asked, h, Extra)' /\ TimersOK(disp, h, started, {})'
        /\ (h \in 0 .. Len(asked))' /\ (Cardinality(Unanswered(disp, asked)) + Admitted <= capacity)'
        /\ (Len(asked) + Admitted <= MaxRequests)' /\ (asked \in Seq(Requests))'
    BY <1>1, <1>3, <1>4, <1>5, <1>6, <2>5, <2>6, <2>7, Zenon
  <2>10. (channel \in Seq(Messages))' /\ (Len(channel) <= ChannelCapacity)'
    BY <1>7, <2>1, Zenon
  <2> QED
    BY <2>2, <2>8, <2>9, <2>10, Zenon DEF TrackerInvariant
<1> QED
  BY <1>8, <1>9, Zenon

LEMMA NotifyKeeps ==
    ASSUME TrackerInvariant, Notify
    PROVE  TrackerInvariant' /\ Alive'
<1>1. /\ Alive /\ disp.running /\ channel # <<>> /\ channel' = Tail(channel) /\ client' = client /\ asked' = asked
      /\ disp' \in CASE Head(channel).msg = "StartTimer" -> CleanUp(disp)
                     [] Head(channel).msg = "Request"    -> send_request(disp, Head(channel).token, asked[Head(channel).token])
                     [] Head(channel).msg = "Shutdown"   -> {shutdown(disp)}
  BY Zenon DEF Notify, Handle
<1>2. PICK started \in {0, 1}, h \in 0 .. Len(asked) :
         /\ InOrder(disp, asked, h, Extra, started, {})
         /\ ChannelHolds(channel, started, h, Len(asked), ShutdownSent)
  BY <1>1, InvariantRunning, Zenon
<1>3. /\ asked \in Seq(Requests) /\ channel \in Seq(Messages) /\ Len(channel) <= ChannelCapacity
      /\ Len(asked) \in Nat /\ ShutdownSent \in {0, 1} /\ TimersOK(disp, h, started, {})
  BY <1>2 DEF TrackerInvariant, ShutdownSent, InOrder
<1>4. /\ Tail(channel) \in Seq(Messages) /\ Len(Tail(channel)) = Len(channel) - 1
      /\ \/ /\ started = 0 /\ Head(channel) = [msg |-> "StartTimer"]
            /\ ChannelHolds(Tail(channel), 1, h, Len(asked), ShutdownSent)
         \/ /\ started = 1 /\ h < Len(asked) /\ Head(channel) = [msg |-> "Request", token |-> h + 1]
            /\ ChannelHolds(Tail(channel), 1, h + 1, Len(asked), ShutdownSent)
         \/ /\ started = 1 /\ h = Len(asked) /\ ShutdownSent = 1 /\ Head(channel) = [msg |-> "Shutdown"]
            /\ ChannelHolds(Tail(channel), 1, h, Len(asked), 0)
  <2>1. Taken(channel, started, h, Len(asked), ShutdownSent)
    BY <1>1, <1>2, <1>3, MessageTaken, Zenon
  <2> QED
    BY <2>1, Zenon DEF Taken
<1>5. channel' \in Seq(Messages) /\ Len(channel') <= ChannelCapacity
  BY <1>1, <1>3, <1>4, ChannelRoom, TrackerCapacity
<1>6. CASE /\ started = 0 /\ Head(channel) = [msg |-> "StartTimer"]
           /\ ChannelHolds(Tail(channel), 1, h, Len(asked), ShutdownSent)
  <2>1. disp' \in CleanUp(disp)
    BY <1>1, <1>6
  <2>2. Pending(disp, CleanUpTask) = {}
    <3>1. ASSUME NEW t
          PROVE  Timeout(Connect(t), 1).task # CleanUpTask
      BY DEF Timeout, Connect, CleanUpTask
    <3>2. started # 1
      BY <1>6
    <3> QED
      BY <1>3, <3>1, <3>2, Zenon DEF TimersOK, Pending
  <2>3. Kept(disp, disp', asked, h, Extra, 1)
    BY <1>2, <2>1, <2>2, CleanUpKeeps, Zenon
  <2> QED
    BY <1>1, <1>5, <1>6, <2>3, DispatcherStep, Zenon
<1>7. CASE /\ started = 1 /\ h < Len(asked) /\ Head(channel) = [msg |-> "Request", token |-> h + 1]
           /\ ChannelHolds(Tail(channel), 1, h + 1, Len(asked), ShutdownSent)
  <2>1. disp' \in send_request(disp, h + 1, asked[h + 1])
    BY <1>1, <1>7
  <2>2. h + 1 <= Len(asked) /\ h + 1 \in 0 .. Len(asked)
    BY <1>3, <1>7
  <2>3. Kept(disp, disp', asked, h + 1, Extra, started)
    BY <1>2, <2>1, <2>2, SendRequestKeeps, Zenon
  <2> QED
    BY <1>1, <1>5, <1>7, <2>2, <2>3, DispatcherStep, Zenon
<1>8. CASE /\ started = 1 /\ h = Len(asked) /\ ShutdownSent = 1 /\ Head(channel) = [msg |-> "Shutdown"]
           /\ ChannelHolds(Tail(channel), 1, h, Len(asked), 0)
  <2>1. disp' = shutdown(disp) /\ client = "dropped"
    BY <1>1, <1>8 DEF ShutdownSent
  <2>2. /\ DispatcherOK(disp', asked, h, Extra) /\ disp'.running = FALSE /\ disp'.panic = disp.panic
        /\ Cardinality(Unanswered(disp', asked)) <= Cardinality(Unanswered(disp, asked))
    BY <1>2, <2>1, ShutdownKeeps, Zenon
  <2>3. /\ Admitted' = Admitted /\ Admitted = 0 /\ Extra' = Extra /\ ShutdownSent' = 0 /\ Alive' /\ ~disp'.running
        /\ client' = "dropped" /\ client' \in {"idle", "admitted", "refused", "dropped"}
    BY <1>1, <2>1, <2>2 DEF Admitted, Extra, ShutdownSent, Alive
  <2>4. Cardinality(Unanswered(disp', asked)) + 0 <= capacity
    <3>1. Cardinality(Unanswered(disp, asked)) \in Nat /\ Cardinality(Unanswered(disp', asked)) \in Nat
      BY <1>3, UnansweredFinite, Zenon
    <3>2. Cardinality(Unanswered(disp, asked)) + 0 <= capacity
      BY <2>3, Zenon DEF TrackerInvariant
    <3> QED
      BY <2>2, <3>1, <3>2, TrackerCapacity
  <2>5. /\ DispatcherOK(disp, asked, h, Extra)' /\ ChannelHolds(channel, 1, h, Len(asked), ShutdownSent)'
        /\ (h \in 0 .. Len(asked))' /\ (Cardinality(Unanswered(disp, asked)) + Admitted <= capacity)'
        /\ (asked \in Seq(Requests))'
    BY <1>1, <1>2, <1>3, <1>8, <2>2, <2>3, <2>4, Zenon
  <2>6. (Len(asked) + Admitted <= MaxRequests)'
    BY <1>1, <2>3, Zenon DEF TrackerInvariant
  <2>7. 1 \in {0, 1}
    OBVIOUS
  <2> QED
    BY <1>5, <2>3, <2>5, <2>6, <2>7, Zenon DEF TrackerInvariant
<1> QED
  BY <1>4, <1>6, <1>7, <1>8, Zenon

LEMMA IncomingKeeps ==
    ASSUME TrackerInvariant, Incoming
    PROVE  TrackerInvariant' /\ Alive'
<1>1. PICK msg, type, from :
         /\ msg \in disp.wire /\ Alive /\ disp.running /\ disp' \in recv_response(disp, from, msg.token, type)
         /\ channel' = channel /\ client' = client /\ asked' = asked
  BY Zenon DEF Incoming, Handle
<1>2. PICK started \in {0, 1}, h \in 0 .. Len(asked) :
         /\ InOrder(disp, asked, h, Extra, started, {})
         /\ ChannelHolds(channel, started, h, Len(asked), ShutdownSent)
  BY <1>1, InvariantRunning, Zenon
<1>3. msg.token \in 1 .. h
  BY <1>1, <1>2, Zenon DEF InOrder, DispatcherOK
<1>4. Kept(disp, disp', asked, h, Extra, started)
  BY <1>1, <1>2, <1>3, RecvResponseKeeps, Zenon
<1>5. channel' \in Seq(Messages) /\ Len(channel') <= ChannelCapacity
  BY <1>1, Zenon DEF TrackerInvariant
<1> QED
  BY <1>1, <1>2, <1>4, <1>5, DispatcherStep, Zenon

LEMMA ConnectTimeoutKeeps ==
    ASSUME TrackerInvariant, ConnectTimeout
    PROVE  TrackerInvariant' /\ Alive'
<1>1. PICK token :
         /\ Alive /\ disp.running /\ disp' \in process_request(clear_timeout(disp, Connect(token)), token, TRUE)
         /\ channel' = channel /\ client' = client /\ asked' = asked
  BY Zenon DEF ConnectTimeout, Handle
<1>2. PICK started \in {0, 1}, h \in 0 .. Len(asked) :
         /\ InOrder(disp, asked, h, Extra, started, {})
         /\ ChannelHolds(channel, started, h, Len(asked), ShutdownSent)
  BY <1>1, InvariantRunning, Zenon
<1>3. PICK d : d = clear_timeout(disp, Connect(token))
  BY Zenon
<1>4. InOrder(d, asked, h, Extra, started, {token}) /\ d.running = disp.running /\ d.panic = disp.panic
  BY <1>2, <1>3, ClearKeeps, Zenon
<1>5. Kept(d, disp', asked, h, Extra, started)
  BY <1>1, <1>3, <1>4, ProcessKeeps, Zenon
<1>6. Kept(disp, disp', asked, h, Extra, started)
  BY <1>4, <1>5, Zenon DEF Kept
<1>7. channel' \in Seq(Messages) /\ Len(channel') <= ChannelCapacity
  BY <1>1, Zenon DEF TrackerInvariant
<1> QED
  BY <1>1, <1>2, <1>6, <1>7, DispatcherStep, Zenon

LEMMA CleanUpTimeoutKeeps ==
    ASSUME TrackerInvariant, CleanUpTimeout
    PROVE  TrackerInvariant' /\ Alive'
<1>1. /\ Alive /\ disp.running /\ disp' \in CleanUp(clear_timeout(disp, CleanUpTask))
      /\ Pending(disp, CleanUpTask) # {} /\ channel' = channel /\ client' = client /\ asked' = asked
  BY Zenon DEF CleanUpTimeout, Handle
<1>2. PICK started \in {0, 1}, h \in 0 .. Len(asked) :
         /\ InOrder(disp, asked, h, Extra, started, {})
         /\ ChannelHolds(channel, started, h, Len(asked), ShutdownSent)
  BY <1>1, InvariantRunning, Zenon
<1>3. PICK d : d = clear_timeout(disp, CleanUpTask)
  BY Zenon
<1>4. /\ InOrder(d, asked, h, Extra, started, {}) /\ Pending(d, CleanUpTask) = {}
      /\ started = 1 /\ d.running = disp.running /\ d.panic = disp.panic
  BY <1>1, <1>2, <1>3, CleanUpFires, Zenon
<1>5. Kept(d, disp', asked, h, Extra, 1)
  BY <1>1, <1>3, <1>4, CleanUpKeeps, Zenon
<1>6. Kept(disp, disp', asked, h, Extra, started)
  BY <1>4, <1>5, Zenon DEF Kept
<1>7. channel' \in Seq(Messages) /\ Len(channel') <= ChannelCapacity
  BY <1>1, Zenon DEF TrackerInvariant
<1> QED
  BY <1>1, <1>2, <1>6, <1>7, DispatcherStep, Zenon

-----------------------------------------------------------------------------
(* The invariant. *)

LEMMA TrackerStarts ==
    ASSUME Init
    PROVE  TrackerInvariant /\ Alive
<1>1. /\ client = "idle" /\ channel = <<[msg |-> "StartTimer"]>> /\ asked = <<>>
      /\ disp = [requests |-> <<>>, cache |-> <<>>, timers |-> {},
                 limiter |-> 0, wire |-> {}, results |-> [t \in 1 .. MaxRequests |-> <<>>],
                 running |-> TRUE, panic |-> FALSE]
  BY DEF Init
<1>2. /\ disp.requests = <<>> /\ disp.cache = <<>> /\ disp.timers = {} /\ disp.limiter = 0 /\ disp.wire = {}
      /\ disp.results = [t \in 1 .. MaxRequests |-> <<>>] /\ disp.running = TRUE /\ disp.panic = FALSE
  BY <1>1
<1>3. /\ Admitted = 0 /\ Extra = 0 /\ ShutdownSent = 0 /\ Alive /\ Len(asked) = 0 /\ asked \in Seq(Requests)
      /\ channel \in Seq(Messages) /\ Len(channel) = 1 /\ channel[1] = [msg |-> "StartTimer"]
  BY <1>1, <1>2 DEF Admitted, Extra, ShutdownSent, Alive, Messages
<1>4. 1 .. 0 = {} /\ 0 \in 0 .. 0
  OBVIOUS
<1>5. Unanswered(disp, asked) = {}
  BY <1>3, <1>4, Zenon DEF Unanswered
<1>6. Cardinality(Unanswered(disp, asked)) = 0
  BY <1>5, FS_EmptySet, Zenon
<1>7. DispatcherOK(disp, asked, 0, 0)
  <2>1. /\ DOMAIN disp.requests = {} /\ DOMAIN disp.cache = {}
        /\ disp.requests = [t \in DOMAIN disp.requests |-> disp.requests[t]]
    BY <1>2
  <2>2. DOMAIN disp.results = 1 .. MaxRequests /\ \A t \in 1 .. MaxRequests : disp.results[t] = <<>>
    BY <1>2, Zenon
  <2>3. 0 + 1 .. MaxRequests = 1 .. MaxRequests /\ disp.limiter = Cardinality(Unanswered(disp, asked)) + 0
    BY <1>2, <1>6
  <2>4. disp.running \in BOOLEAN /\ disp.panic \in BOOLEAN
    BY <1>2, Zenon
  <2> QED
    BY <1>1, <1>2, <1>4, <2>1, <2>2, <2>3, <2>4, Zenon DEF DispatcherOK
<1>8. TimersOK(disp, 0, 0, {})
  <2>1. DOMAIN disp.requests = {}
    BY <1>2
  <2> QED
    BY <1>2, <2>1, Zenon DEF TimersOK
<1>9. ChannelHolds(channel, 0, 0, 0, 0)
  BY <1>3 DEF ChannelHolds
<1>10. /\ Len(channel) <= ChannelCapacity /\ Len(asked) + Admitted <= MaxRequests
       /\ Cardinality(Unanswered(disp, asked)) + Admitted <= capacity
  BY <1>3, <1>6, ChannelRoom, TrackerCapacity, TrackerBounds
<1>11. client \in {"idle", "admitted", "refused", "dropped"} /\ 0 \in {0, 1} /\ disp.running
  BY <1>1, <1>2
<1> QED
  BY <1>3, <1>4, <1>7, <1>8, <1>9, <1>10, <1>11, Zenon DEF TrackerInvariant

\* Only Drop can make the program panic.
LEMMA TrackerSteps ==
    ASSUME TrackerInvariant, [Next]_vars
    PROVE  TrackerInvariant' /\ (Alive /\ capacity + 2 <= ChannelCapacity => Alive')
<1>1. ASSUME UNCHANGED <<client, channel, disp, asked>>
      PROVE  TrackerInvariant' /\ (Alive => Alive')
  BY <1>1 DEF TrackerInvariant, Alive, Admitted, Extra, ShutdownSent
<1>2. CASE CanInitiate
  BY <1>2, CanInitiateKeeps, Zenon
<1>3. CASE Refuse
  BY <1>3, RefuseKeeps, Zenon
<1>4. CASE Drop
  BY <1>4, DropKeeps, Zenon
<1>5. ASSUME NEW request \in Requests, Request(request)
      PROVE  TrackerInvariant' /\ Alive'
  BY <1>5, RequestKeeps, Zenon
<1>6. CASE Notify
  BY <1>6, NotifyKeeps, Zenon
<1>7. CASE Incoming
  BY <1>7, IncomingKeeps, Zenon
<1>8. CASE ConnectTimeout
  BY <1>8, ConnectTimeoutKeeps, Zenon
<1>9. CASE CleanUpTimeout
  BY <1>9, CleanUpTimeoutKeeps, Zenon
<1>10. CASE Clock
  BY <1>1, <1>10, Zenon DEF Clock
<1>11. CASE UNCHANGED vars
  BY <1>1, <1>11, Zenon DEF vars
<1>12. CASE Stopped
  BY <1>11, <1>12, Zenon DEF Stopped
<1> QED
  BY <1>2, <1>3, <1>4, <1>5, <1>6, <1>7, <1>8, <1>9, <1>10, <1>11, <1>12, Zenon DEF Next

-----------------------------------------------------------------------------
(* The properties. *)

LEMMA InvariantLimiter ==
    ASSUME TrackerInvariant
    PROVE  LimiterIsExact
<1>1. PICK h \in 0 .. Len(asked) : DispatcherOK(disp, asked, h, Extra)
  BY Zenon DEF TrackerInvariant
<1>2. /\ asked \in Seq(Requests) /\ Len(channel) <= ChannelCapacity
      /\ client \in {"idle", "admitted", "refused", "dropped"}
  BY Zenon DEF TrackerInvariant
<1>3. Open(disp, h) \subseteq Tokens
  <2>1. 1 .. h \subseteq 1 .. Len(asked)
    BY <1>2
  <2> QED
    BY <2>1, Zenon DEF Open, Tokens
<1>4. /\ DOMAIN disp.requests \subseteq Tokens /\ DOMAIN disp.cache \subseteq Addrs
      /\ \A t \in DOMAIN disp.requests : disp.requests[t].attempt \in 0 .. MAXIMUM_REQUEST_RETRANSMIT_ATTEMPTS
  BY <1>1, <1>3, Zenon DEF DispatcherOK, RequestOK
<1>5. Tokens \ Answered = Unanswered(disp, asked)
  BY Zenon DEF Tokens, Answered, Unanswered
<1>6. disp.limiter = Cardinality(Tokens \ Answered) + IF client \in {"admitted", "refused"} THEN 1 ELSE 0
  BY <1>1, <1>5, Zenon DEF DispatcherOK, Extra
<1> QED
  BY <1>2, <1>4, <1>6, Zenon DEF LimiterIsExact, TypeOK

LEMMA InvariantAccounts ==
    ASSUME TrackerInvariant, Alive
    PROVE  RequestsAccounted
<1>1. PICK started \in {0, 1}, h \in 0 .. Len(asked) :
         /\ DispatcherOK(disp, asked, h, Extra)
         /\ disp.running => TimersOK(disp, h, started, {})
         /\ ChannelHolds(channel, started, h, Len(asked), ShutdownSent)
  BY Zenon DEF TrackerInvariant
<1>2. /\ asked \in Seq(Requests) /\ Len(asked) \in Nat /\ channel \in Seq(Messages)
      /\ Len(asked) <= MaxRequests /\ ShutdownSent \in {0, 1}
  BY TrackerBounds DEF TrackerInvariant, Admitted, ShutdownSent
<1>3. ASSUME disp.running, NEW t \in DOMAIN disp.requests
      PROVE  Cardinality(Pending(disp, Connect(t))) = 1
  <2>1. Timeout(Connect(t), 1) \in disp.timers
    BY <1>1, <1>3, Zenon DEF TimersOK
  <2>2. ASSUME NEW x \in disp.timers, x.task = Connect(t)
        PROVE  x = Timeout(Connect(t), 1)
    <3>1. x = Timeout(CleanUpTask, 1) \/ \E u \in Open(disp, h) : x = Timeout(Connect(u), 1)
      BY <1>1, <1>3, <2>2, Zenon DEF TimersOK
    <3>2. x # Timeout(CleanUpTask, 1)
      BY <2>2 DEF Timeout, CleanUpTask, Connect
    <3>3. PICK u : x = Timeout(Connect(u), 1)
      BY <3>1, <3>2, Zenon
    <3>4. Connect(u) = Connect(t)
      BY <2>2, <3>3 DEF Timeout
    <3> QED
      BY <3>3, <3>4, Zenon
  <2>3. Timeout(Connect(t), 1).task = Connect(t)
    BY DEF Timeout
  <2>4. Pending(disp, Connect(t)) = {Timeout(Connect(t), 1)}
    BY <2>1, <2>2, <2>3, Zenon DEF Pending
  <2> QED
    BY <2>4, FS_Singleton, Zenon
<1>4. ASSUME NEW t \in Tokens
      PROVE  disp.results[t] \in {<<>>, <<asked[t].kind>>, <<"Error">>}
  <2>1. t \in 1 .. h \/ t \in h + 1 .. MaxRequests
    BY <1>2, TrackerBounds DEF Tokens
  <2> QED
    BY <1>1, <2>1, Zenon DEF DispatcherOK
<1>5. ASSUME NEW t \in Tokens
      PROVE  /\ Len(disp.results[t]) <= 1
             /\ \A r \in Range(disp.results[t]) : r \in {"Announce", "Scrape"} => r = asked[t].kind
  <2>1. PICK k : k = asked[t].kind
    BY Zenon
  <2>2. PICK s : s = disp.results[t]
    BY Zenon
  <2>3. s = <<>> \/ s = <<k>> \/ s = <<"Error">>
    BY <1>4, <1>5, <2>1, <2>2, Zenon
  <2>4. Len(s) <= 1
    BY <2>3
  <2>5. ASSUME NEW r \in Range(s), r \in {"Announce", "Scrape"}
        PROVE  r = k
    <3>1. PICK i \in DOMAIN s : r = s[i]
      BY <2>5, Zenon DEF Range
    <3>2. CASE s = <<>>
      BY <3>1, <3>2
    <3>3. CASE s = <<k>>
      BY <3>1, <3>3
    <3>4. CASE s = <<"Error">>
      BY <2>5, <3>1, <3>4
    <3> QED
      BY <2>3, <3>2, <3>3, <3>4, Zenon
  <2> QED
    BY <2>1, <2>2, <2>4, <2>5, Zenon
<1>6. ASSUME NEW t \in Queued
      PROVE  disp.results[t] = <<>>
  <2>1. PICK i \in DOMAIN channel : channel[i].msg = "Request" /\ channel[i].token = t
    BY Zenon DEF Queued, Range
  <2>2. i \in 1 .. Len(channel)
    BY <1>2, <2>1
  <2>3. /\ Len(channel) = (1 - started) + (Len(asked) - h) + ShutdownSent
        /\ channel[i] = IF i <= 1 - started THEN [msg |-> "StartTimer"]
                        ELSE IF i <= (1 - started) + (Len(asked) - h)
                          THEN [msg |-> "Request", token |-> h + i - (1 - started)]
                        ELSE [msg |-> "Shutdown"]
    BY <1>1, <2>2, Zenon DEF ChannelHolds
  <2>4. ~ (i <= 1 - started) /\ i <= (1 - started) + (Len(asked) - h) /\ t = h + i - (1 - started)
    BY <2>1, <2>3
  <2>5. t \in h + 1 .. MaxRequests
    BY <1>2, <2>2, <2>4, TrackerBounds
  <2> QED
    BY <1>1, <2>5, Zenon DEF DispatcherOK
<1>7. ASSUME NEW t \in Answered
      PROVE  t \notin DOMAIN disp.requests \cup Queued
  BY <1>1, <1>6, <1>7, Zenon DEF Answered, DispatcherOK, Open
<1> QED
  BY <1>3, <1>5, <1>7, Zenon DEF RequestsAccounted

\* The two threads keep the limiter exact: with whatever interleaving of
\* can_initiate, its refusal, the requests and their results, it counts the
\* requests that are not answered yet.
THEOREM LimiterStaysExact == Spec => []LimiterIsExact
<1>1. Init => TrackerInvariant
  BY TrackerStarts, Zenon
<1>2. TrackerInvariant /\ [Next]_vars => TrackerInvariant'
  BY TrackerSteps, Zenon
<1>3. TrackerInvariant => LimiterIsExact
  BY InvariantLimiter, Zenon
<1> QED
  BY <1>1, <1>2, <1>3, PTL DEF Spec

\* Where the channel has room for StartTimer and Shutdown besides the requests,
\* no send and no set_timeout of the client and the dispatcher panics, every
\* request that waits has one timeout, and none gets two results or the result
\* of the other kind of request.
THEOREM RequestsStayAccounted ==
    ASSUME capacity + 2 <= ChannelCapacity
    PROVE  Spec => []RequestsAccounted
<1>1. Init => TrackerInvariant /\ Alive
  BY TrackerStarts, Zenon
<1>2. (TrackerInvariant /\ Alive) /\ [Next]_vars => (TrackerInvariant /\ Alive)'
  BY TrackerSteps, Zenon
<1>3. TrackerInvariant /\ Alive => RequestsAccounted
  BY InvariantAccounts, Zenon
<1> QED
  BY <1>1, <1>2, <1>3, PTL DEF Spec
=============================================================================
