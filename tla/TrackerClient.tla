--------------------------- MODULE TrackerClient ---------------------------
(***************************************************************************)
(* bip_utracker: the UDP tracker client (client/mod.rs) and the dispatcher *)
(* thread that executes its requests (client/dispatcher.rs).  The client   *)
(* counts a request in the shared limiter and sends it through a bounded   *)
(* channel; the dispatcher gets a connection id from the tracker, sends    *)
(* the request, sends it again when it times out, and hands the result to  *)
(* the handshaker.  The trackers answer as server/dispatcher.rs does, or   *)
(* with the wrong type; the network loses, delays and repeats.             *)
(*                                                                         *)
(* Definitions named X_Slip are X with a plausible mistake, to show that   *)
(* the properties notice it.                                               *)
(***************************************************************************)
EXTENDS Integers, Sequences, FiniteSets, Functions

CONSTANTS
    Addrs,              \* the trackers
    Mismatched,         \* those whose IP version is not that of bound_addr
    Elsewhere,          \* other addresses that answers come from
    capacity,           \* requests at a time
    ChannelCapacity,    \* messages the event loop's channel has room for
    MAXIMUM_REQUEST_RETRANSMIT_ATTEMPTS,
    ValidDuration,      \* CONNECTION_ID_VALID_DURATION_MILLIS
    WriteMayFail,       \* whether a request may be too long
    MaxRequests,        \* bound: requests made
    MaxTime,            \* bound: the clock
    MaxMoves            \* bound: times the clock moves

ASSUME TrackerCapacity == capacity \in Nat \ {0} /\ MAXIMUM_REQUEST_RETRANSMIT_ATTEMPTS \in Nat
ASSUME TrackerBounds == MaxRequests \in Nat /\ MaxMoves \in Nat
\* The channel is asked for capacity + 1 messages and has room for the next
\* power of two.
ASSUME ChannelRoom ==
    /\ ChannelCapacity \in capacity + 1 .. 2 * (capacity + 1)
    /\ \E k \in 1 .. capacity + 1 : ChannelCapacity = 2 ^ k

VARIABLES
    client,     \* TrackerClient: idle, admitted or refused by the limiter, dropped
    channel,    \* messages for the dispatcher
    disp,       \* the dispatcher, its event loop, and the limiter
    asked,      \* the requests made; a token is an index of it
    now,        \* Utc::now()
    moves,      \* times the clock moved
    strayed     \* history: tokens whose answer came from another address

vars == <<client, channel, disp, asked, now, moves, strayed>>

\* ClientErrors need not be told apart.
MaxTimeout        == "Error"
MaxLength         == "Error"
IPVersionMismatch == "Error"
ClientShutdown    == "Error"
ServerMessage     == "Error"
ServerError       == "Error"

Requests == [addr : Addrs, kind : {"Announce", "Scrape"}]

\* The event loop's timer has room for as many timeouts as it was asked for.
TimerCapacity == capacity + 2

\* DispatchTimeout.
Connect(token) == [kind |-> "Connect", token |-> token]
CleanUpTask    == [kind |-> "CleanUp", token |-> 0]

\* disp.requests: active_requests, a function from tokens; cache: when the id
\* of each tracker was put; timers: the pending timeouts, each a task and a
\* number among those of the same task; limiter: the number of active requests;
\* wire: what was sent, and may be answered, at any time and any number of
\* times.
Init ==
    /\ client = "idle"
    /\ channel = <<[msg |-> "StartTimer"]>>
    /\ disp = [requests |-> <<>>, cache |-> <<>>, timers |-> {},
               limiter |-> 0, wire |-> {}, results |-> [t \in 1 .. MaxRequests |-> <<>>],
               running |-> TRUE, panic |-> FALSE]
    /\ asked = <<>>
    /\ now = MaxTime
    /\ moves = 0
    /\ strayed = {}

(***************************************************************************)
(* The event loop's timer and the cache of connection ids.                 *)
(***************************************************************************)
Timeout(task, nth) == [task |-> task, nth |-> nth]
Pending(d, task)   == {x \in d.timers : x.task = task}

\* A timeout is expected to be set.
set_timeout(d, task) ==
    [d EXCEPT !.timers = @ \cup {Timeout(task, Cardinality(Pending(d, task)) + 1)},
              !.panic = @ \/ Cardinality(d.timers) = TimerCapacity]
\* The last one that was set; also when it fires.
clear_timeout(d, task) == [d EXCEPT !.timers = @ \ {Timeout(task, Cardinality(Pending(d, task)))}]

\* prev_time is subtracted from curr_time in the wrong order: an id expires
\* only when the clock is set back.
is_expired(prev_time) == prev_time - now >= ValidDuration
Expired(d) == {a \in DOMAIN d.cache : is_expired(d.cache[a])}

\* The cached id is found, unless it is removed now.
CacheGet(d, addr) == [d EXCEPT !.cache = IF addr \in Expired(d) THEN Restrict(@, DOMAIN @ \ {addr}) ELSE @]
CachePut(d, addr) ==
    [d EXCEPT !.cache = [a \in {addr} \cup DOMAIN @ |-> IF a = addr THEN now ELSE d.cache[a]]]

\* The index moves on when an entry is removed, so that the next one is
\* skipped: about half of the expired entries may stay.
clean_expired(d) ==
    {[d EXCEPT !.cache = Restrict(@, DOMAIN @ \ gone)] :
       gone \in {s \in SUBSET Expired(d) : 2 * Cardinality(s) >= Cardinality(Expired(d))}}

(***************************************************************************)
(* The dispatcher.                                                         *)
(***************************************************************************)
\* The result reaches the client without the limiter knowing.
notify_client_Slip(d, token, result) == [d EXCEPT !.results[token] = Append(@, result)]

notify_client(d, token, result) ==
    [d EXCEPT !.results[token] = Append(@, result), !.limiter = @ - 1]

With(d, token, c) ==
    [d EXCEPT !.requests = [t \in {token} \cup DOMAIN @ |-> IF t = token THEN c ELSE d.requests[t]]]
Without(d, token) == [d EXCEPT !.requests = Restrict(@, DOMAIN @ \ {token})]

\* The request with its attempts counted, or nothing when it has timed out
\* completely.
current_timeout(c, timed_out) ==
    IF c.attempt = MAXIMUM_REQUEST_RETRANSMIT_ATTEMPTS THEN {}
    ELSE {[c EXCEPT !.attempt = IF timed_out THEN @ + 1 ELSE @]}

\* The request stays active when it has timed out completely.
process_request_Slip(d, token, timed_out) ==
    IF token \notin DOMAIN d.requests THEN {d}
    ELSE LET c   == d.requests[token]
             d2  == CacheGet(d, c.addr)
             msg == [token |-> token, addr |-> c.addr,
                     type |-> IF c.addr \in DOMAIN d2.cache THEN c.kind ELSE "Connect"]
         IN IF current_timeout(c, timed_out) = {} THEN {notify_client(d, token, MaxTimeout)}
            ELSE {[set_timeout(d2, Connect(token)) EXCEPT !.requests[token] = t, !.wire = @ \cup {msg}] :
                    t \in current_timeout(c, timed_out)}

\* There is no timeout for what is sent on a connection id that arrives.
process_request_Slip2(d, token, timed_out) ==
    IF token \notin DOMAIN d.requests THEN {d}
    ELSE LET c   == d.requests[token]
             d2  == CacheGet(d, c.addr)
             msg == [token |-> token, addr |-> c.addr,
                     type |-> IF c.addr \in DOMAIN d2.cache THEN c.kind ELSE "Connect"]
         IN IF current_timeout(c, timed_out) = {} THEN {notify_client(Without(d, token), token, MaxTimeout)}
            ELSE {[(IF msg.type = "Connect" THEN set_timeout(d2, Connect(token)) ELSE d2)
                     EXCEPT !.requests[token] = t, !.wire = @ \cup {msg}] : t \in current_timeout(c, timed_out)}

\* Connect first when there is no connection id.
process_request(d, token, timed_out) ==
    IF token \notin DOMAIN d.requests THEN {d}
    ELSE LET c   == d.requests[token]
             d2  == CacheGet(d, c.addr)
             msg == [token |-> token, addr |-> c.addr,
                     type |-> IF c.addr \in DOMAIN d2.cache THEN c.kind ELSE "Connect"]
         IN IF current_timeout(c, timed_out) = {} THEN {notify_client(Without(d, token), token, MaxTimeout)}
            ELSE {[set_timeout(d2, Connect(token)) EXCEPT !.requests[token] = t, !.wire = @ \cup {msg}] :
                    t \in current_timeout(c, timed_out)}
                 \cup IF WriteMayFail THEN {notify_client(Without(d2, token), token, MaxLength)} ELSE {}

send_request(d, token, request) ==
    IF request.addr \in Mismatched THEN {notify_client(d, token, IPVersionMismatch)}
    ELSE process_request(With(d, token, [addr |-> request.addr, kind |-> request.kind, attempt |-> 0]), token, FALSE)

\* The result for a response that is not about the connection.
ResultOf(c, type) ==
    CASE type = "Error" -> ServerMessage
      [] type = c.kind  -> type
      [] OTHER          -> ServerError

\* The request is removed before the address is looked at.
recv_response(d, from, token, type) ==
    IF token \notin DOMAIN d.requests THEN {d}
    ELSE LET d2 == clear_timeout(d, Connect(token))
         IN IF d.requests[token].addr # from THEN {Without(d, token)}
            ELSE IF type = "Connect" THEN process_request(CachePut(d2, from), token, FALSE)
            ELSE {notify_client(Without(d2, token), token, ResultOf(d.requests[token], type))}

\* All active requests are notified, in some order.
shutdown(d) ==
    [d EXCEPT !.results  = [t \in DOMAIN @ |-> IF t \in DOMAIN d.requests THEN Append(d.results[t], ClientShutdown)
                                               ELSE d.results[t]],
              !.limiter  = @ - Cardinality(DOMAIN d.requests),
              !.requests = <<>>, !.running = FALSE]

\* The cleanup timer, also started by the first message.
CleanUp(d) == {set_timeout(e, CleanUpTask) : e \in clean_expired(d)}

(***************************************************************************)
(* The tracker.                                                            *)
(***************************************************************************)
\* server/dispatcher.rs: the handler grants or refuses.
ServerAnswers(msg) == {msg.type, "Error"}
\* Another tracker may confuse the two kinds of requests.
Answers(msg) == ServerAnswers(msg) \cup IF msg.type = "Connect" THEN {} ELSE {"Announce", "Scrape"}

(***************************************************************************)
(* Steps of the client's thread.                                           *)
(***************************************************************************)
Alive == ~disp.panic

\* The shutdown of the event loop closes the channel.
Send(msg) ==
    IF Len(channel) < ChannelCapacity
      THEN channel' = Append(channel, msg) /\ UNCHANGED disp
      ELSE disp' = [disp EXCEPT !.panic = TRUE] /\ UNCHANGED channel

\* can_initiate: the counter is incremented, and read, in one step.
CanInitiate ==
    /\ Alive /\ client = "idle"
    /\ Len(asked) < MaxRequests \/ disp.limiter >= capacity
    /\ client' = IF disp.limiter < capacity THEN "admitted" ELSE "refused"
    /\ disp' = [disp EXCEPT !.limiter = @ + 1]
    /\ UNCHANGED <<channel, asked, now, moves, strayed>>

\* "Act as if the request just completed (decrement back down)".
Refuse ==
    /\ Alive /\ client = "refused"
    /\ client' = "idle"
    /\ disp' = [disp EXCEPT !.limiter = @ - 1]
    /\ UNCHANGED <<channel, asked, now, moves, strayed>>

Request(request) ==
    /\ Alive /\ client = "admitted"
    /\ client' = "idle"
    /\ asked' = Append(asked, request)
    /\ Send([msg |-> "Request", token |-> Len(asked) + 1])
    /\ UNCHANGED <<now, moves, strayed>>

Drop ==
    /\ Alive /\ client = "idle"
    /\ client' = "dropped"
    /\ Send([msg |-> "Shutdown"])
    /\ UNCHANGED <<asked, now, moves, strayed>>

(***************************************************************************)
(* Steps of the dispatcher's event loop.                                   *)
(***************************************************************************)
Handle(ds) == Alive /\ disp.running /\ disp' \in ds

Notify ==
    /\ channel # <<>>
    /\ channel' = Tail(channel)
    /\ LET m == Head(channel)
       IN Handle(CASE m.msg = "StartTimer" -> CleanUp(disp)
                   [] m.msg = "Request"    -> send_request(disp, m.token, asked[m.token])
                   [] m.msg = "Shutdown"   -> {shutdown(disp)})
    /\ UNCHANGED <<client, asked, now, moves, strayed>>

\* An answer comes, from the tracker asked or from another of its addresses.
Incoming ==
    \E msg \in disp.wire : \E type \in Answers(msg), from \in (Addrs \ Mismatched) \cup Elsewhere :
        /\ Handle(recv_response(disp, from, msg.token, type))
        /\ strayed' = strayed \cup
             {t \in {msg.token} \cap DOMAIN disp.requests : disp.requests[t].addr # from}
        /\ UNCHANGED <<client, channel, asked, now, moves>>

ConnectTimeout ==
    \E token \in DOMAIN asked :
        /\ Pending(disp, Connect(token)) # {}
        /\ Handle(process_request(clear_timeout(disp, Connect(token)), token, TRUE))
        /\ UNCHANGED <<client, channel, asked, now, moves, strayed>>

CleanUpTimeout ==
    /\ Pending(disp, CleanUpTask) # {}
    /\ Handle(CleanUp(clear_timeout(disp, CleanUpTask)))
    /\ UNCHANGED <<client, channel, asked, now, moves, strayed>>

\* Time passes, or the clock is set back.
Clock ==
    /\ Alive /\ disp.running /\ moves < MaxMoves
    /\ moves' = moves + 1
    /\ now' \in 0 .. MaxTime \ {now}
    /\ UNCHANGED <<client, channel, disp, asked, strayed>>

Stopped == (disp.panic \/ ~disp.running) /\ UNCHANGED vars

Next ==
    \/ CanInitiate \/ Refuse \/ Drop
    \/ \E request \in Requests : Request(request)
    \/ Notify \/ Incoming
    \/ ConnectTimeout \/ CleanUpTimeout
    \/ Clock \/ Stopped

Spec == Init /\ [][Next]_vars
\* The event loop reads its channel and fires its timeouts.  Answers may never
\* come; they do not come so often that a timeout is put off for ever.
Fairness == WF_vars(Notify \/ ConnectTimeout)
FairSpec == Spec /\ Fairness

(***************************************************************************)
(* Properties.                                                             *)
(***************************************************************************)
Tokens == 1 .. Len(asked)
Queued == {m.token : m \in {n \in Range(channel) : n.msg = "Request"}}
Answered == {t \in Tokens : disp.results[t] # <<>>}

TypeOK ==
    /\ client \in {"idle", "admitted", "refused", "dropped"}
    /\ asked \in Seq(Requests)
    /\ DOMAIN disp.requests \subseteq Tokens
    /\ \A t \in DOMAIN disp.requests : disp.requests[t].attempt \in 0 .. MAXIMUM_REQUEST_RETRANSMIT_ATTEMPTS
    /\ DOMAIN disp.cache \subseteq Addrs
    /\ Len(channel) <= ChannelCapacity

\* The state is well typed, and the limiter counts the requests that are not answered yet, one that is
\* being asked for included, in spite of the two threads that change it.  A
\* request whose answer came from another address is counted for ever.
LimiterIsExact ==
    TypeOK /\ (Alive => disp.limiter = Cardinality(Tokens \ Answered) + IF client \in {"admitted", "refused"} THEN 1 ELSE 0)

\* A request that waits has exactly one timeout pending, through retransmissions
\* and connection ids that arrive; one that has its result is neither queued nor
\* waiting any more, and gets no second one from an answer, a repeated answer, a
\* timeout or the shutdown.  "If you know that the token associated with the
\* response was retrived from an AnnounceRequest, then unwrapping this value is
\* guaranteed to succeed" (ClientResponse), whatever the trackers answer.  And
\* none of the expectations fails: there is room in the channel for all
\* requests, StartTimer and Shutdown, and in the timer for all requests, those
\* that were given up on another address's answer included.
RequestsAccounted ==
    /\ Alive
    /\ disp.running => \A t \in DOMAIN disp.requests : Cardinality(Pending(disp, Connect(t))) = 1
    /\ \A t \in Tokens :
         /\ Len(disp.results[t]) <= 1
         /\ t \in Answered => t \notin DOMAIN disp.requests \cup Queued
         /\ \A r \in Range(disp.results[t]) : r \in {"Announce", "Scrape"} => r = asked[t].kind

\* Every request ends, with a response or an error, also those that are pending
\* when the dispatcher shuts down ("notifying all pending requests"), except
\* those answered from another address.
RequestsEnd == []<>(Tokens = Answered \cup strayed)

(***************************************************************************)
(* Why they hold.  The first h requests have been handed to the            *)
(* dispatcher; d is its state, ask what was asked, and extra one that the  *)
(* limiter counts and the client has not asked yet.                        *)
(***************************************************************************)
Unanswered(d, ask) == {t \in 1 .. Len(ask) : d.results[t] = <<>>}
Open(d, h)         == {t \in 1 .. h : d.results[t] = <<>>}

RequestOK(c, request) ==
    /\ c = [addr |-> request.addr, kind |-> request.kind, attempt |-> c.attempt]
    /\ c.attempt \in 0 .. MAXIMUM_REQUEST_RETRANSMIT_ATTEMPTS

DispatcherOK(d, ask, h, extra) ==
    /\ d = [requests |-> d.requests, cache |-> d.cache, timers |-> d.timers, limiter |-> d.limiter,
            wire |-> d.wire, results |-> d.results, running |-> d.running, panic |-> d.panic]
    /\ d.running \in BOOLEAN /\ d.panic \in BOOLEAN
    /\ d.requests = [t \in DOMAIN d.requests |-> d.requests[t]]
    /\ DOMAIN d.requests \subseteq Open(d, h)
    /\ \A t \in DOMAIN d.requests : RequestOK(d.requests[t], ask[t])
    /\ DOMAIN d.results = 1 .. MaxRequests
    /\ \A t \in 1 .. h : d.results[t] \in {<<>>, <<ask[t].kind>>, <<"Error">>}
    /\ \A t \in h + 1 .. MaxRequests : d.results[t] = <<>>
    /\ d.limiter = Cardinality(Unanswered(d, ask)) + extra
    /\ \A msg \in d.wire : msg.token \in 1 .. h
    /\ DOMAIN d.cache \subseteq Addrs

\* Each request that waits has its timeout, but for those in hand, which have
\* none; one that was given up on another address's answer may have it still.
\* The cleanup timer runs when started is 1.
TimersOK(d, h, started, hand) ==
    /\ d.timers \subseteq (IF started = 1 THEN {Timeout(CleanUpTask, 1)} ELSE {})
                         \cup {Timeout(Connect(t), 1) : t \in Open(d, h) \ hand}
    /\ \A t \in DOMAIN d.requests \ hand : Timeout(Connect(t), 1) \in d.timers

\* StartTimer unless it was taken, the requests after h of the n made, Shutdown
\* if it was sent.
ChannelHolds(ch, started, h, n, sent) ==
    /\ Len(ch) = (1 - started) + (n - h) + sent
    /\ \A i \in 1 .. Len(ch) :
         ch[i] = IF i <= 1 - started THEN [msg |-> "StartTimer"]
                 ELSE IF i <= (1 - started) + (n - h) THEN [msg |-> "Request", token |-> h + i - (1 - started)]
                 ELSE [msg |-> "Shutdown"]

Messages == {[msg |-> "StartTimer"], [msg |-> "Shutdown"]} \cup [msg : {"Request"}, token : Nat]

Admitted     == IF client = "admitted" THEN 1 ELSE 0
Extra        == IF client \in {"admitted", "refused"} THEN 1 ELSE 0
ShutdownSent == IF client = "dropped" /\ disp.running THEN 1 ELSE 0

TrackerInvariant ==
    /\ client \in {"idle", "admitted", "refused", "dropped"}
    /\ asked \in Seq(Requests) /\ channel \in Seq(Messages) /\ Len(channel) <= ChannelCapacity
    /\ Len(asked) + Admitted <= MaxRequests
    /\ Cardinality(Unanswered(disp, asked)) + Admitted <= capacity
    /\ ~disp.running => client = "dropped"
    /\ \E started \in {0, 1}, h \in 0 .. Len(asked) :
         /\ DispatcherOK(disp, asked, h, Extra)
         /\ disp.running => TimersOK(disp, h, started, {})
         /\ Alive => ChannelHolds(channel, started, h, Len(asked), ShutdownSent)
=============================================================================
