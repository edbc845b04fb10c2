----------------------------- MODULE DhtHandler -----------------------------
(***************************************************************************)
(* bip_dht: the worker (worker/handler.rs) that runs the bootstrap, the    *)
(* lookups and the refresh of the routing table on one event loop.  Every  *)
(* handler is a function from the state to the states it may leave: the    *)
(* handlers call one another, and the calls may fail.                      *)
(*                                                                         *)
(* Of the routing table only the number of good nodes matters: 0, 1 (at    *)
(* most BOOTSTRAP_GOOD_NODE_THRESHOLD) or 2 (more).  It is any number when *)
(* a handler looks: nodes grow old, and requests make old nodes good.      *)
(***************************************************************************)
EXTENDS TableBootstrap, TableLookup, FiniteSets, TLC

CONSTANTS
    MAX_BOOTSTRAP_ATTEMPTS,
    MaxLookups,         \* searches the client asks for
    MaxNamed,           \* nodes named in an answer
    MaxLate             \* messages and timeouts ahead of a Shutdown message

VARIABLES
    dht,        \* the state of the handler and of its event loop
    searches    \* searches asked for so far

vars == <<dht, searches>>

\* dht.actions: table_actions, a function from action ids; future: the post
\* bootstrap actions; timers: the timeouts pending; wire: the messages whose
\* answer may still come; shutdown: whether its message was sent to the loop
\* (asked) and handled (done); events: what was broadcast.
RefreshAid == 1
Init ==
    /\ dht = [actions |-> <<>>, future |-> <<[kind |-> "refresh"]>>, next_aid |-> RefreshAid + 1,
              bootstrapping |-> FALSE, timers |-> {}, wire |-> {}, shutdown |-> "no", late |-> 0, panic |-> FALSE,
              events |-> <<>>]
    /\ searches = 0

Has(d, aid, kind) == aid \in DOMAIN d.actions /\ d.actions[aid].kind = kind

\* A message id is <<m>> in a bootstrap, <<n, k>> in a lookup, and <<>> in the
\* refresh, where it is not looked at.
Timers(task, aid, mids) == {[task |-> task, aid |-> aid, mid |-> m] : m \in mids}
Tuples(ms) == {<<m>> : m \in ms}

\* What a call of an action leaves: its messages are on the wire, its timeouts
\* in the event loop.
Called(d, aid, o, sent, set, cleared) ==
    [d EXCEPT !.actions = (aid :> o.act) @@ @,
              !.wire = @ \cup {[aid |-> aid, mid |-> m] : m \in sent},
              !.timers = {t \in @ : ~(t.aid = aid /\ t.mid \in cleared)} \cup set]

\* An answer or a timeout for an action that was removed finds nothing in
\* table_actions and is ignored: it is dropped here, with the action.
Removed(d, aid) ==
    [d EXCEPT !.actions = [a \in DOMAIN @ \ {aid} |-> @[a]],
              !.wire = {w \in @ : w.aid # aid}, !.timers = {t \in @ : t.aid # aid}]

Broadcast(d, event) == [d EXCEPT !.events = Append(@, event)]
shutdown_event_loop(d) == [d EXCEPT !.shutdown = "asked"]

(***************************************************************************)
(* Lookups and refresh.                                                    *)
(***************************************************************************)
LookupCalled(d, aid, o) ==
    Called(d, aid, o, o.sent,
           Timers("CheckLookupTimeout", aid, o.set \ {EndgameMid})
             \cup Timers("CheckLookupEndGame", aid, o.set \cap {EndgameMid}), o.cleared)

\* The good nodes a lookup may find to begin with.
GoodNodes(g) == {ns \in SUBSET Nodes : Cardinality(ns) <= MAX_BUCKET_SIZE /\ (ns = {} <=> g = 0)}

handle_start_lookup(d, announce, g) ==
    LET aid == d.next_aid
        d2  == [d EXCEPT !.next_aid = aid + 1]
    IN IF d.bootstrapping THEN {[d2 EXCEPT !.future = Append(@, [kind |-> "lookup", announce |-> announce])]}
       ELSE {IF o.status = "Failed" THEN shutdown_event_loop(Removed(LookupCalled(d2, aid, o), aid))
                                    ELSE LookupCalled(d2, aid, o) :
               o \in UNION {lookup_new(announce, ns) : ns \in GoodNodes(g)}}

\* handle_check_table_refresh with continue_refresh: a questionable node is
\* asked if there is one, and the next refresh is scheduled.  The answer only
\* adds nodes to the table.
handle_check_table_refresh(d, aid) ==
    LET curr == IF d.actions[aid].curr = MAX_BUCKETS THEN 0 ELSE d.actions[aid].curr
    IN {[d EXCEPT !.timers = @ \cup Timers("CheckTableRefresh", aid, {<<>>}), !.actions[aid].curr = curr + 1]}
         \cup IF MayFail THEN {shutdown_event_loop(d)} ELSE {}

(***************************************************************************)
(* The bootstrap.                                                          *)
(***************************************************************************)
BootstrapCalled(d, aid, o) ==
    Called(d, aid, o, Tuples(o.sent), Timers("CheckBootstrapTimeout", aid, Tuples(o.set)), Tuples(o.cleared))

\* One of the post bootstrap actions.
StartFuture(d, action, g) ==
    CASE action.kind = "lookup"  -> handle_start_lookup(d, action.announce, g)
      [] action.kind = "refresh" ->
           handle_check_table_refresh([d EXCEPT !.actions = (RefreshAid :> [kind |-> "refresh", curr |-> 0]) @@ @],
                                      RefreshAid)

broadcast_bootstrap_completed(d, aid, g) ==
    LET d2 == [Removed(Broadcast(d, <<"BootstrapCompleted">>), aid) EXCEPT !.bootstrapping = FALSE, !.future = <<>>]
    IN FoldLeft(LAMBDA ds, action : UNION {StartFuture(e, action, g) : e \in ds}, {d2}, d.future)

\* attempt_rebootstrap, and the end of the bootstrap when it is not needed.
attempt_rebootstrap(d, aid, g) ==
    LET b == [d.actions[aid] EXCEPT !.attempts = @ + 1]
    IN IF b.attempts >= MAX_BOOTSTRAP_ATTEMPTS
         THEN IF g = 0 THEN {shutdown_event_loop([d EXCEPT !.actions[aid] = b])}
              ELSE broadcast_bootstrap_completed(d, aid, g)
         ELSE {IF o.status = "Failed" THEN shutdown_event_loop(BootstrapCalled(d, aid, o))
                                      ELSE BootstrapCalled(d, aid, o) : o \in start_bootstrap(b)}

\* We should rebootstrap if we have a low number of nodes.
should_rebootstrap(g) == g < 2

\* What the handlers do with the outcome of a call of the bootstrap.
BootstrapStatus(d, aid, o, g) ==
    LET d2 == BootstrapCalled(d, aid, o)
    IN CASE o.status = "Idle" -> broadcast_bootstrap_completed(d2, aid, g)
         [] o.status = "Bootstrapping" -> {d2}
         [] o.status = "Failed" -> {shutdown_event_loop(d2)}
         [] o.status = "Panic" -> {[d2 EXCEPT !.panic = TRUE]}
         [] o.status = "Completed" /\ should_rebootstrap(g) -> attempt_rebootstrap(d2, aid, g)
         [] o.status = "Completed" /\ ~should_rebootstrap(g) -> broadcast_bootstrap_completed(d2, aid, g)

(***************************************************************************)
(* The event loop.                                                         *)
(***************************************************************************)
\* One handler is run.  The Shutdown message of shutdown_event_loop is in the
\* channel before the answers to what the same handler sends, and is handled
\* before the timeouts it sets.
Handle(ds) ==
    /\ dht.shutdown = "no" \/ (dht.shutdown = "asked" /\ dht.late < MaxLate)
    /\ ~dht.panic
    /\ dht' \in {IF d.shutdown = "no" THEN d
                 ELSE [d EXCEPT !.timers = @ \cap dht.timers, !.wire = @ \cap dht.wire,
                                !.late = IF dht.shutdown = "no" THEN 0 ELSE @ + 1] : d \in ds}

GoodNow == {0, 1, 2}

\* The first message, sent by MainlineDht::with_builder.
StartBootstrap ==
    /\ dht.next_aid = RefreshAid + 1
    /\ LET aid == dht.next_aid
           d2  == [dht EXCEPT !.next_aid = aid + 1, !.bootstrapping = TRUE]
       IN Handle(UNION {BootstrapStatus(d2, aid, o, 0) : o \in start_bootstrap(TableBootstrap_new)})
    /\ UNCHANGED searches

StartLookup(announce) ==
    /\ dht.next_aid > RefreshAid + 1
    /\ searches < MaxLookups
    /\ searches' = searches + 1
    /\ \E g \in GoodNow : Handle(handle_start_lookup(dht, announce, g))

\* handle_shutdown, asked for by a handler or by the client.  The event loop
\* ends, it and the handler are dropped.
Shutdown ==
    /\ dht.shutdown # "done" /\ ~dht.panic
    /\ dht' = Broadcast([dht EXCEPT !.shutdown = "done", !.actions = <<>>, !.future = <<>>, !.timers = {},
                                    !.wire = {}], <<"ShuttingDown">>)
    /\ UNCHANGED searches

\* A find_node response.  A node that answers is added to the table, a router
\* is not: none may be good then.
FindNodeResponse ==
    \E w \in dht.wire : \E g \in GoodNow :
        /\ Has(dht, w.aid, "bootstrap")
        /\ Handle(UNION {BootstrapStatus(dht, w.aid, o, g) :
                           o \in recv_bootstrap_response(dht.actions[w.aid], w.mid[1])})
        /\ UNCHANGED searches

\* The get_peers responses there are; one that is not awaited is not read.
Named   == {ns \in UNION {[1 .. n -> Nodes] : n \in 0 .. MaxNamed} : IsInjective(ns)}
Answers == [token : BOOLEAN, info : {"Nodes", "Both"}, named : Named]
             \cup [token : BOOLEAN, info : {"Values"}, named : {<<>>}]
Unread  == [token |-> FALSE, info |-> "Nodes", named |-> <<>>]
Awaited(w) == \E e \in dht.actions[w.aid].active : e.mid = w.mid

\* A get_peers response: the peers in it go to the handshaker.
GetPeersResponse ==
    \E w \in dht.wire :
        /\ Has(dht, w.aid, "lookup")
        /\ \E r \in IF Awaited(w) THEN Answers ELSE {Unread} :
             Handle({LET d2 == LookupCalled(dht, w.aid, o)
                     IN CASE o.status = "Completed" -> Broadcast(d2, <<"LookupCompleted", w.aid>>)
                          [] o.status = "Failed" -> shutdown_event_loop(d2)
                          [] OTHER -> d2 :
                       o \in recv_lookup_response(dht.actions[w.aid], w.mid, r.token, r.info, r.named)})
        /\ UNCHANGED searches

Fired(t) == [dht EXCEPT !.timers = @ \ {t}]

CheckTableRefresh ==
    \E t \in dht.timers :
        /\ t.task = "CheckTableRefresh"
        /\ Handle(handle_check_table_refresh(Fired(t), t.aid))
        /\ UNCHANGED searches

CheckBootstrapTimeout ==
    \E t \in dht.timers : \E g \in GoodNow :
        /\ t.task = "CheckBootstrapTimeout"
        /\ Handle(UNION {BootstrapStatus(Fired(t), t.aid, o, g) :
                           o \in recv_bootstrap_timeout(dht.actions[t.aid], t.mid[1])})
        /\ UNCHANGED searches

CheckLookupTimeout ==
    \E t \in dht.timers :
        /\ t.task = "CheckLookupTimeout"
        /\ Handle({LET d2 == LookupCalled(Fired(t), t.aid, o)
                   IN CASE o.status = "Completed" -> Broadcast(d2, <<"LookupCompleted", t.aid>>)
                        [] o.status = "Failed" -> shutdown_event_loop(d2)
                        [] OTHER -> d2 :
                     o \in recv_lookup_timeout(dht.actions[t.aid], t.mid)})
        /\ UNCHANGED searches

\* The lookup is removed, whatever the outcome.
CheckLookupEndGame ==
    \E t \in dht.timers :
        /\ t.task = "CheckLookupEndGame"
        /\ Handle({IF st = "Failed" THEN shutdown_event_loop(Removed(Fired(t), t.aid))
                                    ELSE Broadcast(Removed(Fired(t), t.aid), <<"LookupCompleted", t.aid>>) :
                     st \in recv_finished(dht.actions[t.aid])})
        /\ UNCHANGED searches

Stopped ==
    /\ dht.shutdown = "done" \/ dht.panic
    /\ UNCHANGED vars

Next ==
    \/ StartBootstrap
    \/ \E announce \in BOOLEAN : StartLookup(announce)
    \/ Shutdown
    \/ FindNodeResponse
    \/ GetPeersResponse
    \/ CheckTableRefresh
    \/ CheckBootstrapTimeout
    \/ CheckLookupTimeout
    \/ CheckLookupEndGame
    \/ Stopped

Spec == Init /\ [][Next]_vars

\* The builder sends the first message, timeouts fire, and the loop gets to
\* the Shutdown message it was sent.  The timeouts of bootstraps and lookups
\* are finitely many, so that each of them fires; answers may never come.
Progress ==
    \/ dht.shutdown = "asked" /\ Shutdown
    \/ CheckBootstrapTimeout
    \/ CheckLookupTimeout
    \/ CheckLookupEndGame
    \/ StartBootstrap
FairSpec == Spec /\ WF_vars(Progress)

(***************************************************************************)
(* Properties.                                                             *)
(***************************************************************************)
Running == dht.shutdown = "no"
Actions(kind) == {aid \in DOMAIN dht.actions : dht.actions[aid].kind = kind}
Pending(task, aid) == {t.mid : t \in {u \in dht.timers : u.task = task /\ u.aid = aid}}

TypeOK ==
    /\ searches \in 0 .. MaxLookups
    /\ dht.bootstrapping \in BOOLEAN
    /\ dht.shutdown \in {"no", "asked", "done"}
    /\ DOMAIN dht.actions \subseteq 1 .. dht.next_aid - 1
    /\ Actions("bootstrap") \cup Actions("lookup") \cup Actions("refresh") = DOMAIN dht.actions
    /\ \A aid \in Actions("refresh") : dht.actions[aid].curr \in 0 .. MAX_BUCKETS
    /\ \A aid \in Actions("bootstrap") :
         dht.actions[aid].curr \in 0 .. MAX_BUCKETS /\ dht.actions[aid].attempts \in 0 .. MAX_BOOTSTRAP_ATTEMPTS

\* The state is well typed, and whatever is in table_actions waits for a timeout that will fire, through
\* answers, timeouts and new attempts, whose stale timeouts are ignored.  The
\* refresh always has its next one; a bootstrap has outstanding messages and a
\* timeout for each; a lookup that had a node to ask has one for each request
\* in its rounds, and one for all of them in the endgame.
ActionsWait ==
    /\ TypeOK
    /\ Running =>
        /\ \A aid \in Actions("refresh") : Pending("CheckTableRefresh", aid) = {<<>>}
        /\ \A aid \in Actions("bootstrap") :
             LET b == dht.actions[aid]
             IN b.active # {} /\ Tuples(b.active) \subseteq Pending("CheckBootstrapTimeout", aid)
        /\ \A aid \in Actions("lookup") :
             LET l == dht.actions[aid]
             IN IF l.in_endgame THEN Pending("CheckLookupEndGame", aid) = {EndgameMid}
                ELSE /\ Pending("CheckLookupTimeout", aid) = {e.mid : e \in l.active}
                     /\ l.sorted # <<>> => l.active # {}

\* Announcements go to the closest of the nodes that gave us a token, and to as
\* many as may be announced to.
AnnouncesToClosest ==
    \A aid \in Actions("lookup") :
        LET l  == dht.actions[aid]
            to == AnnouncedTo(l)
        IN l.will_announce =>
             /\ to \subseteq l.tokens
             /\ Cardinality(to) = Min({ANNOUNCE_PICK_NUM, Cardinality(l.tokens)})
             /\ \A n \in to, m \in l.tokens \ to : n < m

\* The bootstrap comes to an end, or the DHT shuts down, however the nodes
\* answer.  It does not panic: the bucket to bootstrap is never past the last
\* one when its id is computed (flip_id_bit_at_index: "Panics if index is out
\* of bounds").
BootstrapEnds == <>(<<"BootstrapCompleted">> \in Range(dht.events) \/ dht.shutdown = "done")

\* Every search is completed in the end, unless there was no good node to start
\* it with: then nothing is ever sent or scheduled for it.
SearchEnds ==
    \A n \in 1 .. MaxLookups :
        searches = n ~>
            \/ Cardinality({e \in Range(dht.events) : e[1] = "LookupCompleted"}) >= n
            \/ \E aid \in Actions("lookup") : dht.actions[aid].sorted = <<>>
            \/ dht.shutdown = "done"
=============================================================================
