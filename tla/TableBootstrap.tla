--------------------------- MODULE TableBootstrap ---------------------------
(***************************************************************************)
(* bip_dht: one bootstrap of the routing table (worker/bootstrap.rs), as   *)
(* functions from a bootstrap to the outcomes a call may have.  The table  *)
(* is not looked at: each bucket has any number of questionable nodes to   *)
(* ask, up to BOOTSTRAP_PINGS_PER_BUCKET.                                  *)
(***************************************************************************)
EXTENDS Integers

CONSTANTS
    MAX_BUCKETS,
    BOOTSTRAP_PINGS_PER_BUCKET,
    MayFail         \* setting a timeout, or sending, may fail

\* A bootstrap: the message ids it waits for, the next message id, the bucket
\* it will do next.
TableBootstrap_new == [kind |-> "bootstrap", active |-> {}, next |-> 1, curr |-> 0, attempts |-> 0]

\* What a call does: the bootstrap afterwards, the status it returns, the
\* messages it sends, the timeouts it sets and those it clears.
Outcome(b, st, sent, set, cleared) ==
    [act |-> b, status |-> st, sent |-> sent, set |-> set, cleared |-> cleared]

start_bootstrap(b) ==
    LET m == b.next
        reset == [b EXCEPT !.active = {}, !.curr = 0, !.next = m + 1]
        asked == [reset EXCEPT !.active = {m}]
    IN {Outcome(asked, "Bootstrapping", {m}, {m}, {})}
         \cup IF MayFail THEN {Outcome(reset, "Failed", {}, {}, {}), Outcome(asked, "Failed", {}, {m}, {})} ELSE {}

current_bootstrap_status(b) ==
    IF b.curr = MAX_BUCKETS \/ b.active = {} THEN "Idle" ELSE "Bootstrapping"

\* bootstrap_next_bucket goes over buckets without questionable nodes, and
\* asks n nodes of the bucket before c.  Flipping a bit past the last one
\* panics.
bootstrap_next_bucket(b) ==
    LET Msgs(n) == b.next .. (b.next + n - 1)
        Asked(c, n) == [b EXCEPT !.active = @ \cup Msgs(n), !.next = @ + n, !.curr = c]
        Buckets == (b.curr + 1) .. MAX_BUCKETS
    IN IF b.curr >= MAX_BUCKETS THEN {Outcome(b, "Panic", {}, {}, {})}
       ELSE {Outcome(Asked(x[1], x[2]), IF x[1] = MAX_BUCKETS THEN "Completed" ELSE "Bootstrapping",
                     Msgs(x[2]), Msgs(x[2]), {}) :
               x \in {y \in Buckets \X (0 .. BOOTSTRAP_PINGS_PER_BUCKET) : y[2] > 0 \/ y[1] = MAX_BUCKETS}}
         \cup IF MayFail
                THEN {Outcome(Asked(x[1] - 1, x[2]), "Failed", Msgs(x[2]), Msgs(x[2] + x[3]), {}) :
                        x \in Buckets \X (0 .. BOOTSTRAP_PINGS_PER_BUCKET - 1) \X {0, 1}}
                ELSE {}

\* The first request and its timeout are forgotten with its first answer.
recv_bootstrap_response_Slip(b, m) ==
    LET b2 == [b EXCEPT !.active = @ \ {m}]
    IN IF m \notin b.active THEN {Outcome(b, current_bootstrap_status(b), {}, {}, {})}
       ELSE {[o EXCEPT !.cleared = {m}] :
               o \in IF b2.active = {} /\ b.curr # 0 THEN bootstrap_next_bucket(b2)
                     ELSE {Outcome(b2, "Bootstrapping", {}, {}, {})}}

\* The answers to the first request, which went to several nodes, are all
\* let through until its timeout.
recv_bootstrap_response(b, m) ==
    LET first == b.curr = 0
        b2    == IF first THEN b ELSE [b EXCEPT !.active = @ \ {m}]
    IN IF m \notin b.active THEN {Outcome(b, current_bootstrap_status(b), {}, {}, {})}
       ELSE {[o EXCEPT !.cleared = IF first THEN {} ELSE {m}] :
               o \in IF b2.active = {} THEN bootstrap_next_bucket(b2)
                     ELSE {Outcome(b2, current_bootstrap_status(b2), {}, {}, {})}}

recv_bootstrap_timeout(b, m) ==
    LET b2 == [b EXCEPT !.active = @ \ {m}]
    IN IF m \in b.active /\ b2.active = {} THEN bootstrap_next_bucket(b2)
       ELSE {Outcome(b2, current_bootstrap_status(b2), {}, {}, {})}
=============================================================================
