----------------------------- MODULE TableLookup -----------------------------
(***************************************************************************)
(* bip_dht: one lookup of an info hash (worker/lookup.rs), as functions    *)
(* from a lookup to the outcomes a call may have.  A node is its distance  *)
(* from the target: ids are distinct, and a node answers under its own id. *)
(***************************************************************************)
EXTENDS Integers, SequencesExt

CONSTANTS
    Nodes,              \* the distances there are, positive numbers
    MAX_BUCKET_SIZE,
    INITIAL_PICK_NUM,
    ITERATIVE_PICK_NUM,
    ANNOUNCE_PICK_NUM,
    LookupMayFail       \* setting a timeout, or sending, may fail

\* The message id of the k-th request to a node; the endgame's timeout has an
\* id of its own.
Mid(n, k)  == <<n, k>>
EndgameMid == <<0, 0>>

\* A lookup.  active: the requests awaited and the distance the answer has to
\* beat; sorted: the nodes heard of and whether they were asked; asked: how
\* often each node was.
EmptyLookup(announce) ==
    [kind |-> "lookup", will_announce |-> announce, in_endgame |-> FALSE, recv_values |-> FALSE,
     tokens |-> {}, requested |-> {}, sorted |-> <<>>, active |-> {}, asked |-> [n \in Nodes |-> 0]]

LookupOutcome(l, st, sent, set, cleared) ==
    [act |-> l, status |-> st, sent |-> sent, set |-> set, cleared |-> cleared]

\* The node is put at the end.
insert_sorted_node_Slip(list, n, pinged) ==
    IF \E k \in DOMAIN list : list[k].node = n THEN list
    ELSE Append(list, [node |-> n, pinged |-> pinged])

\* insert_sorted_node: a node that is in the list is left as it is.
insert_sorted_node(list, n, pinged) ==
    IF \E k \in DOMAIN list : list[k].node = n THEN list
    ELSE SelectSeq(list, LAMBDA e : e.node < n) \o <<[node |-> n, pinged |-> pinged]>>
           \o SelectSeq(list, LAMBDA e : e.node > n)

\* insert_closest_nodes: the first slot that is free or holds a node farther
\* away; what it holds is dropped.
insert_closest_nodes(picks, n) ==
    LET slots == {k \in DOMAIN picks : n < picks[k]}
    IN IF slots # {} THEN [picks EXCEPT ![Min(slots)] = n]
       ELSE IF Len(picks) < ITERATIVE_PICK_NUM THEN Append(picks, n) ELSE picks

pick_iterate_nodes(unsorted) == FoldLeft(insert_closest_nodes, <<>>, unsorted)

\* The requests for the first k nodes are made.  beat: the distance the answer
\* of each node has to beat, its own to begin with.
OwnDistance == [n \in Nodes |-> n]
Ask(l, picks, k, beat) ==
    LET ns == {picks[i] : i \in 1 .. k}
    IN [l EXCEPT !.active = @ \cup {[mid |-> Mid(n, l.asked[n]), beat |-> beat[n]] : n \in ns},
                 !.requested = @ \cup ns,
                 !.asked = [n \in Nodes |-> @[n] + IF n \in ns THEN 1 ELSE 0]]

\* The message ids of those requests.
Mids(l, picks, k) == {Mid(picks[i], l.asked[picks[i]]) : i \in 1 .. k}

\* start_request_round; a failure after k requests leaves their timeouts set,
\* and one more when it was the sending that failed.
start_request_round(l, picks, beat) ==
    LET n == Len(picks)
    IN {LookupOutcome(IF n = 0 THEN [l EXCEPT !.active = {}] ELSE Ask(l, picks, n, beat),
                      IF n = 0 THEN "Completed" ELSE "Searching", Mids(l, picks, n), Mids(l, picks, n), {})}
         \cup IF LookupMayFail
                THEN {LookupOutcome([Ask(l, picks, k[1], beat) EXCEPT
                                        !.active = Ask(l, picks, k[1] + k[2], beat).active],
                                    "Failed", Mids(l, picks, k[1]), Mids(l, picks, k[1] + k[2]), {}) :
                        k \in (0 .. n - 1) \X {0, 1}}
                ELSE {}

\* The timeout is set with the requests: without any there is none.
start_endgame_round_Slip(l) ==
    {LookupOutcome([l EXCEPT !.in_endgame = TRUE], "Searching", {}, {}, {})}

\* start_endgame_round: one timeout for all the nodes not asked so far.
start_endgame_round(l) ==
    LET unpinged == IF l.recv_values THEN <<>> ELSE SelectSeq(l.sorted, LAMBDA e : ~e.pinged)
        picks    == [k \in DOMAIN unpinged |-> unpinged[k].node]
        l2       == [l EXCEPT !.in_endgame = TRUE]
        Pinged(k) == [j \in DOMAIN l.sorted |->
                        IF \E i \in 1 .. k : picks[i] = l.sorted[j].node
                          THEN [l.sorted[j] EXCEPT !.pinged = TRUE] ELSE l.sorted[j]]
        After(k) == [Ask(l2, picks, k, OwnDistance) EXCEPT !.requested = l.requested, !.sorted = Pinged(k)]
    IN {LookupOutcome(After(Len(picks)), "Searching", Mids(l, picks, Len(picks)), {EndgameMid}, {})}
         \cup IF LookupMayFail
                THEN {LookupOutcome(l2, "Failed", {}, {}, {})}
                       \cup {LookupOutcome([After(k) EXCEPT !.active = After(k + 1).active],
                                           "Failed", Mids(l, picks, k), {EndgameMid}, {}) :
                                k \in 0 .. Len(picks) - 1}
                ELSE {}

current_lookup_status(l) ==
    IF l.in_endgame \/ l.active # {} THEN "Searching" ELSE "Completed"

\* The two calls one after the other: the second one only if the first did
\* not fail.
Then(os, Op(_)) ==
    UNION {IF o.status = "Failed" THEN {o}
           ELSE {[p EXCEPT !.sent = @ \cup o.sent, !.set = @ \cup o.set, !.cleared = @ \cup o.cleared] :
                   p \in Op(o.act)} : o \in os}

Returned(l) == {LookupOutcome(l, current_lookup_status(l), {}, {}, {})}

\* The endgame begins when no answer is awaited any more.
EndgameIfIdle(l) == IF l.active = {} /\ ~l.in_endgame THEN Then(start_endgame_round(l), Returned) ELSE Returned(l)

\* TableLookup::new, for the good nodes found in the table.
lookup_new(announce, known) ==
    LET sorted == FoldLeft(LAMBDA list, n : insert_sorted_node(list, n, FALSE), <<>>, SetToSeq(known))
        first  == SubSeq(sorted, 1, Min({INITIAL_PICK_NUM, Len(sorted)}))
        picks  == [k \in DOMAIN first |-> first[k].node]
        l      == [EmptyLookup(announce) EXCEPT
                     !.sorted = [k \in DOMAIN sorted |-> [sorted[k] EXCEPT !.pinged = k \in DOMAIN first]]]
    IN start_request_round(l, picks, OwnDistance)

\* The nodes of an answer that were not requested from.
Unrequested(l, named) == SelectSeq(named, LAMBDA n : n \notin l.requested)

\* recv_response: an answer with or without a token that has nodes (Nodes),
\* peers (Values) or Both.
recv_lookup_response(l, mid, token, info, named) ==
    LET beat  == (CHOOSE e \in l.active : e.mid = mid).beat
        fresh == Unrequested(l, named)
        next  == Min({beat} \cup Range(fresh))
        more  == info # "Values" /\ next < beat
        picks == IF more THEN pick_iterate_nodes(fresh) ELSE <<>>
        l2    == [l EXCEPT
                    !.active = {e \in @ : e.mid # mid},
                    !.tokens = @ \cup IF token THEN {mid[1]} ELSE {},
                    !.recv_values = @ \/ info = "Values",
                    !.sorted = IF info = "Values" THEN @
                               ELSE FoldLeft(LAMBDA list, n : insert_sorted_node(list, n, n \in Range(picks)), @, named)]
        round == IF more /\ ~l.in_endgame THEN start_request_round(l2, picks, [n \in Nodes |-> next]) ELSE Returned(l2)
    IN IF \A e \in l.active : e.mid # mid THEN Returned(l)
       ELSE {[o EXCEPT !.cleared = @ \cup IF l.in_endgame THEN {} ELSE {mid},
                       !.status = IF @ # "Failed" /\ info # "Nodes" THEN "Values" ELSE @] :
               o \in Then(round, EndgameIfIdle)}

\* The lookup is over when the last request has timed out.
recv_lookup_timeout_Slip(l, mid) ==
    LET l2 == [l EXCEPT !.active = {e \in @ : e.mid # mid}] IN Returned(l2)

recv_lookup_timeout(l, mid) ==
    LET l2 == [l EXCEPT !.active = {e \in @ : e.mid # mid}]
    IN IF l2 = l THEN Returned(l) ELSE EndgameIfIdle(l2)

\* recv_finished: the nodes announced to, closest first.
AnnouncedTo(l) ==
    LET able == SelectSeq(l.sorted, LAMBDA e : e.node \in l.tokens)
    IN IF l.will_announce THEN {able[k].node : k \in 1 .. Min({ANNOUNCE_PICK_NUM, Len(able)})} ELSE {}

recv_finished(l) ==
    {"Completed"} \cup IF LookupMayFail /\ AnnouncedTo(l) # {} THEN {"Failed"} ELSE {}
=============================================================================
