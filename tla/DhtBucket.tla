------------------------------ MODULE DhtBucket ------------------------------
(***************************************************************************)
(* bip_dht: nodes and buckets of the routing table (routing/node.rs and    *)
(* routing/bucket.rs), as functions.  Of the times a node keeps, only      *)
(* whether they lie in the last MAX_LAST_SEEN_MINS matters.                *)
(***************************************************************************)
EXTENDS Integers, Sequences, FiniteSetsExt

CONSTANTS
    MAX_BUCKET_SIZE,        \* at least one
    MAX_REFRESH_REQUESTS

\* A node's identity (key), its last response (never, old or recent), whether
\* it requested from us recently, and our requests since its last response.
Node(key, response, requested, requests) ==
    [key |-> key, response |-> response, requested |-> requested, refresh_requests |-> requests]
as_good(key)         == Node(key, "recent", FALSE, 0)
as_questionable(key) == Node(key, "old", FALSE, 0)
as_bad(key)          == Node(key, "never", FALSE, 0)

\* NodeStatus in its order: Bad < Questionable < Good.
Bad          == 0
Questionable == 1
Good         == 2

recently_requested(node) ==
    IF node.requested THEN Good
    ELSE IF node.refresh_requests < MAX_REFRESH_REQUESTS THEN Questionable ELSE Bad

status(node) ==
    CASE node.response = "recent" -> Good
      [] node.response = "never"  -> Bad
      [] node.response = "old"    -> recently_requested(node)

pingable(node) == status(node) \in {Good, Questionable}

local_request(node) ==
    IF status(node) = Good THEN node ELSE [node EXCEPT !.refresh_requests = @ + 1]

remote_request(node) == [node EXCEPT !.requested = TRUE]

\* A bucket is an array that is never empty: unused slots hold bad nodes with
\* an identity of their own.
NoKey  == [id |-> <<>>, addr |-> 0]
Bucket == SubSeq([k \in 1 .. MAX_BUCKET_SIZE |-> as_bad(NoKey)], 1, MAX_BUCKET_SIZE)

\* The slots a new node may take.
Replaceable(bucket, node) == {k \in DOMAIN bucket : status(bucket[k]) < status(node)}

Slots(bucket, key) == {k \in DOMAIN bucket : bucket[k].key = key}

\* Bucket::add_node, for a node that is not bad: the bucket afterwards and the
\* result.
add_to_bucket(bucket, node) ==
    LET here == Slots(bucket, node.key)
        room == Replaceable(bucket, node)
    IN IF here # {}
         THEN LET k == Min(here)
              IN [bucket |-> IF status(node) >= status(bucket[k]) THEN [bucket EXCEPT ![k] = node] ELSE bucket,
                  added |-> TRUE]
       ELSE IF room # {}
         THEN [bucket |-> [bucket EXCEPT ![Min(room)] = node], added |-> TRUE]
         ELSE [bucket |-> bucket, added |-> FALSE]

-----------------------------------------------------------------------------
(* What add_to_bucket keeps, for a bucket of any size. *)

NodeSet(Keys) ==
    [key : Keys, response : {"never", "old", "recent"}, requested : BOOLEAN, refresh_requests : Nat]

\* The keys of the good nodes of a bucket.
GoodIn(bucket) == {bucket[k].key : k \in {j \in DOMAIN bucket : status(bucket[j]) = Good}}

\* No node is in two slots; unused slots do not count.
KeysDistinct(bucket) ==
    \A j, k \in DOMAIN bucket : bucket[j].key = bucket[k].key /\ bucket[j].key # NoKey => j = k
=============================================================================
