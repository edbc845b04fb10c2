---------------------------- MODULE RoutingTable ----------------------------
(***************************************************************************)
(* bip_dht: the routing table (routing/table.rs) under the operations of   *)
(* the worker: nodes are added as good (they answered) or as questionable  *)
(* (they were named in an answer), are marked when they send a request or  *)
(* when one is sent to them, and grow old.                                 *)
(***************************************************************************)
EXTENDS DhtBucket, SequencesExt

CONSTANTS
    node_id,        \* our id, a sequence of MAX_BUCKETS bits
    Keys            \* the nodes there are: records of id and addr

VARIABLE buckets
vars == <<buckets>>

MAX_BUCKETS == Len(node_id)

\* The number of leading bits two ids share.
leading_bit_count(a, b) ==
    Max({n \in 0 .. MAX_BUCKETS : \A k \in 1 .. n : a[k] = b[k]})

\* The list of buckets counts from 1, bucket indexes from 0.
bucket_placement(num_same_bits, num_buckets) ==
    IF num_same_bits >= num_buckets THEN num_buckets - 1 ELSE num_same_bits

can_split_bucket(num_buckets, bucket_index) ==
    bucket_index = num_buckets - 1 /\ bucket_index # MAX_BUCKETS - 1

PlaceOf(bs, key) == bucket_placement(leading_bit_count(node_id, key.id), Len(bs))

\* The node put into its bucket, if that takes it.
Put(bs, node) ==
    LET i == PlaceOf(bs, node.key) + 1
    IN [bs EXCEPT ![i] = add_to_bucket(@, node).bucket]

\* add_node for each node of the bucket that was split, bad ones left out.
\* Never more of them than one bucket takes, so none of them splits again.
Redistribute(bs, nodes) ==
    FoldLeft(LAMBDA acc, node : IF status(node) = Bad \/ node.key.id = node_id THEN acc ELSE Put(acc, node),
             bs, nodes)

\* The last bucket is emptied and forgotten.
split_bucket_Slip(bs) == Front(bs) \o <<Bucket, Bucket>>

split_bucket(bs) == Redistribute(Front(bs) \o <<Bucket, Bucket>>, Last(bs))

RECURSIVE bucket_node(_, _)
bucket_node(bs, node) ==
    LET i == PlaceOf(bs, node.key)
    IN CASE add_to_bucket(bs[i + 1], node).added -> Put(bs, node)
         [] ~add_to_bucket(bs[i + 1], node).added /\ can_split_bucket(Len(bs), i) ->
              bucket_node(split_bucket(bs), node)
         [] OTHER -> bs

\* RoutingTable::add_node.
add_node(bs, node) ==
    IF status(node) = Bad \/ leading_bit_count(node_id, node.key.id) = MAX_BUCKETS
      THEN bs ELSE bucket_node(bs, node)

(***************************************************************************)
(* Looking at the table.                                                   *)
(***************************************************************************)
\* The Buckets iterator, from index 0: sorted buckets, empty ones for those
\* not created yet, the last bucket at the end when it is still assorted.
Buckets(bs) ==
    [k \in 1 .. MAX_BUCKETS |->
        IF k < Len(bs) \/ Len(bs) = MAX_BUCKETS THEN [kind |-> "Sorted", nodes |-> bs[k]]
                                                ELSE [kind |-> "Empty", nodes |-> <<>>]]
      \o IF Len(bs) = MAX_BUCKETS THEN <<>> ELSE <<[kind |-> "Assorted", nodes |-> Last(bs)]>>

\* find_node: where the node is, as a set of at most one <<bucket, slot>>.
\* skip(bucket_index).next() yields an empty bucket when the node's own
\* bucket is not created yet, and the assorted bucket is not looked at then.
find_node(bs, key) ==
    LET i == leading_bit_count(node_id, key.id) + 1
        contents == Buckets(bs)
        hits(b) == {<<b, k>> : k \in {s \in Slots(bs[b], key) : pingable(bs[b][s])}}
    IN IF i > Len(contents) THEN {}
       ELSE CASE contents[i].kind = "Sorted"   -> hits(i)
              [] contents[i].kind = "Assorted" -> hits(Len(bs))
              [] contents[i].kind = "Empty"    -> {}

InBounds(index) == index \in 0 .. MAX_BUCKETS - 1
None == -1
FirstInBounds(i, j) == IF InBounds(i) THEN i ELSE IF InBounds(j) THEN j ELSE None

\* The left index is one too far.
next_bucket_index_Slip(start, curr) ==
    CASE curr = start -> FirstInBounds(start + 1, start - 1)
      [] curr > start -> FirstInBounds(start - (curr - start) - 1, curr + 1)
      [] curr < start -> FirstInBounds(start + (start - curr) + 1, curr - 1)

next_bucket_index(start, curr) ==
    CASE curr = start -> FirstInBounds(start + 1, start - 1)
      [] curr > start -> FirstInBounds(start - (curr - start), curr + 1)
      [] curr < start -> FirstInBounds(start + (start - curr) + 1, curr - 1)

\* The indexes the iterator visits from curr on.
RECURSIVE Visited(_, _)
Visited(start, curr) ==
    LET n == next_bucket_index(start, curr)
    IN <<curr>> \o IF n = None THEN <<>> ELSE Visited(start, n)

\* What bucket_iterator and the assorted nodes give for one index.
NodesAt(bs, index) ==
    LET sorted   == IF Len(bs) = MAX_BUCKETS THEN bs ELSE Front(bs)
        assorted == IF Len(bs) = MAX_BUCKETS THEN <<>> ELSE Last(bs)
    IN (IF index + 1 \in DOMAIN sorted THEN SelectSeq(sorted[index + 1], pingable) ELSE <<>>)
         \o SelectSeq(assorted, LAMBDA n : pingable(n) /\ leading_bit_count(node_id, n.key.id) = index)

closest_nodes(bs, target) ==
    LET start == leading_bit_count(node_id, target)
        order == Visited(start, start)
    IN FlattenSeq([k \in DOMAIN order |-> NodesAt(bs, order[k])])

(***************************************************************************)
(* The operations of the worker.                                           *)
(***************************************************************************)
Init == buckets = <<Bucket>>

\* A response: its sender is good.
AddResponder(key) == buckets' = add_node(buckets, as_good(key))

\* A node named in a response.
AddNamed(key) == buckets' = add_node(buckets, as_questionable(key))

\* A request: its sender, if find_node finds it, is marked.
RemoteRequest(key) ==
    \E x \in find_node(buckets, key) :
        buckets' = [buckets EXCEPT ![x[1]][x[2]] = remote_request(@)]

\* A request of ours to a node of the table.
LocalRequest(key) ==
    \E b \in DOMAIN buckets : \E k \in Slots(buckets[b], key) :
        /\ pingable(buckets[b][k])
        /\ buckets' = [buckets EXCEPT ![b][k] = local_request(@)]

\* MAX_LAST_SEEN_MINS have passed since a node's last response or request.
GrowOld(key) ==
    \E b \in DOMAIN buckets : \E k \in Slots(buckets[b], key) :
        \/ /\ buckets[b][k].response = "recent"
           /\ buckets' = [buckets EXCEPT ![b][k].response = "old"]
        \/ /\ buckets[b][k].requested
           /\ buckets' = [buckets EXCEPT ![b][k].requested = FALSE]

Next ==
    \E key \in Keys :
        AddResponder(key) \/ AddNamed(key) \/ RemoteRequest(key) \/ LocalRequest(key) \/ GrowOld(key)

Spec == Init /\ [][Next]_vars
(***************************************************************************)
(* Properties.                                                             *)
(***************************************************************************)
Nodes(bs) == UNION {Range(b) : b \in Range(bs)}

\* Unused slots hold bad nodes.
GoodKeys(bs) == {n.key : n \in {m \in Nodes(bs) : status(m) = Good}}
PingableKeys == {n.key : n \in {m \in Nodes(buckets) : pingable(m)}}

Targets ==
    {[k \in 1 .. MAX_BUCKETS |-> IF k <= n THEN node_id[k] ELSE 1 - node_id[k]] : n \in 0 .. MAX_BUCKETS}

\* A good node stays in the table until it grows old: no addition displaces it,
\* also when buckets are split ("we have to prefer longer lasting nodes in the
\* case of a good status", Bucket::add_node).
GoodIsKept ==
    [][GoodKeys(buckets) \subseteq GoodKeys(buckets') \/ \E key \in Keys : GrowOld(key)]_vars

\* The nodes yielded for a target that shares near bits with our id: every good
\* or questionable node once, those that share as many first.
Complete(ns, near) ==
    /\ {n.key : n \in Range(ns)} = PingableKeys
    /\ Len(ns) = Cardinality(PingableKeys)
    /\ \A j, k \in DOMAIN ns :
         j < k /\ leading_bit_count(node_id, ns[k].key.id) = near => leading_bit_count(node_id, ns[j].key.id) = near

\* closest_nodes yields every good or questionable node once, whatever the
\* target, those of the target's own bucket first: the sorted buckets and the
\* nodes of the assorted bucket interleave without loss or repetition.  Of the
\* target the iterator sees only how many bits it shares with our id.
ClosestIsComplete ==
    \A target \in Targets : Complete(closest_nodes(buckets, target), leading_bit_count(node_id, target))

\* find_node: "Find an instance of the target node in the RoutingTable, if it
\* exists."  A node that requests from us is marked only if it is found.
FindNodeFinds == \A key \in PingableKeys : find_node(buckets, key) # {}
=============================================================================
