----------------------------- MODULE MCDhtStores -----------------------------
(***************************************************************************)
(* What a node of the DHT keeps: the tokens and the contacts it serves     *)
(* requests from (DhtAnnounce), or its routing table (RoutingTable, with   *)
(* ids of three bits).  A behaviour is of one of the two.                  *)
(***************************************************************************)
EXTENDS DhtAnnounce, TLC

CONSTANTS MAX_BUCKET_SIZE, MAX_REFRESH_REQUESTS, node_id, Keys, Parts

VARIABLES part, buckets

Ours == <<0, 0, 0>>
Key(id) == [id |-> id, addr |-> 1]
\* Three nodes that differ from us in the first bit, two in the second and one
\* in the last.
SixKeys == {Key(<<1, 0, 0>>), Key(<<1, 0, 1>>), Key(<<1, 1, 0>>), Key(<<0, 1, 0>>), Key(<<0, 1, 1>>), Key(<<0, 0, 1>>)}

Table == INSTANCE RoutingTable

Symmetry == Permutations(Ips) \cup Permutations(Hashes)

MCInit == part \in Parts /\ Init /\ Table!Init

MCNext ==
    \/ part = "announce" /\ Next /\ UNCHANGED <<part, buckets>>
    \/ part = "table" /\ Table!Next /\ UNCHANGED <<part, vars>>

MCSpec == MCInit /\ [][MCNext]_<<part, buckets, vars>>

\* RoutingTable: closest_nodes yields every good or questionable node once,
\* those of the target's own bucket first.
ClosestIsComplete == Table!ClosestIsComplete

\* RoutingTable: no addition, and no split of a bucket, displaces a good node.
GoodIsKept == Table!GoodIsKept
=============================================================================
