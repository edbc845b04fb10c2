--------------------------- MODULE MCRoutingTable ---------------------------
(* Ids of three bits, buckets of two nodes. *)
EXTENDS RoutingTable

Ours == <<0, 0, 0>>
Key(id) == [id |-> id, addr |-> 1]
\* Three nodes that differ from us in the first bit, two in the second and one
\* in the last.
SixKeys == {Key(<<1, 0, 0>>), Key(<<1, 0, 1>>), Key(<<1, 1, 0>>), Key(<<0, 1, 0>>), Key(<<0, 1, 1>>), Key(<<0, 0, 1>>)}
=============================================================================
