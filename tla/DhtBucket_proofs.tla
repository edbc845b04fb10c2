-------------------------- MODULE DhtBucket_proofs --------------------------
(***************************************************************************)
(* What adding a node to a bucket of the routing table keeps, for every    *)
(* size of the bucket and every node.                                      *)
(***************************************************************************)
EXTENDS DhtBucket, WellFoundedInduction, TLAPS

\* The first slot of a set of slots, as position() finds it.
LEMMA MinIsLeast ==
    ASSUME NEW S \in SUBSET Nat, S # {}
    PROVE  Min(S) \in S /\ \A y \in S : Min(S) <= y
<1>1. PICK x \in S : \A y \in S : ~ (<<y, x>> \in OpToRel(<, Nat))
  BY NatLessThanWellFounded, WFMin, Zenon
<1>2. \A y \in S : x <= y
  <2> SUFFICES ASSUME NEW y \in S
               PROVE  x <= y
    OBVIOUS
  <2>1. ~ (y < x)
    BY <1>1, Zenon DEF OpToRel
  <2> QED
    BY <2>1
<1> QED
  BY <1>2, Zenon DEF Min

\* Every node has one of the three statuses.
LEMMA StatusType ==
    ASSUME NEW Keys, NEW node \in NodeSet(Keys)
    PROVE  status(node) \in {Bad, Questionable, Good}
BY DEF NodeSet, status, recently_requested

\* The node is written into slot k.
Written(bucket, node, k, r) == r.added = TRUE /\ r.bucket = [bucket EXCEPT ![k] = node]

\* The three outcomes of add_to_bucket: the node is written over its own older
\* entry, or over a node of lower status when it has no entry, or not at all.
Outcome(n, bucket, node, r) ==
    \/ \E k \in 1 .. n : /\ bucket[k].key = node.key /\ status(bucket[k]) <= status(node)
                         /\ Written(bucket, node, k, r)
    \/ /\ \A k \in 1 .. n : bucket[k].key # node.key
       /\ \E k \in 1 .. n : status(bucket[k]) < status(node) /\ Written(bucket, node, k, r)
    \/ r.bucket = bucket /\ (r.added = TRUE \/ Replaceable(bucket, node) = {})

\* Bucket::add_node has no other outcome.
LEMMA AddCases ==
    ASSUME NEW n \in Nat, NEW Keys, NEW bucket \in [1 .. n -> NodeSet(Keys)], NEW node \in NodeSet(Keys),
           NEW r, r = add_to_bucket(bucket, node)
    PROVE  Outcome(n, bucket, node, r)
<1> DEFINE here == Slots(bucket, node.key)
           room == Replaceable(bucket, node)
<1>1. DOMAIN bucket = 1 .. n /\ here \in SUBSET Nat /\ room \in SUBSET Nat
  BY DEF Slots, Replaceable
<1>2. CASE here # {}
  <2>1. PICK k \in here : k = Min(here)
    BY <1>1, <1>2, MinIsLeast
  <2>2. k \in 1 .. n /\ bucket[k].key = node.key
    BY <1>1 DEF Slots
  <2>3. CASE status(bucket[k]) <= status(node)
    <3>1. status(node) >= status(bucket[k])
      BY <2>2, <2>3, StatusType DEF Bad, Questionable, Good
    <3>2. Written(bucket, node, k, r)
      BY <1>2, <2>1, <3>1 DEF add_to_bucket, Written
    <3> QED
      BY <2>2, <2>3, <3>2 DEF Outcome
  <2>4. CASE ~(status(bucket[k]) <= status(node))
    <3>1. ~(status(node) >= status(bucket[k]))
      BY <2>2, <2>4, StatusType DEF Bad, Questionable, Good
    <3>2. r.bucket = bucket /\ r.added = TRUE
      BY <1>2, <2>1, <3>1 DEF add_to_bucket
    <3> QED
      BY <3>2 DEF Outcome
  <2> QED
    BY <2>3, <2>4
<1>3. CASE here = {} /\ room # {}
  <2>1. PICK k \in room : k = Min(room)
    BY <1>1, <1>3, MinIsLeast
  <2>2. k \in 1 .. n /\ status(bucket[k]) < status(node)
    BY <1>1 DEF Replaceable
  <2>3. \A j \in 1 .. n : bucket[j].key # node.key
    BY <1>1, <1>3 DEF Slots
  <2>4. Written(bucket, node, k, r)
    BY <1>3, <2>1 DEF add_to_bucket, Written
  <2> QED
    BY <2>2, <2>3, <2>4 DEF Outcome
<1>4. CASE here = {} /\ room = {}
  <2>1. r.bucket = bucket
    BY <1>4 DEF add_to_bucket
  <2> QED
    BY <1>4, <2>1 DEF Outcome
<1> QED
  BY <1>2, <1>3, <1>4

\* Bucket::add_node displaces no good node: whoever was good in the bucket is
\* still there, and good, whatever node is added ("we have to prefer longer
\* lasting nodes in the case of a good status").
THEOREM GoodNodesStay ==
    ASSUME NEW n \in Nat, NEW Keys, NEW bucket \in [1 .. n -> NodeSet(Keys)], NEW node \in NodeSet(Keys),
           NEW r, r = add_to_bucket(bucket, node)
    PROVE  GoodIn(bucket) \subseteq GoodIn(r.bucket)
<1> DEFINE after == r.bucket
<1> SUFFICES ASSUME NEW k \in 1 .. n, status(bucket[k]) = Good
             PROVE  bucket[k].key \in GoodIn(after)
  BY DEF GoodIn
<1>1. status(node) \in {Bad, Questionable, Good}
  BY StatusType
<1>2. CASE after = bucket
  BY <1>2 DEF GoodIn
<1>3. ASSUME NEW j \in 1 .. n, after = [bucket EXCEPT ![j] = node],
             \/ bucket[j].key = node.key /\ status(bucket[j]) <= status(node)
             \/ status(bucket[j]) < status(node)
      PROVE  bucket[k].key \in GoodIn(after)
  <2> HIDE DEF after
  <2>1. DOMAIN after = 1 .. n
    BY <1>3
  <2>2. CASE j = k
    <3>1. bucket[k].key = node.key /\ status(node) = Good
      BY <1>1, <1>3, <2>2 DEF Bad, Questionable, Good
    <3> QED
      BY <1>3, <2>1, <2>2, <3>1 DEF GoodIn
  <2>3. CASE j # k
    BY <1>3, <2>1, <2>3 DEF GoodIn
  <2> QED
    BY <2>2, <2>3
<1>4. Outcome(n, bucket, node, r)
  BY AddCases
<1> QED
  BY <1>2, <1>3, <1>4, Zenon DEF Outcome, Written

\* A node is never in two slots of a bucket, although it is looked up and
\* written in separate passes over the bucket.
THEOREM KeysStayDistinct ==
    ASSUME NEW n \in Nat, NEW Keys, NEW bucket \in [1 .. n -> NodeSet(Keys)], NEW node \in NodeSet(Keys),
           KeysDistinct(bucket), node.key # NoKey, NEW r, r = add_to_bucket(bucket, node)
    PROVE  KeysDistinct(r.bucket)
<1> DEFINE after == r.bucket
<1>1. CASE after = bucket
  BY <1>1
<1>2. ASSUME NEW j \in 1 .. n, after = [bucket EXCEPT ![j] = node],
             bucket[j].key = node.key \/ \A k \in 1 .. n : bucket[k].key # node.key
      PROVE  KeysDistinct(after)
  <2> HIDE DEF after
  <2> QED
    BY <1>2 DEF KeysDistinct
<1>3. Outcome(n, bucket, node, r)
  BY AddCases
<1> QED
  BY <1>1, <1>2, <1>3, Zenon DEF Outcome, Written

\* A node is turned away only from a bucket whose nodes are all as good.
THEOREM TurnedAwayByBetter ==
    ASSUME NEW n \in Nat, NEW Keys, NEW bucket \in [1 .. n -> NodeSet(Keys)], NEW node \in NodeSet(Keys),
           NEW r, r = add_to_bucket(bucket, node), r.added = FALSE
    PROVE  \A k \in 1 .. n : status(node) <= status(bucket[k])
<1>0. Outcome(n, bucket, node, r)
  BY AddCases
<1>1. Replaceable(bucket, node) = {}
  BY <1>0, Zenon DEF Outcome, Written
<1>2. \A k \in 1 .. n : ~(status(bucket[k]) < status(node))
  BY <1>1 DEF Replaceable
<1> QED
  BY <1>2, StatusType DEF Bad, Questionable, Good
=============================================================================
