---------------------------- MODULE PeerChannel ----------------------------
(***************************************************************************)
(* What bip_peer's framed connection promises to the two clients that use  *)
(* it: each receives the messages of the other, whole, unchanged and in    *)
(* the order they were sent.  A connection breaks for two reasons only: a  *)
(* message is larger than the receiver's max_payload, or a client sends a  *)
(* ut_metadata message to a peer that has given it no id for it.           *)
(***************************************************************************)
EXTENDS Naturals, Sequences

CONSTANTS
    Peers,          \* the two ends
    Messages,       \* what the clients send
    NeedsId,        \* the messages that can be sent only with an id of the peer
    GivesId,        \* the extended messages that give such an id
    Refused         \* the messages that are too large for an end

VARIABLES
    sent,           \* the messages that each end has sent
    received,       \* the messages that each end has received
    broken          \* the ends that have given up

vars == <<sent, received, broken>>

Other(p) == CHOOSE q \in Peers : q # p

Init ==
    /\ sent = [p \in Peers |-> <<>>]
    /\ received = [p \in Peers |-> <<>>]
    /\ broken = {}

\* Whether p has received an extended message that gives an id.
HasId(p) == \E i \in DOMAIN received[p] : received[p][i] \in GivesId

Send(p, m) ==
    /\ p \notin broken
    /\ IF m \in NeedsId /\ ~HasId(p)
       THEN broken' = broken \union {p} /\ UNCHANGED sent
       ELSE sent' = [sent EXCEPT ![p] = Append(@, m)] /\ UNCHANGED broken
    /\ UNCHANGED received

\* Something is on its way to p.
Deliverable(p) == p \notin broken /\ Len(received[p]) < Len(sent[Other(p)])

Receive(p) ==
    LET m == sent[Other(p)][Len(received[p]) + 1]
    IN /\ Deliverable(p)
       /\ IF m \in Refused[p]
          THEN broken' = broken \union {p} /\ UNCHANGED received
          ELSE received' = [received EXCEPT ![p] = Append(@, m)] /\ UNCHANGED broken
       /\ UNCHANGED sent

Next == \E p \in Peers : Receive(p) \/ \E m \in Messages : Send(p, m)

\* What was sent arrives, as long as the sender does not give up: weak fairness
\* of Receive, written out.
Spec ==
    /\ Init /\ [][Next]_vars
    /\ \A p \in Peers :
           []<>(~Deliverable(p) \/ Other(p) \in broken) \/ []<><<TRUE>>_<<received[p]>>

(***************************************************************************)
(* Properties.                                                             *)
(***************************************************************************)
TypeOK ==
    /\ sent \in [Peers -> Seq(Messages)]
    /\ received \in [Peers -> Seq(Messages)]
    /\ broken \subseteq Peers

\* What an end has received is a prefix of what the other has sent, and none of
\* it was too large for it.
InOrder ==
    \A p \in Peers :
        /\ Len(received[p]) <= Len(sent[Other(p)])
        /\ \A i \in 1 .. Len(received[p]) :
             received[p][i] = sent[Other(p)][i] /\ received[p][i] \notin Refused[p]

\* A message that needs an id is sent only by an end that has received one.
IdsKnown ==
    \A p \in Peers : \A i \in 1 .. Len(sent[p]) : sent[p][i] \in NeedsId => HasId(p)

ChannelInvariant == TypeOK /\ InOrder /\ IdsKnown

\* Every end has another: what the proofs assume of the constants.
ChannelAssumption == \A p \in Peers : \E q \in Peers : q # p
============================================================================
