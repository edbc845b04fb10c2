---------------------------- MODULE HonestReveal ----------------------------
(***************************************************************************)
(* bip_select: the honest revelation module (revelation/honest.rs) tells   *)
(* the peers of a torrent which pieces are here: all of them in a bitfield *)
(* when the peer connects, and each new one in a have message.  A peer     *)
(* reads the bitfield as bip_peer does (message/standard.rs).              *)
(*                                                                         *)
(* Definitions named X_Slip are X with a plausible mistake, to show that   *)
(* the properties notice it.                                               *)
(***************************************************************************)
EXTENDS Integers, Sequences, FiniteSets, Functions, SequencesExt, FiniteSetsExt, TLC

CONSTANTS
    Peers, Hashes,
    HashOf,             \* PeerInfo::hash
    num_pieces,         \* of every torrent
    Indices,            \* the indices of pieces that are found
    MaxQueue            \* bound: messages waiting

VARIABLES
    torrents,           \* hash -> PeersInfo: the storage of status, and peers
    out_queue,
    opt_stream,         \* a task waits for the stream
    asleep,             \* the task that takes the messages waits
    told,               \* the pieces each peer has read of, since it connected
    found               \* the pieces of each hash that were ever found

vars == <<torrents, out_queue, opt_stream, asleep, told, found>>

-----------------------------------------------------------------------------
(* Bytes are numbers; a bit set has the bit of piece 0 lowest in byte 0.    *)

\* BitSet::insert (library): the storage grows to the byte of the index.
BitSetInsert(storage, index) ==
    LET byte(i) == IF i \in DOMAIN storage THEN storage[i] ELSE 0
        at      == index \div 8 + 1
        bit     == 2 ^ (index % 8)
    IN [i \in 1 .. Max({Len(storage), at}) |->
            IF i = at /\ (byte(i) \div bit) % 2 = 0 THEN byte(i) + bit ELSE byte(i)]

BitSetElements(storage) ==
    {i \in 0 .. 8 * Len(storage) - 1 : (storage[i \div 8 + 1] \div 2 ^ (i % 8)) % 2 = 1}

insert_reversed_bits_Slip(slice) == slice

\* Eight times: make room in the reversed byte and push the lowest bit over.
insert_reversed_bits(slice) ==
    LET reversed(byte) ==
            LET shift[n \in 0 .. 8] ==
                    IF n = 0 THEN <<0, byte>>
                    ELSE <<((shift[n - 1][1] * 2) % 256) + (shift[n - 1][2] % 2), shift[n - 1][2] \div 2>>
            IN shift[8][1]
    IN [i \in DOMAIN slice |-> reversed(slice[i])]

\* BitFieldIter: the highest bit of a byte is its first piece.
BitFieldIter(bytes) ==
    {bit \in 0 .. 8 * Len(bytes) - 1 : ((bytes[bit \div 8 + 1] * 2 ^ (bit % 8)) % 256) \div 128 = 1}

Claims(message) == IF message.type = "BitField" THEN BitFieldIter(message.bytes) ELSE {message.index}

-----------------------------------------------------------------------------
Init ==
    /\ torrents = <<>>
    /\ out_queue = <<>>
    /\ opt_stream = FALSE
    /\ asleep = FALSE
    /\ told = [p \in Peers |-> {}]
    /\ found = [h \in Hashes |-> {}]

\* What every start_send ends with: check_stream_unblock.
check_stream_unblock ==
    /\ opt_stream' = (opt_stream /\ out_queue' = <<>>)
    /\ asleep' = (asleep /\ ~(opt_stream /\ ~opt_stream'))

\* The calls that are an error change nothing.
Fails == UNCHANGED <<torrents, out_queue, told, found>> /\ check_stream_unblock

add_torrent(hash) ==
    \/ hash \in DOMAIN torrents /\ Fails
    \/ /\ hash \notin DOMAIN torrents
       /\ torrents' = (hash :> [status |-> <<>>, peers |-> {}]) @@ torrents
       /\ UNCHANGED <<out_queue, told, found>>
       /\ check_stream_unblock

remove_torrent(hash) ==
    \/ hash \notin DOMAIN torrents /\ Fails
    \/ /\ hash \in DOMAIN torrents
       /\ torrents' = Restrict(torrents, DOMAIN torrents \ {hash})
       /\ UNCHANGED <<out_queue, told, found>>
       /\ check_stream_unblock

\* The peer has read nothing on its new connection.
add_peer(peer) ==
    LET hash     == HashOf[peer]
        bitfield == [type |-> "BitField", peer |-> peer,
                     bytes |-> insert_reversed_bits(torrents[hash].status)]
    IN \/ hash \notin DOMAIN torrents /\ Fails
       \/ /\ hash \in DOMAIN torrents
          /\ torrents' = [torrents EXCEPT ![hash].peers = @ \cup {peer}]
          /\ out_queue' = IF BitSetElements(torrents[hash].status) = {} THEN out_queue
                          ELSE Append(out_queue, bitfield)
          /\ told' = [told EXCEPT ![peer] = {}]
          /\ UNCHANGED found
          /\ check_stream_unblock

remove_peer(peer) ==
    LET hash == HashOf[peer]
    IN \/ hash \notin DOMAIN torrents /\ Fails
       \/ /\ hash \in DOMAIN torrents
          /\ torrents' = [torrents EXCEPT ![hash].peers = @ \ {peer}]
          /\ UNCHANGED <<out_queue, told, found>>
          /\ check_stream_unblock

\* The peers are told in some order.
insert_piece(hash, index) ==
    \/ (hash \notin DOMAIN torrents \/ index >= num_pieces) /\ Fails
    \/ /\ hash \in DOMAIN torrents
       /\ index < num_pieces
       /\ \E order \in SetToSeqs(torrents[hash].peers) :
             out_queue' = out_queue \o
                    [i \in DOMAIN order |-> [type |-> "Have", peer |-> order[i], index |-> index]]
       /\ torrents' = [torrents EXCEPT ![hash].status = BitSetInsert(@, index)]
       /\ found' = [found EXCEPT ![hash] = @ \cup {index}]
       /\ UNCHANGED told
       /\ check_stream_unblock

StartSend ==
    /\ Len(out_queue) < MaxQueue
    /\ \/ \E hash \in Hashes :
             \/ add_torrent(hash)
             \/ remove_torrent(hash)
             \/ \E index \in Indices : insert_piece(hash, index)
       \/ \E peer \in Peers : add_peer(peer) \/ remove_peer(peer)

\* Stream::poll; the peer reads the message.
Poll ==
    /\ ~asleep
    /\ \/ /\ out_queue = <<>>
          /\ opt_stream' = TRUE
          /\ asleep' = TRUE
          /\ UNCHANGED <<out_queue, told>>
       \/ /\ out_queue # <<>>
          /\ out_queue' = Tail(out_queue)
          /\ told' = [told EXCEPT ![Head(out_queue).peer] = @ \cup Claims(Head(out_queue))]
          /\ UNCHANGED <<opt_stream, asleep>>
    /\ UNCHANGED <<torrents, found>>

Next == StartSend \/ Poll

Spec == Init /\ [][Next]_vars

-----------------------------------------------------------------------------
(* Properties. *)

OnTheWay(peer) ==
    UNION {Claims(out_queue[i]) : i \in {i \in DOMAIN out_queue : out_queue[i].peer = peer}}

\* A peer that is connected has read, or will read of what is queued for it,
\* every piece that is here, and no peer reads of a piece that was never found:
\* none is lost between the bitfield and the haves, and the reversed bytes mean
\* to BitFieldIter what the bit set holds, also at the ends of a byte.
HonestlyTold ==
    /\ \A h \in DOMAIN torrents : \A p \in torrents[h].peers :
          BitSetElements(torrents[h].status) \subseteq told[p] \cup OnTheWay(p)
    /\ \A p \in Peers : told[p] \cup OnTheWay(p) \subseteq found[HashOf[p]]
    /\ asleep => out_queue = <<>>
=============================================================================
