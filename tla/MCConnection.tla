---------------------------- MODULE MCConnection ----------------------------
(***************************************************************************)
(* Small instances for TLC of what goes over the connection of two peers:  *)
(* Handshaker of bip_handshake, and then PeerWire of bip_peer.  They share *)
(* nothing, so a behaviour runs one of them.                               *)
(***************************************************************************)
EXTENDS PeerWire, TLC

CONSTANTS
    a, b, i1, i2, h1, h2,
    Inits, InitOf, ProtLen, ExtOf, FirstFilters, FilterChoices,
    SinkCapacity, WaitCapacity, DoneCapacity, AcceptMayFail, MayDrop, Changers, MaxChanges,
    Parts       \* the parts that run

VARIABLES part, node, conns, filters, changes, completed

shakeVars == <<node, conns, filters, changes, completed>>

Shake == INSTANCE Handshaker WITH Nodes <- Peers

Filter == INSTANCE HandshakeFilter

\* Two handshakers that connect to each other.
MCInitOf ==
    i1 :> [from |-> a, to |-> b, prot |-> "BitTorrent", hash |-> h1]
    @@ i2 :> [from |-> b, to |-> a, prot |-> "Custom", hash |-> h2]

MCProtLen == [BitTorrent |-> 1, Custom |-> 2]

MCExtOf == a :> {"x"} @@ b :> {"x", "y"}

AllowId == [field |-> "pid", values |-> {a}, hit |-> Filter!Allow, miss |-> Filter!Pass]
BlockA  == [field |-> "addr", values |-> {a}, hit |-> Filter!Block, miss |-> Filter!Pass]

\* b refuses the address of a, but not the peer with its id, which is not known
\* early; a refuses nobody.
MCFirstFilters == a :> <<>> @@ b :> <<BlockA, AllowId>>

MCFilterChoices == {AllowId}

Ext(id_map, fields) == from_builder([id_map |-> id_map, fields |-> fields, custom_entries |-> [e |-> 1]])
UtData == [type |-> "UtData", piece |-> 0, total_size |-> 2, data |-> <<20, 0>>]

\* a sends a message of every kind; b sends it metadata.
MCOutgoing ==
    a :> {[type |-> "KeepAlive"], [type |-> "Choke"], [type |-> "Have", piece_index |-> 258],
          [type |-> "BitField", bytes |-> <<7>>],
          [type |-> "Request", piece_index |-> 1, block_offset |-> 0, block_length |-> 2],
          [type |-> "Cancel", piece_index |-> 1, block_offset |-> 0, block_length |-> 2],
          [type |-> "Piece", piece_index |-> 1, block_offset |-> 0, block |-> <<20, 0>>],
          [type |-> "Port", port |-> 6881],
          Ext([ut_metadata |-> 3], [our_tcp_port |-> 6881, their_ip |-> <<127, 0, 0, 1>>]),
          [type |-> "UtRequest", piece |-> 0], [type |-> "UtReject", piece |-> 1], UtData}
    @@ b :> {Ext([ut_metadata |-> 7, ut_pex |-> 3], [metadata_size |-> 2]), UtData}
MCMaxSends == a :> 2 @@ b :> 1
\* The metadata is too large for a.
MCMaxPayload == a :> {9} @@ b :> {}

MCInit == part \in Parts /\ Init /\ Shake!Init

MCNext ==
    \/ part = "handshake" /\ Shake!Next /\ UNCHANGED <<part, vars>>
    \/ part = "wire" /\ Next /\ UNCHANGED <<part, shakeVars>>

MCSpec ==
    /\ MCInit /\ [][MCNext]_<<part, vars, shakeVars>>
    /\ Fairness /\ Shake!Fairness

\* Handshaker's: a handshake takes no byte of what follows it
\* (bittorrent/framed.rs, poll).
BytesLeftAlone == Shake!BytesLeftAlone

\* Handshaker's: the two ends of a completed handshake agree
\* (handler/handshaker.rs).
Agreement == Shake!Agreement

\* Handshaker's: what is refused early would be refused late
\* (filter/mod.rs, choose).
EarlyBlockIsFinal == Shake!EarlyBlockIsFinal

\* Handshaker's: every handshake comes to an end (handler/timer.rs).
HandshakesEnd == Shake!HandshakesEnd
=============================================================================
