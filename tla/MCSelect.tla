------------------------------ MODULE MCSelect ------------------------------
(***************************************************************************)
(* Small instances for TLC of the modules of bip_select: UberModule, and   *)
(* HonestReveal.  They share nothing, so a behaviour runs one of them.     *)
(***************************************************************************)
EXTENDS UberModule

CONSTANTS Hash, p1, p2, num_pieces, Indices, Parts

MCHashOf == [p \in Peers |-> Hash]

\* Two pieces, the second short.
MCInfoSize == [h \in Hashes |-> 3]

\* p1 has the metadata, sends it or something else, and asks for it; p2 has no
\* metadata, or is wrong about its size.
MCMessages ==
    [type : {"AddTorrent", "RemoveTorrent", "DownloadMetainfo"}, hash : Hashes]
    \cup [type : {"PeerConnected", "Reject"}, peer : Peers]
    \cup [type : {"PeerDisconnected"}, peer : {p1}]
    \cup [type : {"Request"}, peer : {p1}, piece : {0}]
    \cup [type : {"Data"}, peer : {p1}, piece : {0, 1}, data : {"good"}]
    \cup [type : {"Data"}, peer : {p1, p2}, piece : {0}, data : {"bad"}]
    \cup [type : {"ReceivedExtended"}, peer : {p1},
          message : [ut_metadata : {TRUE}, metadata_size : {{3}}]]
    \cup [type : {"ReceivedExtended"}, peer : {p2},
          message : [ut_metadata : {TRUE}, metadata_size : {{}, {2}}]]
    \cup {[type |-> "Tick", duration |-> 1]}

VARIABLES part, torrents, out_queue, opt_stream, asleep, told, found

revealVars == <<torrents, out_queue, opt_stream, asleep, told, found>>

Reveal == INSTANCE HonestReveal

MCInit == part \in Parts /\ Init /\ Reveal!Init

MCNext ==
    \/ part = "uber" /\ Next /\ UNCHANGED <<part, revealVars>>
    \/ part = "reveal" /\ Reveal!Next /\ UNCHANGED <<part, vars>>

MCSpec == MCInit /\ [][MCNext]_<<part, vars, revealVars>> /\ Fairness

\* HonestReveal's: a connected peer is told, or about to be, exactly of pieces
\* that are here (revelation/honest.rs).
HonestlyTold == Reveal!HonestlyTold
=============================================================================
