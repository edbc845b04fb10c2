----------------------------- MODULE UtMetadata -----------------------------
(***************************************************************************)
(* bip_select: the ut_metadata discovery module (discovery/ut_metadata.rs) *)
(* downloads the metadata of a torrent from its peers piece by piece, and  *)
(* serves the metadata it has.  The module is a value; each operation maps *)
(* it to the value it leaves, so that the uber module can run several in   *)
(* one step.  An Option is a set of at most one element.                   *)
(*                                                                         *)
(* Definitions named X_Slip are X with a plausible mistake, to show that   *)
(* the properties notice it.                                               *)
(***************************************************************************)
EXTENDS Integers, Sequences, FiniteSets, Functions, SequencesExt, FiniteSetsExt, TLC

CONSTANTS
    Peers,                  \* PeerInfo
    Hashes,                 \* InfoHash
    HashOf,                 \* PeerInfo::hash
    InfoSize,               \* bytes of the metadata of a hash
    MAX_REQUEST_SIZE,       \* bytes of a piece of metadata
    REQUEST_TIMEOUT,        \* REQUEST_TIMEOUT_MILLIS, in ticks
    MAX_ACTIVE_REQUESTS,
    MAX_PEER_REQUESTS

ASSUME MetadataAssumption ==
    /\ HashOf \in [Peers -> Hashes]
    /\ InfoSize \in [Hashes -> Nat \ {0}]
    /\ {MAX_REQUEST_SIZE, MAX_ACTIVE_REQUESTS, MAX_PEER_REQUESTS} \subseteq Nat \ {0}
    /\ REQUEST_TIMEOUT \in Nat

\* What add_peer reads of the other side's extended message: whether it has an
\* id for ut_metadata, and its metadata_size.
ExtendedMessage == [ut_metadata : BOOLEAN, metadata_size : {{}} \cup {{n} : n \in Nat}]

\* An own extended message, as extend() leaves the builder.
extend == [ut_metadata |-> TRUE, metadata_size |-> {}]

NumPieces(size) ==
    IF size % MAX_REQUEST_SIZE # 0 THEN size \div MAX_REQUEST_SIZE + 1 ELSE size \div MAX_REQUEST_SIZE

\* PendingInfo: the pieces to ask for (the last is asked for first), how many
\* are not here yet, and what is in the place of each; bytes nobody sent are bad.
pending_info_from_metadata_size(size) ==
    [messages |-> [i \in 1 .. NumPieces(size) |-> i - 1],
     left     |-> NumPieces(size),
     size     |-> size,
     bytes    |-> [i \in 0 .. NumPieces(size) - 1 |-> "bad"]]

New ==
    [completed_map   |-> {},        \* the hashes whose metadata is served
     pending_map     |-> <<>>,      \* hash -> Option of PendingInfo
     active_peers    |-> <<>>,      \* hash -> ActivePeers
     active_requests |-> <<>>,
     peer_requests   |-> <<>>,
     opt_sink        |-> FALSE,     \* a task waits for the sink
     opt_stream      |-> FALSE]     \* a task waits for the stream

Ready(u)    == [u |-> u, result |-> "Ready"]
NotReady(u) == [u |-> u, result |-> "NotReady"]
Error(u)    == [u |-> u, result |-> "Err"]

\* The bytes hash to what was asked for.
HashMatches(hash, pending) ==
    pending.size = InfoSize[hash] /\ \A i \in DOMAIN pending.bytes : pending.bytes[i] = "good"

-----------------------------------------------------------------------------
(* What start_send does with each message. *)

add_torrent(u, hash) ==
    IF hash \in u.completed_map THEN Error(u)
    ELSE Ready([u EXCEPT !.completed_map = @ \cup {hash}])

remove_torrent(u, hash) ==
    IF hash \notin u.completed_map THEN Error(u)
    ELSE Ready([u EXCEPT !.completed_map = @ \ {hash}])

\* The first peer's size is the size of the entry; ours and theirs are Options.
add_peer(u, info, ours, theirs) ==
    LET hash      == HashOf[info]
        supported == \E m \in ours, t \in theirs : m.ut_metadata /\ t.ut_metadata
        sizes     == UNION {t.metadata_size : t \in theirs}
        entry     == IF hash \in DOMAIN u.active_peers THEN u.active_peers[hash]
                     ELSE [peers |-> {}, metadata_size |-> CHOOSE n \in sizes : TRUE]
    IN IF supported /\ sizes # {}
       THEN [u EXCEPT !.active_peers = (hash :> [entry EXCEPT !.peers = @ \cup {info}]) @@ @]
       ELSE u

remove_peer(u, info) ==
    LET hash  == HashOf[info]
        peers == u.active_peers[hash].peers \ {info}
    IN IF hash \notin DOMAIN u.active_peers THEN Ready(u)
       ELSE IF peers = {}
            THEN Ready([u EXCEPT !.active_peers = Restrict(@, DOMAIN @ \ {hash})])
            ELSE Ready([u EXCEPT !.active_peers[hash].peers = peers])

Expired(request, duration) == request.left < duration

\* The requests of each hash that expired go back to its messages, in order,
\* and their peers are asked no more; the others have less time left.
apply_tick(u, duration) ==
    LET expired == SelectSeq(u.active_requests, LAMBDA r : Expired(r, duration))
        kept    == SelectSeq(u.active_requests, LAMBDA r : ~Expired(r, duration))
        back(h) == LET of_h == SelectSeq(expired, LAMBDA r : HashOf[r.sent_to] = h)
                   IN [i \in DOMAIN of_h |-> of_h[i].piece]
    IN Ready([u EXCEPT
        !.active_peers = [h \in DOMAIN @ |->
            [@[h] EXCEPT !.peers = @ \ {expired[i].sent_to : i \in DOMAIN expired}]],
        !.pending_map = [h \in DOMAIN @ |->
            {[p EXCEPT !.messages = @ \o back(h)] : p \in @[h]}],
        !.active_requests = [i \in DOMAIN kept |-> [kept[i] EXCEPT !.left = @ - duration]]])

download_metainfo(u, hash) ==
    IF hash \in DOMAIN u.pending_map THEN Ready(u)
    ELSE Ready([u EXCEPT !.pending_map = (hash :> {}) @@ @])

recv_request(u, info, piece) ==
    IF Len(u.peer_requests) = MAX_PEER_REQUESTS THEN NotReady(u)
    ELSE Ready([u EXCEPT !.peer_requests = Append(@, [send_to |-> info, piece |-> piece])])

swap_remove(s, i) == Front([s EXCEPT ![i] = Last(s)])

Positions(u, info, piece) ==
    {i \in DOMAIN u.active_requests : /\ u.active_requests[i].sent_to = info
                                      /\ u.active_requests[i].piece = piece}

Received(pending, piece, data) == [pending EXCEPT !.left = @ - 1, !.bytes[piece] = data]

recv_data_Slip(u, info, piece, data) ==
    LET hash == HashOf[info]
        asked == Positions(u, info, piece)
    IN Ready([u EXCEPT
        !.active_requests = IF asked = {} THEN @ ELSE swap_remove(@, Min(asked)),
        !.pending_map = [h \in DOMAIN @ |->
            IF h = hash THEN {Received(p, piece, data) : p \in @[h]} ELSE @[h]]])

\* Data nobody asked this peer for is ignored.
recv_data(u, info, piece, data) ==
    LET hash  == HashOf[info]
        asked == Positions(u, info, piece)
    IN IF asked = {} THEN Ready(u)
       ELSE Ready([u EXCEPT
            !.active_requests = swap_remove(@, Min(asked)),
            !.pending_map = [h \in DOMAIN @ |->
                IF h = hash THEN {Received(p, piece, data) : p \in @[h]} ELSE @[h]]])

\* A rejected request is made again.
recv_reject_Slip(u) ==
    Ready([u EXCEPT !.active_requests = [i \in DOMAIN @ |-> [@[i] EXCEPT !.left = REQUEST_TIMEOUT]]])

recv_reject(u) == Ready(u)

-----------------------------------------------------------------------------
(* What start_send and on_update do last. *)

\* A download whose bytes do not hash to what was asked for starts over.
validate_downloaded(u) ==
    [u EXCEPT !.pending_map = [h \in DOMAIN @ |->
        {p \in @[h] : p.left = 0 => HashMatches(h, p)}]]

DownloadsAvailable(u) == \E h \in DOMAIN u.pending_map : \E p \in u.pending_map[h] : p.left = 0

initialize_pending(u) ==
    [u EXCEPT !.pending_map = [h \in DOMAIN @ |->
        IF @[h] = {} /\ h \in DOMAIN u.active_peers
        THEN {pending_info_from_metadata_size(u.active_peers[h].metadata_size)}
        ELSE @[h]]]

TasksAvailable(u) == \E h \in DOMAIN u.pending_map : \E p \in u.pending_map[h] : p.messages # <<>>

check_stream_unblock_Slip(u) ==
    LET begun == initialize_pending(validate_downloaded(u))
    IN [begun EXCEPT !.opt_stream = @ /\ ~(TasksAvailable(begun) \/ begun.peer_requests # <<>>)]

\* No download becomes available by initialize_pending unless its size is 0.
check_stream_unblock(u) ==
    LET valid == validate_downloaded(u)
        begun == initialize_pending(valid)
        free  == Len(begun.active_requests) # MAX_ACTIVE_REQUESTS
    IN [begun EXCEPT !.opt_stream = @ /\ ~ \/ free /\ TasksAvailable(begun)
                                           \/ begun.peer_requests # <<>>
                                           \/ DownloadsAvailable(valid)]

check_sink_unblock(u) ==
    [u EXCEPT !.opt_sink = @ /\ Len(u.peer_requests) = MAX_PEER_REQUESTS]

on_update(u, info, ours, theirs) == check_stream_unblock(add_peer(u, info, ours, theirs))

\* The messages: those of ControlMessage, and IDiscoveryMessage's own.
Handle(u, item) ==
    CASE item.type = "AddTorrent"       -> add_torrent(u, item.hash)
      [] item.type = "RemoveTorrent"    -> remove_torrent(u, item.hash)
      [] item.type = "PeerConnected"    -> Ready(u)
      [] item.type = "PeerDisconnected" -> remove_peer(u, item.peer)
      [] item.type = "Tick"             -> apply_tick(u, item.duration)
      [] item.type = "DownloadMetainfo" -> download_metainfo(u, item.hash)
      [] item.type = "Request"          -> recv_request(u, item.peer, item.piece)
      [] item.type = "Data"             -> recv_data(u, item.peer, item.piece, item.data)
      [] item.type = "Reject"           -> recv_reject(u)

start_send(u, item) ==
    LET handled == Handle(u, item)
        checked == check_stream_unblock(handled.u)
    IN [u      |-> [checked EXCEPT !.opt_sink = @ \/ handled.result = "NotReady"],
        result |-> handled.result]

-----------------------------------------------------------------------------
(* What poll does: each retrieve is the set of its outcomes, a module and   *)
(* an Option of a message.  The maps are iterated in any order.             *)

\* Info::from_bytes reads what hashed to what was asked for, may read other
\* bytes, and reads nothing from a download of size 0; downloads it cannot read
\* are dropped on the way to the first that it can.
retrieve_completed_download(u) ==
    LET done    == {h \in DOMAIN u.pending_map : \E p \in u.pending_map[h] : p.left = 0}
        sound   == {h \in done : \E p \in u.pending_map[h] : HashMatches(h, p)}
        sized   == {h \in done : \E p \in u.pending_map[h] : p.size > 0}
        drop(S) == [u EXCEPT !.pending_map  = Restrict(@, DOMAIN @ \ S),
                             !.active_peers = Restrict(@, DOMAIN @ \ S)]
        given(R) == IF R = {} THEN {[u |-> drop(done), out |-> {}]}
                    ELSE {[u   |-> drop(S \cup {h}),
                           out |-> {[type |-> "Downloaded", hash |-> h, pending |-> u.pending_map[h]]}] :
                          S \in SUBSET (done \ R), h \in R}
    IN UNION {given(R) : R \in {R \in SUBSET sized : sound \subseteq R}}

generate_active_request(piece, peer) == [left |-> REQUEST_TIMEOUT, piece |-> piece, sent_to |-> peer]

\* The hashes with something to ask for and someone to ask.
Askable(u) ==
    {h \in DOMAIN u.pending_map : /\ \E p \in u.pending_map[h] : p.messages # <<>>
                                  /\ h \in DOMAIN u.active_peers
                                  /\ u.active_peers[h].peers # {}}

retrieve_piece_request(u) ==
    IF Askable(u) = {} THEN {[u |-> u, out |-> {}]}
    ELSE UNION {{LET piece == Last((CHOOSE p \in u.pending_map[h] : TRUE).messages)
                 IN [u   |-> [u EXCEPT
                        !.pending_map[h] = {[p EXCEPT !.messages = Front(@)] : p \in @},
                        !.active_requests = Append(@, generate_active_request(piece, peer))],
                     out |-> {[type |-> "SendRequest", peer |-> peer, piece |-> piece]}] :
                 peer \in u.active_peers[h].peers} : h \in Askable(u)}

\* A piece that does not fill MAX_REQUEST_SIZE is never served.
Servable(u, request) ==
    /\ HashOf[request.send_to] \in u.completed_map
    /\ (request.piece + 1) * MAX_REQUEST_SIZE <= InfoSize[HashOf[request.send_to]]

\* The request that is served stays in the queue.
retrieve_piece_response_Slip(u) ==
    LET served == {i \in DOMAIN u.peer_requests : Servable(u, u.peer_requests[i])}
    IN IF served = {} THEN {[u |-> [u EXCEPT !.peer_requests = <<>>], out |-> {}]}
       ELSE LET i == Min(served)
                r == u.peer_requests[i]
            IN {[u   |-> [u EXCEPT !.peer_requests = SubSeq(@, i, Len(@))],
                 out |-> {[type |-> "SendData", peer |-> r.send_to, piece |-> r.piece]}]}

\* The requests before the first that can be served are dropped with it.
retrieve_piece_response(u) ==
    LET served == {i \in DOMAIN u.peer_requests : Servable(u, u.peer_requests[i])}
    IN IF served = {} THEN {[u |-> [u EXCEPT !.peer_requests = <<>>], out |-> {}]}
       ELSE LET i == Min(served)
                r == u.peer_requests[i]
            IN {[u   |-> [u EXCEPT !.peer_requests = SubSeq(@, i + 1, Len(@))],
                 out |-> {[type |-> "SendData", peer |-> r.send_to, piece |-> r.piece]}]}

\* Each retrieve is tried where the one before it had no message.
poll(u) ==
    LET completed == retrieve_completed_download(u)
        asked == UNION {IF o.out # {} THEN {o} ELSE retrieve_piece_request(o.u) : o \in completed}
        found == UNION {IF o.out # {} THEN {o} ELSE retrieve_piece_response(o.u) : o \in asked}
    IN {[u   |-> [check_sink_unblock(o.u) EXCEPT !.opt_stream = @ \/ o.out = {}],
         out |-> o.out] : o \in found}
=============================================================================
