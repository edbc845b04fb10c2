--------------------------- MODULE PieceDownload ---------------------------
(***************************************************************************)
(* bip_disk: one torrent in the disk manager, from the initial check of    *)
(* the files to the blocks processed one after the other (the torrent's    *)
(* mutex makes execute_process_block atomic with respect to other          *)
(* requests for the torrent; DiskTasks has the interleavings).  Writes and *)
(* reads may fail half way.                                                *)
(***************************************************************************)
EXTENDS PieceChecker

CONSTANTS
    Blocks,         \* the blocks the client may send: piece, off, len, within the piece
    InitialData,    \* what a byte of the files may hold when the torrent is added
    MaxProcessed    \* bound: number of blocks processed

VARIABLES
    data,           \* the bytes of the files, end to end: zero, good or bad
    checker,        \* the PieceCheckerState of the torrent
    covered,        \* history: bytes of each piece received since it was last checked
    unread,         \* history: pieces whose last check failed with an I/O error
    processed       \* number of blocks processed so far

vars == <<data, checker, covered, unread, processed>>

\* calculate_diff, the pieces in checked being read before the loop ends.
calculate_diff(c, d, checked) == run_with_whole_pieces(c, checked, GoodPieces(d))

\* send_piece_diff drains all of new_states.
AfterDiff(c) == [c EXCEPT !.new = {}, !.old = @ \cup c.new]

\* init_state for files of the right size, and the diff execute_add_torrent sends.
init_state(d) == calculate_diff(FilledState, d, WholePieces(FilledState))

Init ==
    /\ data \in [Bytes -> InitialData]
    /\ checker = AfterDiff(init_state(data))
    /\ covered = [p \in Pieces |-> {}]
    /\ unread = {}
    /\ processed = 0

\* execute_process_block: write_piece, add_pending_block, calculate_diff and
\* send_piece_diff.
ProcessBlock(b, content) ==
    LET written == BlockBytes(b.piece, b.off, b.len, NumRegions(b.piece, b.off, b.len))
        d == [k \in Bytes |-> IF k \in written THEN content ELSE data[k]]
        c == merge_pieces(add_pending_block(checker, b.piece, BlockMetadata("real", b.off, b.len)))
    IN /\ data' = d
       /\ \E checked \in SUBSET WholePieces(c) :
            /\ checker' = AfterDiff(calculate_diff(c, d, checked))
            /\ covered' = [p \in Pieces |->
                 CASE p \in checked -> {}
                   [] p \notin checked /\ p = b.piece -> covered[p] \cup b.off .. b.off + b.len - 1
                   [] OTHER -> covered[p]]
            /\ unread' = WholePieces(c) \ checked

\* execute_process_block when write_piece fails after n regions: the block is
\* not recorded, and the (empty) diff is sent.
ProcessBlockWriteError(b, content) ==
    /\ \E n \in 0 .. NumRegions(b.piece, b.off, b.len) - 1 :
         LET written == BlockBytes(b.piece, b.off, b.len, n)
         IN data' = [k \in Bytes |-> IF k \in written THEN content ELSE data[k]]
    /\ checker' = AfterDiff(checker)
    /\ UNCHANGED <<covered, unread>>

Next ==
    /\ processed < MaxProcessed
    /\ processed' = processed + 1
    /\ \E b \in Blocks, content \in {"good", "bad"} :
         ProcessBlock(b, content) \/ ProcessBlockWriteError(b, content)

Spec == Init /\ [][Next]_vars

(***************************************************************************)
(* Properties.                                                             *)
(***************************************************************************)
TypeOK ==
    /\ data \in [Bytes -> {"zero", "good", "bad"}]
    /\ checker.new = {} /\ checker.old \subseteq PieceState
    /\ \A p \in Pieces : \A i \in DOMAIN checker.pending[p] :
         checker.pending[p][i].hash = "real" /\ checker.pending[p][i].len \in 1 .. PieceSize(p)
    /\ \A p \in Pieces : covered[p] \subseteq 0 .. PieceSize(p) - 1
    /\ unread \subseteq Pieces

\* A piece not yet known good whose bytes were all received since its last check
\* has been hashed and reported.  If reading it failed it keeps one whole pending
\* message, so that the next block of the torrent has it checked again.
FullIsReported(p) ==
    Good(p) \notin checker.old /\ covered[p] = 0 .. PieceSize(p) - 1 =>
        p \in unread /\ piece_is_complete(p, checker.pending[p])

\* "Notifications are sent when good or bad pieces are detected as soon as
\* enough blocks are sent to the disk manager that make up a full piece"
\* (README.md), and truthfully: a piece is reported good only when all its bytes
\* are good on disk at that moment, even when blocks were overwritten, written
\* partially, spread over files or resent after a bad check.
ReportsAreRight ==
    [][/\ TypeOK'
       /\ \A p \in Pieces :
            /\ FullIsReported(p)'
            /\ Good(p) \in checker'.old \ checker.old =>
                 \A k \in Bytes : k \div PieceLength = p => data'[k] = "good"]_vars
=============================================================================
