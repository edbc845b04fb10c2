---------------------------- MODULE PieceChecker ----------------------------
(***************************************************************************)
(* bip_disk, disk/tasks/helpers: the bookkeeping of PieceCheckerState      *)
(* (piece_checker.rs), which decides when a piece is ready to be hashed,   *)
(* and the translation of a block to regions of the torrent's files        *)
(* (piece_accessor.rs).  Pure operators; PieceDownload and DiskTasks are   *)
(* the state machines that use them.  Definitions named X_Slip are X with  *)
(* a plausible mistake, to show that the properties notice it.             *)
(***************************************************************************)
EXTENDS Integers, Sequences, FiniteSets, TLC

CONSTANTS
    PieceLength,    \* piece_length of the metainfo file
    FileLengths     \* lengths of the torrent's files, in order

ASSUME PieceLengthPos == PieceLength \in Nat \ {0}
ASSUME FileLengthsNat == FileLengths \in Seq(Nat)

\* The position in the torrent of the first byte of each file, and of the end.
FileStart[f \in 1 .. Len(FileLengths) + 1] ==
    IF f = 1 THEN 0 ELSE FileStart[f - 1] + FileLengths[f - 1]

TotalBytes == FileStart[Len(FileLengths) + 1]
Bytes      == 0 .. TotalBytes - 1
Files      == 1 .. Len(FileLengths)

full_pieces     == TotalBytes \div PieceLength
last_piece_size == TotalBytes % PieceLength
\* The number of hashes in a well-formed metainfo file.
total_blocks    == full_pieces + (IF last_piece_size = 0 THEN 0 ELSE 1)
Pieces          == 0 .. total_blocks - 1

PieceSize(p) == IF p < full_pieces THEN PieceLength ELSE last_piece_size

\* BlockMetadata without its piece index (pending blocks are kept per piece).
\* The blocks of the initial check carry a default info hash.
BlockMetadata(hash, off, len) == [hash |-> hash, off |-> off, len |-> len]
End(m) == m.off + m.len

Good(p) == [piece |-> p, good |-> TRUE]
Bad(p)  == [piece |-> p, good |-> FALSE]
PieceState == [piece : Pieces, good : BOOLEAN]

\* PieceCheckerState::new.  new_states is a set: the order in which the map
\* of pending blocks is walked is arbitrary and so is the order of its drain.
NewCheckerState ==
    [new |-> {}, old |-> {}, pending |-> [p \in Pieces |-> <<>>]]

add_pending_block(c, p, m) == [c EXCEPT !.pending[p] = Append(@, m)]

\* fill_checker_state: every piece of the torrent as one block.
fill_checker_state(c) ==
    [c EXCEPT !.pending = [p \in Pieces |-> Append(@[p], BlockMetadata("default", 0, PieceSize(p)))]]

(***************************************************************************)
(* merge_pieces.                                                           *)
(***************************************************************************)
NoMerge == BlockMetadata("none", 0, 0)

merge_piece_messages(a, b) ==
    LET end == IF End(a) >= End(b) THEN End(a) ELSE End(b)
    IN IF a.hash # b.hash              THEN NoMerge
       ELSE IF b.off \in a.off .. End(a) THEN BlockMetadata(a.hash, a.off, end - a.off)
       ELSE IF a.off \in b.off .. End(b) THEN BlockMetadata(a.hash, b.off, end - b.off)
       ELSE NoMerge

\* The stable sort by offset.
SortByOffset(ms) ==
    LET before(i, j) == ms[i].off < ms[j].off \/ (ms[i].off = ms[j].off /\ i < j)
        order        == SortSeq([i \in DOMAIN ms |-> i], before)
    IN [i \in DOMAIN ms |-> ms[order[i]]]

\* The loop over one sorted vector: the last two messages are replaced by
\* their union for as long as they touch.  suffix[k] is the union of the
\* messages k, ..., n if the loop got that far.
MergeSorted(ms) ==
    LET n == Len(ms)
        suffix[k \in 1 .. n] ==
            IF k = n THEN ms[n]
            ELSE IF suffix[k + 1] = NoMerge THEN NoMerge
            ELSE merge_piece_messages(ms[k], suffix[k + 1])
        stop == CHOOSE k \in 1 .. n : suffix[k] # NoMerge /\ (k > 1 => suffix[k - 1] = NoMerge)
    IN Append(SubSeq(ms, 1, stop - 1), suffix[stop])

merge_pieces(c) ==
    [c EXCEPT !.pending = [p \in Pieces |->
        IF Len(@[p]) > 1 THEN MergeSorted(SortByOffset(@[p])) ELSE @[p]]]

\* The state after fill_checker_state and merge_pieces in the initial check.
FilledState == merge_pieces(fill_checker_state(NewCheckerState))

(***************************************************************************)
(* run_with_whole_pieces and run_with_diff.                                *)
(***************************************************************************)
piece_is_complete(p, ms) ==
    /\ Len(ms) = 1
    /\ \/ ms[1].len = PieceLength
       \/ p = total_blocks - 1 /\ ms[1].len = last_piece_size

\* The pieces run_with_whole_pieces hashes, after merge_pieces.
WholePieces(c) == {p \in Pieces : piece_is_complete(p, c.pending[p]) /\ Good(p) \notin c.old}

\* The outcome when the pieces in checked were read and hashed, those in
\* good with the expected hash, before the loop ended or a read failed.
run_with_whole_pieces(c, checked, good) ==
    [c EXCEPT !.new = @ \cup {Good(p) : p \in checked \cap good} \cup {Bad(p) : p \in checked \ good},
              !.pending = [p \in Pieces |-> IF p \in checked THEN <<>> ELSE @[p]]]

\* One turn of run_with_diff: the state ps has been reported.
ReportState(c, ps) == [c EXCEPT !.new = @ \ {ps}, !.old = @ \cup {ps}]

(***************************************************************************)
(* run_with_file_regions: file, offset in the file, and the indices begin  *)
(* (inclusive) and end (exclusive) of the block's buffer.                  *)
(***************************************************************************)
\* Every file is accessed from its start.
NextRegion_Slip(len, acc, f) ==
    LET size    == FileLengths[f]
        skipped == IF acc.skip <= size THEN acc.skip ELSE size
        left    == size - skipped
        want    == len - acc.done
        take    == IF want <= left THEN want ELSE left
        access  == left > 0 /\ acc.done < len
    IN [skip    |-> acc.skip - skipped,
        done    |-> IF access THEN acc.done + take ELSE acc.done,
        regions |-> IF access
                      THEN Append(acc.regions, [file |-> f, offset |-> 0,
                                                begin |-> acc.done, end |-> acc.done + take])
                      ELSE acc.regions]

NextRegion(len, acc, f) ==
    LET size    == FileLengths[f]
        skipped == IF acc.skip <= size THEN acc.skip ELSE size
        left    == size - skipped
        want    == len - acc.done
        take    == IF want <= left THEN want ELSE left
        access  == left > 0 /\ acc.done < len
    IN [skip    |-> acc.skip - skipped,
        done    |-> IF access THEN acc.done + take ELSE acc.done,
        regions |-> IF access
                      THEN Append(acc.regions, [file |-> f, offset |-> size - left,
                                                begin |-> acc.done, end |-> acc.done + take])
                      ELSE acc.regions]

run_with_file_regions(p, off, len) ==
    LET acc[f \in 0 .. Len(FileLengths)] ==
            IF f = 0 THEN [skip |-> p * PieceLength + off, done |-> 0, regions |-> <<>>]
            ELSE NextRegion(len, acc[f - 1], f)
    IN acc[Len(FileLengths)].regions

FileOf(k) == CHOOSE f \in Files : k \in FileStart[f] .. FileStart[f] + FileLengths[f] - 1

\* The bytes of the files that a region stands for.
RegionBytes(r) == {FileStart[r.file] + r.offset + k : k \in 0 .. r.end - r.begin - 1}

\* The bytes the first n regions of a block touch.
BlockBytes(p, off, len, n) ==
    LET rs == run_with_file_regions(p, off, len)
    IN UNION {RegionBytes(rs[i]) : i \in 1 .. n}
NumRegions(p, off, len) == Len(run_with_file_regions(p, off, len))

\* read_piece and the comparison of the hashes: the piece hashes to the
\* expected value iff every byte read is the good one.
PieceBytes == [p \in Pieces |-> BlockBytes(p, 0, PieceSize(p), NumRegions(p, 0, PieceSize(p)))]
HashMatches(d, p) == \A k \in PieceBytes[p] : d[k] = "good"
GoodPieces(d) == {p \in Pieces : HashMatches(d, p)}
=============================================================================
