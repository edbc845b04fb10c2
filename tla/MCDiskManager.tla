--------------------------- MODULE MCDiskManager ---------------------------
(***************************************************************************)
(* Small instances for TLC of the parts that work on the files of a        *)
(* torrent: DiskManager, and PieceDownload, of bip_disk, and MetainfoBuild *)
(* of bip_metainfo.  They share nothing, so a behaviour runs one of them.  *)
(***************************************************************************)
EXTENDS DiskManager

CONSTANTS
    MaxProcessed,
    Accessors, Calls, MaxCalls, Threads, Foreign, CanFail,
    Parts       \* the parts that run

VARIABLES part, data, checker, covered, unread, processed

downloadVars == <<data, checker, covered, unread, processed>>

\* Two files and an empty one between them; the pieces have 4 and 3 bytes.
\* Blocks of two bytes on a grid, the last one cut short.
ThreeFiles == <<3, 0, 4>>
Block(p, o, l) == [piece |-> p, off |-> o, len |-> l]
AlignedBlocks == {Block(0, 0, 2), Block(0, 2, 2), Block(1, 0, 2), Block(1, 2, 1)}

Download == INSTANCE PieceDownload WITH
    PieceLength <- 4, FileLengths <- ThreeFiles, Blocks <- AlignedBlocks,
    InitialData <- {"zero", "good"}

VARIABLES builder, asked, calls, master, hasher, work, pool, inbox, result, origin

buildVars == <<builder, asked, calls, master, hasher, work, pool, inbox, result, origin>>

Build == INSTANCE MetainfoBuild WITH worker <- hasher

Torrents == INSTANCE MCTorrents

MCAccessors == Torrents!MCAccessors
MCCalls == Torrents!MCCalls
MCForeign == Torrents!MCForeign

MCInit ==
    /\ part \in Parts /\ Init /\ Download!Init /\ Build!Init
    /\ part # "download" => \A k \in DOMAIN data : data[k] = "zero"
    /\ part # "build" => builder = Build!InfoBuilder /\ result = {}

MCNext ==
    \/ part = "disk" /\ Next /\ UNCHANGED <<part, downloadVars, buildVars>>
    \/ part = "download" /\ Download!Next /\ UNCHANGED <<part, vars, buildVars>>
    \/ part = "build" /\ Build!Next /\ UNCHANGED <<part, vars, downloadVars>>

MCSpec ==
    /\ MCInit /\ [][MCNext]_<<part, vars, downloadVars, buildVars>>
    /\ Fairness /\ Build!Fairness

\* PieceDownload's: a piece all of whose bytes have come is reported, and as good
\* only when it is (disk/tasks/helpers/piece_checker.rs).
ReportsAreRight == Download!ReportsAreRight

\* MetainfoBuild's: the torrent built describes its files (builder/mod.rs,
\* build_with_accessor; builder/worker.rs).
TorrentDescribes == Build!TorrentDescribes

\* MetainfoBuild's: a torrent written back says what it said (metainfo.rs,
\* to_bytes).
TorrentSurvives == Build!TorrentSurvives

\* MetainfoBuild's: a build comes to an end (builder/worker.rs,
\* start_hash_master).
BuildEnds == Build!BuildEnds
=============================================================================
