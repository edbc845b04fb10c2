----------------------------- MODULE DiskTasks -----------------------------
(***************************************************************************)
(* bip_disk: the requests of the disk manager executed concurrently by the *)
(* pool threads (disk/tasks/mod.rs) on the shared context: the map of      *)
(* torrents under a RwLock, one Mutex per torrent (disk/tasks/context.rs), *)
(* the file system, and the channel to the client, on which a task may     *)
(* block while it holds its locks.                                         *)
(*                                                                         *)
(* Every lock operation, file operation and message is a step.  All        *)
(* torrents have the shape PieceLength and FileLengths give.  Definitions  *)
(* named X_Slip are X with a plausible mistake, to show that the           *)
(* properties notice it.                                                   *)
(***************************************************************************)
EXTENDS PieceChecker, Mpsc

CONSTANTS
    Hashes,         \* info hashes
    Workers,        \* threads of the CpuPool
    Nobody,         \* owner of a free mutex
    Inputs,         \* the IDiskMessages that may be sent
    ChannelCap,     \* stream_buffer_capacity
    IoErrors,       \* whether file operations may fail
    ShortIo,        \* whether a read or write may be short (the code asserts it is not)
    InitialSizes,   \* sizes the files may have at the start: functions on Files
    InitialData,    \* what files that are not empty may hold at the start
    MaxRequests     \* bound: number of requests

ASSUME ChannelCapNat == ChannelCap \in Nat
ASSUME NobodyIsNoWorker == Nobody \notin Workers
ASSUME InitialSizesAreSizes == InitialSizes \subseteq [Files -> Nat]
\* A byte is "zero" as long as nothing was written to it.
ASSUME InputsAreMessages ==
    \A m \in Inputs : /\ m.op \in {"add", "remove", "sync", "load", "process"}
                      /\ m.hash \in Hashes
                      /\ m.op = "process" => m.content # "zero"

VARIABLES
    job,            \* what each pool thread is doing
    present,        \* the info hashes in the map of torrents
    checker,        \* the PieceCheckerState stored for each present hash
    readers,        \* the threads that hold the RwLock for reading
    mutex,          \* the thread that holds the Mutex of each torrent
    poisoned,       \* the torrents whose Mutex is poisoned
    fsize,          \* the size of each file of each torrent
    data,           \* the bytes of each torrent's files, end to end
    log,            \* all messages sent to the client, in order
    received,       \* how many of them the stream has taken
    parked,         \* the senders (one per request) parked by the channel
    requests        \* number of requests so far

lockVars == <<readers, mutex, poisoned>>
mapVars  == <<present, checker>>
fsVars   == <<fsize, data>>
chanVars == <<log, received, parked>>
vars == <<job, present, checker, readers, mutex, poisoned, fsize, data,
          log, received, parked, requests>>

\* n numbers the request, i counts files or regions, res is the result so far, seen the size
\* file_size returned, chk the checker state a new torrent is given, got the
\* bytes read by a LoadBlock.
Idle == [pc |-> "idle", msg |-> [op |-> "none", hash |-> "none"], n |-> 0, i |-> 1, res |-> "ok", seen |-> 0,
         chk |-> NewCheckerState, got |-> {}]

Init ==
    /\ job = [w \in Workers |-> Idle]
    /\ present = {}
    /\ checker = [h \in Hashes |-> NewCheckerState]
    /\ readers = {}
    /\ mutex = [h \in Hashes |-> Nobody]
    /\ poisoned = {}
    /\ fsize \in [Hashes -> InitialSizes]
    /\ \E d \in InitialData :
         data = [h \in Hashes |-> [k \in Bytes |-> IF fsize[h][FileOf(k)] = 0 THEN "zero" ELSE d]]
    /\ log = <<>>
    /\ received = 0
    /\ parked = <<>>
    /\ requests = 0

At(w, pc)   == job[w].pc = pc
Op(w)       == job[w].msg.op
Hash(w)     == job[w].msg.hash
Goto(w, pc) == job' = [job EXCEPT ![w].pc = pc]
Fail(w, pc) == job' = [job EXCEPT ![w].pc = pc, ![w].res = "err"]

\* The regions of the block of the request that w executes.
Regions(w) == run_with_file_regions(job[w].msg.piece, job[w].msg.off, job[w].msg.len)

SendBlocking(w, m) ==
    /\ ~IsParked(parked, job[w].n)
    /\ log' = Append(log, m)
    /\ parked' = ParkedAfterSend(parked, Len(log) - received, ChannelCap, job[w].n)
    /\ UNCHANGED received

\* execute_on_pool: a thread starts to execute a request, with a sender of
\* its own.  A client does not send AddTorrent again before the last one for
\* the torrent was answered.
Execute(w) ==
    /\ At(w, "idle")
    /\ requests < MaxRequests
    /\ requests' = requests + 1
    /\ \E m \in Inputs :
         /\ m.op # "add" \/ \A v \in Workers : Op(v) # "add" \/ Hash(v) # m.hash
         /\ job' = [job EXCEPT ![w] = [Idle EXCEPT !.msg = m, !.n = requests + 1,
                      !.pc = CASE m.op = "add" -> "open" [] m.op = "remove" -> "remove" [] OTHER -> "read"]]
    /\ UNCHANGED <<mapVars, lockVars, fsVars, chanVars>>

(***************************************************************************)
(* execute_add_torrent: validate_files_sizes opens each file, looks at its *)
(* size and then allocates it if it is empty; fill_checker_state and       *)
(* calculate_diff hash what is there.  No lock is held.                    *)
(***************************************************************************)
OpenFile(w) ==
    /\ At(w, "open")
    /\ \/ /\ job[w].i \in Files
          /\ job' = [job EXCEPT ![w].pc = "allocate", ![w].seen = fsize[Hash(w)][job[w].i]]
       \/ job[w].i \in Files /\ IoErrors /\ Fail(w, "final")
       \/ job[w].i \notin Files /\ Goto(w, "check")
    /\ UNCHANGED <<mapVars, lockVars, fsVars, chanVars, requests>>

\* A file of any other size is allocated.
AllocateFile_Slip(w) ==
    LET f == job[w].i
        h == Hash(w)
        expected == FileLengths[f]
    IN /\ At(w, "allocate")
       /\ job[w].seen # expected
       /\ fsize' = [fsize EXCEPT ![h][f] = expected]
       /\ data' = [data EXCEPT ![h][FileStart[f] + expected - 1] = "zero"]
       /\ job' = [job EXCEPT ![w].pc = "open", ![w].i = f + 1]
       /\ UNCHANGED <<mapVars, lockVars, chanVars, requests>>

\* Writes a zero at the end of an empty file.
AllocateFile(w) ==
    LET f == job[w].i
        h == Hash(w)
        expected == FileLengths[f]
    IN /\ At(w, "allocate")
       /\ job[w].seen = 0 /\ expected # 0
       /\ fsize' = [fsize EXCEPT ![h][f] = expected]
       /\ data' = [data EXCEPT ![h][FileStart[f] + expected - 1] = "zero"]
       /\ job' = [job EXCEPT ![w].pc = "open", ![w].i = f + 1]
       /\ UNCHANGED <<mapVars, lockVars, chanVars, requests>>

\* The file is left alone, or its size is wrong.
AcceptFile(w) ==
    LET expected == FileLengths[job[w].i]
    IN /\ At(w, "allocate")
       /\ ~(job[w].seen = 0 /\ expected # 0)
       /\ \/ job[w].seen = expected /\ job' = [job EXCEPT ![w].pc = "open", ![w].i = @ + 1]
          \/ job[w].seen # expected /\ Fail(w, "final")
       /\ UNCHANGED <<mapVars, lockVars, fsVars, chanVars, requests>>

CheckFiles(w) ==
    /\ At(w, "check")
    /\ \/ job' = [job EXCEPT ![w].pc = "diff",
                    ![w].chk = run_with_whole_pieces(FilledState, WholePieces(FilledState),
                                                     GoodPieces(data[Hash(w)]))]
       \/ IoErrors /\ Fail(w, "final")
    /\ UNCHANGED <<mapVars, lockVars, fsVars, chanVars, requests>>

\* insert_torrent, under the write lock.
InsertTorrent(w) ==
    LET h == Hash(w)
    IN /\ At(w, "insert") /\ readers = {}
       /\ present' = present \cup {h}
       /\ \/ /\ h \notin present
             /\ checker' = [checker EXCEPT ![h] = job[w].chk]
             /\ Goto(w, "final")
          \/ h \in present /\ Fail(w, "final") /\ UNCHANGED checker
       /\ UNCHANGED <<lockVars, fsVars, chanVars, requests>>

\* Without the write lock.
RemoveTorrent_Slip(w) ==
    LET h == Hash(w)
    IN /\ At(w, "remove")
       /\ present' = present \ {h}
       /\ poisoned' = poisoned \ {h}
       /\ IF h \in present THEN Goto(w, "final") ELSE Fail(w, "final")
       /\ UNCHANGED <<checker, readers, mutex, fsVars, chanVars, requests>>

\* remove_torrent, under the write lock.
RemoveTorrent(w) ==
    LET h == Hash(w)
    IN /\ At(w, "remove") /\ readers = {}
       /\ present' = present \ {h}
       /\ poisoned' = poisoned \ {h}
       /\ IF h \in present THEN Goto(w, "final") ELSE Fail(w, "final")
       /\ UNCHANGED <<checker, readers, mutex, fsVars, chanVars, requests>>

(***************************************************************************)
(* update_torrent: the read lock and the torrent's mutex are held while    *)
(* the callback of a sync, load or process request runs.                   *)
(***************************************************************************)
ReadTorrents(w) ==
    /\ At(w, "read")
    /\ \/ Hash(w) \in present /\ readers' = readers \cup {w} /\ Goto(w, "lock")
       \/ Hash(w) \notin present /\ UNCHANGED readers /\ Fail(w, "final")
    /\ UNCHANGED <<mapVars, mutex, poisoned, fsVars, chanVars, requests>>

LockTorrent(w) ==
    /\ At(w, "lock")
    /\ mutex[Hash(w)] = Nobody /\ Hash(w) \notin poisoned
    /\ mutex' = [mutex EXCEPT ![Hash(w)] = w]
    /\ Goto(w, CASE Op(w) = "sync" -> "sync" [] Op(w) = "load" -> "load" [] OTHER -> "write")
    /\ UNCHANGED <<mapVars, readers, poisoned, fsVars, chanVars, requests>>

\* The loop over the files of execute_sync_torrent: each result replaces the last.
SyncFile(w) ==
    LET f == job[w].i
    IN /\ At(w, "sync")
       /\ \/ f \in Files /\ job' = [job EXCEPT ![w].i = f + 1, ![w].res = "ok"]
          \/ f \in Files /\ IoErrors /\ job' = [job EXCEPT ![w].i = f + 1, ![w].res = "err"]
          \/ f \notin Files /\ Goto(w, "unlock")
       /\ UNCHANGED <<mapVars, lockVars, fsVars, chanVars, requests>>

\* read_piece, region by region.
LoadRegion(w) ==
    LET rs == Regions(w)
        i  == job[w].i
    IN /\ At(w, "load")
       /\ \/ /\ i <= Len(rs)
             /\ job' = [job EXCEPT ![w].i = i + 1,
                          ![w].got = @ \cup {<<k, data[Hash(w)][k]>> : k \in RegionBytes(rs[i])}]
          \/ i <= Len(rs) /\ IoErrors /\ Fail(w, "unlock")
          \/ i > Len(rs) /\ Goto(w, "unlock")
       /\ UNCHANGED <<mapVars, lockVars, fsVars, chanVars, requests>>

\* write_piece, region by region.  After an error the diff is sent all the same.
WriteRegion(w) ==
    LET rs == Regions(w)
        i  == job[w].i
        h  == Hash(w)
    IN /\ At(w, "write")
       /\ \/ /\ i <= Len(rs)
             /\ data' = [data EXCEPT ![h] =
                           [k \in Bytes |-> IF k \in RegionBytes(rs[i]) THEN job[w].msg.content ELSE @[k]]]
             /\ job' = [job EXCEPT ![w].i = i + 1]
          \/ i <= Len(rs) /\ IoErrors /\ Fail(w, "diff") /\ UNCHANGED data
          \/ i > Len(rs) /\ Goto(w, "calculate") /\ UNCHANGED data
       /\ UNCHANGED <<mapVars, lockVars, fsize, chanVars, requests>>

\* add_pending_block and calculate_diff; a read error ends the loop early.
CalculateDiff(w) ==
    LET h == Hash(w)
        m == job[w].msg
        c == merge_pieces(add_pending_block(checker[h], m.piece, BlockMetadata("real", m.off, m.len)))
    IN /\ At(w, "calculate")
       /\ \E checked \in SUBSET WholePieces(c) :
            /\ checker' = [checker EXCEPT ![h] = run_with_whole_pieces(c, checked, GoodPieces(data[h]))]
            /\ \/ checked = WholePieces(c) /\ Goto(w, "diff")
               \/ checked # WholePieces(c) /\ IoErrors /\ Fail(w, "diff")
       /\ UNCHANGED <<present, lockVars, fsVars, chanVars, requests>>

(***************************************************************************)
(* send_piece_diff, one message at a time: on the local state of a new     *)
(* torrent (bad pieces are not reported), or on the stored state with the  *)
(* locks held.                                                             *)
(***************************************************************************)
Diff(w) == IF Op(w) = "add" THEN job[w].chk ELSE checker[Hash(w)]

PieceMessage(h, ps) ==
    [kind |-> IF ps.good THEN "FoundGoodPiece" ELSE "FoundBadPiece", hash |-> h, piece |-> ps.piece]

\* With the ignore_bad flag the wrong way round.
SendPieceDiff_Slip(w) ==
    /\ At(w, "diff")
    /\ \E ps \in Diff(w).new :
         /\ \/ /\ ~ps.good \/ Op(w) # "add"
               /\ SendBlocking(w, PieceMessage(Hash(w), ps))
            \/ ps.good /\ Op(w) = "add" /\ UNCHANGED chanVars
         /\ \/ /\ Op(w) = "add"
               /\ job' = [job EXCEPT ![w].chk = ReportState(@, ps)]
               /\ UNCHANGED checker
            \/ /\ Op(w) # "add"
               /\ checker' = [checker EXCEPT ![Hash(w)] = ReportState(@, ps)]
               /\ UNCHANGED job
    /\ UNCHANGED <<present, lockVars, fsVars, requests>>

SendPieceDiff(w) ==
    /\ At(w, "diff")
    /\ \E ps \in Diff(w).new :
         /\ \/ /\ ps.good \/ Op(w) # "add"
               /\ SendBlocking(w, PieceMessage(Hash(w), ps))
            \/ ~ps.good /\ Op(w) = "add" /\ UNCHANGED chanVars
         /\ \/ /\ Op(w) = "add"
               /\ job' = [job EXCEPT ![w].chk = ReportState(@, ps)]
               /\ UNCHANGED checker
            \/ /\ Op(w) # "add"
               /\ checker' = [checker EXCEPT ![Hash(w)] = ReportState(@, ps)]
               /\ UNCHANGED job
    /\ UNCHANGED <<present, lockVars, fsVars, requests>>

DiffSent(w) ==
    /\ At(w, "diff") /\ Diff(w).new = {}
    /\ Goto(w, IF Op(w) = "add" THEN "insert" ELSE "unlock")
    /\ UNCHANGED <<mapVars, lockVars, fsVars, chanVars, requests>>

\* The callback of update_torrent has returned: both guards are dropped.
UnlockTorrent(w) ==
    /\ At(w, "unlock")
    /\ mutex' = [mutex EXCEPT ![Hash(w)] = Nobody]
    /\ readers' = readers \ {w}
    /\ Goto(w, "final")
    /\ UNCHANGED <<mapVars, poisoned, fsVars, chanVars, requests>>

\* The final message of the request.
SendFinal(w) ==
    /\ At(w, "final")
    /\ SendBlocking(w, [kind |-> Op(w), hash |-> Hash(w), res |-> job[w].res])
    /\ job' = [job EXCEPT ![w] = Idle]
    /\ UNCHANGED <<mapVars, lockVars, fsVars, requests>>

Panic(w) ==
    /\ \/ ShortIo /\ job[w].pc \in {"check", "load", "write", "calculate"}
       \/ IoErrors /\ At(w, "allocate") /\ job[w].seen = 0 /\ FileLengths[job[w].i] # 0
       \/ At(w, "lock") /\ mutex[Hash(w)] = Nobody /\ Hash(w) \in poisoned
    /\ readers' = readers \ {w}
    /\ poisoned' = poisoned \cup {h \in Hashes : mutex[h] = w}
    /\ mutex' = [h \in Hashes |-> IF mutex[h] = w THEN Nobody ELSE mutex[h]]
    /\ job' = [job EXCEPT ![w] = Idle]
    /\ UNCHANGED <<mapVars, fsVars, chanVars, requests>>

\* The client takes a message from the stream.
StreamRecv ==
    /\ received < Len(log)
    /\ received' = received + 1
    /\ parked' = ParkedAfterRecv(parked)
    /\ UNCHANGED <<job, mapVars, lockVars, fsVars, log, requests>>

TaskStep(w) ==
    \/ OpenFile(w) \/ AllocateFile(w) \/ AcceptFile(w) \/ CheckFiles(w) \/ InsertTorrent(w)
    \/ RemoveTorrent(w) \/ ReadTorrents(w) \/ LockTorrent(w) \/ SyncFile(w)
    \/ LoadRegion(w) \/ WriteRegion(w) \/ CalculateDiff(w)
    \/ SendPieceDiff(w) \/ DiffSent(w) \/ UnlockTorrent(w) \/ SendFinal(w)

\* Every request was executed and every message taken.  In any other state a
\* thread or the stream must be able to go on: tasks that wait for the map's
\* lock, a torrent's mutex or a place in the channel never all wait for each
\* other, also after a panic.
Finished ==
    /\ requests = MaxRequests /\ received = Len(log)
    /\ \A w \in Workers : At(w, "idle")
    /\ UNCHANGED vars

Next ==
    \/ \E w \in Workers : Execute(w) \/ TaskStep(w) \/ Panic(w)
    \/ StreamRecv
    \/ Finished

Spec == Init /\ [][Next]_vars

(***************************************************************************)
(* Properties.                                                             *)
(***************************************************************************)
\* A torrent is not removed while a request works on it: from the lookup in the
\* map to the end of the callback, blocking on the channel included, the thread
\* holds the read lock.  And a BlockLoaded answer is a snapshot: it never mixes
\* bytes from before and after a ProcessBlock for the torrent, although blocks
\* are read and written file by file.
RequestsAreIsolated ==
    \A w \in Workers :
        /\ w \in readers => Hash(w) \in present
        /\ At(w, "unlock") /\ Op(w) = "load" /\ job[w].res = "ok" =>
             \A x \in job[w].got : data[Hash(w)][x[1]] = x[2]

\* While a ProcessBlock reports a piece as good it is good on disk: no other
\* request gets between the hashing of the piece and its report.  And no torrent
\* in the map has a piece on record as good that was not reported: "any good
\* pieces already existing for the torrent will be sent as FoundGoodPiece
\* messages BEFORE this message is sent" (TorrentAdded).
GoodWhenReported ==
    /\ \A w \in Workers : At(w, "diff") /\ Op(w) = "process" =>
         \A p \in Pieces : Good(p) \in Diff(w).new => HashMatches(data[Hash(w)], p)
    /\ \A h \in present, p \in Pieces : Good(p) \in checker[h].old =>
         \E i \in 1 .. Len(log) : log[i] = PieceMessage(h, Good(p))

\* validate_files_sizes: "if the file exists and it is of the correct size, it
\* will be left alone": adding a torrent never turns a byte that was there or
\* was downloaded into a zero.
FilesLeftAlone ==
    [][\A h \in Hashes, k \in Bytes : data[h][k] # "zero" => data'[h][k] # "zero"]_vars

(***************************************************************************)
(* The invariant behind these properties: which request may be where,      *)
(* which locks it holds there, and what it relies on until it lets go.     *)
(***************************************************************************)
\* A checker's list of pending blocks may be anything here.
IsChecker(c) ==
    /\ {"new", "old", "pending"} \subseteq DOMAIN c
    /\ c.new \subseteq PieceState /\ c.old \subseteq PieceState
Message == {PieceMessage(h, ps) : h \in Hashes, ps \in PieceState}
             \cup [kind : {"add", "remove", "sync", "load", "process"}, hash : Hashes, res : {"ok", "err"}]
TypeOK ==
    /\ DOMAIN job = Workers
    /\ \A w \in Workers : /\ DOMAIN job[w] = DOMAIN Idle /\ IsChecker(job[w].chk)
                          /\ job[w].i \in Nat \ {0} /\ job[w].res \in {"ok", "err"}
    /\ present \subseteq Hashes
    /\ DOMAIN checker = Hashes /\ \A h \in Hashes : IsChecker(checker[h])
    /\ mutex \in [Hashes -> Workers \cup {Nobody}]
    /\ fsize \in [Hashes -> [Files -> Nat]]
    /\ DOMAIN data = Hashes /\ \A h \in Hashes : DOMAIN data[h] = Bytes
    /\ log \in Seq(Message)

\* The points at which a request other than an add holds the read lock.
Reading == {"lock", "sync", "load", "write", "calculate", "diff", "unlock"}
Reads(w) == job[w].pc \in Reading /\ Op(w) # "add"
Holds(w, h) == Reads(w) /\ job[w].pc # "lock" /\ Hash(w) = h

\* Where each kind of request may be.
RequestOK(w) ==
    /\ job[w].pc = "idle" => job[w] = Idle
    /\ job[w].pc # "idle" => job[w].msg \in Inputs
    /\ job[w].pc \in {"idle", "open", "allocate", "check", "insert", "remove", "read", "final"} \cup Reading
    /\ job[w].pc \in {"open", "allocate", "check", "insert"} => Op(w) = "add"
    /\ job[w].pc = "remove" => Op(w) = "remove"
    /\ job[w].pc \in {"read", "lock", "unlock"} => Op(w) \in {"sync", "load", "process"}
    /\ job[w].pc = "sync" => Op(w) = "sync"
    /\ job[w].pc = "load" => Op(w) = "load"
    /\ job[w].pc \in {"write", "calculate"} => Op(w) = "process"
    /\ job[w].pc = "diff" => Op(w) \in {"add", "process"}
RequestsOK == \A w \in Workers : RequestOK(w)

\* The locks are held exactly at those points, and what is locked is in the map.
LocksOK ==
    /\ readers = {w \in Workers : Reads(w)}
    /\ \A w \in Workers, h \in Hashes : mutex[h] = w <=> Holds(w, h)
    /\ \A w \in Workers : Reads(w) => Hash(w) \in present

\* One request at a time adds a torrent.  When it is in the map its files have
\* their sizes; a file without its size has no data.
Sized(h, f) == fsize[h][f] = FileLengths[f]
LastByte(f) == FileStart[f] + FileLengths[f] - 1
OneAdds == \A v, w \in Workers : Op(v) = "add" /\ Op(w) = "add" /\ Hash(v) = Hash(w) => v = w
PresentIsSized == \A h \in present, f \in Files : Sized(h, f)
AddedIsSized(w) ==
    /\ job[w].pc \in {"open", "allocate"} => \A f \in Files : f < job[w].i => Sized(Hash(w), f)
    /\ job[w].pc = "allocate" => job[w].i \in Files /\ job[w].seen = fsize[Hash(w)][job[w].i]
    /\ job[w].pc \in {"check", "diff", "insert"} => \A f \in Files : Sized(Hash(w), f)
EmptyIsZero ==
    \A h \in Hashes, f \in Files :
        fsize[h][f] = 0 /\ FileLengths[f] # 0 => data[h][LastByte(f)] = "zero"
FilesOK == OneAdds /\ PresentIsSized /\ EmptyIsZero /\ \A w \in Workers : AddedIsSized(w)

\* What a LoadBlock has read so far is what is there.
IsSnapshot(w) ==
    /\ job[w].pc \in {"read", "lock"} => job[w].got = {}
    /\ job[w].pc = "load" \/ (job[w].pc = "unlock" /\ Op(w) = "load") =>
         \A x \in job[w].got : data[Hash(w)][x[1]] = x[2]
SnapshotsOK == \A w \in Workers : IsSnapshot(w)

\* Pieces wait to be reported only while their torrent is locked, good pieces
\* match the files until then, and the good pieces on record were reported.
Logged(h, p) == \E i \in 1 .. Len(log) : log[i] = PieceMessage(h, Good(p))
NewIsLocked == \A h \in present : checker[h].new # {} => mutex[h] \in Workers /\ At(mutex[h], "diff")
NewIsGood == \A h \in present, p \in Pieces : Good(p) \in checker[h].new => HashMatches(data[h], p)
OldIsLogged == \A h \in present, p \in Pieces : Good(p) \in checker[h].old => Logged(h, p)
AddedIsLogged(w) ==
    /\ Op(w) = "add" => \A p \in Pieces : Good(p) \in job[w].chk.old => Logged(Hash(w), p)
    /\ job[w].pc = "insert" => job[w].chk.new = {}
ReportsOK == NewIsLocked /\ NewIsGood /\ OldIsLogged /\ \A w \in Workers : AddedIsLogged(w)

TasksInvariant == TypeOK /\ RequestsOK /\ LocksOK /\ FilesOK /\ SnapshotsOK /\ ReportsOK
=============================================================================
