--------------------------- MODULE MetainfoBuild ---------------------------
(***************************************************************************)
(* A torrent file from the first setter call to the bytes, and back: the   *)
(* builder is set up (builder/mod.rs), start_hash_master reads the content *)
(* into pooled buffers and start_hash_worker threads hash them             *)
(* (builder/worker.rs, builder/buffer.rs), the file is put together, and   *)
(* Info::to_bytes or Metainfo::to_bytes builds it again from what it was   *)
(* parsed to (metainfo.rs).                                                *)
(*                                                                         *)
(* One step of a thread is one operation on something shared: the work     *)
(* queue, the pool of buffers (both MsQueue: pop waits while it is empty)  *)
(* or the channel to the master.  A read fills any part of what is left of *)
(* the buffer.  Left out: the thread that calls the progress callback, on  *)
(* which nothing waits.                                                    *)
(***************************************************************************)
EXTENDS Metainfo
LOCAL INSTANCE Integers
LOCAL INSTANCE Sequences
LOCAL INSTANCE SequencesExt
LOCAL INSTANCE FiniteSetsExt

CONSTANTS
  Accessors,   \* what a torrent can be built from
  Calls,       \* the setter calls: <<the setter, its argument>>
  MaxCalls,    \* at most so many of them
  Threads,     \* the numbers of worker threads a caller asks for
  Foreign,     \* torrent files made by other programs
  CanFail      \* whether opening or reading a file can fail

VARIABLES
  builder,   \* the MetainfoBuilder or InfoBuilder
  asked,     \* the last argument of every setter called
  calls,     \* the number of setter calls made
  master,    \* start_hash_master
  worker,    \* the hasher threads
  work,      \* the work queue
  pool,      \* the buffers that are not in use
  inbox,     \* the channel to the master
  result,    \* the bytes built, once there are any
  origin     \* the Info or Metainfo being written back, if one is

vars == <<builder, asked, calls, master, worker, work, pool, inbox, result,
          origin>>

HashWorkers == 1..Max(Threads)

Idle == [pc |-> "setup"]

(* A new builder; or a torrent file made elsewhere, still to be parsed. *)
Init ==
  /\ builder \in {MetainfoBuilder, InfoBuilder}
  /\ asked = <<>> /\ calls = 0
  /\ worker = [w \in HashWorkers |-> [pc |-> "gone"]]
  /\ work = <<>> /\ pool = <<>> /\ inbox = <<>> /\ origin = {}
  /\ \/ result = {} /\ master = Idle
     \/ result \in {{f} : f \in Foreign} /\ master = [pc |-> "loaded"]

Apply(b, call, opt) ==
  CASE call = "set_trackers" -> set_trackers(b, opt)
    [] call = "set_main_tracker" -> set_main_tracker(b, opt)
    [] call = "set_creation_date" -> set_creation_date(b, opt)
    [] call = "set_comment" -> set_comment(b, opt)
    [] call = "set_created_by" -> set_created_by(b, opt)
    [] call = "set_private_flag" -> set_private_flag(b, opt)
    [] call = "set_piece_length" ->
         set_piece_length(b, CHOOSE len \in opt : TRUE)

RootCalls == {"set_trackers", "set_main_tracker", "set_creation_date",
              "set_comment", "set_created_by"}

Set ==
  /\ master = Idle /\ calls < MaxCalls
  /\ \E c \in Calls :
       /\ c[1] \in RootCalls => builder.root # {}
       /\ builder' = Apply(builder, c[1], c[2])
       /\ asked' = insert(asked, c[1], c[2]).dict
  /\ calls' = calls + 1
  /\ UNCHANGED <<master, worker, work, pool, inbox, result, origin>>

---------------------------------------------------------------------------
(* Buffers.  The allocated bytes past the highest one ever written are    *)
(* zeros nobody reads and are left out of data.                           *)

PieceBuffer == [data |-> <<>>, bytes_read |-> 0]

calculate_total_buffers(num_workers) == num_workers * 2

write_bytes(b, bytes) ==
  [data |-> SubSeq(b.data, 1, b.bytes_read) \o bytes
            \o SubSeq(b.data, b.bytes_read + Len(bytes) + 1, Len(b.data)),
   bytes_read |-> b.bytes_read + Len(bytes)]

as_slice(b) == SubSeq(b.data, 1, b.bytes_read)

checkin(b) == Append(pool, [b EXCEPT !.bytes_read = 0])

---------------------------------------------------------------------------
(* build_with_accessor up to and including start_hasher_workers.          *)

Start(b, a, threads) ==
  /\ master' = [pc |-> "access", accessor |-> a, num_workers |-> threads,
                piece_length |-> determine_piece_length(TotalLength(a),
                                                        b.piece_length),
                rest |-> a.pieces, region |-> <<>>, buffer |-> {},
                piece_index |-> 0, pieces |-> <<>>, finished |-> 0]
  /\ worker' = [w \in HashWorkers |->
                  [pc |-> IF w <= threads THEN "pop" ELSE "gone"]]
  /\ pool' = [i \in 1..calculate_total_buffers(threads) |-> PieceBuffer]
  /\ builder' = b /\ result' = {} /\ work' = <<>> /\ inbox' = <<>>

build ==
  /\ master = Idle
  /\ \E a \in Accessors, threads \in Threads : Start(builder, a, threads)
  /\ UNCHANGED <<asked, calls, origin>>

Origin(torrent) == {[torrent |-> torrent, own |-> master.pc = "done"]}

(* Info::to_bytes and Metainfo::to_bytes, of a file that has been parsed.  *)
to_bytes ==
  /\ master.pc \in {"done", "loaded"} /\ origin = {}
  /\ \A w \in HashWorkers : worker[w].pc = "gone"
  /\ \/ \E bytes \in result : \E i \in parse_info_bytes(bytes) :
          /\ Start(InfoToBuilder(i), InfoAccessor(i), 1)
          /\ origin' = Origin([info |-> i])
     \/ \E bytes \in result : \E m \in parse_meta_bytes(bytes) :
          \/ /\ Start(InfoToBuilder(m.info), InfoAccessor(m.info), 1)
             /\ origin' = Origin([info |-> m.info])
          \/ /\ Start(MetainfoToBuilder(m), InfoAccessor(m.info), 1)
             /\ origin' = Origin(m)
  /\ UNCHANGED <<asked, calls>>

---------------------------------------------------------------------------
(* start_hash_master.                                                     *)

HashPiece(buffer) ==
  [msg |-> "HashPiece", index |-> master.piece_index, buffer |-> buffer]

(* The next call of the callback.  A region continues in the buffer that  *)
(* the region before it left partly filled.                               *)
Access ==
  /\ master.pc = "access" /\ master.rest # <<>>
  /\ LET access == Head(master.rest) IN
     \/ /\ IsCompute(access)
        /\ master.buffer = {} => pool # <<>>
        /\ master' = [master EXCEPT
              !.pc = "read", !.rest = Tail(@), !.region = access.compute,
              !.buffer = IF @ = {} THEN {Head(pool)} ELSE @]
        /\ pool' = IF master.buffer = {} THEN Tail(pool) ELSE pool
     \/ /\ ~IsCompute(access)
        /\ master' = [master EXCEPT
              !.rest = Tail(@),
              !.pieces = Append(@, <<master.piece_index, access.hash>>),
              !.piece_index = @ + 1]
        /\ UNCHANGED pool
  /\ UNCHANGED <<builder, asked, calls, worker, work, inbox, result, origin>>

(* One turn of the loop over a region: a read, which returns 0 only at its *)
(* end, and the piece sent off when the buffer is whole.                   *)
Read ==
  /\ master.pc = "read"
  /\ \E buffer \in master.buffer :
     \E n \in 0..Min({Len(master.region),
                      master.piece_length - buffer.bytes_read}) :
       LET filled == write_bytes(buffer, SubSeq(master.region, 1, n))
           whole == filled.bytes_read = master.piece_length
       IN  /\ n = 0 => master.region = <<>>
           /\ work' = IF whole THEN Append(work, HashPiece(filled)) ELSE work
           /\ master' = [master EXCEPT
                 !.pc = IF whole THEN "checkout"
                        ELSE IF n = 0 THEN "access" ELSE @,
                 !.region = SubSeq(@, n + 1, Len(@)),
                 !.buffer = IF whole THEN {} ELSE {filled},
                 !.piece_index = IF whole THEN @ + 1 ELSE @]
  /\ UNCHANGED <<builder, asked, calls, worker, pool, inbox, result, origin>>

Checkout ==
  /\ master.pc = "checkout" /\ pool # <<>>
  /\ master' = [master EXCEPT !.pc = "read", !.buffer = {Head(pool)}]
  /\ pool' = Tail(pool)
  /\ UNCHANGED <<builder, asked, calls, worker, work, inbox, result, origin>>

(* The partial piece that is left over, then one Finish for each worker. *)
Leftover ==
  IF \E b \in master.buffer : b.bytes_read # 0
  THEN <<HashPiece(CHOOSE b \in master.buffer : TRUE)>>
  ELSE <<>>

(* A pool of threads that is told to stop one time too few. *)
Finishes_Slip(num_workers) == [i \in 1..(num_workers - 1) |-> [msg |-> "Finish"]]

Finishes(num_workers) == [i \in 1..num_workers |-> [msg |-> "Finish"]]

Finish ==
  /\ master.pc = "access" /\ master.rest = <<>>
  /\ work' = work \o Leftover \o Finishes(master.num_workers)
  /\ master' = [master EXCEPT !.pc = "wait", !.buffer = {},
                              !.piece_index = @ + Len(Leftover)]
  /\ UNCHANGED <<builder, asked, calls, worker, pool, inbox, result, origin>>

(* An access or a read that fails: the master returns at once, its end of *)
(* the channel is dropped, and no worker is told to stop.                 *)
Fail ==
  /\ CanFail /\ origin = {}
  /\ master.pc \in {"access", "read"}
  /\ master' = [pc |-> "failed"]
  /\ inbox' = <<>>
  /\ UNCHANGED <<builder, asked, calls, worker, work, pool, result, origin>>

Sorted_Slip(pieces) == pieces

(* pieces.sort_by the index. *)
Sorted(pieces) == SortSeq(pieces, LAMBDA x, y : x[1] < y[1])

(* recv.  The last WorkerFinished lets the build go on to its end. *)
Receive ==
  /\ master.pc = "wait" /\ inbox # <<>>
  /\ LET m == Head(inbox)
         finished == master.finished + (IF m.msg = "WorkerFinished" THEN 1 ELSE 0)
         pieces == IF m.msg = "AcceptPiece"
                   THEN Append(master.pieces, <<m.index, m.hash>>)
                   ELSE master.pieces
         over == finished = master.num_workers
         sorted == Sorted(pieces)
     IN  /\ master' = [master EXCEPT
               !.finished = finished,
               !.pc = IF over THEN "done" ELSE @,
               !.pieces = IF over THEN sorted ELSE pieces]
         /\ result' = IF ~over THEN result
                      ELSE {BuildBytes(builder, master.accessor,
                                       master.piece_length,
                                       [i \in DOMAIN sorted |-> sorted[i][2]])}
  /\ inbox' = Tail(inbox)
  /\ UNCHANGED <<builder, asked, calls, worker, work, pool, origin>>

---------------------------------------------------------------------------
(* start_hash_worker.  A send fails once the master has returned, and its *)
(* unwrap then ends the thread.                                           *)

Pop(w) ==
  /\ worker[w].pc = "pop" /\ work # <<>>
  /\ LET m == Head(work)
     IN  worker' = [worker EXCEPT ![w] =
           IF m.msg = "Finish" THEN [pc |-> "finish"]
           ELSE [pc |-> "send", buffer |-> m.buffer,
                 accept |-> [msg |-> "AcceptPiece", index |-> m.index,
                             hash |-> sha(as_slice(m.buffer))]]]
  /\ work' = Tail(work)
  /\ UNCHANGED <<builder, asked, calls, master, pool, inbox, result, origin>>

Connected == master.pc # "failed"

Send(w) ==
  /\ worker[w].pc \in {"send", "finish"}
  /\ LET last == worker[w].pc = "finish"
     IN  /\ inbox' = IF ~Connected THEN inbox
                     ELSE Append(inbox, IF last THEN [msg |-> "WorkerFinished"]
                                        ELSE worker[w].accept)
         /\ worker' = [worker EXCEPT ![w] =
               IF last \/ ~Connected THEN [pc |-> "gone"]
               ELSE [pc |-> "checkin", buffer |-> @.buffer]]
  /\ UNCHANGED <<builder, asked, calls, master, work, pool, result, origin>>

Checkin(w) ==
  /\ worker[w].pc = "checkin"
  /\ pool' = checkin(worker[w].buffer)
  /\ worker' = [worker EXCEPT ![w] = [pc |-> "pop"]]
  /\ UNCHANGED <<builder, asked, calls, master, work, inbox, result, origin>>

Worker(w) == Pop(w) \/ Send(w) \/ Checkin(w)

Next == \/ Set \/ build \/ to_bytes
        \/ Access \/ Read \/ Checkout \/ Finish \/ Receive \/ Fail
        \/ \E w \in HashWorkers : Worker(w)

Spec == Init /\ [][Next]_vars

(* Some thread of the build can take a step. *)
CanRun ==
  \/ /\ master.pc = "access"
     /\ \/ master.rest = <<>> \/ master.buffer # {} \/ pool # <<>>
        \/ ~IsCompute(Head(master.rest))
  \/ master.pc = "read"
  \/ master.pc = "checkout" /\ pool # <<>>
  \/ master.pc = "wait" /\ inbox # <<>>
  \/ \E w \in HashWorkers : \/ worker[w].pc \in {"send", "finish", "checkin"}
                            \/ worker[w].pc = "pop" /\ work # <<>>

(* The scheduler runs threads that can run: weak fairness of the master and *)
(* the workers, together.  (Written out, as TLC is slow at ENABLED.  A      *)
(* builder is built, and a file written back, once; all other changes of    *)
(* master or worker are steps of the threads.)                              *)
Fairness == []<>~CanRun \/ []<><<TRUE>>_<<master, worker>>

FairSpec == Spec /\ Fairness

---------------------------------------------------------------------------
(* Properties.                                                            *)

Arg(call, default) == IF call \in DOMAIN asked THEN asked[call] ELSE default

Content(a) == FlattenSeq([i \in DOMAIN a.pieces |-> a.pieces[i].compute])

(* The hashes a torrent of these accesses should have: those of the chunks *)
(* of the content, or the ones that were given.                            *)
Expected(a, len) ==
  IF \A i \in DOMAIN a.pieces : IsCompute(a.pieces[i])
  THEN LET c == Content(a)
       IN  [i \in 1..((Len(c) + len - 1) \div len) |->
              sha(SubSeq(c, (i - 1) * len + 1, Min({i * len, Len(c)})))]
  ELSE [i \in DOMAIN a.pieces |-> a.pieces[i].hash]

Describes(i, a, len) ==
  /\ i.piece_len = len
  /\ i.pieces = Expected(a, len)
  /\ i.file_directory =
       IF a.directory = {} /\ Len(a.files) > 1 THEN {<<>>} ELSE a.directory
  /\ [f \in DOMAIN i.files |-> [len |-> i.files[f].len, path |-> i.files[f].path]]
       = a.files

(* Whatever the interleaving of master and workers, the short reads and    *)
(* the reuse of buffers, a build that succeeds gives a file that parses to *)
(* what was asked for: the strings and dates last set, the files of the    *)
(* accessor, and one hash for each piece of the content, in its order.     *)
TorrentDescribes ==
  master.pc = "done" /\ origin = {} =>
    \E bytes \in result :
      IF builder.root = {}
      THEN \E i \in parse_info_bytes(bytes) :
             Describes(i, master.accessor, master.piece_length)
      ELSE \E m \in parse_meta_bytes(bytes) :
             /\ Describes(m.info, master.accessor, master.piece_length)
             /\ m.announce = Arg("set_main_tracker", {})
             /\ m.announce_list = Arg("set_trackers", {})
             /\ m.comment = Arg("set_comment", {})
             /\ m.created_by = Arg("set_created_by", {})
             /\ m.creation_date = Arg("set_creation_date", {})

Plain(i) == [files |-> [f \in DOMAIN i.files |->
                          [len |-> i.files[f].len, path |-> i.files[f].path]],
             pieces |-> i.pieces, piece_len |-> i.piece_len,
             file_directory |-> i.file_directory]

Infos(bytes) ==
  parse_info_bytes(bytes) \cup {m.info : m \in parse_meta_bytes(bytes)}

(* Info::to_bytes and Metainfo::to_bytes write back what was parsed:       *)
(* files, piece length, hashes, directory, and for a Metainfo its tracker, *)
(* date, comment and author.  (The private flag, md5 sums, the announce    *)
(* list and the encoding are lost.)  The info hash of a file that this     *)
(* builder made is kept.                                                   *)
TorrentSurvives ==
  master.pc = "done" => \A o \in origin : \E bytes \in result :
    /\ \E i \in Infos(bytes) : /\ Plain(i) = Plain(o.torrent.info)
                               /\ o.own => i.info_hash = o.torrent.info.info_hash
    /\ "comment" \in DOMAIN o.torrent => \E m \in parse_meta_bytes(bytes) :
         \A field \in {"announce", "creation_date", "comment", "created_by"} :
           m[field] = o.torrent[field]

(* set_private_flag: "Set or unset the private flag for the torrent file." *)
PrivateFlagIsSet ==
  master.pc = "done" /\ origin = {} =>
    \A bytes \in result : \A i \in Infos(bytes) :
      i.is_private = Arg("set_private_flag", {})

(* A build ends: the master is never left waiting for a buffer that no     *)
(* worker will return or for a worker that was not told to stop.           *)
BuildEnds == master.pc = "access" ~> master.pc \in {"done", "failed"}
=============================================================================
