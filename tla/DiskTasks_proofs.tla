-------------------------- MODULE DiskTasks_proofs --------------------------
(***************************************************************************)
(* What the threads of bip_disk's pool keep true of the shared context,    *)
(* for every torrent, every number of threads and requests, and every      *)
(* order of their steps: TasksInvariant is inductive, and the three        *)
(* properties of DiskTasks follow from it.                                 *)
(***************************************************************************)
EXTENDS DiskTasks, WellFoundedInduction, TLAPS

\* Every set of numbers has a least one.
LEMMA LeastNumber ==
    ASSUME NEW S \in SUBSET Nat, S # {}
    PROVE  \E x \in S : \A y \in S : x <= y
<1>1. PICK x \in S : \A y \in S : ~ (<<y, x>> \in OpToRel(<, Nat))
  BY NatLessThanWellFounded, WFMin, Zenon
<1>2. ASSUME NEW y \in S
      PROVE  x <= y
  <2>1. ~ (y < x)
    BY <1>1, Zenon DEF OpToRel
  <2> QED
    BY <2>1
<1> QED
  BY <1>2, Zenon

\* The positions of the files: the definition of FileStart is not circular.
IsStarts(g, m) == \A f \in 1 .. m : g[f] = IF f = 1 THEN 0 ELSE g[f - 1] + FileLengths[f - 1]

\* Positions that satisfy the recursion exist.
LEMMA StartsExist ==
    ASSUME NEW m \in 1 .. Len(FileLengths) + 1
    PROVE  \E g \in [1 .. m -> Nat] : IsStarts(g, m)
<1> DEFINE Without == {k \in 1 .. Len(FileLengths) + 1 : ~ \E g \in [1 .. k -> Nat] : IsStarts(g, k)}
<1>1. Len(FileLengths) \in Nat /\ \A k \in 1 .. Len(FileLengths) : FileLengths[k] \in Nat
  BY FileLengthsNat
<1>2. SUFFICES ASSUME Without # {} PROVE FALSE
  BY Zenon
<1>3. Without \in SUBSET Nat
  BY <1>1
<1>a. PICK k \in Without : \A j \in Without : k <= j
  <2> HIDE DEF Without
  <2> QED
    BY <1>2, <1>3, LeastNumber, Zenon
<1>4. CASE k = 1
  <2>1. [f \in 1 .. k |-> 0] \in [1 .. k -> Nat] /\ IsStarts([f \in 1 .. k |-> 0], k)
    BY <1>4 DEF IsStarts
  <2> QED
    BY <1>a, <2>1, Zenon
<1>5. CASE k # 1
  <2>a. k \in 1 .. Len(FileLengths) + 1
    BY <1>a, Zenon
  <2>1. k - 1 \in 1 .. Len(FileLengths) /\ k - 1 \notin Without /\ k \in Nat
    <3> HIDE DEF Without
    <3> QED
      BY <1>1, <1>3, <1>a, <1>5, <2>a
  <2>2. PICK g \in [1 .. k - 1 -> Nat] : IsStarts(g, k - 1)
    BY <1>1, <2>1
  <2> DEFINE e == [f \in 1 .. k |-> IF f = k THEN g[k - 1] + FileLengths[k - 1] ELSE g[f]]
  <2>3. e \in [1 .. k -> Nat]
    BY <1>1, <2>1, <2>2
  <2>4. IsStarts(e, k)
    BY <1>1, <2>1, <2>2 DEF IsStarts
  <2> QED
    BY <1>a, <2>3, <2>4, Zenon
<1> QED
  BY <1>4, <1>5, Zenon

\* FileStart satisfies it.
LEMMA FileStarts ==
    /\ FileStart \in [1 .. Len(FileLengths) + 1 -> Nat]
    /\ FileStart[1] = 0
    /\ \A f \in Files : FileStart[f + 1] = FileStart[f] + FileLengths[f]
    /\ \A f \in Files : FileStart[f] \in Nat /\ FileStart[f + 1] \in Nat /\ FileLengths[f] \in Nat
<1> DEFINE n == Len(FileLengths)
           Body(g) == [f \in 1 .. n + 1 |-> IF f = 1 THEN 0 ELSE g[f - 1] + FileLengths[f - 1]]
<1>1. n \in Nat /\ \A k \in 1 .. n : FileLengths[k] \in Nat
  BY FileLengthsNat
<1>2. PICK g \in [1 .. n + 1 -> Nat] : IsStarts(g, n + 1)
  BY <1>1, StartsExist
<1>3. g = Body(g)
  BY <1>1, <1>2, Zenon DEF IsStarts
<1>4. FileStart = CHOOSE s : s = Body(s)
  BY Zenon DEF FileStart
<1>5. FileStart = Body(FileStart)
  <2> HIDE DEF Body
  <2> QED
    BY <1>3, <1>4, Zenon
<1>6. /\ DOMAIN FileStart = 1 .. n + 1 /\ FileStart[1] = 0
      /\ \A f \in Files : FileStart[f + 1] = FileStart[f] + FileLengths[f]
  BY <1>1, <1>5 DEF Files
<1> DEFINE Off == {k \in 1 .. n + 1 : FileStart[k] # g[k]}
<1>7. Off = {}
  <2> SUFFICES ASSUME Off # {} PROVE FALSE
    BY Zenon
  <2>a. Off \in SUBSET Nat
    BY <1>1
  <2>1. PICK k \in Off : \A j \in Off : k <= j
    <3> HIDE DEF Off
    <3> QED
      BY <2>a, LeastNumber, Zenon
  <2>2. k # 1
    BY <1>1, <1>2, <1>6, <2>1, Zenon DEF IsStarts
  <2>3. k - 1 \in Files /\ k - 1 \notin Off /\ k \in Nat
    BY <1>1, <2>1, <2>2 DEF Files
  <2>4. FileStart[k] = FileStart[k - 1] + FileLengths[k - 1]
    BY <1>6, <2>3
  <2>5. g[k] = g[k - 1] + FileLengths[k - 1]
    BY <1>2, <2>1, <2>2, Zenon DEF IsStarts
  <2> QED
    BY <1>1, <2>1, <2>3, <2>4, <2>5 DEF Files
<1>8. \A k \in 1 .. n + 1 : FileStart[k] \in Nat
  BY <1>1, <1>2, <1>7, Zenon
<1>9. FileStart \in [1 .. n + 1 -> Nat]
  BY <1>5, <1>8, Zenon
<1>10. \A f \in Files : FileStart[f] \in Nat /\ FileStart[f + 1] \in Nat /\ FileLengths[f] \in Nat
  BY <1>1, <1>8 DEF Files
<1> QED
  BY <1>6, <1>9, <1>10, Zenon

\* Files do not overlap.
LEMMA StartsGrow ==
    ASSUME NEW f \in Files, NEW g \in Files, f < g
    PROVE  FileStart[f] + FileLengths[f] <= FileStart[g]
<1> DEFINE n == Len(FileLengths)
           Off == {k \in Files : f < k /\ ~ (FileStart[f + 1] <= FileStart[k])}
<1>1. n \in Nat /\ \A k \in 1 .. n : FileLengths[k] \in Nat
  BY FileLengthsNat
<1>2. SUFFICES ASSUME Off # {} PROVE FALSE
  BY <1>1, FileStarts, Zenon DEF Files
<1>3. Off \in SUBSET Nat
  BY <1>1 DEF Files
<1>4. PICK k \in Off : \A j \in Off : k <= j
  <2> HIDE DEF Off
  <2> QED
    BY <1>2, <1>3, LeastNumber, Zenon
<1>5. k \in Files /\ f < k /\ ~ (FileStart[f + 1] <= FileStart[k])
  BY <1>4, Zenon
<1>6. k # f + 1
  BY <1>1, <1>5, FileStarts DEF Files
<1>7. k - 1 \in Files /\ f < k - 1 /\ k - 1 # k
  BY <1>1, <1>5, <1>6 DEF Files
<1>8. FileStart[f + 1] <= FileStart[k - 1]
  <2>1. k - 1 \notin Off
    <3> HIDE DEF Off
    <3> QED
      BY <1>1, <1>4, <1>5 DEF Files
  <2> QED
    BY <1>7, <2>1, Zenon
<1>9. FileStart[k] = FileStart[k - 1] + FileLengths[k - 1] /\ FileLengths[k - 1] \in Nat
  BY <1>1, <1>5, <1>7, FileStarts DEF Files
<1>10. FileStart[f + 1] \in Nat /\ FileStart[k - 1] \in Nat
  BY <1>7, FileStarts, Zenon
<1> QED
  BY <1>5, <1>8, <1>9, <1>10

\* The last byte of a file lies in that file.
LEMMA FileOfLastByte ==
    ASSUME NEW f \in Files, FileLengths[f] # 0
    PROVE  FileOf(LastByte(f)) = f /\ LastByte(f) \in Bytes
<1> DEFINE n == Len(FileLengths)
<1>1. n \in Nat /\ \A k \in 1 .. n : FileLengths[k] \in Nat
  BY FileLengthsNat
<1>2. FileStart[f] \in Nat /\ FileLengths[f] \in Nat \ {0} /\ FileStart[f + 1] = FileStart[f] + FileLengths[f]
  BY <1>1, FileStarts, Zenon DEF Files
<1>3. LastByte(f) \in FileStart[f] .. FileStart[f] + FileLengths[f] - 1
  BY <1>2 DEF LastByte
<1>4. ASSUME NEW g \in Files, LastByte(f) \in FileStart[g] .. FileStart[g] + FileLengths[g] - 1
      PROVE  g = f
  <2>1. FileStart[g] \in Nat /\ FileLengths[g] \in Nat
    BY FileStarts, Zenon
  <2>2. ~ (f < g)
    BY <1>2, <1>4, <2>1, StartsGrow DEF LastByte
  <2>3. ~ (g < f)
    BY <1>2, <1>4, <2>1, StartsGrow DEF LastByte
  <2> QED
    BY <2>2, <2>3 DEF Files
<1>5. FileOf(LastByte(f)) = f
  BY <1>3, <1>4, Zenon DEF FileOf
<1>6. FileStart[f + 1] <= TotalBytes
  <2>1. CASE f = n
    BY <1>1, <2>1, FileStarts DEF TotalBytes
  <2>2. CASE f # n
    <3>1. n \in Files /\ f < n
      BY <1>1, <2>2 DEF Files
    <3>2. FileStart[f + 1] <= FileStart[n]
      BY <1>2, <3>1, StartsGrow, Zenon
    <3>3. TotalBytes = FileStart[n] + FileLengths[n] /\ FileStart[n] \in Nat /\ FileLengths[n] \in Nat
      BY <1>1, <3>1, FileStarts, Zenon DEF TotalBytes, Files
    <3> QED
      BY <1>2, <3>2, <3>3
  <2> QED
    BY <2>1, <2>2, Zenon
<1>7. TotalBytes \in Nat
  BY <1>1, FileStarts DEF TotalBytes
<1> QED
  BY <1>2, <1>5, <1>6, <1>7 DEF LastByte, Bytes

\* The fields of a job.
LEMMA IdleFields == DOMAIN Idle = {"pc", "msg", "n", "i", "res", "seen", "chk", "got"}
BY Zenon DEF Idle

\* w takes a step, and the other threads do not.
Only(w) ==
    /\ DOMAIN job' = Workers /\ DOMAIN job'[w] = DOMAIN Idle
    /\ \A v \in Workers : v # w => job'[v] = job[v]

\* It does so within its request.
Continues(w) ==
    /\ Only(w) /\ job'[w].msg = job[w].msg
    /\ job'[w].i \in Nat \ {0} /\ job'[w].res \in {"ok", "err"}

\* The two ways to go to another point of the request.
LEMMA GotoContinues ==
    ASSUME TasksInvariant, NEW w \in Workers, NEW pc, Goto(w, pc) \/ Fail(w, pc)
    PROVE  Continues(w) /\ job'[w].pc = pc /\ job'[w].chk = job[w].chk
<1>1. DOMAIN job = Workers /\ DOMAIN job[w] = DOMAIN Idle /\ job[w].i \in Nat \ {0} /\ job[w].res \in {"ok", "err"}
  BY Zenon DEF TasksInvariant, TypeOK
<1>2. CASE Goto(w, pc)
  BY <1>1, <1>2, IdleFields, Zenon DEF Goto, Continues, Only
<1>3. CASE Fail(w, pc)
  BY <1>1, <1>3, IdleFields, Zenon DEF Fail, Continues, Only
<1> QED
  BY <1>2, <1>3, Zenon

\* What holds of the shared state stays true while it stands still.
LEMMA SharedStays ==
    ASSUME TasksInvariant, UNCHANGED <<present, checker, fsize, data, log>>
    PROVE  PresentIsSized' /\ EmptyIsZero' /\ NewIsGood' /\ OldIsLogged'
BY Zenon DEF TasksInvariant, FilesOK, ReportsOK, PresentIsSized, EmptyIsZero, Sized, NewIsGood, OldIsLogged, Logged

\* A step of a request that is being executed does not make it another one.
LEMMA StillOneAdds ==
    ASSUME TasksInvariant, NEW w \in Workers, Continues(w)
    PROVE  OneAdds'
BY DEF TasksInvariant, FilesOK, OneAdds, Op, Hash, Continues, Only

\* Locks that nobody takes or drops.
LEMMA LocksStay ==
    ASSUME TasksInvariant, NEW w \in Workers, Continues(w), UNCHANGED <<present, readers, mutex>>,
           Reads(w)' <=> Reads(w), (job'[w].pc = "lock") <=> (job[w].pc = "lock")
    PROVE  LocksOK'
<1>1. /\ \A v \in Workers : (Reads(v)' <=> Reads(v)) /\ Hash(v)' = Hash(v)
      /\ \A v \in Workers, h \in Hashes : Holds(v, h)' <=> Holds(v, h)
  BY DEF Reads, Holds, Op, Hash, Continues, Only
<1> QED
  BY <1>1 DEF TasksInvariant, LocksOK

\* What holds of the requests of the other threads.
LEMMA OthersStay ==
    ASSUME TasksInvariant, NEW w \in Workers, Only(w), NEW v \in Workers, v # w
    PROVE  /\ RequestOK(v)'
           /\ UNCHANGED fsize => AddedIsSized(v)'
           /\ UNCHANGED data => IsSnapshot(v)'
           /\ UNCHANGED log => AddedIsLogged(v)'
<1>1. job'[v] = job[v]
  BY Zenon DEF Only
<1> QED
  BY <1>1 DEF TasksInvariant, RequestsOK, RequestOK, FilesOK, AddedIsSized, Sized, SnapshotsOK, IsSnapshot,
              ReportsOK, AddedIsLogged, Logged, Op, Hash

\* A step by which a request changes nothing but its own state.
LEMMA LocalStep ==
    ASSUME TasksInvariant, NEW w \in Workers, Continues(w), IsChecker(job'[w].chk),
           UNCHANGED <<present, checker, readers, mutex, fsize, data, log>>,
           Reads(w)' <=> Reads(w), (job'[w].pc = "lock") <=> (job[w].pc = "lock"),
           RequestOK(w)', AddedIsSized(w)', IsSnapshot(w)', AddedIsLogged(w)',
           job[w].pc = "diff" /\ Op(w) # "add" => checker[Hash(w)].new = {}
    PROVE  TasksInvariant'
<1>1. TypeOK'
  BY Zenon DEF TasksInvariant, TypeOK, Continues, Only
<1>2. LocksOK'
  BY LocksStay, Zenon
<1>3. NewIsLocked'
  <2>1. \A h \in present : checker[h].new # {} => mutex[h] \in Workers /\ At(mutex[h], "diff") /\ mutex[h] # w
    BY DEF TasksInvariant, TypeOK, LocksOK, Holds, Reads, ReportsOK, NewIsLocked, At
  <2> QED
    BY <2>1, Zenon DEF NewIsLocked, At, Continues, Only
<1>4. \A v \in Workers : RequestOK(v)' /\ AddedIsSized(v)' /\ IsSnapshot(v)' /\ AddedIsLogged(v)'
  BY OthersStay, Zenon DEF Continues
<1> QED
  BY <1>1, <1>2, <1>3, <1>4, SharedStays, StillOneAdds, Zenon DEF TasksInvariant, RequestsOK, FilesOK, SnapshotsOK, ReportsOK

\* A file is opened: what is remembered of its size is its size.
LEMMA OpenFileStep ==
    ASSUME TasksInvariant, NEW w \in Workers, OpenFile(w)
    PROVE  TasksInvariant'
<1> USE IdleFields
<1>1. /\ job[w].pc = "open" /\ Op(w) = "add" /\ job[w].msg \in Inputs
      /\ UNCHANGED <<present, checker, readers, mutex, fsize, data, log>>
  BY Zenon DEF OpenFile, At, TasksInvariant, RequestsOK, RequestOK, mapVars, lockVars, fsVars, chanVars
<1>2. /\ Continues(w) /\ job'[w].chk = job[w].chk /\ job'[w].i = job[w].i
      /\ \/ job'[w].pc = "allocate" /\ job[w].i \in Files /\ job'[w].seen = fsize[Hash(w)][job[w].i]
         \/ job'[w].pc = "check" /\ job[w].i \notin Files
         \/ job'[w].pc = "final"
  BY DEF OpenFile, TasksInvariant, TypeOK, Goto, Fail, Continues, Only
<1>3. AddedIsSized(w)'
  <2>1. \A f \in Files : f < job[w].i => fsize[Hash(w)][f] = FileLengths[f]
    BY <1>1, Zenon DEF TasksInvariant, FilesOK, AddedIsSized, Sized
  <2>2. job[w].i \notin Files => \A f \in Files : f < job[w].i
    BY FileLengthsNat DEF TasksInvariant, TypeOK, Files
  <2> QED
    BY <1>1, <1>2, <2>1, <2>2, Zenon DEF AddedIsSized, Sized, Hash, Continues
<1>4. AddedIsLogged(w)'
  BY <1>1, <1>2 DEF TasksInvariant, ReportsOK, AddedIsLogged, Logged, Op, Hash, Continues
<1>5. RequestOK(w)' /\ IsSnapshot(w)'
  BY <1>1, <1>2, Zenon DEF RequestOK, Reading, IsSnapshot, Op, Continues
<1> QED
  BY <1>1, <1>2, <1>3, <1>4, <1>5, LocalStep, Zenon DEF TasksInvariant, TypeOK, Reads, Reading, Op, Continues

\* A file is left alone: it has its size.
LEMMA AcceptFileStep ==
    ASSUME TasksInvariant, NEW w \in Workers, AcceptFile(w)
    PROVE  TasksInvariant'
<1> USE IdleFields
<1>1. /\ job[w].pc = "allocate" /\ Op(w) = "add" /\ job[w].msg \in Inputs
      /\ job[w].i \in Files /\ job[w].seen = fsize[Hash(w)][job[w].i]
      /\ UNCHANGED <<present, checker, readers, mutex, fsize, data, log>>
  BY Zenon DEF AcceptFile, At, TasksInvariant, RequestsOK, RequestOK, FilesOK, AddedIsSized,
         mapVars, lockVars, fsVars, chanVars
<1>2. /\ Continues(w) /\ job'[w].chk = job[w].chk
      /\ \/ job'[w].pc = "open" /\ job'[w].i = job[w].i + 1 /\ job[w].seen = FileLengths[job[w].i]
         \/ job'[w].pc = "final"
  BY DEF AcceptFile, TasksInvariant, TypeOK, Fail, Continues, Only
<1>3. AddedIsSized(w)'
  <2>1. \A f \in Files : f < job[w].i => fsize[Hash(w)][f] = FileLengths[f]
    BY <1>1, Zenon DEF TasksInvariant, FilesOK, AddedIsSized, Sized
  <2>2. \A f \in Files : f < job[w].i + 1 <=> f < job[w].i \/ f = job[w].i
    BY <1>1 DEF Files
  <2> QED
    BY <1>1, <1>2, <2>1, <2>2, Zenon DEF AddedIsSized, Sized, Hash, Continues
<1>4. AddedIsLogged(w)'
  BY <1>1, <1>2 DEF TasksInvariant, ReportsOK, AddedIsLogged, Logged, Op, Hash, Continues
<1>5. RequestOK(w)' /\ IsSnapshot(w)'
  BY <1>1, <1>2, Zenon DEF RequestOK, Reading, IsSnapshot, Op, Continues
<1> QED
  BY <1>1, <1>2, <1>3, <1>4, <1>5, LocalStep, Zenon DEF TasksInvariant, TypeOK, Reads, Reading, Op, Continues

\* A file is allocated: it was empty, so its torrent is not in the map, nobody reads
\* it, and the byte that is written was zero.
LEMMA AllocateFileStep ==
    ASSUME TasksInvariant, NEW w \in Workers, AllocateFile(w)
    PROVE  TasksInvariant'
<1> USE IdleFields
<1> DEFINE f == job[w].i
           h == Hash(w)
<1>1. /\ job[w].pc = "allocate" /\ Op(w) = "add" /\ job[w].seen = 0 /\ FileLengths[f] # 0
      /\ fsize' = [fsize EXCEPT ![h][f] = FileLengths[f]]
      /\ data' = [data EXCEPT ![h][LastByte(f)] = "zero"]
      /\ UNCHANGED <<present, checker, readers, mutex, log>>
  BY Zenon DEF AllocateFile, At, LastByte, TasksInvariant, RequestsOK, RequestOK, mapVars, lockVars, chanVars
<1>2. Continues(w) /\ job'[w].pc = "open" /\ job'[w].i = f + 1 /\ job'[w].chk = job[w].chk
  BY DEF AllocateFile, TasksInvariant, TypeOK, Continues, Only
<1>a. h \in Hashes /\ f \in Files /\ fsize[h][f] = 0 /\ FileLengths[f] \in Nat
  BY <1>1, InputsAreMessages, FileLengthsNat DEF TasksInvariant, RequestsOK, RequestOK, FilesOK, AddedIsSized, Hash, Files
<1>b. h \notin present
  BY <1>1, <1>a, Zenon DEF TasksInvariant, FilesOK, PresentIsSized, Sized
<1>c. \A g \in Hashes : g # h => data'[g] = data[g] /\ fsize'[g] = fsize[g]
  BY <1>1, <1>a, Zenon DEF TasksInvariant, TypeOK
<1>d. \A e \in Files : fsize'[h][e] = IF e = f THEN FileLengths[f] ELSE fsize[h][e]
  BY <1>1, <1>a, Zenon DEF TasksInvariant, TypeOK
<1>e. \A k : data[h][k] = "zero" => data'[h][k] = "zero"
  BY <1>1, <1>a DEF TasksInvariant, TypeOK
<1>3. TypeOK'
  BY <1>1, <1>2, <1>a, Zenon DEF TasksInvariant, TypeOK, Continues, Only
<1>4. RequestOK(w)'
  BY <1>1, <1>2, Zenon DEF TasksInvariant, RequestsOK, RequestOK, Reading, Op, Continues
<1>5. LocksOK'
  BY <1>1, <1>2, LocksStay, Zenon DEF Reads, Reading, Op, Continues
<1>6. PresentIsSized' /\ EmptyIsZero'
  BY <1>1, <1>a, <1>b, <1>c, <1>d, <1>e
  DEF TasksInvariant, TypeOK, FilesOK, PresentIsSized, EmptyIsZero, Sized
<1>7. \A v \in Workers : AddedIsSized(v)' /\ IsSnapshot(v)'
  <2>1. AddedIsSized(w)' /\ IsSnapshot(w)'
    <3>1. \A e \in Files : e < f + 1 => fsize'[h][e] = FileLengths[e]
      BY <1>1, <1>a, <1>d DEF TasksInvariant, FilesOK, AddedIsSized, Sized, Files
    <3> QED
      BY <1>2, <3>1, Zenon DEF AddedIsSized, Sized, IsSnapshot, Hash, Continues
  <2>2. ASSUME NEW v \in Workers, v # w
        PROVE  AddedIsSized(v)' /\ IsSnapshot(v)'
    <3>1. job'[v] = job[v]
      BY <1>2, <2>2, Zenon DEF Continues, Only
    <3>2. job[v].pc \in {"open", "allocate", "check", "diff", "insert", "load", "unlock"} =>
            Hash(v) \in Hashes /\ Hash(v) # h
      BY <1>1, <1>b, <2>2, InputsAreMessages
      DEF TasksInvariant, RequestsOK, RequestOK, LocksOK, Reads, Reading, FilesOK, OneAdds, Op, Hash
    <3> QED
      BY <1>c, <3>1, <3>2
      DEF TasksInvariant, FilesOK, AddedIsSized, Sized, SnapshotsOK, IsSnapshot, Op, Hash
  <2> QED
    BY <2>1, <2>2, Zenon
<1>8. AddedIsLogged(w)'
  BY <1>1, <1>2 DEF TasksInvariant, ReportsOK, AddedIsLogged, Logged, Op, Hash, Continues
<1>9. NewIsLocked' /\ OldIsLogged'
  BY <1>1, <1>2
  DEF TasksInvariant, ReportsOK, NewIsLocked, OldIsLogged, Logged, At, Continues, Only
<1>10. NewIsGood'
  BY <1>1, <1>b, <1>c DEF TasksInvariant, TypeOK, ReportsOK, NewIsGood
<1> QED
  BY <1>1, <1>2, <1>3, <1>4, <1>5, <1>6, <1>7, <1>8, <1>9, <1>10, StillOneAdds, OthersStay, Zenon
  DEF TasksInvariant, RequestsOK, FilesOK, SnapshotsOK, ReportsOK, Continues

\* A piece state has one meaning.
LEMMA GoodAndBad ==
    ASSUME NEW p, NEW q
    PROVE  Good(p) # Bad(q) /\ (Good(p) = Good(q) => p = q)
<1>1. Good(p).good = TRUE /\ Bad(q).good = FALSE /\ Good(p).piece = p /\ Good(q).piece = q
  BY Zenon DEF Good, Bad
<1> QED
  BY <1>1, Zenon

\* What run_with_whole_pieces finds: pieces that hash to the expected value.
LEMMA CheckedPieces ==
    ASSUME NEW c, IsChecker(c), NEW checked \in SUBSET Pieces, NEW good,
           NEW r, r = run_with_whole_pieces(c, checked, good)
    PROVE  /\ IsChecker(r) /\ r.old = c.old
           /\ \A p \in Pieces : Good(p) \in r.new => Good(p) \in c.new \/ p \in good
<1>1. /\ {"new", "old", "pending"} \subseteq DOMAIN r /\ r.old = c.old
      /\ r.new = c.new \cup {Good(p) : p \in checked \cap good} \cup {Bad(p) : p \in checked \ good}
  BY Zenon DEF run_with_whole_pieces, IsChecker
<1>2. \A p \in Pieces : Good(p) \in PieceState /\ Bad(p) \in PieceState
  BY Zenon DEF Good, Bad, PieceState
<1>3. IsChecker(r)
  BY <1>1, <1>2, Zenon DEF IsChecker
<1>4. ASSUME NEW p \in Pieces, Good(p) \in r.new, Good(p) \notin c.new
      PROVE  p \in good
  BY <1>1, <1>4, GoodAndBad, Zenon
<1> QED
  BY <1>1, <1>3, <1>4, Zenon

\* Adding and merging pending blocks finds nothing.
LEMMA MergedState ==
    ASSUME NEW c, IsChecker(c), NEW r, r = merge_pieces(c)
    PROVE  IsChecker(r) /\ r.old = c.old /\ r.new = c.new
BY Zenon DEF merge_pieces, IsChecker

\* The same for a block that is added.
LEMMA AddedBlockState ==
    ASSUME NEW c, IsChecker(c), NEW p, NEW m, NEW r, r = add_pending_block(c, p, m)
    PROVE  IsChecker(r) /\ r.old = c.old /\ r.new = c.new
BY Zenon DEF add_pending_block, IsChecker

\* A checker state to begin with.
LEMMA NewState == IsChecker(NewCheckerState) /\ NewCheckerState.old = {} /\ NewCheckerState.new = {}
BY Zenon DEF NewCheckerState, IsChecker

\* fill_checker_state and merge_pieces find nothing.
LEMMA FilledStateIsNew == IsChecker(FilledState) /\ FilledState.old = {} /\ FilledState.new = {}
<1> DEFINE c == fill_checker_state(NewCheckerState)
<1>1. IsChecker(c) /\ c.old = {} /\ c.new = {}
  BY NewState, Zenon DEF fill_checker_state, IsChecker
<1> QED
  BY <1>1, MergedState, Zenon DEF FilledState

\* The files of a new torrent are hashed.
LEMMA CheckFilesStep ==
    ASSUME TasksInvariant, NEW w \in Workers, CheckFiles(w)
    PROVE  TasksInvariant'
<1> USE IdleFields
<1> DEFINE r == run_with_whole_pieces(FilledState, WholePieces(FilledState), GoodPieces(data[Hash(w)]))
<1>1. /\ job[w].pc = "check" /\ Op(w) = "add" /\ job[w].msg \in Inputs
      /\ UNCHANGED <<present, checker, readers, mutex, fsize, data, log>>
  BY Zenon DEF CheckFiles, At, TasksInvariant, RequestsOK, RequestOK, mapVars, lockVars, fsVars, chanVars
<1>2. /\ Continues(w)
      /\ \/ job'[w].pc = "diff" /\ job'[w].chk = r
         \/ job'[w].pc = "final" /\ job'[w].chk = job[w].chk
  BY DEF CheckFiles, TasksInvariant, TypeOK, Fail, Continues, Only
<1>3. IsChecker(r) /\ r.old = {}
  <2>1. WholePieces(FilledState) \in SUBSET Pieces
    BY Zenon DEF WholePieces
  <2> QED
    BY <2>1, FilledStateIsNew, CheckedPieces
<1>4. AddedIsSized(w)'
  BY <1>1, <1>2 DEF TasksInvariant, FilesOK, AddedIsSized, Sized, Hash, Continues
<1>5. AddedIsLogged(w)'
  BY <1>1, <1>2, <1>3 DEF TasksInvariant, ReportsOK, AddedIsLogged, Logged, Op, Hash, Continues
<1>6. RequestOK(w)' /\ IsSnapshot(w)'
  BY <1>1, <1>2, Zenon DEF RequestOK, Reading, IsSnapshot, Op, Continues
<1>7. IsChecker(job'[w].chk)
  BY <1>2, <1>3, Zenon DEF TasksInvariant, TypeOK
<1> QED
  BY <1>1, <1>2, <1>4, <1>5, <1>6, <1>7, LocalStep DEF Reads, Reading, Op, Continues

\* A file is synced.
LEMMA SyncFileStep ==
    ASSUME TasksInvariant, NEW w \in Workers, SyncFile(w)
    PROVE  TasksInvariant'
<1> USE IdleFields
<1>1. /\ job[w].pc = "sync" /\ Op(w) = "sync" /\ job[w].msg \in Inputs
      /\ UNCHANGED <<present, checker, readers, mutex, fsize, data, log>>
  BY Zenon DEF SyncFile, At, TasksInvariant, RequestsOK, RequestOK, mapVars, lockVars, fsVars, chanVars
<1>2. Continues(w) /\ job'[w].pc \in {"sync", "unlock"} /\ job'[w].chk = job[w].chk
  BY <1>1 DEF SyncFile, TasksInvariant, TypeOK, Goto, Continues, Only
<1>3. AddedIsSized(w)' /\ AddedIsLogged(w)' /\ IsSnapshot(w)'
  BY <1>1, <1>2, Zenon DEF AddedIsSized, AddedIsLogged, IsSnapshot, Op, Continues
<1>4. RequestOK(w)'
  BY <1>1, <1>2, Zenon DEF RequestOK, Reading, Op, Continues
<1> QED
  BY <1>1, <1>2, <1>3, <1>4, LocalStep, Zenon DEF TasksInvariant, TypeOK, Reads, Reading, Op, Continues

\* A region is read: it is as it is in the file.
LEMMA LoadRegionStep ==
    ASSUME TasksInvariant, NEW w \in Workers, LoadRegion(w)
    PROVE  TasksInvariant'
<1> USE IdleFields
<1>1. /\ job[w].pc = "load" /\ Op(w) = "load" /\ job[w].msg \in Inputs
      /\ UNCHANGED <<present, checker, readers, mutex, fsize, data, log>>
  BY Zenon DEF LoadRegion, At, TasksInvariant, RequestsOK, RequestOK, mapVars, lockVars, fsVars, chanVars
<1>2. /\ Continues(w) /\ job'[w].pc \in {"load", "unlock"} /\ job'[w].chk = job[w].chk
      /\ \A x \in job'[w].got : x \in job[w].got \/ \E k : x = <<k, data[Hash(w)][k]>>
  BY <1>1 DEF LoadRegion, TasksInvariant, TypeOK, Goto, Fail, Continues, Only
<1>3. IsSnapshot(w)'
  BY <1>1, <1>2 DEF TasksInvariant, SnapshotsOK, IsSnapshot, Hash, Continues
<1>4. AddedIsSized(w)' /\ AddedIsLogged(w)'
  BY <1>1, <1>2, Zenon DEF AddedIsSized, AddedIsLogged, Op, Continues
<1>5. RequestOK(w)'
  BY <1>1, <1>2, Zenon DEF RequestOK, Reading, Op, Continues
<1> QED
  BY <1>1, <1>2, <1>3, <1>4, <1>5, LocalStep, Zenon DEF TasksInvariant, TypeOK, Reads, Reading, Op, Continues

\* Everything was reported.
LEMMA DiffSentStep ==
    ASSUME TasksInvariant, NEW w \in Workers, DiffSent(w)
    PROVE  TasksInvariant'
<1> USE IdleFields
<1>1. /\ job[w].pc = "diff" /\ Op(w) \in {"add", "process"} /\ job[w].msg \in Inputs /\ Diff(w).new = {}
      /\ UNCHANGED <<present, checker, readers, mutex, fsize, data, log>>
  BY Zenon DEF DiffSent, At, TasksInvariant, RequestsOK, RequestOK, mapVars, lockVars, fsVars, chanVars
<1>2. /\ Continues(w) /\ job'[w].chk = job[w].chk
      /\ job'[w].pc = IF Op(w) = "add" THEN "insert" ELSE "unlock"
  BY Zenon DEF DiffSent, TasksInvariant, TypeOK, Goto, Continues, Only
<1>3. AddedIsSized(w)'
  BY <1>1, <1>2 DEF TasksInvariant, FilesOK, AddedIsSized, Sized, Hash, Continues
<1>4. AddedIsLogged(w)'
  BY <1>1, <1>2 DEF TasksInvariant, ReportsOK, AddedIsLogged, Logged, Diff, Op, Hash, Continues
<1>5. RequestOK(w)' /\ IsSnapshot(w)'
  BY <1>1, <1>2, Zenon DEF RequestOK, Reading, IsSnapshot, Op, Continues
<1>6. Op(w) # "add" => checker[Hash(w)].new = {}
  BY <1>1, Zenon DEF Diff
<1> QED
  BY <1>1, <1>2, <1>3, <1>4, <1>5, <1>6, LocalStep, Zenon DEF TasksInvariant, TypeOK, Reads, Reading, Op, Continues

\* A torrent enters the map with files of the right size and nothing to report.
LEMMA InsertTorrentStep ==
    ASSUME TasksInvariant, NEW w \in Workers, InsertTorrent(w)
    PROVE  TasksInvariant'
<1> USE IdleFields
<1> DEFINE h == Hash(w)
<1>1. /\ job[w].pc = "insert" /\ Op(w) = "add" /\ job[w].msg \in Inputs /\ h \in Hashes
      /\ readers = {} /\ present' = present \cup {h}
      /\ UNCHANGED <<readers, mutex, fsize, data, log>>
  BY InputsAreMessages, Zenon
  DEF InsertTorrent, At, Hash, TasksInvariant, RequestsOK, RequestOK, lockVars, fsVars, chanVars
<1>2. Continues(w) /\ job'[w].pc = "final" /\ job'[w].chk = job[w].chk
  BY DEF InsertTorrent, TasksInvariant, TypeOK, Goto, Fail, Continues, Only
<1>3. \/ h \notin present /\ checker' = [checker EXCEPT ![h] = job[w].chk]
      \/ h \in present /\ checker' = checker
  BY Zenon DEF InsertTorrent
<1>4. TypeOK'
  BY <1>1, <1>2, <1>3, Zenon DEF TasksInvariant, TypeOK, Continues, Only
<1>5. LocksOK'
  <2>1. \A v \in Workers : ~Reads(v) /\ ~Reads(v)'
    BY <1>1, <1>2 DEF TasksInvariant, LocksOK, Reads, Reading, Op, Continues, Only
  <2> QED
    BY <1>1, <2>1, Zenon DEF TasksInvariant, LocksOK, Holds
<1>6. PresentIsSized' /\ EmptyIsZero'
  BY <1>1 DEF TasksInvariant, FilesOK, PresentIsSized, AddedIsSized, EmptyIsZero, Sized
<1>7. RequestOK(w)' /\ AddedIsSized(w)' /\ IsSnapshot(w)' /\ AddedIsLogged(w)'
  BY <1>1, <1>2, Zenon DEF TasksInvariant, RequestOK, Reading, AddedIsSized, IsSnapshot, ReportsOK, AddedIsLogged,
                    Logged, Op, Hash, Continues
<1>8. \A g \in present' : \/ g \in present /\ checker'[g] = checker[g]
                          \/ /\ g = h /\ checker'[g].new = {}
                             /\ \A p \in Pieces : Good(p) \in checker'[g].old => Logged(g, p)
  BY <1>1, <1>3, Zenon DEF TasksInvariant, TypeOK, ReportsOK, AddedIsLogged
<1>9. NewIsLocked'
  BY <1>1, <1>2, <1>8 DEF TasksInvariant, ReportsOK, NewIsLocked, At, Continues, Only
<1>10. NewIsGood'
  BY <1>1, <1>8, Zenon DEF TasksInvariant, ReportsOK, NewIsGood
<1>11. OldIsLogged'
  BY <1>1, <1>8 DEF TasksInvariant, ReportsOK, OldIsLogged, Logged
<1> QED
  BY <1>1, <1>2, <1>4, <1>5, <1>6, <1>7, <1>9, <1>10, <1>11, StillOneAdds, OthersStay, Zenon
  DEF TasksInvariant, RequestsOK, FilesOK, SnapshotsOK, ReportsOK, Continues

\* A torrent leaves the map: nobody reads it.
LEMMA RemoveTorrentStep ==
    ASSUME TasksInvariant, NEW w \in Workers, RemoveTorrent(w)
    PROVE  TasksInvariant'
<1> USE IdleFields
<1>1. /\ job[w].pc = "remove" /\ Op(w) = "remove" /\ job[w].msg \in Inputs
      /\ readers = {} /\ present' \subseteq present
      /\ UNCHANGED <<checker, readers, mutex, fsize, data, log>>
  BY Zenon DEF RemoveTorrent, At, TasksInvariant, RequestsOK, RequestOK, fsVars, chanVars
<1>2. Continues(w) /\ job'[w].pc = "final" /\ job'[w].chk = job[w].chk
  BY DEF RemoveTorrent, TasksInvariant, TypeOK, Goto, Fail, Continues, Only
<1>3. TypeOK'
  BY <1>1, <1>2 DEF TasksInvariant, TypeOK, Continues, Only
<1>4. LocksOK'
  <2>1. \A v \in Workers : ~Reads(v) /\ ~Reads(v)'
    BY <1>1, <1>2 DEF TasksInvariant, LocksOK, Reads, Reading, Op, Continues, Only
  <2> QED
    BY <1>1, <2>1, Zenon DEF TasksInvariant, LocksOK, Holds
<1>5. PresentIsSized' /\ EmptyIsZero' /\ NewIsGood' /\ OldIsLogged'
  BY <1>1
  DEF TasksInvariant, FilesOK, PresentIsSized, EmptyIsZero, Sized, ReportsOK, NewIsGood, OldIsLogged, Logged
<1>6. RequestOK(w)' /\ AddedIsSized(w)' /\ IsSnapshot(w)' /\ AddedIsLogged(w)'
  BY <1>1, <1>2, Zenon DEF RequestOK, Reading, AddedIsSized, IsSnapshot, AddedIsLogged, Op, Continues
<1>7. NewIsLocked'
  BY <1>1, <1>2 DEF TasksInvariant, ReportsOK, NewIsLocked, At, Continues, Only
<1> QED
  BY <1>1, <1>2, <1>3, <1>4, <1>5, <1>6, <1>7, StillOneAdds, OthersStay, Zenon
  DEF TasksInvariant, RequestsOK, FilesOK, SnapshotsOK, ReportsOK, Continues

\* A request gets the read lock.
LEMMA ReadTorrentsStep ==
    ASSUME TasksInvariant, NEW w \in Workers, ReadTorrents(w)
    PROVE  TasksInvariant'
<1> USE IdleFields
<1>1. /\ job[w].pc = "read" /\ Op(w) \in {"sync", "load", "process"} /\ job[w].msg \in Inputs
      /\ UNCHANGED <<present, checker, mutex, fsize, data, log>>
  BY Zenon DEF ReadTorrents, At, TasksInvariant, RequestsOK, RequestOK, mapVars, fsVars, chanVars
<1>2. /\ Continues(w) /\ job'[w].chk = job[w].chk /\ job'[w].got = job[w].got
      /\ \/ Hash(w) \in present /\ readers' = readers \cup {w} /\ job'[w].pc = "lock"
         \/ readers' = readers /\ job'[w].pc = "final"
  BY DEF ReadTorrents, TasksInvariant, TypeOK, Goto, Fail, Continues, Only
<1>3. TypeOK'
  BY <1>1, <1>2 DEF TasksInvariant, TypeOK, Continues, Only
<1>4. LocksOK'
  <2>1. \A v \in Workers : Reads(v)' <=> Reads(v) \/ (v = w /\ job'[w].pc = "lock")
    BY <1>1, <1>2 DEF Reads, Reading, Op, Continues, Only
  <2>2. \A v \in Workers : Hash(v)' = Hash(v)
    BY <1>2, Zenon DEF Hash, Continues, Only
  <2>3. \A v \in Workers, g \in Hashes : Holds(v, g)' <=> Holds(v, g)
    BY <1>1, <1>2, <2>1, <2>2 DEF Holds, Reads, Reading, Continues, Only
  <2>4. readers' = {v \in Workers : Reads(v)'}
    BY <1>2, <2>1 DEF TasksInvariant, LocksOK
  <2> QED
    BY <1>1, <1>2, <2>1, <2>2, <2>3, <2>4 DEF TasksInvariant, LocksOK
<1>5. RequestOK(w)'
  BY <1>1, <1>2, Zenon DEF RequestOK, Reading, Op, Continues
<1>6. AddedIsSized(w)' /\ IsSnapshot(w)' /\ AddedIsLogged(w)'
  BY <1>1, <1>2, Zenon DEF TasksInvariant, SnapshotsOK, AddedIsSized, IsSnapshot, AddedIsLogged, Op, Continues
<1>7. NewIsLocked'
  BY <1>1, <1>2 DEF TasksInvariant, ReportsOK, NewIsLocked, At, Continues, Only
<1> QED
  BY <1>1, <1>2, <1>3, <1>4, <1>5, <1>6, <1>7, SharedStays, StillOneAdds, OthersStay, Zenon
  DEF TasksInvariant, RequestsOK, FilesOK, SnapshotsOK, ReportsOK, Continues

\* A request gets the mutex of its torrent.
LEMMA LockTorrentStep ==
    ASSUME TasksInvariant, NEW w \in Workers, LockTorrent(w)
    PROVE  TasksInvariant'
<1> USE IdleFields
<1> DEFINE h == Hash(w)
<1>1. /\ job[w].pc = "lock" /\ Op(w) \in {"sync", "load", "process"} /\ job[w].msg \in Inputs /\ h \in Hashes
      /\ mutex[h] = Nobody /\ mutex' = [mutex EXCEPT ![h] = w]
      /\ UNCHANGED <<present, checker, readers, fsize, data, log>>
  BY InputsAreMessages, Zenon
  DEF LockTorrent, At, Hash, TasksInvariant, RequestsOK, RequestOK, mapVars, fsVars, chanVars
<1>2. /\ Continues(w) /\ job'[w].chk = job[w].chk /\ job'[w].got = job[w].got
      /\ \/ Op(w) = "sync" /\ job'[w].pc = "sync"
         \/ Op(w) = "load" /\ job'[w].pc = "load"
         \/ Op(w) = "process" /\ job'[w].pc = "write"
  BY <1>1, Zenon DEF LockTorrent, TasksInvariant, TypeOK, Goto, Continues, Only
<1>3. TypeOK'
  BY <1>1, <1>2, Zenon DEF TasksInvariant, TypeOK, Continues, Only
<1>4. LocksOK'
  <2>1. \A v \in Workers : (Reads(v)' <=> Reads(v)) /\ Hash(v)' = Hash(v)
    BY <1>1, <1>2 DEF Reads, Reading, Op, Hash, Continues, Only
  <2>2. \A v \in Workers, g \in Hashes : v # w => (Holds(v, g)' <=> Holds(v, g))
    BY <1>2, <2>1, Zenon DEF Holds, Continues, Only
  <2>3. \A g \in Hashes : Holds(w, g)' <=> g = h
    BY <1>1, <1>2, <2>1, Zenon DEF Holds, Reads, Reading
  <2>4. \A g \in Hashes : mutex'[g] = IF g = h THEN w ELSE mutex[g]
    BY <1>1, Zenon DEF TasksInvariant, TypeOK
  <2>5. \A g \in Hashes : mutex[g] # w
    BY <1>1, NobodyIsNoWorker, Zenon DEF TasksInvariant, LocksOK, Holds
  <2>6. \A v \in Workers : ~Holds(v, h)
    BY <1>1, NobodyIsNoWorker, Zenon DEF TasksInvariant, LocksOK
  <2> QED
    BY <1>1, <2>1, <2>2, <2>3, <2>4, <2>5, <2>6 DEF TasksInvariant, LocksOK
<1>5. RequestOK(w)'
  BY <1>1, <1>2, Zenon DEF RequestOK, Reading, Op, Continues
<1>6. AddedIsSized(w)' /\ IsSnapshot(w)' /\ AddedIsLogged(w)'
  BY <1>1, <1>2, Zenon DEF TasksInvariant, SnapshotsOK, AddedIsSized, IsSnapshot, AddedIsLogged, Op, Continues
<1>7. NewIsLocked'
  <2> SUFFICES ASSUME NEW g \in present, checker[g].new # {}
               PROVE  mutex'[g] \in Workers /\ job'[mutex'[g]].pc = "diff"
    BY <1>1, Zenon DEF NewIsLocked, At
  <2>1. g \in Hashes /\ mutex[g] \in Workers /\ job[mutex[g]].pc = "diff"
    BY Zenon DEF TasksInvariant, TypeOK, ReportsOK, NewIsLocked, At
  <2>2. mutex'[g] = mutex[g] /\ mutex[g] # w
    BY <1>1, <2>1, NobodyIsNoWorker, Zenon DEF TasksInvariant, TypeOK
  <2> QED
    BY <1>2, <2>1, <2>2, Zenon DEF Continues, Only
<1> QED
  BY <1>1, <1>2, <1>3, <1>4, <1>5, <1>6, <1>7, SharedStays, StillOneAdds, OthersStay, Zenon
  DEF TasksInvariant, RequestsOK, FilesOK, SnapshotsOK, ReportsOK, Continues

\* A region is written: nobody else has the mutex, so nobody has read part of it.
LEMMA WriteRegionStep ==
    ASSUME TasksInvariant, NEW w \in Workers, WriteRegion(w)
    PROVE  TasksInvariant'
<1> USE IdleFields
<1> DEFINE h == Hash(w)
<1>1. /\ job[w].pc = "write" /\ Op(w) = "process" /\ job[w].msg \in Inputs /\ h \in Hashes
      /\ UNCHANGED <<present, checker, readers, mutex, fsize, log>>
  BY InputsAreMessages, Zenon
  DEF WriteRegion, At, Hash, TasksInvariant, RequestsOK, RequestOK, mapVars, lockVars, chanVars
<1>2. /\ Continues(w) /\ job'[w].chk = job[w].chk /\ job'[w].pc \in {"write", "diff", "calculate"}
  <2>1. \/ job' = [job EXCEPT ![w].i = job[w].i + 1]
        \/ Fail(w, "diff")
        \/ Goto(w, "calculate")
    BY Zenon DEF WriteRegion
  <2>2. CASE job' = [job EXCEPT ![w].i = job[w].i + 1]
    <3>1. /\ DOMAIN job = Workers /\ DOMAIN job[w] = DOMAIN Idle
          /\ job[w].i \in Nat \ {0} /\ job[w].res \in {"ok", "err"}
      BY Zenon DEF TasksInvariant, TypeOK
    <3> QED
      BY <1>1, <2>2, <3>1 DEF Continues, Only
  <2> QED
    BY <2>1, <2>2, GotoContinues, Zenon
<1>3. h \in present /\ mutex[h] = w
  BY <1>1, Zenon DEF TasksInvariant, LocksOK, Holds, Reads, Reading
<1>4. /\ DOMAIN data' = Hashes /\ DOMAIN data'[h] = Bytes
      /\ \A g \in Hashes : g # h => data'[g] = data[g]
  BY <1>1, Zenon DEF WriteRegion, TasksInvariant, TypeOK
<1>5. TypeOK'
  BY <1>1, <1>2, <1>4, Zenon DEF TasksInvariant, TypeOK, Continues, Only
<1>6. LocksOK'
  BY <1>1, <1>2, LocksStay, Zenon DEF Reads, Reading, Op, Continues
<1>7. RequestOK(w)'
  BY <1>1, <1>2, Zenon DEF RequestOK, Reading, Op, Continues
<1>8. PresentIsSized' /\ OldIsLogged'
  BY <1>1, Zenon DEF TasksInvariant, FilesOK, PresentIsSized, Sized, ReportsOK, OldIsLogged, Logged
<1>9. EmptyIsZero'
  BY <1>1, <1>3, <1>4 DEF TasksInvariant, FilesOK, PresentIsSized, Sized, EmptyIsZero
<1>10. AddedIsSized(w)' /\ IsSnapshot(w)' /\ AddedIsLogged(w)'
  <2>1. \A f \in Files : Sized(h, f)'
    BY <1>1, <1>2, <1>3 DEF TasksInvariant, FilesOK, PresentIsSized, Sized, Hash, Continues
  <2> QED
    BY <1>1, <1>2, <2>1, Zenon DEF AddedIsSized, IsSnapshot, AddedIsLogged, Op, Continues
<1>11. ASSUME NEW v \in Workers, v # w
       PROVE  IsSnapshot(v)'
  <2>1. job'[v] = job[v]
    BY <1>2, <1>11, Zenon DEF Continues, Only
  <2>2. job[v].pc = "load" \/ (job[v].pc = "unlock" /\ Op(v) = "load") => Hash(v) \in Hashes /\ Hash(v) # h
    BY <1>1, <1>3, <1>11, InputsAreMessages
    DEF TasksInvariant, RequestsOK, RequestOK, LocksOK, Holds, Reads, Reading, Hash
  <2> QED
    BY <1>4, <2>1, <2>2 DEF TasksInvariant, SnapshotsOK, IsSnapshot, Op, Hash
<1>12. checker[h].new = {}
  BY <1>1, <1>3, Zenon DEF TasksInvariant, ReportsOK, NewIsLocked, At
<1>13. NewIsLocked'
  <2> SUFFICES ASSUME NEW g \in present, checker[g].new # {}
               PROVE  mutex[g] \in Workers /\ job'[mutex[g]].pc = "diff"
    BY <1>1, Zenon DEF NewIsLocked, At
  <2>1. mutex[g] \in Workers /\ job[mutex[g]].pc = "diff"
    BY Zenon DEF TasksInvariant, ReportsOK, NewIsLocked, At
  <2> QED
    BY <1>1, <1>2, <2>1, Zenon DEF Continues, Only
<1>14. NewIsGood'
  BY <1>1, <1>4, <1>12, Zenon DEF TasksInvariant, TypeOK, ReportsOK, NewIsGood
<1> QED
  BY <1>1, <1>2, <1>5, <1>6, <1>7, <1>8, <1>9, <1>10, <1>11, <1>13, <1>14, StillOneAdds, OthersStay, Zenon
  DEF TasksInvariant, RequestsOK, FilesOK, SnapshotsOK, ReportsOK, Continues

\* Whole pieces are hashed with the mutex held.
LEMMA CalculateDiffStep ==
    ASSUME TasksInvariant, NEW w \in Workers, CalculateDiff(w)
    PROVE  TasksInvariant'
<1> USE IdleFields
<1> DEFINE h == Hash(w)
           m == job[w].msg
           a == add_pending_block(checker[h], m.piece, BlockMetadata("real", m.off, m.len))
           c == merge_pieces(a)
<1>1. /\ job[w].pc = "calculate" /\ Op(w) = "process" /\ job[w].msg \in Inputs /\ h \in Hashes
      /\ UNCHANGED <<present, readers, mutex, fsize, data, log>>
  BY InputsAreMessages, Zenon
  DEF CalculateDiff, At, Hash, TasksInvariant, RequestsOK, RequestOK, lockVars, fsVars, chanVars
<1>2. /\ Continues(w) /\ job'[w].chk = job[w].chk /\ job'[w].pc = "diff"
  <2>1. Goto(w, "diff") \/ Fail(w, "diff")
    BY Zenon DEF CalculateDiff
  <2> QED
    BY <2>1, GotoContinues, Zenon
<1>3. h \in present /\ mutex[h] = w
  BY <1>1, Zenon DEF TasksInvariant, LocksOK, Holds, Reads, Reading
<1>4. PICK checked \in SUBSET WholePieces(c) :
        checker' = [checker EXCEPT ![h] = run_with_whole_pieces(c, checked, GoodPieces(data[h]))]
  BY Zenon DEF CalculateDiff
<1>5. IsChecker(checker[h]) /\ checker[h].new = {}
  BY <1>1, <1>3, Zenon DEF TasksInvariant, TypeOK, ReportsOK, NewIsLocked, At
<1>6. IsChecker(c) /\ c.new = {} /\ c.old = checker[h].old
  <2>1. IsChecker(a) /\ a.new = {} /\ a.old = checker[h].old
    BY <1>5, AddedBlockState
  <2> QED
    BY <2>1, MergedState, Zenon
<1>7. /\ DOMAIN checker' = Hashes /\ \A g \in Hashes : g # h => checker'[g] = checker[g]
      /\ checker'[h] = run_with_whole_pieces(c, checked, GoodPieces(data[h]))
  BY <1>1, <1>4, Zenon DEF TasksInvariant, TypeOK
<1>8. /\ IsChecker(checker'[h]) /\ checker'[h].old = checker[h].old
      /\ \A p \in Pieces : Good(p) \in checker'[h].new => HashMatches(data[h], p)
  <2>1. checked \in SUBSET Pieces
    BY <1>4, Zenon DEF WholePieces
  <2>2. \A p \in Pieces : Good(p) \in checker'[h].new => p \in GoodPieces(data[h])
    BY <1>6, <1>7, <2>1, CheckedPieces, Zenon
  <2>3. IsChecker(checker'[h]) /\ checker'[h].old = c.old
    <3>1. \A r : r = run_with_whole_pieces(c, checked, GoodPieces(data[h])) => IsChecker(r) /\ r.old = c.old
      <4> HIDE DEF a, c, h
      <4> QED
        BY <1>6, <2>1, CheckedPieces
    <3> QED
      BY <1>7, <3>1, Zenon
  <2>4. checker'[h].old = checker[h].old
    BY <1>6, <2>3, Zenon
  <2> QED
    BY <2>2, <2>3, <2>4, Zenon DEF GoodPieces
<1>9. TypeOK'
  <2>1. \A g \in Hashes : IsChecker(checker'[g])
    BY <1>7, <1>8, Zenon DEF TasksInvariant, TypeOK
  <2> QED
    BY <1>1, <1>2, <1>7, <2>1, Zenon DEF TasksInvariant, TypeOK, Continues, Only
<1>10. LocksOK'
  BY <1>1, <1>2, LocksStay, Zenon DEF Reads, Reading, Op, Continues
<1>11. RequestOK(w)'
  BY <1>1, <1>2, Zenon DEF RequestOK, Reading, Op, Continues
<1>12. PresentIsSized' /\ EmptyIsZero'
  BY <1>1, Zenon DEF TasksInvariant, FilesOK, PresentIsSized, EmptyIsZero, Sized
<1>13. AddedIsSized(w)' /\ IsSnapshot(w)' /\ AddedIsLogged(w)'
  <2>1. \A f \in Files : Sized(h, f)'
    <3>1. Hash(w)' = Hash(w)
      BY <1>2, Zenon DEF Hash, Continues
    <3>2. PresentIsSized
      BY Zenon DEF TasksInvariant, FilesOK
    <3> QED
      BY <1>1, <1>3, <3>1, <3>2, Zenon DEF PresentIsSized, Sized
  <2> QED
    BY <1>1, <1>2, <2>1, Zenon DEF AddedIsSized, IsSnapshot, AddedIsLogged, Op, Continues
<1>14. NewIsLocked'
  <2> SUFFICES ASSUME NEW g \in present, checker'[g].new # {}
               PROVE  mutex[g] \in Workers /\ job'[mutex[g]].pc = "diff"
    BY <1>1, Zenon DEF NewIsLocked, At
  <2>1. CASE g = h
    BY <1>2, <1>3, <2>1, Zenon
  <2>2. CASE g # h
    <3>1. checker[g].new # {}
      BY <1>7, <2>2, Zenon DEF TasksInvariant, TypeOK
    <3>2. mutex[g] \in Workers /\ job[mutex[g]].pc = "diff"
      BY <3>1, Zenon DEF TasksInvariant, ReportsOK, NewIsLocked, At
    <3> QED
      BY <1>1, <1>2, <3>2, Zenon DEF Continues, Only
  <2> QED
    BY <2>1, <2>2, Zenon
<1>15. NewIsGood'
  BY <1>1, <1>7, <1>8, Zenon DEF TasksInvariant, TypeOK, ReportsOK, NewIsGood
<1>16. OldIsLogged'
  <2>1. \A g \in present : checker'[g].old = checker[g].old
    BY <1>7, <1>8, Zenon DEF TasksInvariant, TypeOK
  <2> QED
    BY <1>1, <2>1, Zenon DEF TasksInvariant, ReportsOK, OldIsLogged, Logged
<1> QED
  BY <1>1, <1>2, <1>9, <1>10, <1>11, <1>12, <1>13, <1>14, <1>15, <1>16, StillOneAdds, OthersStay, Zenon
  DEF TasksInvariant, RequestsOK, FilesOK, SnapshotsOK, ReportsOK, Continues

\* A message is sent.
LEMMA LogGrows ==
    ASSUME TasksInvariant, NEW m \in Message, log' = Append(log, m)
    PROVE  /\ log' \in Seq(Message)
           /\ \A h, p : Logged(h, p) => Logged(h, p)'
           /\ \A h, p : m = PieceMessage(h, Good(p)) => Logged(h, p)'
<1>1. log \in Seq(Message)
  BY Zenon DEF TasksInvariant, TypeOK
<1>2. /\ log' \in Seq(Message) /\ Len(log') = Len(log) + 1 /\ log'[Len(log')] = m
      /\ \A i \in 1 .. Len(log) : log'[i] = log[i]
  BY <1>1
<1>3. Len(log) \in Nat
  BY <1>1
<1> QED
  BY <1>2, <1>3 DEF Logged

\* A piece is reported.
LEMMA SendPieceDiffStep ==
    ASSUME TasksInvariant, NEW w \in Workers, SendPieceDiff(w)
    PROVE  TasksInvariant'
<1> USE IdleFields
<1>1. PICK h \in Hashes :
        /\ h = Hash(w)
        /\ job[w].pc = "diff" /\ Op(w) \in {"add", "process"} /\ job[w].msg \in Inputs
        /\ UNCHANGED <<present, readers, mutex, fsize, data>>
  BY InputsAreMessages, Zenon
  DEF SendPieceDiff, At, Hash, TasksInvariant, RequestsOK, RequestOK, lockVars, fsVars
<1>2. PICK ps \in Diff(w).new :
        /\ \/ ps.good \/ Op(w) # "add"
           \/ ~ps.good
        /\ \/ log' = Append(log, PieceMessage(h, ps))
           \/ ~ps.good /\ log' = log
        /\ \/ /\ Op(w) = "add" /\ checker' = checker
              /\ job' = [job EXCEPT ![w].chk = ReportState(@, ps)]
           \/ /\ Op(w) # "add" /\ job' = job
              /\ checker' = [checker EXCEPT ![h] = ReportState(@, ps)]
  BY <1>1, Zenon DEF SendPieceDiff, SendBlocking, chanVars
<1>3. IsChecker(Diff(w))
  BY <1>1, Zenon DEF TasksInvariant, TypeOK, Diff
<1>4. ps \in PieceState
  BY <1>3, Zenon DEF IsChecker
<1>5. \A c : IsChecker(c) => /\ IsChecker(ReportState(c, ps))
                             /\ ReportState(c, ps).new \subseteq c.new
                             /\ ReportState(c, ps).old = c.old \cup {ps}
  BY <1>4, Zenon DEF ReportState, IsChecker
<1>6. /\ log' \in Seq(Message)
      /\ \A g, p : Logged(g, p) => Logged(g, p)'
      /\ \A p : ps = Good(p) => Logged(h, p)'
  <2>1. PieceMessage(h, ps) \in Message
    BY <1>1, <1>4 DEF Message
  <2>2. CASE log' = Append(log, PieceMessage(h, ps))
    BY <2>1, <2>2, LogGrows, Zenon
  <2>3. CASE ~ps.good /\ log' = log
    <3>1. \A p : ps # Good(p)
      BY <2>3 DEF Good
    <3> QED
      BY <2>3, <3>1, Zenon DEF TasksInvariant, TypeOK, Logged
  <2> QED
    BY <1>2, <2>2, <2>3, Zenon
<1>7. /\ Continues(w) /\ job'[w].pc = "diff"
      /\ IsChecker(job'[w].chk)
      /\ Op(w) # "add" => job'[w].chk = job[w].chk
      /\ Op(w) = "add" => job'[w].chk.old = job[w].chk.old \cup {ps}
  <2>1. /\ DOMAIN job = Workers /\ DOMAIN job[w] = DOMAIN Idle /\ IsChecker(job[w].chk)
        /\ job[w].i \in Nat \ {0} /\ job[w].res \in {"ok", "err"}
    BY Zenon DEF TasksInvariant, TypeOK
  <2>2. CASE job' = job /\ Op(w) # "add"
    BY <1>1, <1>2, <2>1, <2>2, Zenon DEF Continues, Only
  <2>3. CASE job' = [job EXCEPT ![w].chk = ReportState(@, ps)] /\ Op(w) = "add"
    <3>1. job'[w].chk = ReportState(job[w].chk, ps)
      BY <2>1, <2>3, Zenon
    <3> QED
      BY <1>1, <1>5, <2>1, <2>3, <3>1 DEF Continues, Only
  <2> QED
    BY <1>2, <2>2, <2>3, Zenon
<1>8. /\ DOMAIN checker' = Hashes
      /\ \A g \in Hashes :
           /\ IsChecker(checker'[g]) /\ checker'[g].new \subseteq checker[g].new
           /\ checker'[g].old \subseteq checker[g].old \cup (IF g = h THEN {ps} ELSE {})
  <2>1. DOMAIN checker = Hashes /\ \A g \in Hashes : IsChecker(checker[g])
    BY Zenon DEF TasksInvariant, TypeOK
  <2>2. CASE checker' = checker
    BY <2>1, <2>2, Zenon
  <2>3. CASE checker' = [checker EXCEPT ![h] = ReportState(@, ps)]
    <3>1. /\ DOMAIN checker' = Hashes /\ checker'[h] = ReportState(checker[h], ps)
          /\ \A g \in Hashes : g # h => checker'[g] = checker[g]
      BY <1>1, <2>1, <2>3, Zenon
    <3> QED
      BY <1>1, <1>5, <2>1, <3>1
  <2> QED
    BY <1>2, <2>2, <2>3, Zenon
<1>9. TypeOK'
  BY <1>1, <1>6, <1>7, <1>8, Zenon DEF TasksInvariant, TypeOK, Continues, Only
<1>10. LocksOK'
  BY <1>1, <1>7, LocksStay, Zenon DEF Reads, Reading, Op, Continues
<1>11. RequestOK(w)' /\ IsSnapshot(w)'
  BY <1>1, <1>7, Zenon DEF RequestOK, Reading, IsSnapshot, Op, Continues
<1>12. PresentIsSized' /\ EmptyIsZero'
  BY <1>1 DEF TasksInvariant, FilesOK, PresentIsSized, EmptyIsZero, Sized
<1>13. AddedIsSized(w)'
  BY <1>1, <1>7 DEF TasksInvariant, FilesOK, AddedIsSized, Sized, Hash, Continues
<1>14. \A v \in Workers : AddedIsLogged(v)'
  <2>1. AddedIsLogged(w)'
    BY <1>1, <1>6, <1>7, Zenon DEF TasksInvariant, ReportsOK, AddedIsLogged, Op, Hash, Continues
  <2>2. ASSUME NEW v \in Workers, v # w
        PROVE  AddedIsLogged(v)'
    <3>1. job'[v] = job[v]
      BY <1>7, <2>2, Zenon DEF Continues, Only
    <3> QED
      BY <1>6, <3>1, Zenon DEF TasksInvariant, ReportsOK, AddedIsLogged, Op, Hash
  <2> QED
    BY <2>1, <2>2, Zenon
<1>15. NewIsLocked'
  <2> SUFFICES ASSUME NEW g \in present, checker'[g].new # {}
               PROVE  mutex[g] \in Workers /\ job'[mutex[g]].pc = "diff"
    BY <1>1, Zenon DEF NewIsLocked, At
  <2>1. checker[g].new # {}
    BY <1>8, Zenon DEF TasksInvariant, TypeOK
  <2>2. mutex[g] \in Workers /\ job[mutex[g]].pc = "diff"
    BY <2>1, Zenon DEF TasksInvariant, ReportsOK, NewIsLocked, At
  <2> QED
    BY <1>7, <2>2, Zenon DEF Continues, Only
<1>16. NewIsGood'
  BY <1>1, <1>8, Zenon DEF TasksInvariant, TypeOK, ReportsOK, NewIsGood
<1>17. OldIsLogged'
  <2> SUFFICES ASSUME NEW g \in present, NEW p \in Pieces, Good(p) \in checker'[g].old
               PROVE  Logged(g, p)'
    BY <1>1, Zenon DEF OldIsLogged
  <2>1. Good(p) \in checker[g].old \/ (g = h /\ Good(p) = ps)
    BY <1>8, Zenon DEF TasksInvariant, TypeOK
  <2>2. CASE Good(p) \in checker[g].old
    BY <1>6, <2>2, Zenon DEF TasksInvariant, ReportsOK, OldIsLogged
  <2>3. CASE g = h /\ Good(p) = ps
    BY <1>1, <1>6, <2>3, Zenon
  <2> QED
    BY <2>1, <2>2, <2>3, Zenon
<1> QED
  BY <1>1, <1>7, <1>9, <1>10, <1>11, <1>12, <1>13, <1>14, <1>15, <1>16, <1>17, StillOneAdds, OthersStay, Zenon
  DEF TasksInvariant, RequestsOK, FilesOK, SnapshotsOK, ReportsOK, Continues

\* A request drops its guards: nothing is left to be reported.
LEMMA UnlockTorrentStep ==
    ASSUME TasksInvariant, NEW w \in Workers, UnlockTorrent(w)
    PROVE  TasksInvariant'
<1> USE IdleFields
<1>1. PICK h \in Hashes :
        /\ h = Hash(w)
        /\ job[w].pc = "unlock" /\ Op(w) \in {"sync", "load", "process"} /\ job[w].msg \in Inputs
        /\ mutex' = [mutex EXCEPT ![h] = Nobody] /\ readers' = readers \ {w} /\ Goto(w, "final")
        /\ UNCHANGED <<present, checker, fsize, data, log>>
  BY InputsAreMessages, Zenon
  DEF UnlockTorrent, At, Hash, TasksInvariant, RequestsOK, RequestOK, mapVars, fsVars, chanVars
<1>2. Continues(w) /\ job'[w].pc = "final" /\ job'[w].chk = job[w].chk
  BY <1>1, GotoContinues, Zenon
<1>3. TypeOK'
  BY <1>1, <1>2 DEF TasksInvariant, TypeOK, Continues, Only
<1>4. LocksOK'
  <2>1. /\ \A v \in Workers : v # w => (Reads(v)' <=> Reads(v)) /\ Hash(v)' = Hash(v)
        /\ ~Reads(w)'
    BY <1>1, <1>2, Zenon DEF Reads, Reading, Op, Hash, Continues, Only
  <2>2. \A v \in Workers, g \in Hashes : Holds(v, g)' <=> v # w /\ Holds(v, g)
    BY <1>1, <1>2, <2>1 DEF Holds, Reads, Reading, Continues, Only
  <2>3. \A g \in Hashes : mutex'[g] = IF g = h THEN Nobody ELSE mutex[g]
    BY <1>1, Zenon DEF TasksInvariant, TypeOK
  <2>4. mutex[h] = w /\ \A g \in Hashes : mutex[g] = w => g = h
    BY <1>1 DEF TasksInvariant, LocksOK, Holds, Reads, Reading
  <2> QED
    BY <1>1, <2>1, <2>2, <2>3, <2>4, NobodyIsNoWorker DEF TasksInvariant, LocksOK
<1>5. RequestOK(w)' /\ AddedIsSized(w)' /\ IsSnapshot(w)' /\ AddedIsLogged(w)'
  BY <1>1, <1>2, Zenon DEF RequestOK, Reading, AddedIsSized, IsSnapshot, AddedIsLogged, Op, Continues
<1>6. NewIsLocked'
  <2> SUFFICES ASSUME NEW g \in present, checker[g].new # {}
               PROVE  mutex'[g] \in Workers /\ job'[mutex'[g]].pc = "diff"
    BY <1>1, Zenon DEF NewIsLocked, At
  <2>1. g \in Hashes /\ mutex[g] \in Workers /\ job[mutex[g]].pc = "diff"
    BY Zenon DEF TasksInvariant, TypeOK, ReportsOK, NewIsLocked, At
  <2>2. mutex[h] = w
    BY <1>1, Zenon DEF TasksInvariant, LocksOK, Holds, Reads, Reading
  <2>3. g # h /\ mutex'[g] = mutex[g]
    BY <1>1, <2>1, <2>2, Zenon DEF TasksInvariant, TypeOK
  <2> QED
    BY <1>1, <1>2, <2>1, <2>3, Zenon DEF Continues, Only
<1> QED
  BY <1>1, <1>2, <1>3, <1>4, <1>5, <1>6, SharedStays, StillOneAdds, OthersStay, Zenon
  DEF TasksInvariant, RequestsOK, FilesOK, SnapshotsOK, ReportsOK, Continues

\* What is true of a thread without a request.
LEMMA IdleThread ==
    ASSUME TasksInvariant, NEW w \in Workers, Only(w), job'[w] = Idle
    PROVE  /\ RequestOK(w)' /\ AddedIsSized(w)' /\ IsSnapshot(w)' /\ AddedIsLogged(w)'
           /\ IsChecker(job'[w].chk) /\ job'[w].i \in Nat \ {0} /\ job'[w].res \in {"ok", "err"}
           /\ ~Reads(w)' /\ OneAdds'
<1>1. /\ job'[w].pc = "idle" /\ job'[w].msg.op = "none" /\ job'[w].i = 1 /\ job'[w].res = "ok"
      /\ job'[w].chk = NewCheckerState
  BY DEF Idle
<1>2. OneAdds'
  BY <1>1 DEF TasksInvariant, FilesOK, OneAdds, Op, Hash, Only
<1> QED
  BY <1>1, <1>2, NewState DEF RequestOK, AddedIsSized, IsSnapshot, AddedIsLogged, Reads, Reading, Op

\* A request is answered.
LEMMA SendFinalStep ==
    ASSUME TasksInvariant, NEW w \in Workers, SendFinal(w)
    PROVE  TasksInvariant'
<1> USE IdleFields
<1> DEFINE m == [kind |-> Op(w), hash |-> Hash(w), res |-> job[w].res]
<1>1. /\ job[w].pc = "final" /\ job[w].msg \in Inputs
      /\ log' = Append(log, m) /\ job' = [job EXCEPT ![w] = Idle]
      /\ UNCHANGED <<present, checker, readers, mutex, fsize, data>>
  BY Zenon DEF SendFinal, SendBlocking, At, TasksInvariant, RequestsOK, RequestOK, mapVars, lockVars, fsVars
<1>2. Only(w) /\ job'[w] = Idle
  BY <1>1, Zenon DEF TasksInvariant, TypeOK, Only
<1>3. /\ log' \in Seq(Message)
      /\ \A g, p : Logged(g, p) => Logged(g, p)'
  <2>1. m \in Message
    BY <1>1, InputsAreMessages DEF Message, TasksInvariant, TypeOK, Op, Hash
  <2> QED
    BY <1>1, <2>1, LogGrows
<1>4. TypeOK'
  BY <1>1, <1>2, <1>3, IdleThread, Zenon DEF TasksInvariant, TypeOK, Only
<1>5. LocksOK'
  <2>1. /\ \A v \in Workers : (Reads(v)' <=> Reads(v)) /\ (v # w => Hash(v)' = Hash(v))
        /\ ~Reads(w)
    BY <1>1, <1>2, IdleThread DEF Reads, Reading, Op, Hash, Only
  <2>2. \A v \in Workers, g \in Hashes : Holds(v, g)' <=> Holds(v, g)
    BY <1>2, <2>1, Zenon DEF Holds, Only
  <2> QED
    BY <1>1, <2>1, <2>2 DEF TasksInvariant, LocksOK
<1>6. PresentIsSized' /\ EmptyIsZero' /\ NewIsGood'
  BY <1>1, Zenon DEF TasksInvariant, FilesOK, PresentIsSized, EmptyIsZero, Sized, ReportsOK, NewIsGood
<1>7. NewIsLocked'
  BY <1>1, <1>2, Zenon DEF TasksInvariant, ReportsOK, NewIsLocked, At, Only
<1>8. OldIsLogged'
  BY <1>1, <1>3, Zenon DEF TasksInvariant, ReportsOK, OldIsLogged
<1>9. ASSUME NEW v \in Workers, v # w
      PROVE  AddedIsLogged(v)'
  BY <1>2, <1>3, <1>9, Zenon DEF TasksInvariant, ReportsOK, AddedIsLogged, Op, Hash, Only
<1> QED
  BY <1>1, <1>2, <1>4, <1>5, <1>6, <1>7, <1>8, <1>9, IdleThread, OthersStay, Zenon
  DEF TasksInvariant, RequestsOK, FilesOK, SnapshotsOK, ReportsOK

\* A thread unwinds: it drops its guards and its request.
LEMMA PanicStep ==
    ASSUME TasksInvariant, NEW w \in Workers, Panic(w)
    PROVE  TasksInvariant'
<1> USE IdleFields
<1>1. /\ job[w].pc # "diff"
      /\ readers' = readers \ {w} /\ job' = [job EXCEPT ![w] = Idle]
      /\ mutex' = [g \in Hashes |-> IF mutex[g] = w THEN Nobody ELSE mutex[g]]
      /\ UNCHANGED <<present, checker, fsize, data, log>>
  BY Zenon DEF Panic, At, mapVars, fsVars, chanVars
<1>2. Only(w) /\ job'[w] = Idle
  BY <1>1, Zenon DEF TasksInvariant, TypeOK, Only
<1>3. TypeOK'
  BY <1>1, <1>2, IdleThread, Zenon DEF TasksInvariant, TypeOK, Only
<1>4. LocksOK'
  <2>1. \A v \in Workers : (Reads(v)' <=> v # w /\ Reads(v)) /\ (v # w => Hash(v)' = Hash(v))
    BY <1>1, <1>2, IdleThread, Zenon DEF Reads, Reading, Op, Hash, Only
  <2>2. \A v \in Workers, g \in Hashes : Holds(v, g)' <=> v # w /\ Holds(v, g)
    BY <1>2, <2>1, Zenon DEF Holds, Only
  <2> QED
    BY <1>1, <2>1, <2>2, NobodyIsNoWorker DEF TasksInvariant, LocksOK
<1>5. NewIsLocked'
  <2> SUFFICES ASSUME NEW g \in present, checker[g].new # {}
               PROVE  mutex'[g] \in Workers /\ job'[mutex'[g]].pc = "diff"
    BY <1>1, Zenon DEF NewIsLocked, At
  <2>1. g \in Hashes /\ mutex[g] \in Workers /\ job[mutex[g]].pc = "diff"
    BY DEF TasksInvariant, TypeOK, ReportsOK, NewIsLocked, At
  <2>2. mutex[g] # w /\ mutex'[g] = mutex[g]
    BY <1>1, <2>1, Zenon
  <2> QED
    BY <1>2, <2>1, <2>2, Zenon DEF Only
<1> QED
  BY <1>1, <1>2, <1>3, <1>4, <1>5, SharedStays, IdleThread, OthersStay
  DEF TasksInvariant, RequestsOK, FilesOK, SnapshotsOK, ReportsOK

\* A thread takes a request: if it adds a torrent, no other one does.
LEMMA ExecuteStep ==
    ASSUME TasksInvariant, NEW w \in Workers, Execute(w)
    PROVE  TasksInvariant'
<1> USE IdleFields
<1>1. /\ job[w].pc = "idle" /\ UNCHANGED <<present, checker, readers, mutex, fsize, data, log>>
  BY Zenon DEF Execute, At, mapVars, lockVars, fsVars, chanVars
<1>2. PICK m \in Inputs :
        /\ m.op # "add" \/ \A v \in Workers : Op(v) # "add" \/ Hash(v) # m.hash
        /\ job' = [job EXCEPT ![w] = [Idle EXCEPT !.msg = m, !.n = requests + 1,
                     !.pc = CASE m.op = "add" -> "open" [] m.op = "remove" -> "remove" [] OTHER -> "read"]]
  BY Zenon DEF Execute
<1>3. m.op \in {"add", "remove", "sync", "load", "process"} /\ m.hash \in Hashes
  BY InputsAreMessages, Zenon
<1>4. /\ Only(w) /\ job'[w].msg = m /\ job'[w].i = 1 /\ job'[w].res = "ok" /\ job'[w].got = {}
      /\ job'[w].chk = NewCheckerState
      /\ \/ m.op = "add" /\ job'[w].pc = "open"
         \/ m.op = "remove" /\ job'[w].pc = "remove"
         \/ m.op \in {"sync", "load", "process"} /\ job'[w].pc = "read"
  <2>1. DOMAIN job = Workers
    BY Zenon DEF TasksInvariant, TypeOK
  <2>2. /\ Idle.i = 1 /\ Idle.res = "ok" /\ Idle.got = {} /\ Idle.chk = NewCheckerState
    BY Zenon DEF Idle
  <2> QED
    BY <1>2, <1>3, <2>1, <2>2, Zenon DEF Only
<1>5. TypeOK'
  <2>1. /\ DOMAIN job'[w] = DOMAIN Idle /\ IsChecker(job'[w].chk)
        /\ job'[w].i \in Nat \ {0} /\ job'[w].res \in {"ok", "err"}
    BY <1>4, NewState DEF Only
  <2> QED
    BY <1>1, <1>4, <2>1, Zenon DEF TasksInvariant, TypeOK, Only
<1>6. LocksOK'
  <2>1. /\ \A v \in Workers : (Reads(v)' <=> Reads(v)) /\ (v # w => Hash(v)' = Hash(v))
        /\ ~Reads(w)
    BY <1>1, <1>4, Zenon DEF Reads, Reading, Op, Hash, Only
  <2>2. \A v \in Workers, g \in Hashes : Holds(v, g)' <=> Holds(v, g)
    BY <1>4, <2>1, Zenon DEF Holds, Only
  <2> QED
    BY <1>1, <2>1, <2>2 DEF TasksInvariant, LocksOK
<1>7. OneAdds'
  BY <1>2, <1>4 DEF TasksInvariant, FilesOK, OneAdds, Op, Hash, Only
<1>8. RequestOK(w)' /\ IsSnapshot(w)'
  BY <1>4, Zenon DEF RequestOK, Reading, IsSnapshot, Op
<1>9. AddedIsSized(w)' /\ AddedIsLogged(w)'
  BY <1>4, NewState DEF AddedIsSized, AddedIsLogged, Files
<1>10. NewIsLocked'
  BY <1>1, <1>4, Zenon DEF TasksInvariant, ReportsOK, NewIsLocked, At, Only
<1> QED
  BY <1>1, <1>4, <1>5, <1>6, <1>7, <1>8, <1>9, <1>10, SharedStays, OthersStay, Zenon
  DEF TasksInvariant, RequestsOK, FilesOK, SnapshotsOK, ReportsOK

\* Steps that change nothing the invariant is about.
LEMMA OtherStep ==
    ASSUME TasksInvariant, StreamRecv \/ UNCHANGED vars
    PROVE  TasksInvariant'
<1>1. UNCHANGED <<job, present, checker, readers, mutex, fsize, data, log>>
  BY Zenon DEF StreamRecv, vars, mapVars, lockVars, fsVars
<1>2. TypeOK' /\ RequestsOK'
  BY <1>1, Zenon DEF TasksInvariant, TypeOK, RequestsOK, RequestOK, Op
<1>3. LocksOK' /\ OneAdds'
  BY <1>1, Zenon DEF TasksInvariant, LocksOK, Holds, Reads, FilesOK, OneAdds, Op, Hash
<1>4. SnapshotsOK' /\ (\A w \in Workers : AddedIsSized(w)') /\ (\A w \in Workers : AddedIsLogged(w)')
  BY <1>1, Zenon DEF TasksInvariant, SnapshotsOK, IsSnapshot, FilesOK, AddedIsSized, Sized, ReportsOK, AddedIsLogged,
              Logged, Op, Hash
<1>5. NewIsLocked'
  BY <1>1, Zenon DEF TasksInvariant, ReportsOK, NewIsLocked, At
<1> QED
  BY <1>1, <1>2, <1>3, <1>4, <1>5, SharedStays, Zenon DEF TasksInvariant, FilesOK, ReportsOK

\* The invariant holds at the start.
LEMMA InvariantInit == Init => TasksInvariant
<1> SUFFICES ASSUME Init PROVE TasksInvariant
  BY Zenon
<1> USE IdleFields
<1>1. /\ DOMAIN job = Workers /\ \A w \in Workers : job[w] = Idle
      /\ Idle.pc = "idle" /\ Idle.msg.op = "none" /\ Idle.i = 1 /\ Idle.res = "ok" /\ Idle.chk = NewCheckerState
  BY Zenon DEF Init, Idle
<1>2. TypeOK
  <2>1. /\ DOMAIN checker = Hashes /\ \A h \in Hashes : IsChecker(checker[h])
        /\ mutex \in [Hashes -> Workers \cup {Nobody}] /\ present \subseteq Hashes /\ log \in Seq(Message)
    BY NewState DEF Init
  <2>2. DOMAIN data = Hashes /\ \A h \in Hashes : DOMAIN data[h] = Bytes
    BY Zenon DEF Init
  <2>3. fsize \in [Hashes -> [Files -> Nat]]
    BY InitialSizesAreSizes, Zenon DEF Init
  <2> QED
    BY <1>1, <2>1, <2>2, <2>3, NewState DEF TypeOK
<1>3. RequestsOK /\ SnapshotsOK
  BY <1>1, Zenon DEF RequestsOK, RequestOK, SnapshotsOK, IsSnapshot
<1>4. LocksOK
  <2>1. \A w \in Workers : ~Reads(w)
    BY <1>1, Zenon DEF Reads, Reading
  <2> QED
    BY <2>1, NobodyIsNoWorker, Zenon DEF Init, LocksOK, Holds
<1>5. OneAdds /\ PresentIsSized /\ \A w \in Workers : AddedIsSized(w)
  BY <1>1, Zenon DEF Init, OneAdds, PresentIsSized, AddedIsSized, Op
<1>6. EmptyIsZero
  <2> SUFFICES ASSUME NEW h \in Hashes, NEW f \in Files, fsize[h][f] = 0, FileLengths[f] # 0
               PROVE  data[h][LastByte(f)] = "zero"
    BY Zenon DEF EmptyIsZero
  <2>1. PICK d \in InitialData :
          data = [g \in Hashes |-> [k \in Bytes |-> IF fsize[g][FileOf(k)] = 0 THEN "zero" ELSE d]]
    BY Zenon DEF Init
  <2> QED
    BY <2>1, FileOfLastByte, Zenon
<1>7. ReportsOK
  BY <1>1, NewState, Zenon DEF Init, ReportsOK, NewIsLocked, NewIsGood, OldIsLogged, AddedIsLogged, Op
<1> QED
  BY <1>2, <1>3, <1>4, <1>5, <1>6, <1>7, Zenon DEF TasksInvariant, FilesOK

\* The threads of the pool and the stream keep the invariant, in whatever order
\* they take their steps.
LEMMA InvariantNext == TasksInvariant /\ [Next]_vars => TasksInvariant'
<1> SUFFICES ASSUME TasksInvariant, [Next]_vars PROVE TasksInvariant'
  BY Zenon
<1>1. ASSUME NEW w \in Workers, Execute(w) \/ TaskStep(w) \/ Panic(w)
      PROVE  TasksInvariant'
  BY <1>1, ExecuteStep, PanicStep, OpenFileStep, AllocateFileStep, AcceptFileStep, CheckFilesStep,
     InsertTorrentStep, RemoveTorrentStep, ReadTorrentsStep, LockTorrentStep, SyncFileStep, LoadRegionStep,
     WriteRegionStep, CalculateDiffStep, SendPieceDiffStep, DiffSentStep, UnlockTorrentStep, SendFinalStep
  DEF TaskStep
<1>2. CASE StreamRecv \/ UNCHANGED vars
  BY <1>2, OtherStep, Zenon
<1> QED
  BY <1>1, <1>2, Zenon DEF Next, Finished

\* update_torrent and the pool: what each request relies on holds throughout.
THEOREM TasksAreCorrect == Spec => []TasksInvariant
BY InvariantInit, InvariantNext, PTL DEF Spec

\* A torrent is not removed while a request works on it, and a BlockLoaded
\* answer is a snapshot (execute_load_block, remove_torrent).
THEOREM RequestsIsolated == Spec => []RequestsAreIsolated
<1>1. TasksInvariant => RequestsAreIsolated
  BY Zenon DEF TasksInvariant, LocksOK, SnapshotsOK, IsSnapshot, RequestsAreIsolated, At
<1> QED
  BY <1>1, TasksAreCorrect, PTL

\* A ProcessBlock reports only pieces that are good on disk as good, and every
\* good piece on record for a torrent was reported (send_piece_diff).
THEOREM GoodPiecesAreReported == Spec => []GoodWhenReported
<1>1. TasksInvariant => GoodWhenReported
  <2> SUFFICES ASSUME TasksInvariant PROVE GoodWhenReported
    BY Zenon
  <2>1. ASSUME NEW w \in Workers, At(w, "diff"), Op(w) = "process", NEW p \in Pieces, Good(p) \in Diff(w).new
        PROVE  HashMatches(data[Hash(w)], p)
    <3>1. Hash(w) \in present
      BY <2>1, Zenon DEF TasksInvariant, LocksOK, Reads, Reading, At
    <3> QED
      BY <2>1, <3>1, Zenon DEF TasksInvariant, ReportsOK, NewIsGood, Diff
  <2> QED
    BY <2>1, Zenon DEF TasksInvariant, ReportsOK, OldIsLogged, Logged, GoodWhenReported
<1> QED
  BY <1>1, TasksAreCorrect, PTL

\* Adding a torrent leaves the data of its files alone (validate_files_sizes).
THEOREM FilesAreLeftAlone == Spec => FilesLeftAlone
<1> DEFINE Alone == \A h \in Hashes, k \in Bytes : data[h][k] # "zero" => data'[h][k] # "zero"
<1>1. TasksInvariant /\ [Next]_vars => [Alone]_vars
  <2> SUFFICES ASSUME TasksInvariant, [Next]_vars PROVE Alone
    BY Zenon
  <2>1. CASE UNCHANGED data
    BY <2>1, Zenon
  <2>2. ASSUME NEW w \in Workers, AllocateFile(w)
        PROVE  Alone
    <3> DEFINE f == job[w].i
    <3>1. /\ job[w].pc = "allocate" /\ job[w].seen = 0 /\ FileLengths[f] # 0
          /\ data' = [data EXCEPT ![Hash(w)][LastByte(f)] = "zero"]
      BY <2>2, Zenon DEF AllocateFile, At, LastByte
    <3>2. Hash(w) \in Hashes /\ f \in Files /\ fsize[Hash(w)][f] = 0
      BY <3>1, InputsAreMessages DEF TasksInvariant, RequestsOK, RequestOK, FilesOK, AddedIsSized, Hash
    <3>3. data[Hash(w)][LastByte(f)] = "zero"
      BY <3>1, <3>2, Zenon DEF TasksInvariant, FilesOK, EmptyIsZero
    <3> QED
      BY <3>1, <3>2, <3>3 DEF TasksInvariant, TypeOK
  <2>3. ASSUME NEW w \in Workers, WriteRegion(w)
        PROVE  Alone
    <3>1. /\ Hash(w) \in Hashes /\ job[w].msg.content # "zero"
      BY <2>3, InputsAreMessages, Zenon DEF WriteRegion, At, TasksInvariant, RequestsOK, RequestOK, Op, Hash
    <3>2. \/ data' = data
          \/ \E r : data' = [data EXCEPT ![Hash(w)] =
                      [k \in Bytes |-> IF k \in RegionBytes(r) THEN job[w].msg.content ELSE data[Hash(w)][k]]]
      BY <2>3, Zenon DEF WriteRegion
    <3>3. DOMAIN data = Hashes
      BY Zenon DEF TasksInvariant, TypeOK
    <3>4. ASSUME NEW r, data' = [data EXCEPT ![Hash(w)] =
                      [k \in Bytes |-> IF k \in RegionBytes(r) THEN job[w].msg.content ELSE data[Hash(w)][k]]]
          PROVE  Alone
      BY <3>1, <3>3, <3>4, Zenon
    <3> QED
      BY <3>2, <3>4, Zenon
  <2>4. ASSUME NEW w \in Workers, Execute(w) \/ TaskStep(w) \/ Panic(w)
        PROVE  UNCHANGED data \/ AllocateFile(w) \/ WriteRegion(w)
    BY <2>4, Zenon DEF TaskStep, Execute, Panic, OpenFile, AcceptFile, CheckFiles, InsertTorrent, RemoveTorrent,
       ReadTorrents, LockTorrent, SyncFile, LoadRegion, CalculateDiff, SendPieceDiff, DiffSent, UnlockTorrent,
       SendFinal, fsVars
  <2>5. StreamRecv \/ UNCHANGED vars => UNCHANGED data
    BY Zenon DEF StreamRecv, fsVars, vars
  <2> QED
    BY <2>1, <2>2, <2>3, <2>4, <2>5, Zenon DEF Next, Finished
<1> QED
  BY <1>1, TasksAreCorrect, PTL DEF Spec, FilesLeftAlone
=============================================================================
