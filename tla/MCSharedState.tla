--------------------------- MODULE MCSharedState ---------------------------
(***************************************************************************)
(* Small instances for TLC of the parts where threads share state behind a *)
(* lock: the tasks of bip_disk (DiskTasks), and the map of peers of        *)
(* bip_peer (PeerManagerLock).  They share nothing with each other, so a   *)
(* behaviour runs one of them.                                             *)
(***************************************************************************)
EXTENDS DiskTasks, PeerManagerLock, TLC

CONSTANT Parts      \* the parts that run

VARIABLE part

\* Piece 0 lies in both files, piece 1 is shorter.
TwoFiles == <<1, 2>>

Msg(op_, h, p, o, l, v) == [op |-> op_, hash |-> h, piece |-> p, off |-> o, len |-> l, content |-> v]
Plain(op_) == {Msg(op_, h, 0, 0, 0, "none") : h \in Hashes}
Process(p, o, l) == {Msg("process", h, p, o, l, v) : h \in Hashes, v \in {"good", "bad"}}
Load(p, o, l) == {Msg("load", h, p, o, l, "none") : h \in Hashes}

\* Everything a client may ask for: whole pieces and the halves of piece 0.
AllInputs == Plain("add") \cup Plain("remove") \cup Plain("sync") \cup Load(0, 0, 2)
               \cup Process(0, 0, 2) \cup Process(0, 1, 1) \cup Process(1, 0, 1)
NewFiles == [f \in Files |-> 0]
OldFiles == [f \in Files |-> FileLengths[f]]
AnySizes == {NewFiles, OldFiles, [f \in Files |-> 3]}

MCInit ==
    /\ part \in Parts /\ Init /\ LockInit
    /\ part # "tasks" => \A h \in Hashes : fsize[h] = NewFiles

\* The tasks go on or have ended; the callers of the peer manager may rest.
MCNext ==
    \/ part = "tasks" /\ Next /\ UNCHANGED <<part, peerVars>>
    \/ part = "peers" /\ LockNext /\ UNCHANGED <<part, vars>>
    \/ part = "peers" /\ UNCHANGED <<part, vars, peerVars>>

MCSpec == MCInit /\ [][MCNext]_<<part, vars, peerVars>>

Symmetry == Permutations(Workers) \cup Permutations(Hashes) \cup Permutations(Sinks)
=============================================================================
