-------------------------------- MODULE Mpsc --------------------------------
(***************************************************************************)
(* The bounded channel futures::sync::mpsc as bip_disk and bip_peer use    *)
(* it.  A sender may always put one message into the channel; if that      *)
(* message exceeds the buffer the sender is parked, and a parked sender    *)
(* blocks.  Each message the receiver takes unparks the sender that has    *)
(* been parked longest.                                                    *)
(***************************************************************************)
EXTENDS Naturals, Sequences

IsParked(parked, sender) == \E i \in 1 .. Len(parked) : parked[i] = sender

ParkedAfterSend(parked, queued, cap, sender) ==
    IF queued + 1 > cap THEN Append(parked, sender) ELSE parked

ParkedAfterRecv(parked) == IF parked = <<>> THEN <<>> ELSE Tail(parked)
=============================================================================
