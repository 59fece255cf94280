----------------------------- MODULE DurableLog -----------------------------
(***************************************************************************)
(* What the attempt journal promises its callers: a log of values that     *)
(* survives every crash up to the last acknowledged one.  At most one      *)
(* value is ever in doubt, because RuntimeState holds its lock until the   *)
(* journal has answered.                                                   *)
(***************************************************************************)
EXTENDS Naturals, Sequences

CONSTANT Value

VARIABLES
    log,     \* what a restart would find
    acked    \* how much of it was promised to a caller

vars == <<log, acked>>

TypeOK == log \in Seq(Value) /\ acked \in 0..Len(log)

Init == log = <<>> /\ acked = 0

(* The value is on disk, nobody was told yet.                              *)
Write(v) ==
    /\ acked = Len(log)
    /\ log' = Append(log, v) /\ acked' = acked

(* The caller is told, or a restart has handed the value to its caller.    *)
Promise ==
    /\ acked < Len(log)
    /\ acked' = Len(log) /\ log' = log

(* A crash, or a failed write, forgets what was never promised.            *)
Forget ==
    /\ acked < Len(log)
    /\ log' = SubSeq(log, 1, acked) /\ acked' = acked

Next == (\E v \in Value : Write(v)) \/ Promise \/ Forget

Spec == Init /\ [][Next]_vars
=============================================================================
