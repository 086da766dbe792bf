---------------------------- MODULE DurableStore ----------------------------
(***************************************************************************)
(* What an operation of the store that changes its data promises: it takes *)
(* effect in memory in one step, and on disk in the same step unless it    *)
(* answers with an error. A process that starts again has what is on disk  *)
(* or, without saying so, nothing; the disk is as it was until the next    *)
(* save.                                                                   *)
(***************************************************************************)
CONSTANTS Data, Empty

VARIABLES
    mem,     \* what the operations of the process see
    disk,    \* what a new process would read
    answer   \* of the last operation

vars == <<mem, disk, answer>>

Init ==
    /\ mem = Empty
    /\ disk = Empty
    /\ answer = "none"

Save(d) ==
    /\ mem' = d
    /\ \/ disk' = d /\ answer' = "ok"
       \/ disk' = disk /\ answer' = "error"

Restart ==
    /\ mem' \in {disk, Empty}
    /\ answer' = "none"
    /\ UNCHANGED disk

Next == (\E d \in Data : Save(d)) \/ Restart

Spec == Init /\ [][Next]_vars
=============================================================================
