--------------------------- MODULE ReplayContract ---------------------------
(***************************************************************************)
(* What a replay promises, without how: from the height its state starts   *)
(* at, the state advances one height at a time to a goal fixed by the      *)
(* pool, the target and whether extra messages are supplied, never past    *)
(* it; the call returns Ok only at the goal, or stops early with an error  *)
(* or a panic; and it does stop.                                           *)
(***************************************************************************)
EXTENDS Naturals

VARIABLES height, goal, status

vars == <<height, goal, status>>

Init ==
    /\ status = "running"
    /\ height <= goal

Execute ==
    /\ status = "running"
    /\ height < goal
    /\ height' = height + 1
    /\ UNCHANGED <<goal, status>>

ReturnOk ==
    /\ status = "running"
    /\ height = goal
    /\ status' = "ok"
    /\ UNCHANGED <<height, goal>>

Stop ==
    /\ status = "running"
    /\ status' \in {"error", "panic"}
    /\ UNCHANGED <<height, goal>>

Next == Execute \/ ReturnOk \/ Stop

Spec == Init /\ [][Next]_vars /\ WF_vars(Next)

=============================================================================
