----------------------------- MODULE MC_TaskPage ----------------------------
(***************************************************************************)
(* Two projects, a shared one with two tasks or one, and one of me with    *)
(* one task.                                                               *)
(***************************************************************************)
EXTENDS TaskPage

CONSTANTS shared, own, t1, t2, t3

MC_ProjectOf == [t \in Task |-> IF t = t3 THEN own ELSE shared]
=============================================================================
