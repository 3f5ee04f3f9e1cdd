------------------------------ MODULE MC_Users ------------------------------
(***************************************************************************)
(* The owner, a mapper and a user who has only commented on notes; four    *)
(* names for the three.                                                    *)
(***************************************************************************)
EXTENDS Users

MC_InitialName == [u \in 1 .. 3 |-> u]
=============================================================================
