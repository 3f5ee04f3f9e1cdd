------------------------- MODULE MC_ProjectCreation -------------------------
(***************************************************************************)
(* Two sizes of polygons and one grid: no cell fits into a small polygon,  *)
(* and two into a large one, as many as a project may have tasks.          *)
(***************************************************************************)
EXTENDS ProjectCreation

MC_Cells == [small |-> [square |-> 0], large |-> [square |-> 2]]
MC_Exports == {<<"small">>, <<"large", "small">>}
=============================================================================
