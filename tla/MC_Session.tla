----------------------------- MODULE MC_Session -----------------------------
(***************************************************************************)
(* Two people at one browser with two tabs.                                *)
(***************************************************************************)
EXTENDS Session

CONSTANTS ann, bob, tab1, tab2
=============================================================================
