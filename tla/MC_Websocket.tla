---------------------------- MODULE MC_Websocket ----------------------------
(***************************************************************************)
(* Two tabs of ann and one of bob, and two requests at a time.             *)
(***************************************************************************)
EXTENDS Websocket, TLC

CONSTANTS ann, bob, a1, a2, b1, w1, w2

MC_User == {ann, bob}
MC_Conn == {a1, a2, b1}
MC_UserOf == [c \in MC_Conn |-> IF c = b1 THEN bob ELSE ann]
MC_Worker == {w1, w2}
MC_Recipients == {{ann}, {ann, bob}}
Symmetry == {p @@ q : p \in Permutations(MC_Worker), q \in Permutations({a1, a2})}
=============================================================================
