--------------------------- MODULE MC_LiveUpdates ---------------------------
(***************************************************************************)
(* A tab of bob, who is a member of ann's first project or may become one, *)
(* as he and carol may of her second, new one.                             *)
(***************************************************************************)
EXTENDS LiveUpdates, TLC

CONSTANTS ann, bob, carol, first, second, tab, s1, s2, c1, c2

MC_User == {ann, bob, carol}
MC_Project == {first, second}
MC_OwnerOf == [x \in MC_Project |-> ann]
MC_UserOf == [t \in {tab} |-> bob]
MC_Members == {[x \in MC_Project |-> IF x = first THEN <<users>> ELSE <<>>] :
                  users \in {{ann}, {ann, bob}}}
Symmetry == {f @@ g : f \in Permutations({s1, s2}), g \in Permutations({c1, c2})}
=============================================================================
