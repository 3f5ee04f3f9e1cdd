--------------------------- MODULE MC_TaskManager ---------------------------
(***************************************************************************)
(* Three users, two projects and two tasks.  The drafts make a project of  *)
(* two users with two tasks and one of one task that lists a user twice;   *)
(* the others are refused, each by another check of AddProjectWithTasks.   *)
(***************************************************************************)
EXTENDS TaskManager, TLC

CONSTANTS olga, ann, bob

MC_User == {olga, ann, bob}

Array(once, twice) ==
    [u \in MC_User |-> IF u \in twice THEN 2 ELSE IF u \in once THEN 1 ELSE 0]

Task(points, max) == [points |-> points, max |-> max, polygon |-> TRUE]

Draft(owner, users, name, list) ==
    [owner |-> owner, users |-> users, name |-> name, description |-> "lines",
     tasks |-> list]

Pair == Draft(ann, Array({ann, bob}, {}), "line", <<Task(0, 1), Task(0, 1)>>)

Doubled == Draft(olga, Array({olga}, {ann}), "line", <<Task(0, 1)>>)

Refused == {
    Draft(NoUser, Array({bob}, {}), "empty", <<Task(0, 1)>>),
    Draft(ann, Array({ann}, {}), "line", <<>>),
    Draft(ann, Array({ann}, {}), "line", <<Task(0, 0)>>)}

MC_Drafts == {Pair, Doubled} \cup Refused

MC_Points == {-1, 0, 1, 2}

MC_Texts == {"lines", "newline_first"}
=============================================================================
