-------------------------- MODULE MC_Transactions ---------------------------
(***************************************************************************)
(* A server that starts on two projects: the public project 1 of olga,     *)
(* which ann has joined, with task 1, and project 2 of ann and bob, with   *)
(* tasks 2 and 3, of which bob works on task 2.                            *)
(***************************************************************************)
EXTENDS Transactions, TLC

CONSTANTS olga, ann, bob, s1, s2, s3

MC_User == {olga, ann, bob}
Two == {s1, s2}
Three == {s1, s2, s3}
One == {s1}
SymmetryTwo == Permutations(Two)

Array(set) == [u \in MC_User |-> IF u \in set THEN 1 ELSE 0]

Row(owner, set) ==
    [owner |-> owner, users |-> Array(set), name |-> "line", description |-> "line"]

Task(p, u) == [project |-> p, assigned |-> u, points |-> 0, max |-> 1]

MC_Projects ==
    [p \in ProjectId |-> CASE p = 1 -> Row(olga, {olga, ann})
                           [] p = 2 -> Row(ann, {ann, bob})
                           [] OTHER -> NoRow]

MC_Tasks ==
    [t \in TaskId |-> CASE t = 1 -> Task(1, NoUser)
                        [] t = 2 -> Task(2, bob)
                        [] t = 3 -> Task(2, NoUser)
                        [] OTHER -> NoRow]

\* Before anybody used the server.
NoProjects == [p \in ProjectId |-> NoRow]
NoTasks == [t \in TaskId |-> NoRow]

MC_Points == {1, 2}
MC_Texts == {"lines", "newline_first"}

Draft(owner, set, list) ==
    [owner |-> owner, users |-> Array(set), name |-> "line",
     description |-> "blank", tasks |-> list]

Todo(points) == [points |-> points, max |-> 1, polygon |-> TRUE]

Good == Draft(olga, {olga, bob}, <<Todo(0), Todo(1)>>)
NoTask == Draft(ann, {ann}, <<>>)
NoOwner == Draft(ann, {bob}, <<Todo(0)>>)

MC_Drafts == {Good, NoTask, NoOwner}

-----------------------------------------------------------------------------
(* Requests.                                                               *)

get(u, p) == [op |-> "getProject", uid |-> u, project |-> p]
getAll(u) == [op |-> "getProjects", uid |-> u]
add(u, p, v) == [op |-> "addUser", uid |-> u, project |-> p, user |-> v]
remove(u, p, v) == [op |-> "removeUser", uid |-> u, project |-> p, user |-> v]
del(u, p) == [op |-> "deleteProject", uid |-> u, project |-> p]
rename(u, p, x) == [op |-> "updateName", uid |-> u, project |-> p, text |-> x]
describe(u, p, x) == [op |-> "updateDescription", uid |-> u, project |-> p, text |-> x]
create(u, d) == [op |-> "addProject", uid |-> u, draft |-> d]
import(u, d) == [op |-> "importProject", uid |-> u, draft |-> d]
assign(u, t) == [op |-> "assignUser", uid |-> u, task |-> t]
unassign(u, t) == [op |-> "unassignUser", uid |-> u, task |-> t]
points(u, t, n) == [op |-> "setProcessPoints", uid |-> u, task |-> t, points |-> n]

\* Every kind of request, most of them one another request can spoil.
MC_Requests == {
    getAll(bob), get(olga, 2), get(ann, 1),
    add(ann, 2, olga), add(olga, 1, bob), add(bob, 2, olga),
    remove(ann, 2, bob), remove(bob, 2, bob), remove(bob, 2, ann), remove(ann, 1, ann),
    remove(ann, 2, ann),
    del(ann, 2), del(olga, 1), del(bob, 2),
    rename(ann, 2, "lines"), rename(ann, 2, "newline_first"), describe(ann, 2, "lines"),
    create(bob, Good), create(ann, NoTask), create(ann, NoOwner), import(ann, Good),
    assign(ann, 2), assign(ann, 3), assign(bob, 3), unassign(bob, 2), unassign(ann, 2),
    points(bob, 2, 1), points(bob, 2, 2), points(olga, 1, 1), points(ann, 2, 1)}

\* Requests that lock several rows, of three sessions that reach them from
\* different sides: bob is not yet in the public project.
Busy == [MC_Tasks EXCEPT ![3] = Task(2, bob)]

LockingRequests == {
    del(ann, 2), remove(ann, 2, bob), unassign(bob, 2), rename(olga, 1, "lines")}

\* One client after the other, from the empty database on.
SerialRequests == {
    getAll(ann), get(bob, 1), create(bob, Good), create(ann, NoTask), import(ann, Good),
    add(ann, 2, olga), add(olga, 1, bob), remove(olga, 1, bob), remove(bob, 2, bob),
    del(ann, 2), del(olga, 1), rename(olga, 1, "lines"), describe(olga, 1, "lines"),
    assign(bob, 1), assign(ann, 1), unassign(bob, 1), points(bob, 1, 1), points(bob, 2, 1)}

\* ann, who is in the public project already, works on task 2.
AnnBusy == [MC_Tasks EXCEPT ![2] = Task(2, ann)]

TaskRequests == {assign(ann, 3), assign(bob, 3), assign(bob, 2), unassign(ann, 2),
                 points(ann, 2, 1), remove(ann, 2, bob)}
=============================================================================
