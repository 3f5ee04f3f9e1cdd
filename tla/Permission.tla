----------------------------- MODULE Permission -----------------------------
(***************************************************************************)
(* The permission service (permission/permission.go).  Every check is one  *)
(* SELECT without a row lock; P and T are the tables as that statement     *)
(* sees them.  A check of a project or a task that does not exist fails.   *)
(***************************************************************************)
EXTENDS Tables

VerifyOwnership(P, p, u) == P[p] # NoRow /\ P[p].owner = u

VerifyMembershipProject(P, p, u) == P[p] # NoRow /\ P[p].users[u] > 0

\* The join of the two tables: the task exists, its project exists, and the
\* user is in the array.
VerifyMembershipTask(P, T, t, u) ==
    T[t] # NoRow /\ VerifyMembershipProject(P, T[t].project, u)

VerifyAssignment(T, t, u) == T[t] # NoRow /\ T[t].assigned = u

\* The query has a row (without one the caller gets an error).
AssignmentInTaskDefined(P, T, t) == T[t] # NoRow /\ P[T[t].project] # NoRow

\* Mutant: the number of users is compared the wrong way.
AssignmentInProjectNeeded_Inverted(P, p) == OneEntry(P[p].users)

\* ARRAY_LENGTH(users, 1) # 1
AssignmentInProjectNeeded(P, p) == ~OneEntry(P[p].users)

AssignmentInTaskNeeded(P, T, t) == AssignmentInProjectNeeded(P, T[t].project)
=============================================================================
