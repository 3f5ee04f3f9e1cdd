------------------------------ MODULE Services ------------------------------
(***************************************************************************)
(* What the project, task and export services decide before they write     *)
(* (project/project.go, task/task.go, export/export.go): their checks, as  *)
(* predicates over the tables P and T the checks read.  TaskManager.tla    *)
(* evaluates each of them in one step with the write it guards, and        *)
(* Transactions.tla in the separate statements of the code.                *)
(***************************************************************************)
EXTENDS Permission

CONSTANTS
    PublicOwner,         \* the hard-coded owner "12422736"
    MaxTasksPerProject,  \* of config.Conf
    Drafts,              \* the project drafts and exports clients send
    Points,              \* the process points clients send
    Texts                \* the names and descriptions clients send

ASSUME DraftsAssumption ==
    /\ Drafts \subseteq ProjectDraft
    /\ Points \subseteq Int
    /\ Texts \subseteq Text
    /\ PublicOwner \in User

-----------------------------------------------------------------------------
(* Adding a project.                                                       *)

ValidProject(d) ==
    /\ d.owner # NoUser
    /\ d.users[d.owner] > 0
    /\ d.name # "empty"
    /\ ~TooLong(d.description)

\* Mutant: maxProcessPoints is not checked.
ValidTasks_AnyMaximum(d) == \A i \in DOMAIN d.tasks : d.tasks[i].polygon

ValidTasks(d) ==
    \A i \in DOMAIN d.tasks : d.tasks[i].max >= 1 /\ d.tasks[i].polygon

\* A project can be added under the checks of AddProject and AddTasks; one
\* without a task is an error of the GetTasks that ends addTasks.
ValidDraft(d) ==
    /\ Len(d.tasks) \in 1 .. MaxTasksPerProject
    /\ ValidProject(d)
    /\ ValidTasks(d)

\* The importing user becomes the owner, and a member if the export does not
\* list him; the assignments of the export are dropped.
ImportDraft(u, e) ==
    [e EXCEPT !.owner = u,
              !.users = IF e.users[u] > 0 THEN e.users ELSE addUser(e.users, u)]

-----------------------------------------------------------------------------
(* The users of a project.                                                 *)

PublicProject == 1

\* Mutant: no look at the users who are already in the array.
CanAddUser_Again(P, p, u, requester) == VerifyOwnership(P, p, requester)

\* AddUser on the table of projects: only the owner adds, and only a user who
\* is not yet in the array.
CanAddUser(P, p, u, requester) ==
    /\ VerifyOwnership(P, p, requester)
    /\ P[p].users[u] = 0

WithUser(P, p, u) == [P EXCEPT ![p] = updateUsers(@, addUser(@.users, u))]

\* Mutant: the owner can be removed, too.
CanBeRemoved_Owner(P, p, u, removed) ==
    /\ VerifyMembershipProject(P, p, removed)
    /\ u = removed \/ VerifyOwnership(P, p, u)

\* Nobody removes the owner; only the owner removes somebody else.
CanBeRemoved(P, p, u, removed) ==
    /\ VerifyMembershipProject(P, p, removed)
    /\ ~VerifyOwnership(P, p, removed)
    /\ u = removed \/ VerifyOwnership(P, p, u)

\* Both users must be members.
CanRemoveUser(P, p, u, removed) ==
    /\ VerifyMembershipProject(P, p, u)
    /\ CanBeRemoved(P, p, u, removed)

-----------------------------------------------------------------------------
(* Names, descriptions and tasks.                                          *)

ValidName(name) == ~IsBlank(FirstLine(name))

ValidDescription(text) == ~IsBlank(text) /\ ~TooLong(text)

\* Mutant: the present assignment is not looked at.
Assignable_Always(T, t) == T[t] # NoRow

Assignable(T, t) == T[t] # NoRow /\ T[t].assigned = NoUser

\* A project with one entry in "users" needs no assignment, only membership.
MaySetProcessPoints(P, T, u, t) ==
    /\ AssignmentInTaskDefined(P, T, t)
    /\ IF AssignmentInTaskNeeded(P, T, t)
       THEN VerifyAssignment(T, t, u)
       ELSE VerifyMembershipTask(P, T, t, u)

InRange(row, points) == points >= 0 /\ points <= row.max
=============================================================================
