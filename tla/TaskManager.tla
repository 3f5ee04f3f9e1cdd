---------------------------- MODULE TaskManager -----------------------------
(***************************************************************************)
(* What the REST API promises about the stored data: every authenticated   *)
(* request (api/api_util.go, handleAuthenticatedRequest) is one step on    *)
(* the tables, and a request that fails leaves them as they were.          *)
(*                                                                         *)
(* The requesting user u is the UID of the token.  Before its handler      *)
(* runs, every request tries to add that user to the public project (the   *)
(* "HACK" of handleAuthenticatedRequest); that is part of every action.    *)
(* A failed request rolls this back too, so that it is a stuttering step,  *)
(* with one exception: ids a SERIAL column handed out are not given back.  *)
(*                                                                         *)
(* Transactions.tla is the same server statement by statement.             *)
(***************************************************************************)
EXTENDS Services

VARIABLES
    projects,     \* the table "projects"
    tasks,        \* the table "tasks"
    nextProject,  \* the next value of the sequence of projects.id
    nextTask      \* the next value of the sequence of tasks.id

vars == <<projects, tasks, nextProject, nextTask>>

sequences == <<nextProject, nextTask>>

TypeOK ==
    /\ projects \in Projects
    /\ tasks \in Tasks
    /\ nextProject \in 1 .. MaxProject + 1
    /\ nextTask \in 1 .. MaxTask + 1

Init ==
    /\ projects = [p \in ProjectId |-> NoRow]
    /\ tasks = [t \in TaskId |-> NoRow]
    /\ nextProject = 1
    /\ nextTask = 1

-----------------------------------------------------------------------------
\* The projects as the handler of a request of u finds them.
Welcome(u) ==
    IF CanAddUser(projects, PublicProject, u, PublicOwner)
    THEN WithUser(projects, PublicProject, u)
    ELSE projects

-----------------------------------------------------------------------------
(* Reading requests: only the welcome of the user is left of them.         *)

GetProjects(u) ==
    /\ projects' = Welcome(u)
    /\ UNCHANGED <<tasks, sequences>>

\* also the export of a project
GetProject(u, p) ==
    /\ VerifyMembershipProject(Welcome(u), p, u)
    /\ projects' = Welcome(u)
    /\ UNCHANGED <<tasks, sequences>>

-----------------------------------------------------------------------------
(* Adding a project.                                                       *)

IdsLeft(d) ==
    /\ nextProject <= MaxProject
    /\ nextTask + Len(d.tasks) - 1 <= MaxTask

\* Mutant: the lowest id without a row is used instead of a sequence.
AddProjectWithTasks_LowestId(u, d) ==
    /\ IdsLeft(d)
    /\ ValidDraft(d)
    /\ \E p \in ProjectId :
         /\ projects[p] = NoRow
         /\ \A q \in ProjectId : projects[q] = NoRow => p <= q
         /\ projects' = [Welcome(u) EXCEPT ![p] = addProject(d)]
         /\ tasks' = addTasks(tasks, d.tasks, p, nextTask)
    /\ nextProject' = nextProject + 1
    /\ nextTask' = nextTask + Len(d.tasks)

AddProjectWithTasks(u, d) ==
    /\ IdsLeft(d)
    /\ ValidDraft(d)
    /\ projects' = [Welcome(u) EXCEPT ![nextProject] = addProject(d)]
    /\ tasks' = addTasks(tasks, d.tasks, nextProject, nextTask)
    /\ nextProject' = nextProject + 1
    /\ nextTask' = nextTask + Len(d.tasks)

AddProject(u, d) == AddProjectWithTasks(u, d)

ImportProject(u, e) == AddProjectWithTasks(u, ImportDraft(u, e))

\* The row of the project was inserted, then the tasks were refused, or
\* inserted in part or in whole, and the transaction was rolled back: the ids
\* stay used.
AddProjectRolledBack(d) ==
    /\ nextProject <= MaxProject
    /\ Len(d.tasks) <= MaxTasksPerProject
    /\ ValidProject(d)
    /\ nextProject' = nextProject + 1
    /\ \E n \in 0 .. Len(d.tasks) :
         /\ n > 0 => ValidTasks(d) /\ nextTask + n - 1 <= MaxTask
         /\ nextTask' = nextTask + n
    /\ UNCHANGED <<projects, tasks>>

-----------------------------------------------------------------------------
(* Changing and deleting a project.                                        *)

AddUser(u, p, added) ==
    LET P == Welcome(u) IN
    /\ CanAddUser(P, p, added, u)
    /\ projects' = WithUser(P, p, added)
    /\ UNCHANGED <<tasks, sequences>>

\* Mutant: the assignments of the removed user stay.
RemoveUser_KeepsTasks(u, p, removed) ==
    /\ CanRemoveUser(Welcome(u), p, u, removed)
    /\ projects' = [Welcome(u) EXCEPT ![p] = updateUsers(@, removeUser(@.users, removed))]
    /\ UNCHANGED <<tasks, sequences>>

\* The removed user loses his tasks in this project.
RemoveUser(u, p, removed) ==
    LET P == Welcome(u) IN
    /\ CanRemoveUser(P, p, u, removed)
    /\ projects' = [P EXCEPT ![p] = updateUsers(@, removeUser(@.users, removed))]
    /\ tasks' = [t \in TaskId |->
                   IF t \in GetTasks(tasks, p) /\ VerifyAssignment(tasks, t, removed)
                   THEN unassignUser(tasks[t])
                   ELSE tasks[t]]
    /\ UNCHANGED sequences

LeaveProject(u, p) == RemoveUser(u, p, u)

DeleteProject(u, p) ==
    LET P == Welcome(u) IN
    /\ VerifyMembershipProject(P, p, u)
    /\ VerifyOwnership(P, p, u)
    /\ projects' = delete(P, p)
    /\ tasks' = cascade(tasks, p)
    /\ UNCHANGED sequences

UpdateName(u, p, name) ==
    LET P == Welcome(u) IN
    /\ VerifyOwnership(P, p, u)
    /\ ValidName(name)
    /\ projects' = [P EXCEPT ![p] = updateName(@, FirstLine(name))]
    /\ UNCHANGED <<tasks, sequences>>

UpdateDescription(u, p, text) ==
    LET P == Welcome(u) IN
    /\ VerifyOwnership(P, p, u)
    /\ ValidDescription(text)
    /\ projects' = [P EXCEPT ![p] = updateDescription(@, text)]
    /\ UNCHANGED <<tasks, sequences>>

-----------------------------------------------------------------------------
(* Working on a task.                                                      *)

AssignUser(u, t) ==
    /\ Assignable(tasks, t)
    /\ tasks' = [tasks EXCEPT ![t] = assignUser(@, u)]
    /\ projects' = Welcome(u)
    /\ UNCHANGED sequences

UnassignUser(u, t) ==
    /\ VerifyAssignment(tasks, t, u)
    /\ tasks' = [tasks EXCEPT ![t] = unassignUser(@)]
    /\ projects' = Welcome(u)
    /\ UNCHANGED sequences

SetProcessPoints(u, t, points) ==
    /\ MaySetProcessPoints(Welcome(u), tasks, u, t)
    /\ InRange(tasks[t], points)
    /\ tasks' = [tasks EXCEPT ![t] = setProcessPoints(@, points)]
    /\ projects' = Welcome(u)
    /\ UNCHANGED sequences

-----------------------------------------------------------------------------
ProjectRequest(u, p) ==
    \/ GetProject(u, p)
    \/ LeaveProject(u, p)
    \/ DeleteProject(u, p)
    \/ \E v \in User : AddUser(u, p, v) \/ RemoveUser(u, p, v)
    \/ \E x \in Texts : UpdateName(u, p, x) \/ UpdateDescription(u, p, x)

TaskRequest(u, t) ==
    \/ AssignUser(u, t)
    \/ UnassignUser(u, t)
    \/ \E n \in Points : SetProcessPoints(u, t, n)

Next ==
    \/ \E u \in User :
         \/ GetProjects(u)
         \/ \E d \in Drafts : AddProject(u, d) \/ ImportProject(u, d)
         \/ \E p \in ProjectId : ProjectRequest(u, p)
         \/ \E t \in TaskId : TaskRequest(u, t)
    \/ \E u \in User, d \in Drafts :
         AddProjectRolledBack(d) \/ AddProjectRolledBack(ImportDraft(u, d))

Spec == Init /\ [][Next]_vars

-----------------------------------------------------------------------------
(* Properties.                                                             *)

\* The owner of a project is one of its members, whatever users add, import,
\* leave and remove: the code never checks it after the project was added.
OwnerIsMember ==
    \A p \in ProjectId :
        projects[p] # NoRow => projects[p].owner \in Members(projects[p].users)

\* project.go, "Will not be NULL or empty": a project has a task and a name,
\* and a task belongs to a project that exists.
ProjectHasTasks ==
    /\ \A p \in ProjectId :
         projects[p] # NoRow => GetTasks(tasks, p) # {} /\ projects[p].name # "empty"
    /\ \A t \in TaskId : tasks[t] # NoRow => projects[tasks[t].project] # NoRow

\* Users enter the array of an existing project one at a time and only when
\* they are not in it ("User already added"), by whatever way they come: an
\* invitation, the welcome to the public project, or both in one request.
JoinOnce ==
    \A p \in ProjectId : projects[p] # NoRow /\ projects'[p] # NoRow =>
        \A u \in User :
            projects'[p].users[u] > projects[p].users[u] =>
                projects[p].users[u] = 0 /\ projects'[p].users[u] = 1

UsersJoinOnce == [][JoinOnce]_vars

\* Whoever leaves or is removed from a project is assigned to none of its
\* tasks afterwards, also when he was assigned before he was a member.
LeaverKeepsNoTask ==
    \A p \in ProjectId : projects[p] # NoRow /\ projects'[p] # NoRow =>
        \A u \in Members(projects[p].users) \ Members(projects'[p].users) :
            \A t \in GetTasks(tasks', p) : tasks'[t].assigned # u

LeaversKeepNoTask == [][LeaverKeepsNoTask]_vars

\* "cannot overwrite": an assignment ends before the next one begins, and a
\* task changes its assignment and its points in different requests.
Handover ==
    \A t \in TaskId : tasks[t] # NoRow /\ tasks'[t] # NoRow =>
        /\ tasks'[t].assigned # tasks[t].assigned =>
             /\ NoUser \in {tasks[t].assigned, tasks'[t].assigned}
             /\ tasks'[t].points = tasks[t].points
        /\ tasks'[t].points # tasks[t].points => tasks'[t].points \in 0 .. tasks[t].max

NoTakeover == [][Handover]_vars

\* README: "When one user works on a task, no other user is able to also
\* update the process of that task."  Points of a task nobody is assigned to
\* change only in a project whose array of users has one entry, and that
\* entry is the owner.
PointsNeedAssignment ==
    \A t \in TaskId :
        (/\ tasks[t] # NoRow /\ tasks'[t] # NoRow
         /\ tasks'[t].points # tasks[t].points
         /\ tasks[t].assigned = NoUser) =>
            Members(projects'[tasks[t].project].users)
                = {projects'[tasks[t].project].owner}

PointsNeedAssignee == [][PointsNeedAssignment]_vars

\* An id of a deleted project, or of one that was rolled back, never comes
\* back: the tasks, links and notifications that name it stay dead.
DeadId ==
    \A p \in ProjectId : p < nextProject /\ projects[p] = NoRow => projects'[p] = NoRow

DeadIdsStayDead == [][DeadId]_vars
=============================================================================
