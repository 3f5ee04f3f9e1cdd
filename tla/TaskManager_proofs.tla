------------------------- MODULE TaskManager_proofs -------------------------
(***************************************************************************)
(* Proofs about TaskManager.tla, for every number of users, projects and   *)
(* tasks and whatever drafts, points and texts clients send.               *)
(***************************************************************************)
EXTENDS TaskManager, TLAPS

-----------------------------------------------------------------------------
(* The statements of the stores.                                           *)

\* One more or no more occurrence of a user leaves an array of users.
LEMMA UsersType ==
    ASSUME NEW users \in Users, NEW u \in User
    PROVE  /\ addUser(users, u) \in Users
           /\ removeUser(users, u) \in Users
  BY DEF Users, addUser, removeUser

\* Each UPDATE of a project leaves a row.
LEMMA ProjectUpdateType ==
    ASSUME NEW row \in ProjectRow
    PROVE  /\ \A users \in Users : updateUsers(row, users) \in ProjectRow
           /\ \A text \in Text : updateName(row, text) \in ProjectRow
           /\ \A text \in Text : updateDescription(row, text) \in ProjectRow
  BY DEF ProjectRow, updateUsers, updateName, updateDescription

\* Each UPDATE of a task leaves a row.
LEMMA TaskUpdateType ==
    ASSUME NEW row \in TaskRow
    PROVE  /\ \A u \in User : assignUser(row, u) \in TaskRow
           /\ unassignUser(row) \in TaskRow
           /\ \A n \in Int : setProcessPoints(row, n) \in TaskRow
  BY DEF TaskRow, assignUser, unassignUser, setProcessPoints

\* The first line of a text is a text.
LEMMA FirstLineType ==
    ASSUME NEW text \in Text
    PROVE  FirstLine(text) \in Text
  BY DEF FirstLine, Text

\* An import is a draft like any other.
LEMMA ImportType ==
    ASSUME NEW u \in User, NEW e \in ProjectDraft
    PROVE  ImportDraft(u, e) \in ProjectDraft
  <1>1. e.users \in Users
    BY DEF ProjectDraft
  <1>2. (IF e.users[u] > 0 THEN e.users ELSE addUser(e.users, u)) \in Users
    BY <1>1, UsersType
  <1> QED
    BY <1>2 DEF ProjectDraft, ImportDraft

\* The drafts the server may be asked to add.
AnyDraft == Drafts \cup {ImportDraft(u, d) : u \in User, d \in Drafts}

\* An imported project is a draft like any other.
LEMMA AnyDraftType == AnyDraft \subseteq ProjectDraft
  BY ImportType, DraftsAssumption DEF AnyDraft

\* Adding a user to a project changes the array of users of that row and
\* nothing else.
LEMMA WithUserEffect ==
    ASSUME NEW P \in Projects, NEW p \in ProjectId, NEW u \in User, P[p] # NoRow
    PROVE  /\ WithUser(P, p, u) \in Projects
           /\ \A q \in ProjectId \ {p} : WithUser(P, p, u)[q] = P[q]
           /\ WithUser(P, p, u)[p] # NoRow
           /\ WithUser(P, p, u)[p].owner = P[p].owner
           /\ WithUser(P, p, u)[p].name = P[p].name
           /\ WithUser(P, p, u)[p].users[u] = P[p].users[u] + 1
           /\ \A v \in User \ {u} : WithUser(P, p, u)[p].users[v] = P[p].users[v]
  <1> DEFINE row == updateUsers(P[p], addUser(P[p].users, u))
  <1>1. P[p] \in ProjectRow /\ P[p].users \in Users
    BY DEF Projects, ProjectRow
  <1>2. row \in ProjectRow
    BY <1>1, UsersType, ProjectUpdateType
  <1>3. row # NoRow
    BY <1>2, NoRowAssumption
  <1>4. row.owner = P[p].owner /\ row.name = P[p].name
    BY <1>1 DEF ProjectRow, updateUsers
  <1>5. row.users = addUser(P[p].users, u)
    BY <1>1 DEF ProjectRow, updateUsers
  <1>6. /\ row.users[u] = P[p].users[u] + 1
        /\ \A v \in User \ {u} : row.users[v] = P[p].users[v]
    BY <1>1, <1>5 DEF Users, addUser
  <1>7. WithUser(P, p, u) = [P EXCEPT ![p] = row]
    BY DEF WithUser
  <1> HIDE DEF row
  <1> QED
    BY <1>2, <1>3, <1>4, <1>6, <1>7 DEF Projects

-----------------------------------------------------------------------------
(* The welcome to the public project.                                      *)

\* The tables P and Q have the same projects with the same owners and names,
\* and the users of Q are those of P and perhaps u, who was not in the array.
Welcomed(P, Q, u) ==
    \A p \in ProjectId :
        /\ Q[p] = NoRow <=> P[p] = NoRow
        /\ P[p] # NoRow =>
             /\ Q[p].owner = P[p].owner
             /\ Q[p].name = P[p].name
             /\ \A v \in User :
                  \/ Q[p].users[v] = P[p].users[v]
                  \/ v = u /\ P[p].users[v] = 0 /\ Q[p].users[v] = 1

\* What every request does before its handler.
LEMMA WelcomeEffect ==
    ASSUME projects \in Projects, NEW u \in User
    PROVE  Welcome(u) \in Projects /\ Welcomed(projects, Welcome(u), u)
  <1>1. CASE CanAddUser(projects, PublicProject, u, PublicOwner)
    <2>1. /\ PublicProject \in ProjectId
          /\ projects[PublicProject] # NoRow
          /\ projects[PublicProject].users[u] = 0
      BY <1>1, BoundsAssumption DEF CanAddUser, VerifyOwnership, PublicProject, ProjectId
    <2>2. Welcome(u) = WithUser(projects, PublicProject, u)
      BY <1>1 DEF Welcome
    <2> QED
      BY <2>1, <2>2, WithUserEffect DEF Welcomed
  <1>2. CASE ~CanAddUser(projects, PublicProject, u, PublicOwner)
    BY <1>2 DEF Welcome, Welcomed
  <1> QED
    BY <1>1, <1>2

-----------------------------------------------------------------------------
(* Type correctness.                                                       *)

\* Adding a project keeps the types.
LEMMA AddProjectType ==
    ASSUME TypeOK, NEW u \in User, NEW d \in ProjectDraft, AddProjectWithTasks(u, d)
    PROVE  TypeOK'
  <1> DEFINE n == Len(d.tasks)
  <1>1. /\ nextProject \in ProjectId /\ nextTask \in Nat
        /\ n \in Nat /\ d.tasks \in Seq(TaskDraft)
        /\ nextTask + n - 1 <= MaxTask
        /\ nextProject \in 1 .. MaxProject /\ nextTask \in 1 .. MaxTask + 1
    BY DEF TypeOK, AddProjectWithTasks, IdsLeft, ProjectDraft, ProjectId
  <1>2. projects' \in Projects
    <2>1. addProject(d) \in ProjectRow
      BY DEF AddProjectWithTasks, ValidDraft, ValidProject, ProjectDraft, ProjectRow, addProject
    <2>2. projects' = [Welcome(u) EXCEPT ![nextProject] = addProject(d)]
      BY DEF AddProjectWithTasks
    <2> QED
      BY <2>1, <2>2, WelcomeEffect DEF TypeOK, Projects
  <1>3. tasks' \in Tasks
    <2>1. \A i \in 1 .. n : addTask(d.tasks[i], nextProject) \in TaskRow
      <3> SUFFICES ASSUME NEW i \in 1 .. n PROVE addTask(d.tasks[i], nextProject) \in TaskRow
        OBVIOUS
      <3>1. d.tasks[i] \in TaskDraft /\ d.tasks[i].max >= 1
        BY <1>1 DEF AddProjectWithTasks, ValidDraft, ValidTasks
      <3> QED
        BY <3>1, <1>1 DEF addTask, TaskRow, TaskDraft
    <2>2. \A t \in nextTask .. nextTask + n - 1 : t - nextTask + 1 \in 1 .. n
      BY <1>1
    <2>3. tasks' = addTasks(tasks, d.tasks, nextProject, nextTask)
      BY DEF AddProjectWithTasks
    <2> QED
      BY <2>1, <2>2, <2>3 DEF TypeOK, Tasks, addTasks
  <1>4. nextProject' \in 1 .. MaxProject + 1 /\ nextTask' \in 1 .. MaxTask + 1
    BY <1>1, BoundsAssumption DEF AddProjectWithTasks
  <1> QED
    BY <1>2, <1>3, <1>4 DEF TypeOK

\* So do the ids a refused project leaves behind.
LEMMA AddProjectRolledBackType ==
    ASSUME TypeOK, NEW d \in ProjectDraft, AddProjectRolledBack(d)
    PROVE  TypeOK'
  <1>1. Len(d.tasks) \in Nat
    BY DEF ProjectDraft
  <1>2. projects' \in Projects /\ tasks' \in Tasks
    BY DEF TypeOK, AddProjectRolledBack
  <1>3. nextProject' \in 1 .. MaxProject + 1
    BY BoundsAssumption DEF TypeOK, AddProjectRolledBack
  <1>4. nextTask' \in 1 .. MaxTask + 1
    BY <1>1, BoundsAssumption DEF TypeOK, AddProjectRolledBack
  <1> QED
    BY <1>2, <1>3, <1>4 DEF TypeOK

\* So does every request about a project.
LEMMA ProjectRequestType ==
    ASSUME TypeOK, NEW u \in User, NEW p \in ProjectId, ProjectRequest(u, p)
    PROVE  TypeOK'
  <1> DEFINE P == Welcome(u)
  <1>1. P \in Projects
    BY WelcomeEffect DEF TypeOK
  <1>2. P[p] # NoRow => P[p] \in ProjectRow /\ P[p].users \in Users
    BY <1>1 DEF Projects, ProjectRow
  <1>3. CASE GetProject(u, p)
    BY <1>1, <1>3 DEF GetProject, TypeOK, sequences
  <1>4. ASSUME NEW v \in User, RemoveUser(u, p, v)
        PROVE  TypeOK'
    <2>1. P[p] # NoRow
      BY <1>4 DEF RemoveUser, CanRemoveUser, VerifyMembershipProject
    <2>2. updateUsers(P[p], removeUser(P[p].users, v)) \in ProjectRow
      BY <1>2, <2>1, UsersType, ProjectUpdateType
    <2>3. projects' \in Projects
      BY <1>1, <1>4, <2>2 DEF RemoveUser, Projects
    <2>4. \A t \in TaskId : t \in GetTasks(tasks, p) => unassignUser(tasks[t]) \in TaskRow
      BY TaskUpdateType DEF GetTasks, TypeOK, Tasks
    <2>5. tasks' \in Tasks
      BY <1>4, <2>4 DEF RemoveUser, TypeOK, Tasks
    <2> QED
      BY <1>4, <2>3, <2>5 DEF RemoveUser, TypeOK, sequences
  <1>5. CASE LeaveProject(u, p)
    BY <1>4, <1>5 DEF LeaveProject
  <1>6. CASE DeleteProject(u, p)
    BY <1>1, <1>6 DEF DeleteProject, TypeOK, sequences, delete, cascade, Projects, Tasks
  <1>7. ASSUME NEW v \in User, AddUser(u, p, v)
        PROVE  TypeOK'
    <2>1. P[p] # NoRow
      BY <1>7 DEF AddUser, CanAddUser, VerifyOwnership
    <2> QED
      BY <1>1, <1>7, <2>1, WithUserEffect DEF AddUser, TypeOK, sequences
  <1>8. ASSUME NEW x \in Texts, UpdateName(u, p, x)
        PROVE  TypeOK'
    <2>1. P[p] # NoRow
      BY <1>8 DEF UpdateName, VerifyOwnership
    <2>2. updateName(P[p], FirstLine(x)) \in ProjectRow
      BY <1>2, <2>1, FirstLineType, ProjectUpdateType, DraftsAssumption
    <2> QED
      BY <1>1, <1>8, <2>2 DEF UpdateName, TypeOK, sequences, Projects
  <1>9. ASSUME NEW x \in Texts, UpdateDescription(u, p, x)
        PROVE  TypeOK'
    <2>1. P[p] # NoRow
      BY <1>9 DEF UpdateDescription, VerifyOwnership
    <2>2. updateDescription(P[p], x) \in ProjectRow
      BY <1>2, <2>1, ProjectUpdateType, DraftsAssumption
    <2> QED
      BY <1>1, <1>9, <2>2 DEF UpdateDescription, TypeOK, sequences, Projects
  <1> QED
    BY <1>3, <1>4, <1>5, <1>6, <1>7, <1>8, <1>9 DEF ProjectRequest

\* And every request about a task.
LEMMA TaskRequestType ==
    ASSUME TypeOK, NEW u \in User, NEW t \in TaskId, TaskRequest(u, t)
    PROVE  TypeOK'
  <1>1. Welcome(u) \in Projects
    BY WelcomeEffect DEF TypeOK
  <1>2. tasks[t] # NoRow => tasks[t] \in TaskRow
    BY DEF TypeOK, Tasks
  <1>3. CASE AssignUser(u, t)
    <2>1. assignUser(tasks[t], u) \in TaskRow
      BY <1>2, <1>3, TaskUpdateType DEF AssignUser, Assignable
    <2> QED
      BY <1>1, <1>3, <2>1 DEF AssignUser, TypeOK, sequences, Tasks
  <1>4. CASE UnassignUser(u, t)
    <2>1. unassignUser(tasks[t]) \in TaskRow
      BY <1>2, <1>4, TaskUpdateType DEF UnassignUser, VerifyAssignment
    <2> QED
      BY <1>1, <1>4, <2>1 DEF UnassignUser, TypeOK, sequences, Tasks
  <1>5. ASSUME NEW n \in Points, SetProcessPoints(u, t, n)
        PROVE  TypeOK'
    <2>1. setProcessPoints(tasks[t], n) \in TaskRow
      BY <1>2, <1>5, TaskUpdateType, DraftsAssumption
         DEF SetProcessPoints, MaySetProcessPoints, AssignmentInTaskDefined
    <2> QED
      BY <1>1, <1>5, <2>1 DEF SetProcessPoints, TypeOK, sequences, Tasks
  <1> QED
    BY <1>3, <1>4, <1>5 DEF TaskRequest

\* The actions of the next-state relation, one by one.
LEMMA NextCases ==
    ASSUME [Next]_vars
    PROVE  \/ \E u \in User : GetProjects(u)
           \/ \E u \in User, d \in AnyDraft : AddProjectWithTasks(u, d)
           \/ \E u \in User, p \in ProjectId : ProjectRequest(u, p)
           \/ \E u \in User, t \in TaskId : TaskRequest(u, t)
           \/ \E d \in AnyDraft : AddProjectRolledBack(d)
           \/ UNCHANGED vars
  BY DEF Next, AddProject, ImportProject, AnyDraft

\* Type correctness is inductive.
LEMMA TypeStep ==
    ASSUME TypeOK, [Next]_vars
    PROVE  TypeOK'
  <1>1. ASSUME NEW u \in User, GetProjects(u)
        PROVE  TypeOK'
    BY <1>1, WelcomeEffect DEF GetProjects, TypeOK, sequences
  <1>2. CASE UNCHANGED vars
    BY <1>2 DEF vars, TypeOK
  <1> QED
    BY <1>1, <1>2, NextCases, AnyDraftType, AddProjectType, AddProjectRolledBackType,
       ProjectRequestType, TaskRequestType

\* Every row of the two tables has the columns of its table, the sequences
\* stay in their bounds, and no user is in an array less than zero times,
\* after any sequence of requests.
THEOREM TypeCorrect == Spec => []TypeOK
  <1>1. Init => TypeOK
    BY BoundsAssumption DEF Init, TypeOK, Projects, Tasks
  <1> QED
    BY <1>1, TypeStep, PTL DEF Spec

-----------------------------------------------------------------------------
(* The inductive invariant, and what a step does to one row of "projects". *)

\* No row has an id its sequence will hand out: without this a new project
\* could take the place, or the tasks, of another.
Fresh ==
    /\ \A p \in ProjectId : projects[p] # NoRow => p < nextProject
    /\ \A t \in TaskId : tasks[t] # NoRow => t < nextTask

IInv == TypeOK /\ OwnerIsMember /\ ProjectHasTasks /\ Fresh

\* User u works on no task of project p after the step.
Released(p, u) ==
    \A t \in TaskId : tasks'[t] # NoRow /\ tasks'[t].project = p => tasks'[t].assigned # u

\* The row of p in the table Q, compared with the present one: the owner is
\* the same, a name is never lost, and each user is in the array as before, or
\* once and was not in it, or no more: then he is not the owner and released.
Successor(Q, p) ==
    /\ Q[p].owner = projects[p].owner
    /\ Q[p].name = "empty" => projects[p].name = "empty"
    /\ \A v \in User :
         \/ Q[p].users[v] = projects[p].users[v]
         \/ projects[p].users[v] = 0 /\ Q[p].users[v] = 1
         \/ v # Q[p].owner /\ Q[p].users[v] = 0 /\ Released(p, v)

Successors(Q) ==
    \A p \in ProjectId : projects[p] # NoRow /\ Q[p] # NoRow => Successor(Q, p)

\* No row of Q is new.
NoneNew(Q) == \A p \in ProjectId : projects[p] = NoRow => Q[p] = NoRow

\* A row that is not in Q any more has left no task.
NoneLost(Q) ==
    \A p \in ProjectId : projects[p] # NoRow /\ Q[p] = NoRow => GetTasks(tasks', p) = {}

Rows(Q) == Successors(Q) /\ NoneNew(Q) /\ NoneLost(Q)

\* The welcome makes successors of all rows.
LEMMA WelcomeSuccessors ==
    ASSUME projects \in Projects, NEW u \in User
    PROVE  Rows(Welcome(u))
  BY WelcomeEffect DEF Welcomed, Rows, Successors, Successor, NoneNew, NoneLost

\* So does a request about a project, which adds none.
LEMMA ProjectRequestSuccessors ==
    ASSUME TypeOK, NEW u \in User, NEW p \in ProjectId, ProjectRequest(u, p)
    PROVE  Rows(projects')
  <1> DEFINE P == Welcome(u)
  <1>1. /\ P \in Projects /\ Welcomed(projects, P, u)
        /\ Successors(P) /\ NoneNew(P) /\ NoneLost(P)
    BY WelcomeEffect, WelcomeSuccessors DEF TypeOK, Rows
  <1> HIDE DEF P
  <1> DEFINE Only(row) ==
        /\ P[p] # NoRow
        /\ projects' = [P EXCEPT ![p] = row]
        /\ row # NoRow
        /\ row.owner = P[p].owner
        /\ row.name = "empty" => P[p].name = "empty"
  <1>2. ASSUME NEW row, Only(row),
               \A v \in User : \/ row.users[v] = P[p].users[v]
                               \/ v # P[p].owner /\ row.users[v] = 0 /\ Released(p, v)
        PROVE  Rows(projects')
    <2>1. \A q \in ProjectId : projects'[q] = IF q = p THEN row ELSE P[q]
      BY <1>1, <1>2 DEF Projects
    <2>2. NoneNew(projects') /\ NoneLost(projects')
      BY <2>1, <1>1, <1>2 DEF NoneNew, NoneLost
    <2>3. projects[p] # NoRow => Successor(projects', p)
      BY <2>1, <1>1, <1>2 DEF Successors, Successor
    <2>4. \A q \in ProjectId \ {p} : projects'[q] = P[q]
      BY <2>1
    <2> QED
      BY <2>2, <2>3, <2>4, <1>1 DEF Rows, Successors, Successor
  <1>3. P[p] # NoRow => P[p] \in ProjectRow /\ P[p].users \in Users
    BY <1>1 DEF Projects, ProjectRow
  <1>4. CASE GetProject(u, p)
    BY <1>1, <1>4 DEF GetProject, P, Rows
  <1>5. ASSUME NEW removed \in User, RemoveUser(u, p, removed)
        PROVE  Rows(projects')
    <2> DEFINE row == updateUsers(P[p], removeUser(P[p].users, removed))
    <2>1. P[p] # NoRow /\ P[p].owner # removed
      BY <1>5 DEF RemoveUser, CanRemoveUser, CanBeRemoved, VerifyMembershipProject,
                  VerifyOwnership, P
    <2>2. row \in ProjectRow
      BY <1>3, <2>1, UsersType, ProjectUpdateType
    <2>3. row.owner = P[p].owner /\ row.name = P[p].name
      BY <1>3, <2>1 DEF updateUsers, ProjectRow
    <2>4. row.users = removeUser(P[p].users, removed)
      BY <1>3, <2>1 DEF updateUsers, ProjectRow
    <2>5. \A v \in User : row.users[v] = IF v = removed THEN 0 ELSE P[p].users[v]
      BY <2>4, <1>3, <2>1 DEF removeUser, Users
    <2>6. projects' = [P EXCEPT ![p] = row]
      BY <1>5 DEF RemoveUser, P
    <2>7. Only(row)
      BY <2>1, <2>2, <2>3, <2>6, NoRowAssumption
    <2>8. Released(p, removed)
      <3> SUFFICES ASSUME NEW t \in TaskId, tasks'[t] # NoRow, tasks'[t].project = p
                   PROVE  tasks'[t].assigned # removed
        BY DEF Released
      <3>1. tasks[t] \in TaskRow \cup {NoRow}
        BY DEF TypeOK, Tasks
      <3>2. tasks'[t] = IF t \in GetTasks(tasks, p) /\ VerifyAssignment(tasks, t, removed)
                        THEN unassignUser(tasks[t])
                        ELSE tasks[t]
        BY <1>5 DEF RemoveUser
      <3>3. CASE t \in GetTasks(tasks, p) /\ VerifyAssignment(tasks, t, removed)
        BY <3>1, <3>2, <3>3, NoUserAssumption DEF VerifyAssignment, unassignUser, TaskRow
      <3>4. CASE ~(t \in GetTasks(tasks, p) /\ VerifyAssignment(tasks, t, removed))
        BY <3>2, <3>4 DEF VerifyAssignment, GetTasks
      <3> QED
        BY <3>3, <3>4
    <2> HIDE DEF row, Only
    <2> QED
      BY <1>2, <2>1, <2>5, <2>7, <2>8
  <1>6. CASE LeaveProject(u, p)
    BY <1>5, <1>6 DEF LeaveProject
  <1>7. CASE DeleteProject(u, p)
    <2>1. projects' = [P EXCEPT ![p] = NoRow]
      BY <1>7 DEF DeleteProject, delete, P
    <2>2. GetTasks(tasks', p) = {}
      BY <1>7, NoRowAssumption DEF DeleteProject, cascade, GetTasks
    <2> QED
      BY <1>1, <2>1, <2>2 DEF Rows, Successors, Successor, NoneNew, NoneLost, Projects
  <1>8. ASSUME NEW added \in User, AddUser(u, p, added)
        PROVE  Rows(projects')
    <2>1. P[p] # NoRow /\ P[p].users[added] = 0 /\ projects' = WithUser(P, p, added)
      BY <1>8 DEF AddUser, CanAddUser, VerifyOwnership, P
    <2>2. /\ \A q \in ProjectId \ {p} : projects'[q] = P[q]
          /\ projects'[p].owner = P[p].owner
          /\ projects'[p].name = P[p].name
          /\ projects'[p].users[added] = 1
          /\ \A v \in User \ {added} : projects'[p].users[v] = P[p].users[v]
      BY <1>1, <2>1, WithUserEffect
    <2>3. projects[p] # NoRow /\ projects[p].users[added] = 0
      BY <1>1, <2>1 DEF Welcomed
    <2>4. projects'[p] # NoRow
      BY <1>1, <2>1, WithUserEffect
    <2>5. Successor(projects', p)
      BY <1>1, <2>1, <2>2, <2>3 DEF Successors, Successor
    <2> QED
      BY <1>1, <2>1, <2>2, <2>4, <2>5 DEF Rows, Successors, Successor, NoneNew, NoneLost
  <1>9. ASSUME NEW x \in Texts, UpdateName(u, p, x)
        PROVE  Rows(projects')
    <2> DEFINE row == updateName(P[p], FirstLine(x))
    <2>1. P[p] # NoRow /\ FirstLine(x) # "empty" /\ projects' = [P EXCEPT ![p] = row]
      BY <1>9 DEF UpdateName, VerifyOwnership, ValidName, IsBlank, P
    <2>2. row \in ProjectRow
      BY <1>3, <2>1, FirstLineType, ProjectUpdateType, DraftsAssumption
    <2>3. row.owner = P[p].owner /\ row.users = P[p].users /\ row.name # "empty"
      BY <1>3, <2>1 DEF updateName, ProjectRow
    <2>4. Only(row)
      BY <2>1, <2>2, <2>3, NoRowAssumption
    <2> HIDE DEF row, Only
    <2> QED
      BY <1>2, <2>3, <2>4
  <1>10. ASSUME NEW x \in Texts, UpdateDescription(u, p, x)
         PROVE  Rows(projects')
    <2> DEFINE row == updateDescription(P[p], x)
    <2>1. P[p] # NoRow /\ projects' = [P EXCEPT ![p] = row]
      BY <1>10 DEF UpdateDescription, VerifyOwnership, P
    <2>2. row \in ProjectRow
      BY <1>3, <2>1, ProjectUpdateType, DraftsAssumption
    <2>3. row.owner = P[p].owner /\ row.users = P[p].users /\ row.name = P[p].name
      BY <1>3, <2>1 DEF updateDescription, ProjectRow
    <2>4. Only(row)
      BY <2>1, <2>2, <2>3, NoRowAssumption
    <2> HIDE DEF row, Only
    <2> QED
      BY <1>2, <2>3, <2>4
  <1> QED
    BY <1>4, <1>5, <1>6, <1>7, <1>8, <1>9, <1>10 DEF ProjectRequest

\* A step changes a row of "projects" only into a successor of it, and a new
\* row is the project a request adds at the next id.
LEMMA ProjectSteps ==
    ASSUME TypeOK, Fresh, [Next]_vars
    PROVE  /\ Successors(projects')
           /\ NoneLost(projects')
           /\ \/ NoneNew(projects')
              \/ \E u \in User, d \in AnyDraft : AddProjectWithTasks(u, d)
  <1>1. ASSUME projects' = projects
        PROVE  Rows(projects')
    BY <1>1 DEF Rows, Successors, Successor, NoneNew, NoneLost
  <1>2. ASSUME NEW u \in User, projects' = Welcome(u)
        PROVE  Rows(projects')
    BY <1>2, WelcomeSuccessors DEF TypeOK
  <1>3. ASSUME NEW u \in User, GetProjects(u)
        PROVE  projects' = Welcome(u)
    BY <1>3 DEF GetProjects
  <1>4. ASSUME NEW u \in User, NEW t \in TaskId, TaskRequest(u, t)
        PROVE  projects' = Welcome(u)
    BY <1>4 DEF TaskRequest, AssignUser, UnassignUser, SetProcessPoints
  <1>5. ASSUME NEW u \in User, NEW d \in AnyDraft, AddProjectWithTasks(u, d)
        PROVE  Successors(projects') /\ NoneLost(projects')
    <2>1. projects' = [Welcome(u) EXCEPT ![nextProject] = addProject(d)]
      BY <1>5 DEF AddProjectWithTasks
    <2>2. Welcome(u) \in Projects /\ Successors(Welcome(u)) /\ NoneLost(Welcome(u))
      BY WelcomeEffect, WelcomeSuccessors DEF TypeOK, Rows
    <2>3. \A p \in ProjectId : p # nextProject => projects'[p] = Welcome(u)[p]
      BY <2>1, <2>2 DEF Projects
    <2>4. \A p \in ProjectId : projects[p] # NoRow => p # nextProject
      BY DEF Fresh, TypeOK, ProjectId
    <2> QED
      BY <2>2, <2>3, <2>4 DEF Successors, Successor, NoneLost
  <1>6. ASSUME NEW d \in AnyDraft, AddProjectRolledBack(d)
        PROVE  projects' = projects
    BY <1>6 DEF AddProjectRolledBack
  <1> QED
    BY <1>1, <1>2, <1>3, <1>4, <1>5, <1>6, NextCases, ProjectRequestSuccessors DEF vars, Rows

-----------------------------------------------------------------------------
(* What a step does to one row of "tasks".                                 *)

\* A task that is still there belongs to the same project with the same
\* maximum, changes its assignment or its points but not both, and
\* disappears only together with its project; none is new.
TaskSuccessor(t) ==
    /\ tasks[t] = NoRow => tasks'[t] = NoRow
    /\ tasks[t] # NoRow /\ tasks'[t] = NoRow => projects'[tasks[t].project] = NoRow
    /\ tasks[t] # NoRow /\ tasks'[t] # NoRow =>
         /\ tasks'[t].project = tasks[t].project
         /\ tasks'[t].assigned # tasks[t].assigned =>
              /\ NoUser \in {tasks[t].assigned, tasks'[t].assigned}
              /\ tasks'[t].points = tasks[t].points
         /\ tasks'[t].points # tasks[t].points => tasks'[t].points \in 0 .. tasks[t].max

TaskSuccessors == \A t \in TaskId : TaskSuccessor(t)

\* The requests about a project.
LEMMA ProjectRequestTasks ==
    ASSUME TypeOK, NEW u \in User, NEW p \in ProjectId, ProjectRequest(u, p)
    PROVE  TaskSuccessors
  <1>1. CASE UNCHANGED tasks
    BY <1>1 DEF TaskSuccessors, TaskSuccessor
  <1>2. ASSUME NEW removed \in User, RemoveUser(u, p, removed)
        PROVE  TaskSuccessors
    <2> SUFFICES ASSUME NEW t \in TaskId PROVE TaskSuccessor(t)
      BY DEF TaskSuccessors
    <2>1. tasks'[t] = IF t \in GetTasks(tasks, p) /\ VerifyAssignment(tasks, t, removed)
                      THEN unassignUser(tasks[t])
                      ELSE tasks[t]
      BY <1>2 DEF RemoveUser
    <2>2. CASE t \in GetTasks(tasks, p) /\ VerifyAssignment(tasks, t, removed)
      <3>1. tasks[t] \in TaskRow /\ tasks'[t] \in TaskRow
        BY <2>1, <2>2, TaskUpdateType DEF GetTasks, TypeOK, Tasks
      <3>2. /\ tasks'[t].project = tasks[t].project
            /\ tasks'[t].points = tasks[t].points
            /\ tasks'[t].assigned = NoUser
        BY <2>1, <2>2, <3>1 DEF unassignUser, TaskRow
      <3> QED
        BY <3>1, <3>2, NoRowAssumption DEF TaskSuccessor
    <2>3. CASE ~(t \in GetTasks(tasks, p) /\ VerifyAssignment(tasks, t, removed))
      BY <2>1, <2>3 DEF TaskSuccessor
    <2> QED
      BY <2>2, <2>3
  <1>3. ASSUME DeleteProject(u, p)
        PROVE  TaskSuccessors
    <2>1. projects'[p] = NoRow
      BY <1>3, WelcomeEffect DEF DeleteProject, delete, TypeOK, Projects
    <2>2. tasks' = cascade(tasks, p)
      BY <1>3 DEF DeleteProject
    <2> QED
      BY <2>1, <2>2 DEF cascade, GetTasks, TaskSuccessors, TaskSuccessor
  <1> QED
    BY <1>1, <1>2, <1>3
       DEF ProjectRequest, GetProject, LeaveProject, AddUser, UpdateName, UpdateDescription

\* The requests about a task.
LEMMA TaskRequestTasks ==
    ASSUME TypeOK, NEW u \in User, NEW t \in TaskId, TaskRequest(u, t)
    PROVE  TaskSuccessors
  <1>1. ASSUME NEW row \in TaskRow, tasks[t] # NoRow, tasks' = [tasks EXCEPT ![t] = row],
               row.project = tasks[t].project,
               \/ /\ row.points = tasks[t].points
                  /\ NoUser \in {tasks[t].assigned, row.assigned}
               \/ /\ row.assigned = tasks[t].assigned
                  /\ row.points \in 0 .. tasks[t].max
        PROVE  TaskSuccessors
    <2>1. \A k \in TaskId : tasks'[k] = IF k = t THEN row ELSE tasks[k]
      BY <1>1 DEF TypeOK, Tasks
    <2>2. row # NoRow
      BY NoRowAssumption
    <2> QED
      BY <1>1, <2>1, <2>2 DEF TaskSuccessors, TaskSuccessor
  <1>2. tasks[t] # NoRow => tasks[t] \in TaskRow
    BY DEF TypeOK, Tasks
  <1>3. CASE AssignUser(u, t)
    <2> DEFINE row == assignUser(tasks[t], u)
    <2>1. /\ tasks[t] # NoRow /\ tasks[t].assigned = NoUser
          /\ tasks' = [tasks EXCEPT ![t] = row]
      BY <1>3 DEF AssignUser, Assignable
    <2>2. row \in TaskRow /\ row.project = tasks[t].project /\ row.points = tasks[t].points
      BY <1>2, <2>1, TaskUpdateType DEF assignUser, TaskRow
    <2> HIDE DEF row
    <2> QED
      BY <1>1, <2>1, <2>2
  <1>4. CASE UnassignUser(u, t)
    <2> DEFINE row == unassignUser(tasks[t])
    <2>1. tasks[t] # NoRow /\ tasks' = [tasks EXCEPT ![t] = row]
      BY <1>4 DEF UnassignUser, VerifyAssignment
    <2>2. /\ row \in TaskRow /\ row.project = tasks[t].project
          /\ row.points = tasks[t].points /\ row.assigned = NoUser
      BY <1>2, <2>1, TaskUpdateType DEF unassignUser, TaskRow
    <2> HIDE DEF row
    <2> QED
      BY <1>1, <2>1, <2>2
  <1>5. ASSUME NEW n \in Points, SetProcessPoints(u, t, n)
        PROVE  TaskSuccessors
    <2> DEFINE row == setProcessPoints(tasks[t], n)
    <2>1. /\ tasks[t] # NoRow /\ n \in Int
          /\ n >= 0 /\ n <= tasks[t].max
          /\ tasks' = [tasks EXCEPT ![t] = row]
      BY <1>5, DraftsAssumption
         DEF SetProcessPoints, MaySetProcessPoints, AssignmentInTaskDefined, InRange
    <2>2. /\ row \in TaskRow /\ row.project = tasks[t].project
          /\ row.points = n /\ row.assigned = tasks[t].assigned
      BY <1>2, <2>1, TaskUpdateType DEF setProcessPoints, TaskRow
    <2>3. n \in 0 .. tasks[t].max
      BY <1>2, <2>1 DEF TaskRow
    <2> HIDE DEF row
    <2> QED
      BY <1>1, <2>1, <2>2, <2>3
  <1> QED
    BY <1>3, <1>4, <1>5 DEF TaskRequest

\* The tasks of a new project: they belong to it, there is at least one, and
\* no task that was there is touched.
LEMMA AddProjectTasks ==
    ASSUME TypeOK, Fresh, NEW u \in User, NEW d \in AnyDraft, AddProjectWithTasks(u, d)
    PROVE  /\ \A t \in TaskId : tasks[t] # NoRow => tasks'[t] = tasks[t]
           /\ \A t \in TaskId : tasks[t] = NoRow /\ tasks'[t] # NoRow =>
                /\ tasks'[t].project = nextProject
                /\ t < nextTask'
           /\ GetTasks(tasks', nextProject) # {}
  <1> DEFINE n == Len(d.tasks)
  <1>1. /\ n \in Nat \ {0} /\ nextTask \in Nat \ {0} /\ nextTask + n - 1 <= MaxTask
        /\ nextTask' = nextTask + n
    BY AnyDraftType DEF TypeOK, AddProjectWithTasks, ValidDraft, IdsLeft, ProjectDraft
  <1>2. \A t \in TaskId : tasks'[t] = IF t \in nextTask .. nextTask + n - 1
                                     THEN addTask(d.tasks[t - nextTask + 1], nextProject)
                                     ELSE tasks[t]
    BY DEF AddProjectWithTasks, addTasks
  <1>3. \A t \in TaskId : tasks[t] # NoRow => t \notin nextTask .. nextTask + n - 1
    BY <1>1 DEF Fresh, TaskId
  <1>4. \A t \in TaskId : t \in nextTask .. nextTask + n - 1 =>
            t < nextTask' /\ tasks'[t].project = nextProject
    <2>1. \A x : addTask(x, nextProject).project = nextProject
      BY DEF addTask
    <2>2. \A t \in nextTask .. nextTask + n - 1 : t < nextTask'
      BY <1>1
    <2> QED
      BY <1>2, <2>1, <2>2
  <1>5. nextTask \in TaskId /\ nextTask \in nextTask .. nextTask + n - 1
    BY <1>1, BoundsAssumption DEF TaskId
  <1>6. tasks'[nextTask] # NoRow
    <2>1. TypeOK'
      BY AnyDraftType, AddProjectType
    <2>2. 1 \in 1 .. n /\ d.tasks[1] \in TaskDraft /\ d.tasks[1].max >= 1
      BY <1>1, AnyDraftType DEF AddProjectWithTasks, ValidDraft, ValidTasks, ProjectDraft
    <2>3. nextProject \in ProjectId
      BY DEF TypeOK, AddProjectWithTasks, IdsLeft, ProjectId
    <2>4. addTask(d.tasks[1], nextProject) \in TaskRow
      BY <2>2, <2>3 DEF addTask, TaskRow, TaskDraft
    <2>5. tasks'[nextTask] = addTask(d.tasks[1], nextProject)
      BY <1>1, <1>2, <1>5
    <2> QED
      BY <2>4, <2>5, NoRowAssumption
  <1> QED
    BY <1>2, <1>3, <1>4, <1>5, <1>6 DEF GetTasks

\* A step changes a task only into a successor of it, unless it adds a project.
LEMMA TaskSteps ==
    ASSUME TypeOK, [Next]_vars
    PROVE  \/ TaskSuccessors
           \/ \E u \in User, d \in AnyDraft : AddProjectWithTasks(u, d)
  <1>1. CASE UNCHANGED tasks
    BY <1>1 DEF TaskSuccessors, TaskSuccessor
  <1> QED
    BY <1>1, NextCases, ProjectRequestTasks, TaskRequestTasks
       DEF GetProjects, AddProjectRolledBack, vars

-----------------------------------------------------------------------------
(* The invariant is inductive.                                             *)

\* A project that is added has its owner among its users and has a name.
LEMMA AddProjectRow ==
    ASSUME TypeOK, NEW u \in User, NEW d \in AnyDraft, AddProjectWithTasks(u, d)
    PROVE  /\ nextProject \in ProjectId
           /\ projects'[nextProject] # NoRow
           /\ projects'[nextProject].owner \in Members(projects'[nextProject].users)
           /\ projects'[nextProject].name # "empty"
           /\ \A p \in ProjectId \ {nextProject} : projects'[p] = Welcome(u)[p]
  <1>1. nextProject \in ProjectId /\ Welcome(u) \in Projects
    BY WelcomeEffect DEF TypeOK, AddProjectWithTasks, IdsLeft, ProjectId
  <1>2. projects' = [Welcome(u) EXCEPT ![nextProject] = addProject(d)]
    BY DEF AddProjectWithTasks
  <1>3. d \in ProjectDraft /\ ValidProject(d)
    BY AnyDraftType DEF AddProjectWithTasks, ValidDraft
  <1>4. addProject(d) \in ProjectRow
    BY <1>3 DEF ValidProject, ProjectDraft, ProjectRow, addProject
  <1>5. /\ addProject(d).owner \in Members(addProject(d).users)
        /\ addProject(d).name # "empty"
    BY <1>3 DEF ValidProject, ProjectDraft, addProject, Members
  <1> QED
    BY <1>1, <1>2, <1>4, <1>5, NoRowAssumption DEF Projects

\* OwnerIsMember: nobody takes the owner out of the array.
LEMMA OwnerStep ==
    ASSUME IInv, [Next]_vars
    PROVE  OwnerIsMember'
  <1> SUFFICES ASSUME NEW p \in ProjectId, projects'[p] # NoRow
               PROVE  projects'[p].owner \in Members(projects'[p].users)
    BY DEF OwnerIsMember
  <1>1. projects' \in Projects
    BY TypeStep DEF IInv, TypeOK
  <1>2. projects'[p].owner \in User /\ projects'[p].users \in Users
    BY <1>1 DEF Projects, ProjectRow
  <1>3. CASE projects[p] # NoRow
    <2>1. Successor(projects', p)
      BY <1>3, ProjectSteps DEF IInv, Successors
    <2>2. projects[p].users[projects[p].owner] > 0
      BY <1>3 DEF IInv, OwnerIsMember, Members
    <2>3. projects'[p].users[projects'[p].owner] > 0
      BY <1>2, <2>1, <2>2 DEF Successor
    <2> QED
      BY <1>2, <2>3 DEF Members
  <1>4. CASE projects[p] = NoRow
    <2>1. PICK u \in User, d \in AnyDraft : AddProjectWithTasks(u, d)
      BY <1>4, ProjectSteps DEF IInv, NoneNew
    <2>2. p = nextProject
      BY <1>4, <2>1, AddProjectRow, WelcomeSuccessors DEF IInv, TypeOK, Rows, NoneNew
    <2> QED
      BY <2>1, <2>2, AddProjectRow DEF IInv
  <1> QED
    BY <1>3, <1>4

\* Fresh: the sequences never go back.
LEMMA FreshStep ==
    ASSUME IInv, [Next]_vars
    PROVE  Fresh'
  <1>1. TypeOK /\ Fresh
    BY DEF IInv
  <1>2. ASSUME NEW u \in User, NEW d \in AnyDraft, AddProjectWithTasks(u, d)
        PROVE  Fresh'
    <2>1. nextProject' = nextProject + 1 /\ nextTask' = nextTask + Len(d.tasks)
      BY <1>2 DEF AddProjectWithTasks
    <2>2. Len(d.tasks) \in Nat
      BY AnyDraftType DEF ProjectDraft
    <2>3. \A p \in ProjectId : projects'[p] # NoRow => p < nextProject'
      <3>1. NoneNew(Welcome(u))
        BY <1>1, WelcomeSuccessors DEF TypeOK, Rows
      <3> QED
        BY <1>1, <1>2, <2>1, <3>1, AddProjectRow DEF NoneNew, Fresh, TypeOK, ProjectId
    <2>4. \A t \in TaskId : tasks'[t] # NoRow => t < nextTask'
      BY <1>1, <1>2, <2>1, <2>2, AddProjectTasks DEF Fresh, TypeOK, TaskId
    <2> QED
      BY <2>3, <2>4 DEF Fresh
  <1>3. CASE NoneNew(projects') /\ TaskSuccessors
    <2>1. nextProject' >= nextProject /\ nextTask' >= nextTask
      <3>1. CASE UNCHANGED sequences
        BY <1>1, <3>1 DEF sequences, TypeOK
      <3>2. ASSUME NEW d \in AnyDraft, AddProjectRolledBack(d)
            PROVE  nextProject' >= nextProject /\ nextTask' >= nextTask
        <4>1. Len(d.tasks) \in Nat
          BY AnyDraftType DEF ProjectDraft
        <4> QED
          BY <1>1, <3>2, <4>1 DEF AddProjectRolledBack, TypeOK
      <3>3. ASSUME NEW u \in User, NEW d \in AnyDraft, AddProjectWithTasks(u, d)
            PROVE  nextProject' >= nextProject /\ nextTask' >= nextTask
        <4>1. Len(d.tasks) \in Nat
          BY AnyDraftType DEF ProjectDraft
        <4> QED
          BY <1>1, <3>3, <4>1 DEF AddProjectWithTasks, TypeOK
      <3> QED
        BY <3>1, <3>2, <3>3, NextCases
           DEF GetProjects, ProjectRequest, GetProject, LeaveProject, RemoveUser, DeleteProject,
               AddUser, UpdateName, UpdateDescription, TaskRequest, AssignUser, UnassignUser,
               SetProcessPoints, vars, sequences
    <2>2. \A p \in ProjectId : projects'[p] # NoRow => projects[p] # NoRow
      BY <1>3 DEF NoneNew
    <2>3. \A t \in TaskId : tasks'[t] # NoRow => tasks[t] # NoRow
      BY <1>3 DEF TaskSuccessors, TaskSuccessor
    <2> QED
      BY <1>1, <2>1, <2>2, <2>3, TypeStep DEF Fresh, TypeOK, ProjectId, TaskId
  <1> QED
    BY <1>1, <1>2, <1>3, ProjectSteps, TaskSteps

\* ProjectHasTasks: a task is as long in the database as its project.
LEMMA HasTasksStep ==
    ASSUME IInv, [Next]_vars
    PROVE  ProjectHasTasks'
  <1>1. TypeOK /\ Fresh /\ ProjectHasTasks
    BY DEF IInv
  <1>2. TypeOK'
    BY <1>1, TypeStep
  <1>3. ASSUME NEW u \in User, NEW d \in AnyDraft, AddProjectWithTasks(u, d)
        PROVE  ProjectHasTasks'
    <2>1. /\ nextProject \in ProjectId /\ projects'[nextProject] # NoRow
          /\ projects'[nextProject].name # "empty"
          /\ \A p \in ProjectId \ {nextProject} : projects'[p] = Welcome(u)[p]
          /\ Welcomed(projects, Welcome(u), u)
      BY <1>1, <1>3, AddProjectRow, WelcomeEffect DEF TypeOK
    <2>2. /\ \A t \in TaskId : tasks[t] # NoRow => tasks'[t] = tasks[t]
          /\ \A t \in TaskId : tasks[t] = NoRow /\ tasks'[t] # NoRow =>
               tasks'[t].project = nextProject
          /\ GetTasks(tasks', nextProject) # {}
      BY <1>1, <1>3, AddProjectTasks
    <2>3. ASSUME NEW p \in ProjectId, projects'[p] # NoRow
          PROVE  GetTasks(tasks', p) # {} /\ projects'[p].name # "empty"
      <3>1. CASE p = nextProject
        BY <2>1, <2>2, <3>1
      <3>2. CASE p # nextProject
        <4>1. projects[p] # NoRow /\ projects'[p].name = projects[p].name
          BY <2>1, <2>3, <3>2 DEF Welcomed
        <4>2. PICK t \in TaskId : tasks[t] # NoRow /\ tasks[t].project = p
          BY <1>1, <4>1 DEF ProjectHasTasks, GetTasks
        <4>3. t \in GetTasks(tasks', p)
          BY <2>2, <4>2 DEF GetTasks
        <4> QED
          BY <1>1, <4>1, <4>3 DEF ProjectHasTasks
      <3> QED
        BY <3>1, <3>2
    <2>4. ASSUME NEW t \in TaskId, tasks'[t] # NoRow
          PROVE  projects'[tasks'[t].project] # NoRow
      <3>1. CASE tasks[t] = NoRow
        BY <2>1, <2>2, <2>4, <3>1
      <3>2. CASE tasks[t] # NoRow
        <4>1. tasks'[t] = tasks[t] /\ tasks[t].project \in ProjectId
          BY <1>1, <2>2, <3>2 DEF TypeOK, Tasks, TaskRow
        <4>2. projects[tasks[t].project] # NoRow
          BY <1>1, <3>2 DEF ProjectHasTasks
        <4> QED
          BY <2>1, <4>1, <4>2 DEF Welcomed
      <3> QED
        BY <3>1, <3>2
    <2> QED
      BY <2>3, <2>4 DEF ProjectHasTasks
  <1>4. CASE NoneNew(projects') /\ TaskSuccessors
    <2>1. ASSUME NEW t \in TaskId, tasks[t] # NoRow, projects'[tasks[t].project] # NoRow
          PROVE  tasks'[t] # NoRow /\ tasks'[t].project = tasks[t].project
      BY <1>4, <2>1 DEF TaskSuccessors, TaskSuccessor
    <2>2. ASSUME NEW p \in ProjectId, projects'[p] # NoRow
          PROVE  GetTasks(tasks', p) # {} /\ projects'[p].name # "empty"
      <3>1. projects[p] # NoRow /\ Successor(projects', p)
        BY <1>1, <1>4, <2>2, ProjectSteps DEF NoneNew, Successors
      <3>2. PICK t \in TaskId : tasks[t] # NoRow /\ tasks[t].project = p
        BY <1>1, <3>1 DEF ProjectHasTasks, GetTasks
      <3>3. t \in GetTasks(tasks', p)
        BY <2>1, <2>2, <3>2 DEF GetTasks
      <3> QED
        BY <1>1, <3>1, <3>3 DEF ProjectHasTasks, Successor
    <2>3. ASSUME NEW t \in TaskId, tasks'[t] # NoRow
          PROVE  projects'[tasks'[t].project] # NoRow
      <3>1. tasks[t] # NoRow /\ tasks'[t].project = tasks[t].project
        BY <1>4, <2>3 DEF TaskSuccessors, TaskSuccessor
      <3>2. tasks[t].project \in ProjectId /\ projects[tasks[t].project] # NoRow
        BY <1>1, <3>1 DEF TypeOK, Tasks, TaskRow, ProjectHasTasks
      <3>3. t \in GetTasks(tasks', tasks[t].project)
        BY <2>3, <3>1 DEF GetTasks
      <3> QED
        BY <1>1, <3>1, <3>2, <3>3, ProjectSteps DEF NoneLost
    <2> QED
      BY <2>2, <2>3 DEF ProjectHasTasks
  <1> QED
    BY <1>1, <1>3, <1>4, ProjectSteps, TaskSteps

\* IInv holds initially and is kept by every step.
LEMMA Invariance == Spec => []IInv
  <1>1. Init => IInv
    BY BoundsAssumption
       DEF Init, IInv, TypeOK, Projects, Tasks, OwnerIsMember, ProjectHasTasks, Fresh
  <1>2. IInv /\ [Next]_vars => IInv'
    BY TypeStep, OwnerStep, HasTasksStep, FreshStep DEF IInv
  <1> QED
    BY <1>1, <1>2, PTL DEF Spec

-----------------------------------------------------------------------------
(* The properties.                                                         *)

\* The owner of every project is a member of it, whatever users add, import,
\* leave and remove.
THEOREM OwnerAlwaysMember == Spec => []OwnerIsMember
  <1>1. IInv => OwnerIsMember
    BY DEF IInv
  <1> QED
    BY <1>1, Invariance, PTL

\* Every project has a name and a task, and every task has its project.
THEOREM ProjectsHaveTasks == Spec => []ProjectHasTasks
  <1>1. IInv => ProjectHasTasks
    BY DEF IInv
  <1> QED
    BY <1>1, Invariance, PTL

\* As long as requests are served one at a time, a user gets into the array of
\* a project only when he is not in it, and only once.
THEOREM JoinsOnce == Spec => UsersJoinOnce
  <1>1. IInv /\ [Next]_vars => JoinOnce
    <2> SUFFICES ASSUME IInv, [Next]_vars, NEW p \in ProjectId,
                        projects[p] # NoRow, projects'[p] # NoRow,
                        NEW u \in User, projects'[p].users[u] > projects[p].users[u]
                 PROVE  projects[p].users[u] = 0 /\ projects'[p].users[u] = 1
      BY DEF JoinOnce
    <2>1. Successor(projects', p)
      BY ProjectSteps DEF IInv, Successors
    <2>2. projects[p].users[u] \in Nat
      BY DEF IInv, TypeOK, Projects, ProjectRow, Users
    <2> QED
      BY <2>1, <2>2 DEF Successor
  <1> QED
    BY <1>1, Invariance, PTL DEF Spec, UsersJoinOnce

\* Whoever is no member any more is assigned to none of the project's tasks.
THEOREM LeaversReleased == Spec => LeaversKeepNoTask
  <1>1. IInv /\ [Next]_vars => LeaverKeepsNoTask
    <2> SUFFICES ASSUME IInv, [Next]_vars, NEW p \in ProjectId,
                        projects[p] # NoRow, projects'[p] # NoRow,
                        NEW u \in Members(projects[p].users) \ Members(projects'[p].users),
                        NEW t \in GetTasks(tasks', p)
                 PROVE  tasks'[t].assigned # u
      BY DEF LeaverKeepsNoTask
    <2>1. Successor(projects', p)
      BY ProjectSteps DEF IInv, Successors
    <2>2. u \in User /\ projects[p].users[u] > 0 /\ ~(projects'[p].users[u] > 0)
      BY DEF Members
    <2>3. Released(p, u)
      BY <2>1, <2>2 DEF Successor
    <2> QED
      BY <2>3 DEF Released, GetTasks
  <1> QED
    BY <1>1, Invariance, PTL DEF Spec, LeaversKeepNoTask

\* As long as requests are served one at a time, nobody takes a task over, and
\* points stay in the range of the task when they change.
THEOREM HandoverSafe == Spec => NoTakeover
  <1>1. IInv /\ [Next]_vars => Handover
    <2> SUFFICES ASSUME IInv, [Next]_vars
                 PROVE  Handover
      OBVIOUS
    <2>1. TypeOK /\ Fresh
      BY DEF IInv
    <2>2. CASE TaskSuccessors
      BY <2>2 DEF TaskSuccessors, TaskSuccessor, Handover
    <2>3. ASSUME NEW u \in User, NEW d \in AnyDraft, AddProjectWithTasks(u, d)
          PROVE  Handover
      BY <2>1, <2>3, AddProjectTasks DEF Handover
    <2> QED
      BY <2>1, <2>2, <2>3, TaskSteps
  <1> QED
    BY <1>1, Invariance, PTL DEF Spec, NoTakeover

\* Points of a task nobody works on change only while the owner is alone in
\* his project.
THEOREM PointsByOwnerAlone == Spec => PointsNeedAssignee
  <1>1. IInv /\ [Next]_vars => PointsNeedAssignment
    <2> SUFFICES ASSUME IInv, [Next]_vars, NEW t \in TaskId,
                        tasks[t] # NoRow, tasks'[t] # NoRow,
                        tasks'[t].points # tasks[t].points, tasks[t].assigned = NoUser
                 PROVE  Members(projects'[tasks[t].project].users)
                            = {projects'[tasks[t].project].owner}
      BY DEF PointsNeedAssignment
    <2>1. TypeOK /\ Fresh /\ TypeOK' /\ OwnerIsMember'
      BY TypeStep, OwnerStep DEF IInv
    <2>2. tasks[t] \in TaskRow
      BY <2>1 DEF TypeOK, Tasks
    <2>3. PICK u \in User, n \in Points : SetProcessPoints(u, t, n)
      <3>1. ~UNCHANGED tasks
        OBVIOUS
      <3>2. ASSUME NEW u \in User, NEW d \in AnyDraft, AddProjectWithTasks(u, d)
            PROVE  FALSE
        BY <2>1, <3>2, AddProjectTasks
      <3>3. ASSUME NEW u \in User, NEW p \in ProjectId, ProjectRequest(u, p)
            PROVE  FALSE
        <4>1. ASSUME NEW removed \in User, RemoveUser(u, p, removed)
              PROVE  FALSE
          <5>1. tasks'[t] \in {tasks[t], unassignUser(tasks[t])}
            BY <4>1 DEF RemoveUser
          <5> QED
            BY <2>2, <5>1 DEF unassignUser, TaskRow
        <4>2. ~DeleteProject(u, p)
          BY DEF DeleteProject, cascade
        <4> QED
          BY <3>1, <3>3, <4>1, <4>2
             DEF ProjectRequest, GetProject, LeaveProject, AddUser, UpdateName, UpdateDescription
      <3>4. ASSUME NEW u \in User, NEW k \in TaskId, TaskRequest(u, k)
            PROVE  k = t /\ \E n \in Points : SetProcessPoints(u, k, n)
        <4>1. ASSUME NEW row, tasks' = [tasks EXCEPT ![k] = row]
              PROVE  k = t /\ row = tasks'[t]
          BY <2>1, <4>1 DEF TypeOK, Tasks
        <4>2. ~AssignUser(u, k)
          BY <2>2, <4>1 DEF AssignUser, assignUser, TaskRow
        <4>3. ~UnassignUser(u, k)
          BY <2>2, <4>1 DEF UnassignUser, unassignUser, TaskRow
        <4>4. PICK n \in Points : SetProcessPoints(u, k, n)
          BY <3>4, <4>2, <4>3 DEF TaskRequest
        <4> QED
          BY <4>1, <4>4 DEF SetProcessPoints
      <3> QED
        BY <3>1, <3>2, <3>3, <3>4, NextCases DEF GetProjects, AddProjectRolledBack, vars
    <2> DEFINE p == tasks[t].project
               users == projects'[p].users
    <2>4. ~VerifyAssignment(tasks, t, u)
      BY NoUserAssumption DEF VerifyAssignment
    <2>5. projects'[p] # NoRow /\ OneEntry(users)
      BY <2>3, <2>4 DEF SetProcessPoints, MaySetProcessPoints, AssignmentInTaskDefined,
                        AssignmentInTaskNeeded, AssignmentInProjectNeeded
    <2>6. p \in ProjectId /\ projects'[p].owner \in Members(users) /\ users \in Users
      BY <2>1, <2>2, <2>5 DEF TypeOK, TaskRow, Projects, ProjectRow, OwnerIsMember
    <2> QED
      BY <2>5, <2>6 DEF OneEntry, Members, Users
  <1> QED
    BY <1>1, Invariance, PTL DEF Spec, PointsNeedAssignee

\* An id that was used and has no row never gets one again.
THEOREM DeadIds == Spec => DeadIdsStayDead
  <1>1. IInv /\ [Next]_vars => DeadId
    <2> SUFFICES ASSUME IInv, [Next]_vars, NEW p \in ProjectId,
                        p < nextProject, projects[p] = NoRow
                 PROVE  projects'[p] = NoRow
      BY DEF DeadId
    <2>1. TypeOK /\ Fresh
      BY DEF IInv
    <2>2. CASE NoneNew(projects')
      BY <2>2 DEF NoneNew
    <2>3. ASSUME NEW u \in User, NEW d \in AnyDraft, AddProjectWithTasks(u, d)
          PROVE  projects'[p] = NoRow
      <3>1. p # nextProject
        BY <2>1 DEF TypeOK, ProjectId
      <3> QED
        BY <2>1, <2>3, <3>1, AddProjectRow, WelcomeSuccessors DEF TypeOK, Rows, NoneNew
    <2> QED
      BY <2>1, <2>2, <2>3, ProjectSteps
  <1> QED
    BY <1>1, Invariance, PTL DEF Spec, DeadIdsStayDead
=============================================================================
