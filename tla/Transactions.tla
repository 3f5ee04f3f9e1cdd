---------------------------- MODULE Transactions ----------------------------
(***************************************************************************)
(* The server's requests as they run: one goroutine and one database       *)
(* transaction per request, one step per SQL statement, in any             *)
(* interleaving.  The transactions are started with db.Begin, so they run  *)
(* at PostgreSQL's default level READ COMMITTED:                           *)
(*                                                                         *)
(*   - a SELECT sees the rows committed when it starts, and the rows its   *)
(*     own transaction wrote;                                              *)
(*   - an UPDATE or DELETE waits while another transaction that has not    *)
(*     ended wrote the row, and then works on the row as it was committed  *)
(*     (or on none, if it was deleted);                                    *)
(*   - what a transaction wrote becomes visible all at once when it        *)
(*     commits, and disappears when it is rolled back; ids drawn from a    *)
(*     sequence stay used.                                                 *)
(*                                                                         *)
(* SELECTs in a row are one step only when they read nothing another       *)
(* transaction can change between them: the owner of a project and the     *)
(* max_process_points of a task are never updated, and ids are not used    *)
(* again, so a row that is gone at the last of them fails the request in   *)
(* either case.                                                            *)
(***************************************************************************)
EXTENDS Services

CONSTANTS
    Session,       \* requests the server handles at the same time
    Clean,         \* "this transaction did not write this row"
    NoRequest,     \* the session handles no request
    Requests,      \* the requests clients send
    MaxRequests,   \* bound: how many requests are sent
    InitProjects,  \* the tables when the server starts
    InitTasks,
    InitNextProject,
    InitNextTask

VARIABLES
    projects, tasks,        \* the committed tables
    nextProject, nextTask,  \* the sequences of the two id columns
    served,                 \* number of requests received so far
    pc,                     \* the statement the session runs next
    req,                    \* the request it handles
    welcoming,              \* it is still in the AddUser before the handler
    read,                   \* the project row a getProject of it returned
    id,                     \* the project it adds, the task it works on
    todo,                   \* tasks RemoveUser has still to look at
    dirtyP, dirtyT,         \* the rows its transaction has written
    told                    \* the messages it has sent

database == <<projects, tasks>>
sequences == <<nextProject, nextTask>>
locals == <<read, id, todo>>
written == <<dirtyP, dirtyT>>
control == <<pc, welcoming>>
vars == <<projects, tasks, nextProject, nextTask, served, pc, req, welcoming,
          read, id, todo, dirtyP, dirtyT, told>>

RequestType ==
         [op : {"getProjects"}, uid : User]
    \cup [op : {"getProject", "deleteProject"}, uid : User, project : ProjectId]
    \cup [op : {"addUser", "removeUser"}, uid : User, project : ProjectId, user : User]
    \cup [op : {"updateName", "updateDescription"}, uid : User, project : ProjectId, text : Texts]
    \cup [op : {"addProject", "importProject"}, uid : User, draft : Drafts]
    \cup [op : {"assignUser", "unassignUser"}, uid : User, task : TaskId]
    \cup [op : {"setProcessPoints"}, uid : User, task : TaskId, points : Points]

Messages == [type : {"project_added", "project_updated", "project_deleted",
                     "project_user_removed"},
             project : ProjectId, to : User]

Labels == {"idle", "AddUser", "addUser", "addUser_UPDATE", "getProject",
           "RemoveUser", "RemoveUser_removed", "removeUser", "removeUser_UPDATE",
           "GetTasks", "unassign_tasks", "UnassignUser", "unassignUser_UPDATE",
           "DeleteProject", "DeleteProject_owner", "delete", "cascade",
           "UpdateName", "updateName_UPDATE",
           "UpdateDescription", "updateDescription_UPDATE",
           "AddProject", "AddTasks", "AssignUser", "assignUser_UPDATE",
           "SetProcessPoints", "assignee", "member", "setProcessPoints_UPDATE",
           "send", "commit", "rollback"}

ASSUME RequestsAssumption ==
    /\ Requests \subseteq RequestType
    /\ NoRequest \notin Requests
    /\ MaxRequests \in Nat

ASSUME CleanAssumption ==
    Clean # NoRow /\ Clean \notin ProjectRow /\ Clean \notin TaskRow

\* The tables a server can start on: those of which the
\* invariants of TaskManager hold.
ASSUME InitAssumption ==
    /\ InitProjects \in Projects
    /\ InitTasks \in Tasks
    /\ InitNextProject \in 1 .. MaxProject + 1
    /\ InitNextTask \in 1 .. MaxTask + 1
    /\ \A p \in ProjectId : InitProjects[p] # NoRow =>
         /\ p < InitNextProject
         /\ InitProjects[p].users[InitProjects[p].owner] > 0
         /\ InitProjects[p].name # "empty"
         /\ GetTasks(InitTasks, p) # {}
    /\ \A t \in TaskId : InitTasks[t] # NoRow =>
         /\ t < InitNextTask
         /\ InitProjects[InitTasks[t].project] # NoRow

TypeOK ==
    /\ projects \in Projects
    /\ tasks \in Tasks
    /\ nextProject \in 1 .. MaxProject + 1
    /\ nextTask \in 1 .. MaxTask + 1
    /\ served \in 0 .. MaxRequests
    /\ pc \in [Session -> Labels]
    /\ req \in [Session -> Requests \cup {NoRequest}]
    /\ welcoming \in [Session -> BOOLEAN]
    /\ read \in [Session -> ProjectRow \cup {NoRow}]
    /\ id \in [Session -> Nat]
    /\ todo \in [Session -> SUBSET TaskId]
    /\ dirtyP \in [Session -> [ProjectId -> ProjectRow \cup {NoRow, Clean}]]
    /\ dirtyT \in [Session -> [TaskId -> TaskRow \cup {NoRow, Clean}]]
    /\ told \in [Session -> SUBSET Messages]

NothingP == [p \in ProjectId |-> Clean]
NothingT == [t \in TaskId |-> Clean]

Init ==
    /\ projects = InitProjects
    /\ tasks = InitTasks
    /\ nextProject = InitNextProject
    /\ nextTask = InitNextTask
    /\ served = 0
    /\ pc = [s \in Session |-> "idle"]
    /\ req = [s \in Session |-> NoRequest]
    /\ welcoming = [s \in Session |-> FALSE]
    /\ read = [s \in Session |-> NoRow]
    /\ id = [s \in Session |-> 0]
    /\ todo = [s \in Session |-> {}]
    /\ dirtyP = [s \in Session |-> NothingP]
    /\ dirtyT = [s \in Session |-> NothingT]
    /\ told = [s \in Session |-> {}]

-----------------------------------------------------------------------------
(* PostgreSQL.                                                             *)

\* The tables as a statement of session s sees them.
ViewP(s) == [p \in ProjectId |->
               IF dirtyP[s][p] = Clean THEN projects[p] ELSE dirtyP[s][p]]

ViewT(s) == [t \in TaskId |->
               IF dirtyT[s][t] = Clean THEN tasks[t] ELSE dirtyT[s][t]]

\* No other open transaction has written the row.
FreeP(s, p) == \A z \in Session \ {s} : dirtyP[z][p] = Clean
FreeT(s, t) == \A z \in Session \ {s} : dirtyT[z][t] = Clean

\* An UPDATE or DELETE of s leaves "row" in place of the row.
WriteP(s, p, row) ==
    /\ dirtyP' = [dirtyP EXCEPT ![s][p] = row]
    /\ UNCHANGED dirtyT

WriteT(s, t, row) ==
    /\ dirtyT' = [dirtyT EXCEPT ![s][t] = row]
    /\ UNCHANGED dirtyP

-----------------------------------------------------------------------------
(* A request begins, goes on, and ends.                                    *)

Goto(s, label) ==
    /\ pc' = [pc EXCEPT ![s] = label]
    /\ UNCHANGED welcoming

\* The first statement of the handler.
Handler(op) ==
    CASE op = "getProjects" -> "commit"
      [] op = "getProject" -> "getProject"
      [] op = "addUser" -> "AddUser"
      [] op = "removeUser" -> "RemoveUser"
      [] op = "deleteProject" -> "DeleteProject"
      [] op = "updateName" -> "UpdateName"
      [] op = "updateDescription" -> "UpdateDescription"
      [] op \in {"addProject", "importProject"} -> "AddProject"
      [] op = "assignUser" -> "AssignUser"
      [] op = "unassignUser" -> "UnassignUser"
      [] op = "setProcessPoints" -> "SetProcessPoints"

EnterHandler(s) ==
    /\ pc' = [pc EXCEPT ![s] = Handler(req[s].op)]
    /\ welcoming' = [welcoming EXCEPT ![s] = FALSE]

\* The service returned an error.  The one before the handler is ignored, any
\* other makes the handler answer with a status other than 200.
Fail(s) == IF welcoming[s] THEN EnterHandler(s) ELSE Goto(s, "rollback")

\* The service goes on with the handler, or to the label.
Return(s, label) == IF welcoming[s] THEN EnterHandler(s) ELSE Goto(s, label)

Begin(s, r) ==
    /\ pc[s] = "idle"
    /\ served < MaxRequests
    /\ served' = served + 1
    /\ req' = [req EXCEPT ![s] = r]
    /\ pc' = [pc EXCEPT ![s] = "AddUser"]
    /\ welcoming' = [welcoming EXCEPT ![s] = TRUE]
    /\ UNCHANGED <<database, sequences, locals, written, told>>

\* The transaction is over and the session has forgotten the request.
Finish(s) ==
    /\ pc' = [pc EXCEPT ![s] = "idle"]
    /\ welcoming' = [welcoming EXCEPT ![s] = FALSE]
    /\ req' = [req EXCEPT ![s] = NoRequest]
    /\ read' = [read EXCEPT ![s] = NoRow]
    /\ id' = [id EXCEPT ![s] = 0]
    /\ todo' = [todo EXCEPT ![s] = {}]
    /\ dirtyP' = [dirtyP EXCEPT ![s] = NothingP]
    /\ dirtyT' = [dirtyT EXCEPT ![s] = NothingT]
    /\ told' = [told EXCEPT ![s] = {}]
    /\ UNCHANGED <<sequences, served>>

Commit(s) ==
    /\ pc[s] = "commit"
    /\ projects' = ViewP(s)
    /\ tasks' = ViewT(s)
    /\ Finish(s)

\* Mutant: the transaction of a failed request is committed.
Rollback_Commits(s) ==
    /\ pc[s] = "rollback"
    /\ projects' = ViewP(s)
    /\ tasks' = ViewT(s)
    /\ Finish(s)

Rollback(s) ==
    /\ pc[s] = "rollback"
    /\ Finish(s)
    /\ UNCHANGED database

\* A panic, a lost database connection or the end of the server.
Crash(s) ==
    /\ pc[s] \notin {"idle", "rollback"}
    /\ Finish(s)
    /\ UNCHANGED database

-----------------------------------------------------------------------------
(* The three kinds of statements the services are made of.                 *)

\* A SELECT at "label" that only decides whether the service goes on.
Verify(s, label, ok, next) ==
    /\ pc[s] = label
    /\ IF ok THEN Goto(s, next) ELSE Fail(s)
    /\ UNCHANGED <<database, sequences, served, req, locals, written, told>>

\* A getProject whose row the service keeps.
ReadProject(s, label, p, next) ==
    /\ pc[s] = label
    /\ \/ /\ ViewP(s)[p] # NoRow
          /\ read' = [read EXCEPT ![s] = ViewP(s)[p]]
          /\ Goto(s, next)
       \/ /\ ViewP(s)[p] = NoRow
          /\ Fail(s)
          /\ UNCHANGED read
    /\ UNCHANGED <<database, sequences, served, req, id, todo, written, told>>

\* An UPDATE ... WHERE id = ... RETURNING: no row to return is an error.
UpdateProject(s, label, p, row, next) ==
    /\ pc[s] = label
    /\ FreeP(s, p)
    /\ \/ /\ ViewP(s)[p] # NoRow
          /\ WriteP(s, p, row)
          /\ Return(s, next)
       \/ /\ ViewP(s)[p] = NoRow
          /\ Fail(s)
          /\ UNCHANGED written
    /\ UNCHANGED <<database, sequences, served, req, locals, told>>

\* Mutant: an UPDATE that finds no row is tried again.
UpdateTask_Again(s, label, t, row, next) ==
    /\ pc[s] = label
    /\ FreeT(s, t)
    /\ ViewT(s)[t] # NoRow
    /\ WriteT(s, t, row)
    /\ Goto(s, next)
    /\ UNCHANGED <<database, sequences, served, req, locals, told>>

UpdateTask(s, label, t, row, next) ==
    /\ pc[s] = label
    /\ FreeT(s, t)
    /\ \/ /\ ViewT(s)[t] # NoRow
          /\ WriteT(s, t, row)
          /\ Goto(s, next)
       \/ /\ ViewT(s)[t] = NoRow
          /\ Fail(s)
          /\ UNCHANGED written
    /\ UNCHANGED <<database, sequences, served, req, locals, told>>

-----------------------------------------------------------------------------
(* ProjectService.AddUser, for the request and before every request.       *)

AddUserArguments(s) ==
    IF welcoming[s]
    THEN [project |-> PublicProject, user |-> req[s].uid, requester |-> PublicOwner]
    ELSE [project |-> req[s].project, user |-> req[s].user, requester |-> req[s].uid]

\* VerifyOwnership, getProject and the loop over its users
AddUserCheck(s) ==
    LET a == AddUserArguments(s)
    IN  Verify(s, "AddUser", CanAddUser(ViewP(s), a.project, a.user, a.requester), "addUser")

\* the store reads the project again
AddUserRead(s) ==
    ReadProject(s, "addUser", AddUserArguments(s).project, "addUser_UPDATE")

\* Mutant: the whole row is written back, not only the array.
AddUserWrite_WholeRow(s) ==
    LET a == AddUserArguments(s)
    IN  UpdateProject(s, "addUser_UPDATE", a.project,
            updateUsers(read[s], addUser(read[s].users, a.user)), "send")

\* Mutant: the row is inserted if it is not there any more.
AddUserWrite_Inserts(s) ==
    LET a == AddUserArguments(s) IN
    /\ pc[s] = "addUser_UPDATE"
    /\ FreeP(s, a.project)
    /\ WriteP(s, a.project, updateUsers(read[s], addUser(read[s].users, a.user)))
    /\ Return(s, "send")
    /\ UNCHANGED <<database, sequences, served, req, locals, told>>

\* and writes the whole array
AddUserWrite(s) ==
    LET a == AddUserArguments(s)
    IN  UpdateProject(s, "addUser_UPDATE", a.project,
            updateUsers(ViewP(s)[a.project], addUser(read[s].users, a.user)), "send")

-----------------------------------------------------------------------------
\* ProjectService.GetProject
GetProject(s) ==
    Verify(s, "getProject",
        VerifyMembershipProject(ViewP(s), req[s].project, req[s].uid), "commit")

-----------------------------------------------------------------------------
(* ProjectService.RemoveUser, for removeUser and leaveProject.             *)

RemoveUserRequester(s) ==
    Verify(s, "RemoveUser",
        VerifyMembershipProject(ViewP(s), req[s].project, req[s].uid), "RemoveUser_removed")

RemoveUserRemoved(s) ==
    Verify(s, "RemoveUser_removed",
        CanBeRemoved(ViewP(s), req[s].project, req[s].uid, req[s].user), "removeUser")

RemoveUserRead(s) == ReadProject(s, "removeUser", req[s].project, "removeUser_UPDATE")

RemoveUserWrite(s) ==
    LET p == req[s].project
    IN  UpdateProject(s, "removeUser_UPDATE", p,
            updateUsers(ViewP(s)[p], removeUser(read[s].users, req[s].user)), "GetTasks")

RemoveUserTasks(s) ==
    /\ pc[s] = "GetTasks"
    /\ todo' = [todo EXCEPT ![s] = GetTasks(ViewT(s), req[s].project)]
    /\ Goto(s, "unassign_tasks")
    /\ UNCHANGED <<database, sequences, served, req, read, id, written, told>>

\* One turn of the loop, or its end.  GetTasks has no ORDER BY.
RemoveUserLoop(s) ==
    /\ pc[s] = "unassign_tasks"
    /\ \/ /\ todo[s] = {}
          /\ Goto(s, "send")
          /\ UNCHANGED <<todo, id>>
       \/ \E t \in todo[s] :
            /\ todo' = [todo EXCEPT ![s] = @ \ {t}]
            /\ IF VerifyAssignment(ViewT(s), t, req[s].user)
               THEN /\ Goto(s, "UnassignUser")
                    /\ id' = [id EXCEPT ![s] = t]
               ELSE UNCHANGED <<control, id>>
    /\ UNCHANGED <<database, sequences, served, req, read, written, told>>

-----------------------------------------------------------------------------
(* TaskService.UnassignUser, for the request and in RemoveUser.            *)

UnassignArguments(s) ==
    IF req[s].op = "removeUser"
    THEN [task |-> id[s], user |-> req[s].user, next |-> "unassign_tasks"]
    ELSE [task |-> req[s].task, user |-> req[s].uid, next |-> "send"]

UnassignUserCheck(s) ==
    LET a == UnassignArguments(s)
    IN  Verify(s, "UnassignUser", VerifyAssignment(ViewT(s), a.task, a.user),
               "unassignUser_UPDATE")

UnassignUserWrite(s) ==
    LET a == UnassignArguments(s)
    IN  UpdateTask(s, "unassignUser_UPDATE", a.task, unassignUser(ViewT(s)[a.task]), a.next)

-----------------------------------------------------------------------------
(* The handler deleteProjects and ProjectService.DeleteProject.            *)

\* GetProject: membership, and the users who will be told
DeleteProjectRead(s) ==
    LET r == req[s] IN
    /\ pc[s] = "DeleteProject"
    /\ IF VerifyMembershipProject(ViewP(s), r.project, r.uid)
       THEN /\ Goto(s, "DeleteProject_owner")
            /\ read' = [read EXCEPT ![s] = ViewP(s)[r.project]]
       ELSE /\ Fail(s)
            /\ UNCHANGED read
    /\ UNCHANGED <<database, sequences, served, req, id, todo, written, told>>

DeleteProjectCheck(s) ==
    Verify(s, "DeleteProject_owner",
        VerifyOwnership(ViewP(s), req[s].project, req[s].uid), "delete")

\* Mutant: the tasks are not deleted with the project.
DeleteProjectWrite_Alone(s) ==
    LET p == req[s].project IN
    /\ pc[s] = "delete"
    /\ FreeP(s, p)
    /\ WriteP(s, p, NoRow)
    /\ Goto(s, "send")
    /\ UNCHANGED <<database, sequences, served, req, locals, told>>

\* Mutant: the tasks are deleted without the row of the project being locked.
DeleteProjectWrite_TasksFirst(s) ==
    /\ pc[s] = "delete"
    /\ Goto(s, "cascade")
    /\ UNCHANGED <<database, sequences, served, req, locals, written, told>>

\* A DELETE that finds no row is no error.
DeleteProjectWrite(s) ==
    LET p == req[s].project IN
    /\ pc[s] = "delete"
    /\ FreeP(s, p)
    /\ \/ /\ ViewP(s)[p] # NoRow
          /\ WriteP(s, p, NoRow)
          /\ Goto(s, "cascade")
       \/ /\ ViewP(s)[p] = NoRow
          /\ Goto(s, "send")
          /\ UNCHANGED written
    /\ UNCHANGED <<database, sequences, served, req, locals, told>>

\* Mutant: only one task is deleted.
Cascade_Once(s) ==
    LET left == GetTasks(ViewT(s), req[s].project) IN
    /\ pc[s] = "cascade"
    /\ \E t \in left :
         /\ FreeT(s, t)
         /\ WriteT(s, t, NoRow)
    /\ Goto(s, "send")
    /\ UNCHANGED <<database, sequences, served, req, locals, told>>

\* ON DELETE CASCADE: one task row after the other, each when it is free.
Cascade(s) ==
    LET left == GetTasks(ViewT(s), req[s].project) IN
    /\ pc[s] = "cascade"
    /\ \/ /\ left = {}
          /\ Goto(s, "send")
          /\ UNCHANGED written
       \/ \E t \in left :
            /\ FreeT(s, t)
            /\ WriteT(s, t, NoRow)
            /\ UNCHANGED control
    /\ UNCHANGED <<database, sequences, served, req, locals, told>>

-----------------------------------------------------------------------------
(* ProjectService.UpdateName and UpdateDescription                         *)

UpdateNameCheck(s) ==
    Verify(s, "UpdateName",
        /\ VerifyOwnership(ViewP(s), req[s].project, req[s].uid)
        /\ ValidName(req[s].text), "updateName_UPDATE")

UpdateNameWrite(s) ==
    LET p == req[s].project
    IN  UpdateProject(s, "updateName_UPDATE", p,
            updateName(ViewP(s)[p], FirstLine(req[s].text)), "send")

UpdateDescriptionCheck(s) ==
    Verify(s, "UpdateDescription",
        /\ VerifyOwnership(ViewP(s), req[s].project, req[s].uid)
        /\ ValidDescription(req[s].text), "updateDescription_UPDATE")

UpdateDescriptionWrite(s) ==
    LET p == req[s].project
    IN  UpdateProject(s, "updateDescription_UPDATE", p,
            updateDescription(ViewP(s)[p], req[s].text), "send")

-----------------------------------------------------------------------------
(* ProjectService.AddProjectWithTasks, for addProject and importProject.   *)
(* No other transaction sees or locks a row before it is committed.        *)

DraftOf(r) == IF r.op = "importProject" THEN ImportDraft(r.uid, r.draft) ELSE r.draft

\* INSERT of the project; a sequence at its end is an error.
AddProjectInsert(s) ==
    LET d == DraftOf(req[s]) IN
    /\ pc[s] = "AddProject"
    /\ \/ /\ Len(d.tasks) <= MaxTasksPerProject
          /\ ValidProject(d)
          /\ nextProject <= MaxProject
          /\ WriteP(s, nextProject, addProject(d))
          /\ nextProject' = nextProject + 1
          /\ id' = [id EXCEPT ![s] = nextProject]
          /\ Goto(s, "AddTasks")
       \/ /\ \/ Len(d.tasks) > MaxTasksPerProject
             \/ ~ValidProject(d)
             \/ nextProject > MaxProject
          /\ Fail(s)
          /\ UNCHANGED <<nextProject, id, written>>
    /\ UNCHANGED <<database, nextTask, served, req, read, todo, told>>

\* INSERT of the tasks, and GetTasks, which refuses an empty list
AddTasksInsert(s) ==
    LET d == DraftOf(req[s])
        last == nextTask + Len(d.tasks) - 1
    IN
    /\ pc[s] = "AddTasks"
    /\ \/ /\ ValidDraft(d)
          /\ last <= MaxTask
          /\ dirtyT' = [dirtyT EXCEPT ![s] = addTasks(@, d.tasks, id[s], nextTask)]
          /\ nextTask' = nextTask + Len(d.tasks)
          /\ Goto(s, "send")
       \/ /\ ~ValidDraft(d) \/ last > MaxTask
          /\ Fail(s)
          /\ UNCHANGED <<nextTask, dirtyT>>
    /\ UNCHANGED <<database, nextProject, served, req, locals, dirtyP, told>>

-----------------------------------------------------------------------------
(* TaskService.AssignUser and SetProcessPoints                             *)

AssignUserCheck(s) ==
    Verify(s, "AssignUser", Assignable(ViewT(s), req[s].task), "assignUser_UPDATE")

AssignUserWrite(s) ==
    LET t == req[s].task
    IN  UpdateTask(s, "assignUser_UPDATE", t, assignUser(ViewT(s)[t], req[s].uid), "send")

\* AssignmentInTaskNeeded
SetProcessPointsNeeded(s) ==
    LET t == req[s].task
    IN  Verify(s, "SetProcessPoints", AssignmentInTaskDefined(ViewP(s), ViewT(s), t),
            IF AssignmentInTaskNeeded(ViewP(s), ViewT(s), t) THEN "assignee" ELSE "member")

\* VerifyAssignment or VerifyMembershipTask, then getTask and the range
SetProcessPointsAssignee(s) ==
    LET r == req[s]
    IN  Verify(s, "assignee",
            /\ VerifyAssignment(ViewT(s), r.task, r.uid)
            /\ InRange(ViewT(s)[r.task], r.points), "setProcessPoints_UPDATE")

SetProcessPointsMember(s) ==
    LET r == req[s]
    IN  Verify(s, "member",
            /\ VerifyMembershipTask(ViewP(s), ViewT(s), r.task, r.uid)
            /\ InRange(ViewT(s)[r.task], r.points), "setProcessPoints_UPDATE")

SetProcessPointsWrite(s) ==
    LET t == req[s].task
    IN  UpdateTask(s, "setProcessPoints_UPDATE", t,
            setProcessPoints(ViewT(s)[t], req[s].points), "send")

-----------------------------------------------------------------------------
(* Notifying users.  The handler does it before the commit.                *)

MessageTo(users, type, p) ==
    {[type |-> type, project |-> p, to |-> u] : u \in Members(users)}

sendAdd(s) == MessageTo(ViewP(s)[id[s]].users, "project_added", id[s])

sendUpdate(s, p) == MessageTo(ViewP(s)[p].users, "project_updated", p)

\* Mutant: only the remaining members are told.
sendUserRemoved_Rest(s, p) == sendUpdate(s, p)

sendUserRemoved(s, p) ==
    sendUpdate(s, p)
        \cup {[type |-> "project_user_removed", project |-> p, to |-> req[s].user]}

\* to the users read before the DELETE
sendDelete(s, p) == MessageTo(read[s].users, "project_deleted", p)

\* GetProjectByTask, then the update
sendTaskUpdate(s, t) == sendUpdate(s, ViewT(s)[t].project)

MessagesOf(s) ==
    LET r == req[s] IN
    CASE r.op \in {"addProject", "importProject"} -> sendAdd(s)
      [] r.op \in {"addUser", "updateName", "updateDescription"} -> sendUpdate(s, r.project)
      [] r.op = "removeUser" -> sendUserRemoved(s, r.project)
      [] r.op = "deleteProject" -> sendDelete(s, r.project)
      [] r.op \in {"assignUser", "unassignUser", "setProcessPoints"} -> sendTaskUpdate(s, r.task)

Send(s) ==
    /\ pc[s] = "send"
    /\ told' = [told EXCEPT ![s] = MessagesOf(s)]
    /\ Goto(s, "commit")
    /\ UNCHANGED <<database, sequences, served, req, locals, written>>

-----------------------------------------------------------------------------
\* Everything a session does on its own once it has its request.
Statement(s) ==
    \/ AddUserCheck(s) \/ AddUserRead(s) \/ AddUserWrite(s)
    \/ GetProject(s)
    \/ RemoveUserRequester(s) \/ RemoveUserRemoved(s) \/ RemoveUserRead(s)
    \/ RemoveUserWrite(s) \/ RemoveUserTasks(s) \/ RemoveUserLoop(s)
    \/ UnassignUserCheck(s) \/ UnassignUserWrite(s)
    \/ DeleteProjectRead(s) \/ DeleteProjectCheck(s) \/ DeleteProjectWrite(s)
    \/ Cascade(s)
    \/ UpdateNameCheck(s) \/ UpdateNameWrite(s)
    \/ UpdateDescriptionCheck(s) \/ UpdateDescriptionWrite(s)
    \/ AddProjectInsert(s) \/ AddTasksInsert(s)
    \/ AssignUserCheck(s) \/ AssignUserWrite(s)
    \/ SetProcessPointsNeeded(s) \/ SetProcessPointsAssignee(s)
    \/ SetProcessPointsMember(s) \/ SetProcessPointsWrite(s)
    \/ Send(s)

Step(s) == Statement(s) \/ Commit(s) \/ Rollback(s)

\* The bound on requests is reached and all are answered.
AllServed ==
    /\ served = MaxRequests
    /\ \A s \in Session : pc[s] = "idle"
    /\ UNCHANGED vars

Next ==
    \/ \E s \in Session : Step(s) \/ Crash(s) \/ (\E r \in Requests : Begin(s, r))
    \/ AllServed

Spec == Init /\ [][Next]_vars

\* Every request has a goroutine of its own, which the scheduler runs again
\* and again; a transaction that waits for a row goes on when it gets it.
FairSpec == Spec /\ \A s \in Session : WF_vars(Step(s))

-----------------------------------------------------------------------------
(* Properties that hold.                                                   *)

\* The owner of a committed project is a member.  Two transactions that
\* overwrite each other's arrays lose other members, never the owner.
OwnerIsMember ==
    \A p \in ProjectId :
        projects[p] # NoRow => projects[p].owner \in Members(projects[p].users)

\* project.go, "Will not be NULL or empty": in the committed tables a project
\* has a task and a name and no task is without its project, although a
\* project and its tasks are inserted and deleted by several statements.
ProjectHasTasks ==
    /\ \A p \in ProjectId :
         projects[p] # NoRow => GetTasks(tasks, p) # {} /\ projects[p].name # "empty"
    /\ \A t \in TaskId : tasks[t] # NoRow => projects[tasks[t].project] # NoRow

TablesOK == TypeOK /\ OwnerIsMember /\ ProjectHasTasks

BlockersP(s, p) == {z \in Session \ {s} : dirtyP[z][p] # Clean}
BlockersT(s, t) == {z \in Session \ {s} : dirtyT[z][t] # Clean}

\* The sessions the next statement of s may have to wait for.
Blockers(s) ==
    CASE pc[s] = "addUser_UPDATE" -> BlockersP(s, AddUserArguments(s).project)
      [] pc[s] \in {"removeUser_UPDATE", "delete", "updateName_UPDATE",
                    "updateDescription_UPDATE"} -> BlockersP(s, req[s].project)
      [] pc[s] = "cascade" ->
           UNION {BlockersT(s, t) : t \in GetTasks(ViewT(s), req[s].project)}
      [] pc[s] = "unassignUser_UPDATE" -> BlockersT(s, UnassignArguments(s).task)
      [] pc[s] \in {"assignUser_UPDATE", "setProcessPoints_UPDATE"} ->
           BlockersT(s, req[s].task)
      [] OTHER -> {}

\* No transactions wait for each other in a cycle (PostgreSQL would end one of
\* them with an error).  Every request locks the row of the public project
\* before its handler locks anything, a handler locks the row of its project
\* before the tasks of that project, and only one holding that row locks more
\* than one task.
NoWaitCycle ==
    \A C \in SUBSET Session : C # {} => \E s \in C : Blockers(s) \cap C = {}

\* What a request is about to commit is what it was asked for: no other
\* transaction can come between its write and its commit.
Effect(r, P, T, new) ==
    CASE r.op = "addUser" -> r.user \in Members(P[r.project].users)
      [] r.op = "removeUser" -> r.user \notin Members(P[r.project].users)
      [] r.op = "deleteProject" -> P[r.project] = NoRow /\ GetTasks(T, r.project) = {}
      [] r.op = "updateName" -> P[r.project].name = FirstLine(r.text)
      [] r.op = "updateDescription" -> P[r.project].description = r.text
      [] r.op = "assignUser" -> T[r.task].assigned = r.uid
      [] r.op = "unassignUser" -> T[r.task].assigned = NoUser
      [] r.op = "setProcessPoints" -> T[r.task].points = r.points
      [] r.op \in {"addProject", "importProject"} ->
           /\ P[new].owner = DraftOf(r).owner
           /\ {t \in TaskId : T[t] # NoRow /\ T[t].project = new} # {}
      [] OTHER -> TRUE

CommitHasEffect ==
    \A s \in Session :
        pc[s] = "commit" => Effect(req[s], ViewP(s), ViewT(s), id[s])

\* A change that is about to be committed to a project's row was sent to every
\* member the row then has, and a removed user learns it too.  (Not the users
\* a request adds to the public project before its handler.)
MembersAreTold ==
    \A s \in Session :
        (/\ pc[s] = "commit"
         /\ req[s].op \in {"addUser", "removeUser", "updateName", "updateDescription"}) =>
            LET p == req[s].project
                heard == {m.to : m \in {n \in told[s] : n.project = p}}
            IN  /\ Members(ViewP(s)[p].users) \subseteq heard
                /\ req[s].op = "removeUser" => req[s].user \in heard

\* The request a step commits that changes the committed tables.
Committed(op, test(_)) ==
    \E s \in Session : pc[s] = "commit" /\ req[s].op \in op /\ test(req[s])

\* Each committed change was asked for by someone who may ask for it, and two
\* concurrent requests do not undo each other's columns: the name, the
\* description and the owner survive a request that is about the users.
OwnColumns ==
    \A p \in ProjectId : projects[p] # NoRow =>
        LET OfOwner(r) == r.project = p /\ r.uid = projects[p].owner
            OfMember(r) == r.project = p /\ (r.uid = projects[p].owner \/ r.uid = r.user)
        IN
        /\ projects'[p] = NoRow => Committed({"deleteProject"}, OfOwner)
        /\ projects'[p] # NoRow =>
             /\ projects'[p].owner = projects[p].owner
             /\ projects'[p].name # projects[p].name => Committed({"updateName"}, OfOwner)
             /\ projects'[p].description # projects[p].description =>
                  Committed({"updateDescription"}, OfOwner)
             /\ projects'[p].users # projects[p].users =>
                  \/ Committed({"addUser"}, OfOwner)
                  \/ Committed({"removeUser"}, OfMember)
                  \/ p = PublicProject

OnlyOwnColumns == [][OwnColumns]_vars

\* An id that was drawn names a project only from the commit of the request
\* that drew it: the id of a deleted project never comes back, not even when an
\* UPDATE of it was waiting for the DELETE to commit.
DeadId ==
    \A p \in ProjectId :
        (p < nextProject /\ projects[p] = NoRow /\ projects'[p] # NoRow) =>
            \E s \in Session : /\ pc[s] = "commit" /\ id[s] = p
                               /\ req[s].op \in {"addProject", "importProject"}

DeadIdsStayDead == [][DeadId]_vars

\* Every request is answered.
Answered == \A s \in Session : pc[s] # "idle" ~> pc[s] = "idle"

\* With one request at a time the server is TaskManager.  The ids of a project
\* that is not committed yet are not yet drawn there.
FirstOr(new, next) == IF new = {} THEN next ELSE CHOOSE i \in new : \A j \in new : i <= j

SerialNextProject ==
    FirstOr({p \in ProjectId : \E s \in Session : pc[s] # "idle" /\ id[s] = p
                                    /\ req[s].op \in {"addProject", "importProject"}},
            nextProject)

SerialNextTask ==
    FirstOr({t \in TaskId : \E s \in Session : dirtyT[s][t] # Clean /\ tasks[t] = NoRow},
            nextTask)

Serial == INSTANCE TaskManager
              WITH nextProject <- SerialNextProject, nextTask <- SerialNextTask

SerialSpec == Serial!Spec

-----------------------------------------------------------------------------
(* A claim of the repository that concurrent requests break.               *)

\* README.md, "When one user works on a task, no other user is able to also
\* update the process of that task": while a user is assigned, only he sets
\* the points, and the assignment ends only by himself or his removal.
WorkOfAssignee ==
    \A t \in TaskId :
        LET u == tasks[t].assigned
            OfAssignee(r) == r.task = t /\ r.uid = u
            Removal(r) == r.project = tasks[t].project /\ r.user = u
        IN
        (tasks[t] # NoRow /\ tasks'[t] # NoRow /\ u # NoUser) =>
            /\ tasks'[t].points # tasks[t].points => Committed({"setProcessPoints"}, OfAssignee)
            /\ tasks'[t].assigned # u =>
                 Committed({"unassignUser"}, OfAssignee) \/ Committed({"removeUser"}, Removal)

WorkUndisturbed == [][WorkOfAssignee]_vars
=============================================================================
