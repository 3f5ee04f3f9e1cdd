------------------------ MODULE Transactions_proofs -------------------------
(***************************************************************************)
(* Proofs about Transactions.tla, for any number of sessions, users,       *)
(* projects and tasks and whatever requests clients send.                  *)
(*                                                                         *)
(* The invariant has a part about the committed tables, a part about pairs *)
(* of sessions (a row has one writer) and a part about each session by     *)
(* itself: what it may have written so far, what it still knows of the     *)
(* rows it has read, what it has achieved when it is about to commit.  A   *)
(* session keeps its own part by its own statements; what the others do to *)
(* it is summed up once (Rely), and that this harms no session is shown    *)
(* once, too.                                                              *)
(*                                                                         *)
(* The second half is about one session alone: there the server implements *)
(* TaskManager.tla.                                                        *)
(***************************************************************************)
EXTENDS Transactions, TLAPS

-----------------------------------------------------------------------------
(* The statements of the stores and what an import makes of an export.     *)

\* One more or no more occurrence of a user leaves an array of users.
LEMMA UsersType ==
    ASSUME NEW users \in Users, NEW u \in User
    PROVE  /\ addUser(users, u) \in Users
           /\ removeUser(users, u) \in Users
  BY DEF Users, addUser, removeUser

\* Each UPDATE of a task leaves a row.
LEMMA TaskUpdateType ==
    ASSUME NEW row \in TaskRow
    PROVE  /\ \A u \in User : assignUser(row, u) \in TaskRow
           /\ unassignUser(row) \in TaskRow
           /\ \A n \in Int : setProcessPoints(row, n) \in TaskRow
  BY DEF TaskRow, assignUser, unassignUser, setProcessPoints

\* The first line of a text is a text.
LEMMA FirstLineType ==
    ASSUME NEW text \in Text
    PROVE  FirstLine(text) \in Text
  BY DEF FirstLine, Text

\* An import is a draft like any other.
LEMMA ImportType ==
    ASSUME NEW u \in User, NEW e \in ProjectDraft
    PROVE  ImportDraft(u, e) \in ProjectDraft
  <1>1. e.users \in Users
    BY DEF ProjectDraft
  <1>2. (IF e.users[u] > 0 THEN e.users ELSE addUser(e.users, u)) \in Users
    BY <1>1, UsersType
  <1> QED
    BY <1>2 DEF ProjectDraft, ImportDraft

-----------------------------------------------------------------------------
(* The inductive invariant.                                                *)

AddUserLabels == {"AddUser", "addUser", "addUser_UPDATE"}
UnassignLabels == {"UnassignUser", "unassignUser_UPDATE"}

\* RemoveUser after it has written the project's row.
RemovalLabels == {"GetTasks", "unassign_tasks"} \cup UnassignLabels
RemoveLabels ==
    {"RemoveUser", "RemoveUser_removed", "removeUser", "removeUser_UPDATE",
     "GetTasks", "unassign_tasks"}

\* Where a request is when its handler has written the row of its project.
PastWrite == RemovalLabels \cup {"cascade", "send", "commit", "rollback"}

Active(s) == pc[s] # "idle"
AddOps == {"addProject", "importProject"}
TaskOps == {"assignUser", "unassignUser", "setProcessPoints"}
ProjectOps ==
    {"getProject", "deleteProject", "addUser", "removeUser", "updateName", "updateDescription"}
Ops == {"getProjects"} \cup ProjectOps \cup AddOps \cup TaskOps

\* The project s has inserted and not committed.
Inserts(s, p) == Active(s) /\ req[s].op \in AddOps /\ id[s] = p

\* The id p was drawn, and its project committed or given up: from then on its
\* row keeps its owner until it is gone for good.
Settled(p) == p < nextProject /\ \A z \in Session : ~Inserts(z, p)

OwnerKnown(p, u) == Settled(p) /\ (projects[p] # NoRow => projects[p].owner = u)

\* Which requests get to which labels.
ControlOK(s) ==
    /\ Active(s) => req[s] \in Requests
    /\ welcoming[s] => pc[s] \in AddUserLabels
    /\ pc[s] \in AddUserLabels => welcoming[s] \/ req[s].op = "addUser"
    /\ pc[s] = "getProject" => req[s].op = "getProject"
    /\ pc[s] \in RemoveLabels => req[s].op = "removeUser"
    /\ pc[s] \in UnassignLabels => req[s].op \in {"removeUser", "unassignUser"}
    /\ pc[s] \in {"DeleteProject", "DeleteProject_owner", "delete", "cascade"} =>
         req[s].op = "deleteProject"
    /\ pc[s] \in {"UpdateName", "updateName_UPDATE"} => req[s].op = "updateName"
    /\ pc[s] \in {"UpdateDescription", "updateDescription_UPDATE"} =>
         req[s].op = "updateDescription"
    /\ pc[s] \in {"AddProject", "AddTasks"} => req[s].op \in AddOps
    /\ pc[s] \in {"AssignUser", "assignUser_UPDATE"} => req[s].op = "assignUser"
    /\ pc[s] \in {"SetProcessPoints", "assignee", "member", "setProcessPoints_UPDATE"} =>
         req[s].op = "setProcessPoints"
    /\ pc[s] = "send" => req[s].op \notin {"getProjects", "getProject"}

\* A session without a request holds nothing.
IdleOK(s) == ~Active(s) =>
    /\ dirtyP[s] = NothingP /\ dirtyT[s] = NothingT
    /\ id[s] = 0 /\ ~welcoming[s]

\* What s has made of the committed row of p, and by what right.
Changed(s, p) ==
    LET old == projects[p]
        new == dirtyP[s][p]
        r == req[s]
        OfHandler == r.op \in ProjectOps /\ r.project = p /\ pc[s] \in PastWrite
        OfOwner == OfHandler /\ r.uid = old.owner
    IN  /\ old # NoRow
        /\ p = PublicProject \/ OfHandler
        /\ new = NoRow => r.op = "deleteProject" /\ OfOwner
        /\ new # NoRow =>
             /\ new.owner = old.owner
             /\ new.users[new.owner] > 0
             /\ new.name # "empty"
             /\ new.name # old.name => r.op = "updateName" /\ OfOwner
             /\ new.description # old.description => r.op = "updateDescription" /\ OfOwner
             /\ new.users # old.users =>
                  \/ p = PublicProject
                  \/ r.op = "addUser" /\ OfOwner
                  \/ r.op = "removeUser" /\ (OfOwner \/ (OfHandler /\ r.uid = r.user))

WrittenP(s) == \A p \in ProjectId : dirtyP[s][p] # Clean => Inserts(s, p) \/ Changed(s, p)

\* The project s adds.
AddedOK(s) ==
    Active(s) /\ req[s].op \in AddOps =>
        /\ pc[s] \in AddUserLabels \cup {"AddProject"} => id[s] = 0
        /\ id[s] # 0 =>
             /\ id[s] \in ProjectId /\ id[s] < nextProject
             /\ projects[id[s]] = NoRow
             /\ dirtyP[s][id[s]] = addProject(DraftOf(req[s]))
             /\ ValidProject(DraftOf(req[s]))
        /\ pc[s] \in {"AddTasks", "send", "commit"} => id[s] # 0
        /\ pc[s] \in {"send", "commit"} => GetTasks(ViewT(s), id[s]) # {}

\* The tasks s has inserted, deleted and changed.
ChangedT(s, t) ==
    LET old == tasks[t]
        new == dirtyT[s][t]
        r == req[s]
        Kept == new # NoRow /\ new.project = old.project
    IN  \/ /\ r.op \in AddOps /\ pc[s] \in {"send", "commit"}
           /\ old = NoRow /\ t < nextTask
           /\ new # NoRow /\ new.project = id[s]
        \/ /\ old # NoRow
           /\ \/ /\ r.op = "deleteProject" /\ pc[s] \in {"cascade", "send", "commit"}
                 /\ new = NoRow /\ old.project = r.project /\ dirtyP[s][r.project] = NoRow
              \/ /\ r.op = "removeUser" /\ pc[s] \in PastWrite
                 /\ Kept /\ old.project = r.project /\ dirtyP[s][r.project] # Clean
              \/ /\ r.op \in TaskOps /\ pc[s] \in {"send", "commit"}
                 /\ Kept /\ t = r.task

WrittenT(s) == \A t \in TaskId : dirtyT[s][t] # Clean => ChangedT(s, t)

\* What s knows from its checks and reads: another session may have changed the
\* row since, but not its owner.
ReadOK(s, p) ==
    /\ read[s] \in ProjectRow
    /\ read[s].users[read[s].owner] > 0
    /\ OwnerKnown(p, read[s].owner)

Knows(s) ==
    LET r == req[s]
        a == AddUserArguments(s)
    IN  /\ pc[s] \in {"addUser", "addUser_UPDATE"} => OwnerKnown(a.project, a.requester)
        /\ pc[s] = "addUser_UPDATE" => ReadOK(s, a.project)
        /\ pc[s] \in {"removeUser", "removeUser_UPDATE"} =>
             /\ Settled(r.project)
             /\ projects[r.project] # NoRow =>
                  /\ projects[r.project].owner # r.user
                  /\ r.uid \in {projects[r.project].owner, r.user}
        /\ pc[s] = "removeUser_UPDATE" => ReadOK(s, r.project)
        /\ pc[s] \in {"delete", "updateName_UPDATE", "updateDescription_UPDATE"} =>
             OwnerKnown(r.project, r.uid)
        /\ pc[s] = "updateName_UPDATE" => ValidName(r.text)

\* The tasks RemoveUser goes through stay, and stay in their project, since s
\* holds the row of the project.
Walks(s) ==
    pc[s] \in RemovalLabels /\ req[s].op = "removeUser" =>
        LET p == req[s].project
            OfProject(t) == tasks[t] # NoRow /\ tasks[t].project = p
        IN  /\ pc[s] # "GetTasks" => \A t \in todo[s] : OfProject(t)
            /\ pc[s] \in UnassignLabels => id[s] \in TaskId /\ OfProject(id[s])

\* What s has done to the row it is about, once it has written it.
Done(s) == Active(s) =>
    LET r == req[s]
        Row(p) == dirtyP[s][p] \notin {Clean, NoRow}
        Task(t) == dirtyT[s][t] \notin {Clean, NoRow}
        closing == pc[s] \in {"send", "commit"}
    IN  /\ r.op = "addUser" /\ closing =>
             Row(r.project) /\ dirtyP[s][r.project].users[r.user] > 0
        /\ r.op = "removeUser" /\ pc[s] \in RemovalLabels \cup {"send", "commit"} =>
             Row(r.project) /\ dirtyP[s][r.project].users[r.user] = 0
        /\ r.op = "updateName" /\ closing =>
             Row(r.project) /\ dirtyP[s][r.project].name = FirstLine(r.text)
        /\ r.op = "updateDescription" /\ closing =>
             Row(r.project) /\ dirtyP[s][r.project].description = r.text
        /\ pc[s] = "cascade" => dirtyP[s][r.project] = NoRow
        /\ r.op = "deleteProject" /\ closing =>
             /\ Settled(r.project)
             /\ ViewP(s)[r.project] = NoRow
             /\ GetTasks(ViewT(s), r.project) = {}
        /\ r.op = "assignUser" /\ closing => Task(r.task) /\ dirtyT[s][r.task].assigned = r.uid
        /\ r.op = "unassignUser" /\ closing => Task(r.task) /\ dirtyT[s][r.task].assigned = NoUser
        /\ r.op = "setProcessPoints" /\ closing =>
             Task(r.task) /\ dirtyT[s][r.task].points = r.points

\* The messages have been sent.
Told(s) ==
    pc[s] = "commit" /\ req[s].op \in {"addUser", "removeUser", "updateName", "updateDescription"}
        => told[s] = MessagesOf(s)

SessionOK(s) ==
    /\ ControlOK(s) /\ IdleOK(s)
    /\ WrittenP(s) /\ AddedOK(s) /\ WrittenT(s)
    /\ Knows(s) /\ Walks(s)
    /\ Done(s) /\ Told(s)

\* A row has one writer, and an id is drawn by one session.
OneWriter ==
    \A s, z \in Session : s # z =>
        /\ \A p \in ProjectId : dirtyP[s][p] = Clean \/ dirtyP[z][p] = Clean
        /\ \A t \in TaskId : dirtyT[s][t] = Clean \/ dirtyT[z][t] = Clean
        /\ \A p \in ProjectId : ~(Inserts(s, p) /\ Inserts(z, p))

\* No committed row has an id its sequence will hand out.
Fresh ==
    /\ \A p \in ProjectId : projects[p] # NoRow => p < nextProject
    /\ \A t \in TaskId : tasks[t] # NoRow => t < nextTask

Committable == Fresh /\ OwnerIsMember /\ ProjectHasTasks

IInv == TypeOK /\ Committable /\ OneWriter /\ \A s \in Session : SessionOK(s)

-----------------------------------------------------------------------------
(* What the other sessions do to a session.                                *)

Same(z) ==
    /\ pc'[z] = pc[z] /\ req'[z] = req[z] /\ welcoming'[z] = welcoming[z]
    /\ read'[z] = read[z] /\ id'[z] = id[z] /\ todo'[z] = todo[z]
    /\ dirtyP'[z] = dirtyP[z] /\ dirtyT'[z] = dirtyT[z] /\ told'[z] = told[z]

\* Settled projects never change their owner, come back or get tasks; what z
\* has written stays as it was below, and a project it has written keeps its
\* tasks.
Rely(z) ==
    /\ Same(z)
    /\ nextProject <= nextProject' /\ nextTask <= nextTask'
    /\ \A p \in ProjectId : Settled(p) =>
         /\ Settled(p)'
         /\ projects'[p] # NoRow =>
              projects[p] # NoRow /\ projects'[p].owner = projects[p].owner
    /\ \A p \in ProjectId : dirtyP[z][p] # Clean =>
         /\ projects'[p] = projects[p]
         /\ \A t \in TaskId :
              tasks[t] # NoRow /\ tasks[t].project = p => tasks'[t] # NoRow
    /\ \A t \in TaskId : dirtyT[z][t] # Clean => tasks'[t] = tasks[t]
    /\ \A t \in TaskId : tasks'[t] # NoRow =>
         /\ tasks[t] = NoRow => ~Settled(tasks'[t].project)
         /\ tasks[t] # NoRow => tasks'[t].project = tasks[t].project

\* The fields of a request.
LEMMA RequestFields ==
    ASSUME NEW r \in Requests
    PROVE  /\ r.uid \in User
           /\ r.op \in ProjectOps => r.project \in ProjectId
           /\ r.op \in {"addUser", "removeUser"} => r.user \in User
           /\ r.op \in {"updateName", "updateDescription"} => r.text \in Text
           /\ r.op \in AddOps => r.draft \in Drafts
           /\ r.op \in TaskOps => r.task \in TaskId
           /\ r.op = "setProcessPoints" => r.points \in Points
           /\ r.op \in Ops
  BY RequestsAssumption, DraftsAssumption DEF RequestType, Ops, ProjectOps, AddOps, TaskOps

\* The draft of a request that adds a project, and the row it inserts.
LEMMA DraftOfType ==
    ASSUME NEW r \in Requests, r.op \in AddOps
    PROVE  /\ DraftOf(r) \in ProjectDraft
           /\ ValidProject(DraftOf(r)) => addProject(DraftOf(r)) \in ProjectRow
  <1>1. DraftOf(r) \in ProjectDraft
    BY RequestFields, DraftsAssumption, ImportType DEF DraftOf, AddOps
  <1>2. ASSUME NEW d \in ProjectDraft, ValidProject(d)
        PROVE  addProject(d) \in ProjectRow
    BY <1>2 DEF ValidProject, addProject, ProjectDraft, ProjectRow
  <1> QED
    BY <1>1, <1>2

\* What is known of an owner stays true.
LEMMA OwnerKnownStable ==
    ASSUME NEW z \in Session, Rely(z), NEW p \in ProjectId, NEW u, OwnerKnown(p, u)
    PROVE  OwnerKnown(p, u)'
  BY DEF Rely, OwnerKnown

\* What a session has written, knows and has done is not touched by others.
LEMMA SessionStable ==
    ASSUME TypeOK, TypeOK', ProjectHasTasks, NEW z \in Session, SessionOK(z), Rely(z)
    PROVE  SessionOK(z)'
  <1> DEFINE r == req[z]
             a == AddUserArguments(z)
  <1> USE DEF Active
  <1>1. Same(z) /\ UNCHANGED a
    BY DEF Rely, Same, AddUserArguments
  <1>2. ControlOK(z)
    BY DEF SessionOK
  <1>3. Active(z) => r \in Requests
    BY <1>2 DEF ControlOK
  <1>4. PublicProject \in ProjectId
    BY BoundsAssumption DEF PublicProject, ProjectId
  <1>5. ControlOK(z)'
    BY <1>1, <1>2 DEF ControlOK, Same
  <1>6. IdleOK(z)'
    BY <1>1 DEF SessionOK, IdleOK, Same, NothingP, NothingT
  <1>7. WrittenP(z)'
    <2> SUFFICES ASSUME NEW p \in ProjectId, dirtyP'[z][p] # Clean
                 PROVE  Inserts(z, p)' \/ Changed(z, p)'
      BY DEF WrittenP
    <2>1. dirtyP[z][p] # Clean /\ projects'[p] = projects[p]
      BY <1>1 DEF Same, Rely
    <2>2. CASE Inserts(z, p)
      BY <1>1, <2>2 DEF Inserts, Same
    <2>3. CASE Changed(z, p)
      BY <1>1, <2>1, <2>3 DEF Changed, Same
    <2> QED
      BY <2>1, <2>2, <2>3 DEF SessionOK, WrittenP
  <1>8. AddedOK(z)'
    <2> SUFFICES ASSUME Active(z), r.op \in AddOps
                 PROVE  AddedOK(z)'
      BY <1>1 DEF AddedOK, Same
    <2>1. id[z] # 0 => dirtyP[z][id[z]] # Clean /\ id[z] \in ProjectId
      BY <1>3, DraftOfType, CleanAssumption DEF SessionOK, AddedOK
    <2>2. id[z] # 0 => projects'[id[z]] = projects[id[z]]
      BY <2>1 DEF Rely
    <2>3. id[z] # 0 /\ GetTasks(ViewT(z), id[z]) # {} => GetTasks(ViewT(z), id[z])' # {}
      <3> SUFFICES ASSUME id[z] # 0, NEW t \in TaskId,
                          ViewT(z)[t] # NoRow, ViewT(z)[t].project = id[z]
                   PROVE  ViewT(z)'[t] # NoRow /\ ViewT(z)'[t].project = id[z]
        BY <1>1 DEF GetTasks, Same
      <3>1. projects[id[z]] = NoRow
        BY DEF SessionOK, AddedOK
      <3>2. dirtyT[z][t] # Clean
        BY <3>1 DEF ViewT, ProjectHasTasks
      <3> QED
        BY <1>1, <3>2 DEF ViewT, Same, Rely
    <2>4. AddedOK(z) /\ nextProject <= nextProject' /\ nextProject \in Nat /\ nextProject' \in Nat
      BY DEF SessionOK, Rely, TypeOK
    <2>5. id[z] # 0 => id[z] < nextProject'
      BY <2>1, <2>4 DEF AddedOK, ProjectId
    <2> QED
      BY <1>1, <2>1, <2>2, <2>3, <2>4, <2>5 DEF AddedOK, Same
  <1>9. WrittenT(z)'
    <2> SUFFICES ASSUME NEW t \in TaskId, dirtyT[z][t] # Clean
                 PROVE  ChangedT(z, t)'
      BY <1>1 DEF WrittenT, Same
    <2>1. ChangedT(z, t) /\ tasks'[t] = tasks[t] /\ nextTask <= nextTask'
      BY DEF SessionOK, WrittenT, Rely
    <2>2. t < nextTask => t < nextTask'
      BY <2>1 DEF TypeOK, TaskId
    <2> QED
      BY <1>1, <2>1, <2>2 DEF ChangedT, Same
  <1>10. Knows(z)'
    <2>1. a.project \in ProjectId \/ pc[z] \notin AddUserLabels
      BY <1>2, <1>3, <1>4, RequestFields
         DEF AddUserArguments, ControlOK, ProjectOps, AddUserLabels
    <2>2. r.project \in ProjectId
            \/ pc[z] \notin {"removeUser", "removeUser_UPDATE", "delete", "updateName_UPDATE",
                             "updateDescription_UPDATE"}
      BY <1>2, <1>3, RequestFields DEF ControlOK, ProjectOps, RemoveLabels
    <2>3. pc[z] \in {"addUser", "addUser_UPDATE"} => OwnerKnown(a.project, a.requester)'
      BY <1>1, <2>1, OwnerKnownStable DEF SessionOK, Knows, AddUserLabels
    <2>4. pc[z] = "addUser_UPDATE" => ReadOK(z, a.project)'
      BY <1>1, <2>1, OwnerKnownStable DEF SessionOK, Knows, AddUserLabels, ReadOK, Same
    <2>5. pc[z] = "removeUser_UPDATE" => ReadOK(z, r.project)'
      BY <1>1, <2>2, OwnerKnownStable DEF SessionOK, Knows, ReadOK, Same
    <2>6. pc[z] \in {"removeUser", "removeUser_UPDATE"} =>
             /\ Settled(r.project)'
             /\ projects'[r.project] # NoRow =>
                  /\ projects'[r.project].owner # r.user
                  /\ r.uid \in {projects'[r.project].owner, r.user}
      BY <1>1, <2>2 DEF SessionOK, Knows, Rely, Same
    <2>7. pc[z] \in {"delete", "updateName_UPDATE", "updateDescription_UPDATE"} =>
             OwnerKnown(r.project, r.uid)'
      BY <1>1, <2>2, OwnerKnownStable DEF SessionOK, Knows, Same
    <2>8. pc[z] = "updateName_UPDATE" => ValidName(r.text)
      BY DEF SessionOK, Knows
    <2> HIDE DEF a
    <2> QED
      BY <1>1, <2>3, <2>4, <2>5, <2>6, <2>7, <2>8 DEF Knows, Same, a
  <1>11. Walks(z)'
    <2> SUFFICES ASSUME pc[z] \in RemovalLabels, r.op = "removeUser"
                 PROVE  Walks(z)'
      BY <1>1 DEF Walks, Same
    <2> DEFINE p == r.project
    <2>1. Active(z) /\ p \in ProjectId
      BY <1>3, RequestFields DEF ProjectOps, RemovalLabels, UnassignLabels
    <2>2. dirtyP[z][p] # Clean
      BY <2>1 DEF SessionOK, Done
    <2>3. ASSUME NEW t \in TaskId, tasks[t] # NoRow, tasks[t].project = p
          PROVE  tasks'[t] # NoRow /\ tasks'[t].project = p
      BY <2>1, <2>2, <2>3 DEF Rely
    <2>4. Walks(z) /\ todo[z] \subseteq TaskId
      BY DEF SessionOK, TypeOK
    <2> QED
      BY <1>1, <2>3, <2>4 DEF Walks, Same
  <1>12. Done(z)'
    <2>1. ASSUME Active(z), r.op = "deleteProject", pc[z] \in {"send", "commit"}
          PROVE  /\ Settled(r.project)'
                 /\ ViewP(z)'[r.project] = NoRow
                 /\ GetTasks(ViewT(z), r.project)' = {}
      <3>1. r.project \in ProjectId
        BY <1>3, <2>1, RequestFields DEF ProjectOps
      <3>2. /\ Settled(r.project)
            /\ ViewP(z)[r.project] = NoRow
            /\ GetTasks(ViewT(z), r.project) = {}
        BY <2>1 DEF SessionOK, Done
      <3>3. ViewP(z)'[r.project] = NoRow
        BY <1>1, <3>1, <3>2 DEF ViewP, Same, Rely
      <3>4. ASSUME NEW t \in TaskId, ViewT(z)'[t] # NoRow
            PROVE  ViewT(z)'[t].project # r.project
        <4>1. /\ ViewT(z)[t] = IF dirtyT[z][t] = Clean THEN tasks[t] ELSE dirtyT[z][t]
              /\ ViewT(z)'[t] = IF dirtyT[z][t] = Clean THEN tasks'[t] ELSE dirtyT[z][t]
          BY <1>1 DEF ViewT, Same
        <4>2. CASE dirtyT[z][t] # Clean
          BY <3>2, <3>4, <4>1, <4>2 DEF GetTasks
        <4>3. CASE dirtyT[z][t] = Clean /\ tasks[t] = NoRow
          <5>1. tasks'[t] # NoRow /\ tasks'[t].project \in ProjectId
            BY <3>4, <4>1, <4>3 DEF TypeOK, Tasks, TaskRow
          <5>2. ~Settled(tasks'[t].project)
            BY <4>3, <5>1 DEF Rely
          <5> QED
            BY <3>2, <4>1, <4>3, <5>2
        <4>4. CASE dirtyT[z][t] = Clean /\ tasks[t] # NoRow
          <5>1. tasks'[t] # NoRow /\ tasks'[t].project = tasks[t].project
            BY <3>4, <4>1, <4>4 DEF Rely
          <5> QED
            BY <3>2, <4>1, <4>4, <5>1 DEF GetTasks
        <4> QED
          BY <4>2, <4>3, <4>4
      <3> QED
        BY <1>1, <3>1, <3>2, <3>3, <3>4 DEF GetTasks, Rely, Same
    <2> QED
      BY <1>1, <2>1 DEF SessionOK, Done, Same
  <1>13. Told(z)'
    <2> SUFFICES ASSUME pc[z] = "commit",
                        r.op \in {"addUser", "removeUser", "updateName", "updateDescription"}
                 PROVE  told'[z] = MessagesOf(z)'
      BY <1>1 DEF Told, Same
    <2>1. r.project \in ProjectId /\ dirtyP[z][r.project] # Clean
      BY <1>3, RequestFields DEF SessionOK, Done, ProjectOps
    <2>2. ViewP(z)'[r.project] = ViewP(z)[r.project]
      BY <1>1, <2>1 DEF ViewP, Same
    <2>3. sendUpdate(z, r.project)' = sendUpdate(z, r.project)
      BY <1>1, <2>2 DEF sendUpdate, MessageTo, Members, Same
    <2> QED
      BY <1>1, <2>3 DEF SessionOK, Told, MessagesOf, sendUserRemoved, Same, AddOps
  <1> QED
    BY <1>5, <1>6, <1>7, <1>8, <1>9, <1>10, <1>11, <1>12, <1>13 DEF SessionOK

-----------------------------------------------------------------------------
(* The steps of a session that leave the committed tables alone.           *)

\* Nothing but the session and the sequences change; if s becomes the one that
\* inserts a project, its id was not drawn before.
Frame(s) ==
    /\ \A z \in Session \ {s} : Same(z)
    /\ UNCHANGED database
    /\ nextProject <= nextProject' /\ nextTask <= nextTask'
    /\ \A p \in ProjectId : Inserts(s, p)' => Inserts(s, p) \/ p = nextProject

\* What such a step of s has to be shown to keep.
StepOK(s) == TypeOK' /\ OneWriter' /\ SessionOK(s)' /\ Frame(s)

\* A settled project stays settled.
LEMMA FrameSettled ==
    ASSUME TypeOK, TypeOK', NEW s \in Session, Frame(s), NEW p \in ProjectId, Settled(p)
    PROVE  Settled(p)'
  <1>1. p < nextProject /\ p < nextProject'
    BY DEF TypeOK, Frame, Settled, ProjectId
  <1>2. ~Inserts(s, p)'
    BY <1>1 DEF Frame, Settled, TypeOK, ProjectId
  <1>3. ASSUME NEW z \in Session \ {s}
        PROVE  ~Inserts(z, p)'
    BY DEF Frame, Settled, Inserts, Same, Active
  <1> QED
    BY <1>1, <1>2, <1>3 DEF Settled

\* Such a step is one the others can rely on.
LEMMA FrameRely ==
    ASSUME TypeOK, TypeOK', NEW s \in Session, Frame(s), NEW z \in Session \ {s}
    PROVE  Rely(z)
  <1>1. Same(z) /\ UNCHANGED <<projects, tasks>>
    BY DEF Frame, database
  <1>2. nextProject <= nextProject' /\ nextTask <= nextTask'
    BY DEF Frame
  <1>3. \A p \in ProjectId : Settled(p) => Settled(p)'
    BY FrameSettled
  <1> QED
    BY <1>1, <1>2, <1>3 DEF Rely

\* The session goes to label l.
Jump(s, l, b) ==
    /\ pc' = [pc EXCEPT ![s] = l]
    /\ welcoming' = [welcoming EXCEPT ![s] = b]

\* Where the handlers begin.
FirstLabels == {"commit", "getProject", "AddUser", "RemoveUser", "DeleteProject", "UpdateName",
                "UpdateDescription", "AddProject", "AssignUser", "UnassignUser",
                "SetProcessPoints"}

\* Where the handler of a request begins, and which request begins there.
LEMMA HandlerLabel ==
    ASSUME NEW op \in Ops
    PROVE  /\ Handler(op) \in FirstLabels
           /\ Handler(op) = "AddUser" => op = "addUser"
           /\ Handler(op) = "getProject" => op = "getProject"
           /\ Handler(op) = "RemoveUser" => op = "removeUser"
           /\ Handler(op) = "UnassignUser" => op = "unassignUser"
           /\ Handler(op) = "DeleteProject" => op = "deleteProject"
           /\ Handler(op) = "UpdateName" => op = "updateName"
           /\ Handler(op) = "UpdateDescription" => op = "updateDescription"
           /\ Handler(op) = "AddProject" => op \in AddOps
           /\ Handler(op) = "AssignUser" => op = "assignUser"
           /\ Handler(op) = "SetProcessPoints" => op = "setProcessPoints"
           /\ Handler(op) = "commit" => op = "getProjects"
  BY DEF Handler, FirstLabels, Ops, ProjectOps, AddOps, TaskOps

\* An error before the handler leads into the handler, any other to the end.
LEMMA FailJumps ==
    ASSUME TypeOK, NEW s \in Session, Fail(s)
    PROVE  \E l : /\ Jump(s, l, FALSE)
                  /\ \/ ~welcoming[s] /\ l = "rollback"
                     \/ welcoming[s] /\ l = Handler(req[s].op)
  BY DEF Fail, Goto, EnterHandler, Jump, TypeOK

\* Return and Goto are such jumps; only Return may lead to the handler.
LEMMA ReturnJumps ==
    ASSUME TypeOK, NEW s \in Session, NEW label, Return(s, label)
    PROVE  \E l : /\ Jump(s, l, FALSE)
                  /\ \/ ~welcoming[s] /\ l = label
                     \/ welcoming[s] /\ l = Handler(req[s].op)
  BY DEF Return, Goto, EnterHandler, Jump, TypeOK

\* A Goto leaves the part of the request it is in unchanged.
LEMMA GotoJumps ==
    ASSUME TypeOK, NEW s \in Session, NEW l, Goto(s, l)
    PROVE  Jump(s, l, welcoming[s])
  BY DEF Goto, Jump, TypeOK

\* In the handler, that part is the handler.
LEMMA GotoJumpsOn ==
    ASSUME TypeOK, NEW s \in Session, NEW l, Goto(s, l), ~welcoming[s]
    PROVE  Jump(s, l, FALSE)
  BY DEF Goto, Jump, TypeOK

\* A step that writes nothing.
Quiet(s) ==
    /\ UNCHANGED <<database, sequences, served, req, id, todo, written, told>>
    /\ read' \in [Session -> ProjectRow \cup {NoRow}]
    /\ \A z \in Session \ {s} : read'[z] = read[z]

\* It keeps the parts of the invariant that are not about the session alone.
LEMMA QuietFrame ==
    ASSUME IInv, NEW s \in Session, NEW l \in Labels \ {"idle"}, NEW b \in BOOLEAN,
           Active(s), Jump(s, l, b), Quiet(s)
    PROVE  TypeOK' /\ OneWriter' /\ Frame(s)
  <1>1. TypeOK'
    BY DEF IInv, TypeOK, Jump, Quiet, database, sequences, written
  <1>2. \A z \in Session : Active(z)' = Active(z)
    BY DEF IInv, TypeOK, Jump, Active
  <1>3. \A z \in Session : \A p \in ProjectId : Inserts(z, p)' <=> Inserts(z, p)
    BY <1>2 DEF Inserts, Quiet
  <1>4. OneWriter'
    BY <1>3 DEF IInv, OneWriter, Quiet, written
  <1>5. \A z \in Session \ {s} : Same(z)
    BY DEF Same, Jump, Quiet, IInv, TypeOK, written
  <1>6. Frame(s)
    BY <1>3, <1>5 DEF Frame, Quiet, sequences, IInv, TypeOK
  <1> QED
    BY <1>1, <1>4, <1>6

\* It leads from a statement that reads to another, or to one that writes.
Onward(s, l) ==
    /\ pc[s] \notin {"send", "commit", "cascade", "rollback"}
    /\ l \notin {"send", "cascade", "AddTasks"}
    /\ l = "commit" => req[s].op \in {"getProject", "getProjects"}
    /\ l \in AddUserLabels \cup {"AddProject"} => pc[s] \in AddUserLabels
    /\ pc[s] \in PastWrite => l \in PastWrite
    /\ l \in RemovalLabels /\ req[s].op = "removeUser" =>
         l \in UnassignLabels /\ pc[s] \in UnassignLabels

\* What such a step keeps of the session's part.
LEMMA QuietSession ==
    ASSUME IInv, NEW s \in Session, NEW l \in Labels \ {"idle"}, NEW b \in BOOLEAN,
           Active(s), Jump(s, l, b), Quiet(s), Onward(s, l)
    PROVE  /\ IdleOK(s)' /\ WrittenP(s)' /\ AddedOK(s)' /\ WrittenT(s)'
           /\ Walks(s)' /\ Done(s)' /\ Told(s)'
  <1>1. /\ pc'[s] = l /\ req' = req /\ id' = id /\ todo' = todo /\ told' = told
        /\ dirtyP' = dirtyP /\ dirtyT' = dirtyT /\ projects' = projects /\ tasks' = tasks
        /\ nextProject' = nextProject /\ nextTask' = nextTask
    BY DEF IInv, TypeOK, Jump, Quiet, database, sequences, written
  <1>2. SessionOK(s)
    BY DEF IInv
  <1>3. IdleOK(s)'
    BY <1>1 DEF IdleOK, Active
  <1>4. WrittenP(s)'
    BY <1>1, <1>2 DEF SessionOK, WrittenP, Changed, Inserts, Active, Onward
  <1>5. AddedOK(s)'
    BY <1>1, <1>2 DEF SessionOK, AddedOK, Active, AddOps, Onward
  <1>6. WrittenT(s)'
    BY <1>1, <1>2 DEF SessionOK, WrittenT, ChangedT, AddOps, TaskOps, Onward
  <1>7. Walks(s)'
    BY <1>1, <1>2 DEF SessionOK, Walks, RemovalLabels, UnassignLabels, Onward
  <1>8. Done(s)'
    BY <1>1, <1>2 DEF SessionOK, Done, Active, RemovalLabels, UnassignLabels, Onward
  <1>9. Told(s)'
    BY <1>1 DEF Told, Onward
  <1> QED
    BY <1>3, <1>4, <1>5, <1>6, <1>7, <1>8, <1>9

\* A request that begins its handler holds at most the row of the public
\* project.
LEMMA EnterOK ==
    ASSUME IInv, NEW s \in Session, welcoming[s],
           Jump(s, Handler(req[s].op), FALSE), Quiet(s)
    PROVE  StepOK(s)
  <1> DEFINE l == Handler(req[s].op)
  <1>1. /\ pc[s] \in AddUserLabels /\ Active(s) /\ req[s].op \in Ops
        /\ pc \in [Session -> Labels] /\ welcoming \in [Session -> BOOLEAN]
    BY RequestFields DEF IInv, TypeOK, SessionOK, ControlOK, AddUserLabels, Active
  <1>2. /\ l \in FirstLabels
        /\ l = "commit" => req[s].op \in {"getProject", "getProjects"}
        /\ l = "UnassignUser" => req[s].op # "removeUser"
    BY <1>1, HandlerLabel
  <1>8. /\ l \in Labels \ {"idle"}
        /\ l \notin {"send", "cascade", "AddTasks", "addUser", "addUser_UPDATE"}
        /\ l \in RemovalLabels => req[s].op # "removeUser"
    <2> HIDE DEF l
    <2> QED
      BY <1>2 DEF FirstLabels, Labels, RemovalLabels, UnassignLabels
  <1>3. TypeOK' /\ OneWriter' /\ Frame(s)
    BY <1>1, <1>8, QuietFrame
  <1>4. /\ IdleOK(s)' /\ WrittenP(s)' /\ AddedOK(s)' /\ WrittenT(s)'
        /\ Walks(s)' /\ Done(s)' /\ Told(s)'
    <2>1. pc[s] \notin {"send", "commit", "cascade", "rollback"} /\ pc[s] \notin PastWrite
      BY <1>1 DEF AddUserLabels, PastWrite, RemovalLabels, UnassignLabels
    <2>2. Onward(s, l)
      BY <1>1, <1>2, <1>8, <2>1 DEF Onward
    <2>3. Jump(s, l, FALSE)
      OBVIOUS
    <2> HIDE DEF l
    <2> QED
      BY <1>1, <1>8, <2>2, <2>3, QuietSession
  <1>5. pc'[s] = l /\ ~welcoming'[s] /\ req'[s] = req[s]
    BY <1>1 DEF Jump, Quiet
  <1>6. ControlOK(s)'
    <2>1. req[s] \in Requests
      BY <1>1 DEF IInv, SessionOK, ControlOK
    <2>2. /\ l = "AddUser" => req[s].op = "addUser"
          /\ l = "getProject" => req[s].op = "getProject"
          /\ l = "RemoveUser" => req[s].op = "removeUser"
          /\ l = "UnassignUser" => req[s].op = "unassignUser"
          /\ l = "DeleteProject" => req[s].op = "deleteProject"
          /\ l = "UpdateName" => req[s].op = "updateName"
          /\ l = "UpdateDescription" => req[s].op = "updateDescription"
          /\ l = "AddProject" => req[s].op \in AddOps
          /\ l = "AssignUser" => req[s].op = "assignUser"
          /\ l = "SetProcessPoints" => req[s].op = "setProcessPoints"
      BY <1>1, HandlerLabel
    <2> HIDE DEF l
    <2> QED
      BY <1>2, <1>5, <2>1, <2>2
         DEF ControlOK, Active, FirstLabels, AddUserLabels, RemoveLabels, UnassignLabels
  <1>7. Knows(s)'
    <2> HIDE DEF l
    <2> QED
      BY <1>2, <1>5 DEF Knows, FirstLabels
  <1> QED
    BY <1>3, <1>4, <1>6, <1>7 DEF StepOK, SessionOK

\* An error of a service leaves the session in order.
LEMMA FailOK ==
    ASSUME IInv, NEW s \in Session, Fail(s), Quiet(s),
           pc[s] \notin {"idle", "send", "commit", "cascade", "rollback"}
    PROVE  StepOK(s)
  <1>1. PICK l : /\ Jump(s, l, FALSE)
                 /\ \/ ~welcoming[s] /\ l = "rollback"
                    \/ welcoming[s] /\ l = Handler(req[s].op)
    BY FailJumps DEF IInv
  <1>2. CASE welcoming[s]
    BY <1>1, <1>2, EnterOK
  <1>3. CASE ~welcoming[s]
    <2>1. Jump(s, "rollback", FALSE) /\ Active(s)
      BY <1>1, <1>3 DEF Active
    <2>2. TypeOK' /\ OneWriter' /\ Frame(s)
      BY <2>1, QuietFrame DEF Labels
    <2>3. /\ IdleOK(s)' /\ WrittenP(s)' /\ AddedOK(s)' /\ WrittenT(s)'
          /\ Walks(s)' /\ Done(s)' /\ Told(s)'
      BY <2>1, QuietSession DEF Onward, Labels, PastWrite, RemovalLabels, UnassignLabels, AddUserLabels
    <2>4. pc'[s] = "rollback" /\ ~welcoming'[s] /\ req'[s] = req[s]
      BY <2>1 DEF Jump, Quiet, IInv, TypeOK
    <2>5. ControlOK(s)'
      BY <2>1, <2>4 DEF IInv, SessionOK, ControlOK, Active, AddUserLabels, RemoveLabels, UnassignLabels
    <2>6. Knows(s)'
      BY <2>4 DEF Knows
    <2> QED
      BY <2>2, <2>3, <2>5, <2>6 DEF StepOK, SessionOK
  <1> QED
    BY <1>2, <1>3 DEF IInv, TypeOK

\* A check that succeeds, and a read: what is left to show is that the next
\* label fits the request and that what was read is what s knows from now on.
LEMMA PassOK ==
    ASSUME IInv, NEW s \in Session, NEW l \in Labels \ {"idle"},
           Active(s), Goto(s, l), Quiet(s), Onward(s, l),
           TypeOK' /\ Frame(s) => ControlOK(s)' /\ Knows(s)'
    PROVE  StepOK(s)
  <1>1. Jump(s, l, welcoming[s]) /\ welcoming[s] \in BOOLEAN
    BY GotoJumps DEF IInv, TypeOK
  <1>2. TypeOK' /\ OneWriter' /\ Frame(s)
    BY <1>1, QuietFrame
  <1>3. /\ IdleOK(s)' /\ WrittenP(s)' /\ AddedOK(s)' /\ WrittenT(s)'
        /\ Walks(s)' /\ Done(s)' /\ Told(s)'
    BY <1>1, QuietSession
  <1> QED
    BY <1>2, <1>3 DEF StepOK, SessionOK

\* A row that s sees and has not inserted is that of a settled project, with the
\* owner it was committed with, who is a member.
LEMMA Seen ==
    ASSUME IInv, NEW s \in Session, NEW p \in ProjectId, ViewP(s)[p] # NoRow, ~Inserts(s, p)
    PROVE  /\ Settled(p) /\ projects[p] # NoRow
           /\ ViewP(s)[p] \in ProjectRow
           /\ ViewP(s)[p].owner = projects[p].owner
           /\ ViewP(s)[p].users[ViewP(s)[p].owner] > 0
           /\ ViewP(s)[p].name # "empty"
  <1>1. ViewP(s)[p] = IF dirtyP[s][p] = Clean THEN projects[p] ELSE dirtyP[s][p]
    BY DEF ViewP
  <1>2. ViewP(s)[p] \in ProjectRow
    BY <1>1 DEF IInv, TypeOK, Projects
  <1>3. dirtyP[s][p] # Clean => Changed(s, p)
    BY DEF IInv, SessionOK, WrittenP
  <1>4. projects[p] # NoRow
    BY <1>1, <1>3 DEF Changed
  <1>5. \A z \in Session : ~Inserts(z, p)
    BY <1>4 DEF IInv, SessionOK, AddedOK, Inserts, ProjectId
  <1>6. Settled(p)
    BY <1>4, <1>5 DEF IInv, Committable, Fresh, Settled
  <1>7. CASE dirtyP[s][p] = Clean
    BY <1>1, <1>2, <1>4, <1>6, <1>7
       DEF IInv, Committable, OwnerIsMember, ProjectHasTasks, Members, ProjectRow
  <1>8. CASE dirtyP[s][p] # Clean
    BY <1>1, <1>2, <1>3, <1>4, <1>6, <1>8 DEF Changed
  <1> QED
    BY <1>7, <1>8

\* A session that adds a user, and one that works on a project, has inserted no
\* project.
LEMMA InsertsNot ==
    ASSUME IInv, NEW s \in Session, NEW p \in ProjectId,
           pc[s] \in AddUserLabels \/ req[s].op \notin AddOps
    PROVE  ~Inserts(s, p)
  BY DEF IInv, SessionOK, AddedOK, Inserts, ProjectId

\* The project and the users AddUser is about.
LEMMA AddUserFields ==
    ASSUME IInv, NEW s \in Session, pc[s] \in AddUserLabels
    PROVE  /\ AddUserArguments(s).project \in ProjectId
           /\ AddUserArguments(s).user \in User
           /\ welcoming[s] => AddUserArguments(s).project = PublicProject
           /\ ~welcoming[s] =>
                /\ req[s].op = "addUser"
                /\ AddUserArguments(s).project = req[s].project
                /\ AddUserArguments(s).user = req[s].user
                /\ AddUserArguments(s).requester = req[s].uid
  <1>1. PublicProject \in ProjectId
    BY BoundsAssumption DEF PublicProject, ProjectId
  <1>2. req[s] \in Requests /\ (welcoming[s] \/ req[s].op = "addUser")
    BY DEF IInv, SessionOK, ControlOK, Active, AddUserLabels
  <1> QED
    BY <1>1, <1>2, RequestFields DEF AddUserArguments, ProjectOps

\* The project of a request.
LEMMA ProjectField ==
    ASSUME IInv, NEW s \in Session, Active(s), req[s].op \in ProjectOps
    PROVE  req[s].project \in ProjectId /\ \A p \in ProjectId : ~Inserts(s, p)
  BY RequestFields DEF IInv, SessionOK, ControlOK, Inserts, ProjectOps, AddOps

\* What is known of an owner survives the steps of s.
LEMMA OwnerKnownKept ==
    ASSUME TypeOK, TypeOK', NEW s \in Session, Frame(s),
           NEW p \in ProjectId, NEW u, OwnerKnown(p, u)
    PROVE  OwnerKnown(p, u)'
  <1>1. Settled(p)' /\ projects' = projects
    BY FrameSettled DEF OwnerKnown, Frame, database
  <1> QED
    BY <1>1 DEF OwnerKnown

-----------------------------------------------------------------------------
(* The statements that only check.                                         *)

\* A check keeps the invariant if what s knows at its next label follows from
\* the check.
LEMMA VerifyOK ==
    ASSUME IInv, NEW s \in Session, NEW label, NEW ok \in BOOLEAN, NEW l \in Labels \ {"idle"},
           Verify(s, label, ok, l),
           label \notin {"idle", "send", "commit", "cascade", "rollback"},
           ok => Onward(s, l),
           ok /\ Goto(s, l) /\ Quiet(s) /\ TypeOK' /\ Frame(s) => ControlOK(s)' /\ Knows(s)'
    PROVE  StepOK(s)
  <1>1. Quiet(s) /\ Active(s) /\ pc[s] = label
    BY DEF Verify, Quiet, locals, Active, IInv, TypeOK
  <1>2. CASE ok
    BY <1>1, <1>2, PassOK DEF Verify
  <1>3. CASE ~ok
    BY <1>1, <1>3, FailOK DEF Verify
  <1> QED
    BY <1>2, <1>3

\* Where a session is after Goto, and what it is about.
LEMMA After ==
    ASSUME IInv, NEW s \in Session, NEW l, Goto(s, l), Quiet(s)
    PROVE  /\ pc'[s] = l /\ welcoming'[s] = welcoming[s] /\ req'[s] = req[s]
           /\ AddUserArguments(s)' = AddUserArguments(s)
           /\ projects' = projects
  BY DEF Goto, Quiet, IInv, TypeOK, AddUserArguments, database

\* AddUser learns from VerifyOwnership who owns the project; this stays true.
LEMMA AddUserCheckOK ==
    ASSUME IInv, NEW s \in Session, AddUserCheck(s)
    PROVE  StepOK(s)
  <1> DEFINE a == AddUserArguments(s)
             ok == CanAddUser(ViewP(s), a.project, a.user, a.requester)
  <1>1. pc[s] = "AddUser" /\ Verify(s, "AddUser", ok, "addUser") /\ ok \in BOOLEAN
    BY DEF AddUserCheck, Verify, CanAddUser, VerifyOwnership
  <1>2. Onward(s, "addUser")
    BY <1>1 DEF Onward, AddUserLabels, PastWrite, RemovalLabels, UnassignLabels
  <1>3. ASSUME ok, Goto(s, "addUser"), Quiet(s), TypeOK', Frame(s)
        PROVE  ControlOK(s)' /\ Knows(s)'
    <2>1. a.project \in ProjectId /\ ~Inserts(s, a.project)
      BY <1>1, AddUserFields, InsertsNot DEF AddUserLabels
    <2>2. ViewP(s)[a.project] # NoRow /\ ViewP(s)[a.project].owner = a.requester
      BY <1>3 DEF CanAddUser, VerifyOwnership
    <2>3. OwnerKnown(a.project, a.requester)
      BY <2>1, <2>2, Seen DEF OwnerKnown
    <2> HIDE DEF a
    <2>4. \A p \in ProjectId : \A u : OwnerKnown(p, u) => OwnerKnown(p, u)'
      BY <1>3, OwnerKnownKept DEF IInv
    <2>5. /\ pc'[s] = "addUser" /\ welcoming'[s] = welcoming[s] /\ req'[s] = req[s]
          /\ a' = a
      BY <1>3, After DEF a
    <2>6. ControlOK(s)'
      BY <1>1, <2>5 DEF IInv, SessionOK, ControlOK, Active, AddUserLabels, RemoveLabels, UnassignLabels
    <2>7. Knows(s)'
      BY <2>1, <2>3, <2>4, <2>5 DEF Knows, a
    <2> QED
      BY <2>6, <2>7
  <1> HIDE DEF ok, a
  <1> QED
    BY <1>1, <1>2, <1>3, VerifyOK DEF Labels

\* Checks after which the session knows nothing that lasts.
PlainCheck(label, l) ==
    \/ label = "getProject" /\ l = "commit"
    \/ label = "RemoveUser" /\ l = "RemoveUser_removed"
    \/ label = "UnassignUser" /\ l = "unassignUser_UPDATE"
    \/ label = "AssignUser" /\ l = "assignUser_UPDATE"
    \/ label = "SetProcessPoints" /\ l \in {"assignee", "member"}
    \/ label \in {"assignee", "member"} /\ l = "setProcessPoints_UPDATE"

\* A check after which nothing is remembered.
LEMMA PlainCheckOK ==
    ASSUME IInv, NEW s \in Session, NEW label, NEW ok \in BOOLEAN, NEW l,
           PlainCheck(label, l), Verify(s, label, ok, l)
    PROVE  StepOK(s)
  <1>1. pc[s] = label /\ l \in Labels \ {"idle"}
    BY DEF Verify, PlainCheck, Labels
  <1>2. label \notin {"idle", "send", "commit", "cascade", "rollback"}
    BY DEF PlainCheck
  <1>3. ControlOK(s)
    BY DEF IInv, SessionOK
  <1>4. Onward(s, l)
    BY <1>1, <1>3
       DEF Onward, PlainCheck, ControlOK, AddUserLabels, PastWrite, RemovalLabels, UnassignLabels
  <1>5. ASSUME Goto(s, l), Quiet(s)
        PROVE  ControlOK(s)' /\ Knows(s)'
    <2>1. pc'[s] = l /\ welcoming'[s] = welcoming[s] /\ req'[s] = req[s]
      BY <1>5, After
    <2>2. ControlOK(s)'
      BY <1>1, <1>3, <2>1
         DEF PlainCheck, ControlOK, Active, AddUserLabels, RemoveLabels, UnassignLabels
    <2>3. Knows(s)'
      BY <2>1 DEF PlainCheck, Knows
    <2> QED
      BY <2>2, <2>3
  <1> QED
    BY <1>1, <1>2, <1>4, <1>5, VerifyOK

\* These are the checks of that kind.
LEMMA PlainChecksOK ==
    ASSUME IInv, NEW s \in Session,
           \/ GetProject(s) \/ RemoveUserRequester(s) \/ UnassignUserCheck(s)
           \/ AssignUserCheck(s) \/ SetProcessPointsNeeded(s)
           \/ SetProcessPointsAssignee(s) \/ SetProcessPointsMember(s)
    PROVE  StepOK(s)
  <1>1. \E label, l : \E ok \in BOOLEAN : PlainCheck(label, l) /\ Verify(s, label, ok, l)
    <2>1. CASE GetProject(s)
      BY <2>1 DEF GetProject, PlainCheck, VerifyMembershipProject
    <2>2. CASE RemoveUserRequester(s)
      BY <2>2 DEF RemoveUserRequester, PlainCheck, VerifyMembershipProject
    <2>3. CASE UnassignUserCheck(s)
      BY <2>3 DEF UnassignUserCheck, PlainCheck, VerifyAssignment
    <2>4. CASE AssignUserCheck(s)
      BY <2>4 DEF AssignUserCheck, PlainCheck, Assignable
    <2>5. CASE SetProcessPointsNeeded(s)
      BY <2>5 DEF SetProcessPointsNeeded, PlainCheck, AssignmentInTaskDefined
    <2>6. CASE SetProcessPointsAssignee(s)
      BY <2>6 DEF SetProcessPointsAssignee, PlainCheck
    <2>7. CASE SetProcessPointsMember(s)
      BY <2>7 DEF SetProcessPointsMember, PlainCheck
    <2> QED
      BY <2>1, <2>2, <2>3, <2>4, <2>5, <2>6, <2>7
  <1> QED
    BY <1>1, PlainCheckOK

\* RemoveUser learns that the removed user is not the owner, and that the
\* requester is the owner or the removed user; no other request changes that.
LEMMA RemoveUserRemovedOK ==
    ASSUME IInv, NEW s \in Session, RemoveUserRemoved(s)
    PROVE  StepOK(s)
  <1> DEFINE r == req[s]
             p == r.project
             ok == CanBeRemoved(ViewP(s), p, r.uid, r.user)
  <1>1. pc[s] = "RemoveUser_removed" /\ Verify(s, "RemoveUser_removed", ok, "removeUser")
    BY DEF RemoveUserRemoved, Verify
  <1>2. ok \in BOOLEAN
    BY DEF CanBeRemoved
  <1>3. ControlOK(s) /\ r.op = "removeUser"
    BY <1>1 DEF IInv, SessionOK, ControlOK, RemoveLabels
  <1>4. Onward(s, "removeUser")
    BY <1>1 DEF Onward, AddUserLabels, PastWrite, RemovalLabels, UnassignLabels
  <1>5. ASSUME ok, Goto(s, "removeUser"), Quiet(s), TypeOK', Frame(s)
        PROVE  ControlOK(s)' /\ Knows(s)'
    <2>1. p \in ProjectId /\ ~Inserts(s, p)
      BY <1>1, <1>3, ProjectField DEF Active, ProjectOps
    <2>2. /\ ViewP(s)[p] # NoRow /\ ViewP(s)[p].owner # r.user
          /\ r.uid = r.user \/ ViewP(s)[p].owner = r.uid
      BY <1>5 DEF CanBeRemoved, VerifyOwnership, VerifyMembershipProject
    <2>3. /\ Settled(p) /\ projects[p].owner # r.user
          /\ r.uid \in {projects[p].owner, r.user}
      BY <2>1, <2>2, Seen
    <2>4. Settled(p)'
      <3>1. \A q \in ProjectId : Settled(q) => Settled(q)'
        BY <1>5, FrameSettled DEF IInv
      <3> QED
        BY <1>5, <2>1, <2>3, <3>1, After
    <2>5. /\ pc'[s] = "removeUser" /\ welcoming'[s] = welcoming[s] /\ req'[s] = req[s]
          /\ projects' = projects
      BY <1>5, After
    <2>6. ControlOK(s)'
      BY <1>1, <1>3, <2>5 DEF ControlOK, Active, AddUserLabels, RemoveLabels, UnassignLabels
    <2>7. Knows(s)'
      BY <2>3, <2>4, <2>5 DEF Knows
    <2> QED
      BY <2>6, <2>7
  <1> HIDE DEF ok
  <1> QED
    BY <1>1, <1>2, <1>4, <1>5, VerifyOK DEF Labels

\* The owner asks, and no one else will be the owner when the write is done.
OwnerCheck(label, l) ==
    \/ label = "DeleteProject_owner" /\ l = "delete"
    \/ label = "UpdateName" /\ l = "updateName_UPDATE"
    \/ label = "UpdateDescription" /\ l = "updateDescription_UPDATE"

\* A check that the requester owns the project of the request.
LEMMA OwnerCheckOK ==
    ASSUME IInv, NEW s \in Session, NEW label, NEW ok \in BOOLEAN, NEW l,
           OwnerCheck(label, l), Verify(s, label, ok, l),
           ok => VerifyOwnership(ViewP(s), req[s].project, req[s].uid),
           ok /\ label = "UpdateName" => ValidName(req[s].text)
    PROVE  StepOK(s)
  <1> DEFINE r == req[s]
             p == r.project
  <1>1. pc[s] = label /\ l \in Labels \ {"idle"}
    BY DEF Verify, OwnerCheck, Labels
  <1>2. label \notin {"idle", "send", "commit", "cascade", "rollback"}
    BY DEF OwnerCheck
  <1>3. ControlOK(s) /\ r.op \in ProjectOps
    BY <1>1 DEF OwnerCheck, IInv, SessionOK, ControlOK, ProjectOps
  <1>4. Onward(s, l)
    BY <1>1 DEF Onward, OwnerCheck, AddUserLabels, PastWrite, RemovalLabels, UnassignLabels
  <1>5. ASSUME ok, Goto(s, l), Quiet(s), TypeOK', Frame(s)
        PROVE  ControlOK(s)' /\ Knows(s)'
    <2>1. p \in ProjectId /\ ~Inserts(s, p)
      BY <1>1, <1>2, <1>3, ProjectField DEF Active
    <2>2. OwnerKnown(p, r.uid)
      BY <1>5, <2>1, Seen DEF VerifyOwnership, OwnerKnown
    <2>3. pc'[s] = l /\ welcoming'[s] = welcoming[s] /\ req'[s] = req[s]
      BY <1>5, After
    <2>4. OwnerKnown(p, r.uid)'
      <3>1. \A q \in ProjectId : \A u : OwnerKnown(q, u) => OwnerKnown(q, u)'
        BY <1>5, OwnerKnownKept DEF IInv
      <3> QED
        BY <2>1, <2>2, <2>3, <3>1
    <2>5. ControlOK(s)'
      BY <1>1, <1>3, <2>3
         DEF OwnerCheck, ControlOK, Active, AddUserLabels, RemoveLabels, UnassignLabels
    <2>6. Knows(s)'
      BY <1>1, <1>5, <2>3, <2>4 DEF OwnerCheck, Knows
    <2> QED
      BY <2>5, <2>6
  <1> QED
    BY <1>1, <1>2, <1>4, <1>5, VerifyOK

\* These are the checks of that kind.
LEMMA OwnerChecksOK ==
    ASSUME IInv, NEW s \in Session,
           DeleteProjectCheck(s) \/ UpdateNameCheck(s) \/ UpdateDescriptionCheck(s)
    PROVE  StepOK(s)
  <1>1. CASE DeleteProjectCheck(s)
    BY <1>1, OwnerCheckOK DEF DeleteProjectCheck, OwnerCheck, VerifyOwnership
  <1>2. CASE UpdateNameCheck(s)
    BY <1>2, OwnerCheckOK DEF UpdateNameCheck, OwnerCheck
  <1>3. CASE UpdateDescriptionCheck(s)
    BY <1>3, OwnerCheckOK DEF UpdateDescriptionCheck, OwnerCheck
  <1> QED
    BY <1>1, <1>2, <1>3

-----------------------------------------------------------------------------
(* The statements that read a row the service keeps.                       *)

\* The row a session keeps was committed or is its own, and its owner a member.
LEMMA ReadKeeps ==
    ASSUME IInv, TypeOK', NEW s \in Session, NEW p \in ProjectId, Frame(s),
           ~Inserts(s, p), ViewP(s)[p] # NoRow, read' = [read EXCEPT ![s] = ViewP(s)[p]]
    PROVE  /\ read'[s] \in ProjectRow
           /\ read'[s].users[read'[s].owner] > 0
           /\ OwnerKnown(p, ViewP(s)[p].owner) /\ read'[s] = ViewP(s)[p]
  BY Seen DEF OwnerKnown, IInv, TypeOK

\* Reading a project changes only what the session remembers.
LEMMA ReadQuiet ==
    ASSUME IInv, NEW s \in Session, NEW label, NEW p \in ProjectId, NEW l,
           ReadProject(s, label, p, l)
    PROVE  Quiet(s) /\ pc[s] = label
  <1>1. ViewP(s)[p] \in ProjectRow \cup {NoRow}
    BY DEF ViewP, IInv, TypeOK, Projects
  <1> QED
    BY <1>1 DEF ReadProject, Quiet, IInv, TypeOK

\* The array AddUser reads is one of a project whose owner is in it.
LEMMA AddUserReadOK ==
    ASSUME IInv, NEW s \in Session, AddUserRead(s)
    PROVE  StepOK(s)
  <1> DEFINE a == AddUserArguments(s)
             p == a.project
             l == "addUser_UPDATE"
  <1>1. pc[s] = "addUser" /\ ReadProject(s, "addUser", p, l)
    BY DEF AddUserRead, ReadProject
  <1>2. p \in ProjectId /\ ~Inserts(s, p)
    BY <1>1, AddUserFields, InsertsNot DEF AddUserLabels
  <1>3. Quiet(s) /\ Active(s)
    BY <1>1, <1>2, ReadQuiet DEF Active
  <1>4. CASE ViewP(s)[p] = NoRow
    BY <1>1, <1>3, <1>4, FailOK DEF ReadProject
  <1>5. CASE ViewP(s)[p] # NoRow
    <2>1. Goto(s, l) /\ read' = [read EXCEPT ![s] = ViewP(s)[p]]
      BY <1>1, <1>5 DEF ReadProject
    <2>2. Onward(s, l)
      BY <1>1 DEF Onward, AddUserLabels, PastWrite, RemovalLabels, UnassignLabels
    <2>3. ASSUME TypeOK', Frame(s)
          PROVE  ControlOK(s)' /\ Knows(s)'
      <3>1. /\ read'[s] \in ProjectRow
            /\ read'[s].users[read'[s].owner] > 0
            /\ OwnerKnown(p, read'[s].owner)
        BY <1>2, <1>5, <2>1, <2>3, ReadKeeps
      <3>2. OwnerKnown(p, a.requester)
        BY <1>1 DEF IInv, SessionOK, Knows
      <3> HIDE DEF a
      <3>3. \A q \in ProjectId : \A u : OwnerKnown(q, u) => OwnerKnown(q, u)'
        BY <2>3, OwnerKnownKept DEF IInv
      <3>4. /\ pc'[s] = l /\ welcoming'[s] = welcoming[s] /\ req'[s] = req[s]
            /\ a' = a
        BY <1>3, <2>1, After DEF a
      <3>5. ControlOK(s)'
        BY <1>1, <3>4 DEF IInv, SessionOK, ControlOK, Active, AddUserLabels, RemoveLabels, UnassignLabels
      <3>6. PICK u : u = read'[s].owner /\ OwnerKnown(p, u)
        BY <3>1
      <3>7. OwnerKnown(p, u)'
        BY <1>2, <3>3, <3>4, <3>6
      <3>8. ReadOK(s, p)'
        BY <3>1, <3>4, <3>6, <3>7 DEF ReadOK
      <3>9. Knows(s)'
        BY <1>2, <3>2, <3>3, <3>4, <3>8 DEF Knows, a
      <3> QED
        BY <3>5, <3>9
    <2> QED
      BY <1>3, <2>1, <2>2, <2>3, PassOK DEF Labels
  <1> QED
    BY <1>4, <1>5

\* The same for the array RemoveUser reads.
LEMMA RemoveUserReadOK ==
    ASSUME IInv, NEW s \in Session, RemoveUserRead(s)
    PROVE  StepOK(s)
  <1> DEFINE r == req[s]
             p == r.project
             l == "removeUser_UPDATE"
  <1>1. pc[s] = "removeUser" /\ ReadProject(s, "removeUser", p, l)
    BY DEF RemoveUserRead, ReadProject
  <1>2. ControlOK(s) /\ r.op = "removeUser"
    BY <1>1 DEF IInv, SessionOK, ControlOK, RemoveLabels
  <1>3. p \in ProjectId /\ ~Inserts(s, p)
    BY <1>1, <1>2, ProjectField DEF Active, ProjectOps
  <1>4. Quiet(s) /\ Active(s)
    BY <1>1, <1>3, ReadQuiet DEF Active
  <1>5. CASE ViewP(s)[p] = NoRow
    BY <1>1, <1>4, <1>5, FailOK DEF ReadProject
  <1>6. CASE ViewP(s)[p] # NoRow
    <2>1. Goto(s, l) /\ read' = [read EXCEPT ![s] = ViewP(s)[p]]
      BY <1>1, <1>6 DEF ReadProject
    <2>2. Onward(s, l)
      BY <1>1 DEF Onward, AddUserLabels, PastWrite, RemovalLabels, UnassignLabels
    <2>3. ASSUME TypeOK', Frame(s)
          PROVE  ControlOK(s)' /\ Knows(s)'
      <3>1. /\ read'[s] \in ProjectRow
            /\ read'[s].users[read'[s].owner] > 0
            /\ OwnerKnown(p, read'[s].owner)
        BY <1>3, <1>6, <2>1, <2>3, ReadKeeps
      <3>2. /\ Settled(p)
            /\ projects[p] # NoRow =>
                 projects[p].owner # r.user /\ r.uid \in {projects[p].owner, r.user}
        BY <1>1 DEF IInv, SessionOK, Knows
      <3>3. \A q \in ProjectId : \A u : OwnerKnown(q, u) => OwnerKnown(q, u)'
        BY <2>3, OwnerKnownKept DEF IInv
      <3>4. /\ pc'[s] = l /\ welcoming'[s] = welcoming[s] /\ req'[s] = req[s]
            /\ projects' = projects
        BY <1>4, <2>1, After
      <3>5. ControlOK(s)'
        BY <1>1, <1>2, <3>4 DEF ControlOK, Active, AddUserLabels, RemoveLabels, UnassignLabels
      <3>6. PICK u : u = read'[s].owner /\ OwnerKnown(p, u)
        BY <3>1
      <3>7. OwnerKnown(p, u)'
        BY <1>3, <3>3, <3>4, <3>6
      <3>8. ReadOK(s, p)' /\ Settled(p)'
        BY <3>1, <3>4, <3>6, <3>7 DEF ReadOK, OwnerKnown
      <3>9. Knows(s)'
        BY <3>2, <3>4, <3>8 DEF Knows
      <3> QED
        BY <3>5, <3>9
    <2> QED
      BY <1>4, <2>1, <2>2, <2>3, PassOK DEF Labels
  <1> QED
    BY <1>5, <1>6

\* The handler of a delete keeps the users of the project for the messages.
LEMMA DeleteProjectReadOK ==
    ASSUME IInv, NEW s \in Session, DeleteProjectRead(s)
    PROVE  StepOK(s)
  <1> DEFINE r == req[s]
             p == r.project
             l == "DeleteProject_owner"
             ok == VerifyMembershipProject(ViewP(s), p, r.uid)
  <1>1. pc[s] = "DeleteProject"
    BY DEF DeleteProjectRead
  <1>2. ControlOK(s) /\ r.op = "deleteProject"
    BY <1>1 DEF IInv, SessionOK, ControlOK
  <1>3. p \in ProjectId
    BY <1>1, <1>2, ProjectField DEF Active, ProjectOps
  <1>4. ViewP(s)[p] \in ProjectRow \cup {NoRow}
    BY <1>3 DEF ViewP, IInv, TypeOK, Projects
  <1>5. Quiet(s) /\ Active(s)
    BY <1>1, <1>4 DEF DeleteProjectRead, Quiet, Active, IInv, TypeOK
  <1>6. CASE ~ok
    BY <1>1, <1>5, <1>6, FailOK DEF DeleteProjectRead
  <1>7. CASE ok
    <2>1. Goto(s, l)
      BY <1>7 DEF DeleteProjectRead
    <2>2. Onward(s, l)
      BY <1>1 DEF Onward, AddUserLabels, PastWrite, RemovalLabels, UnassignLabels
    <2>3. pc'[s] = l /\ welcoming'[s] = welcoming[s] /\ req'[s] = req[s]
      BY <1>5, <2>1, After
    <2>4. ControlOK(s)' /\ Knows(s)'
      BY <1>1, <1>2, <2>3
         DEF ControlOK, Knows, Active, AddUserLabels, RemoveLabels, UnassignLabels
    <2> QED
      BY <1>5, <2>1, <2>2, <2>4, PassOK DEF Labels
  <1> QED
    BY <1>6, <1>7

-----------------------------------------------------------------------------
(* The statements that write the row of a project.                         *)

WriteLabels ==
    {"addUser_UPDATE", "removeUser_UPDATE", "updateName_UPDATE", "updateDescription_UPDATE"}

\* Before the handler has written, s sees the committed row, except for the users
\* of the public project.
LEMMA SeenBefore ==
    ASSUME IInv, NEW s \in Session, NEW p \in ProjectId, ViewP(s)[p] # NoRow,
           ~Inserts(s, p), pc[s] \notin PastWrite
    PROVE  /\ ViewP(s)[p].name = projects[p].name
           /\ ViewP(s)[p].description = projects[p].description
           /\ p = PublicProject \/ ViewP(s)[p].users = projects[p].users
  <1>1. ViewP(s)[p] = IF dirtyP[s][p] = Clean THEN projects[p] ELSE dirtyP[s][p]
    BY DEF ViewP
  <1>2. dirtyP[s][p] # Clean => Changed(s, p)
    BY DEF IInv, SessionOK, WrittenP
  <1> QED
    BY <1>1, <1>2 DEF Changed

\* A write of a free row keeps the parts that are not about the session alone.
LEMMA WritePFrame ==
    ASSUME IInv, NEW s \in Session, NEW p \in ProjectId, NEW row \in ProjectRow \cup {NoRow},
           NEW l \in Labels \ {"idle"}, NEW b \in BOOLEAN,
           Active(s), Jump(s, l, b), FreeP(s, p), WriteP(s, p, row),
           UNCHANGED <<database, sequences, served, req, locals, told>>
    PROVE  TypeOK' /\ OneWriter' /\ Frame(s)
  <1>1. dirtyP' \in [Session -> [ProjectId -> ProjectRow \cup {NoRow, Clean}]]
    BY DEF WriteP, IInv, TypeOK
  <1>2. TypeOK'
    BY <1>1 DEF IInv, TypeOK, Jump, WriteP, database, sequences, locals
  <1>3. \A z \in Session : Active(z)' = Active(z)
    BY DEF IInv, TypeOK, Jump, Active
  <1>4. \A z \in Session : \A q \in ProjectId : Inserts(z, q)' <=> Inserts(z, q)
    BY <1>3 DEF Inserts, locals
  <1>5. /\ \A z \in Session \ {s} : dirtyP'[z] = dirtyP[z]
        /\ \A q \in ProjectId \ {p} : dirtyP'[s][q] = dirtyP[s][q]
        /\ dirtyT' = dirtyT
    BY DEF WriteP, IInv, TypeOK
  <1>6. OneWriter'
    BY <1>4, <1>5 DEF IInv, OneWriter, FreeP
  <1>7. \A z \in Session \ {s} : Same(z)
    BY <1>5 DEF Same, Jump, IInv, TypeOK, locals
  <1>8. Frame(s)
    BY <1>4, <1>7 DEF Frame, sequences, IInv, TypeOK
  <1> QED
    BY <1>2, <1>6, <1>8

\* What a request may make of the row of its project.
RowOK(s, p, row) ==
    LET r == req[s]
        old == projects[p]
        handles == ~welcoming[s]
    IN  /\ row \in ProjectRow
        /\ row.owner = old.owner
        /\ row.users[row.owner] > 0
        /\ row.name # "empty"
        /\ row.name # old.name => handles /\ r.op = "updateName" /\ r.uid = old.owner
        /\ row.description # old.description =>
             handles /\ r.op = "updateDescription" /\ r.uid = old.owner
        /\ row.users # old.users =>
             \/ p = PublicProject
             \/ handles /\ r.op = "addUser" /\ r.uid = old.owner
             \/ handles /\ r.op = "removeUser" /\ r.uid \in {old.owner, r.user}
        /\ handles =>
             /\ r.op = "addUser" => row.users[r.user] > 0
             /\ r.op = "removeUser" => row.users[r.user] = 0
             /\ r.op = "updateName" => row.name = FirstLine(r.text)
             /\ r.op = "updateDescription" => row.description = r.text

\* An UPDATE of a project's row keeps the invariant if the row it leaves may
\* follow the committed one.
LEMMA UpdateProjectOK ==
    ASSUME IInv, NEW s \in Session, NEW label \in WriteLabels, NEW p \in ProjectId, NEW row,
           NEW next \in {"send", "GetTasks"},
           UpdateProject(s, label, p, row, next),
           welcoming[s] => p = PublicProject,
           ~welcoming[s] =>
             /\ req[s].op \in {"addUser", "removeUser", "updateName", "updateDescription"}
             /\ p = req[s].project
             /\ req[s].op = "removeUser" <=> next = "GetTasks",
           ViewP(s)[p] # NoRow => projects[p] # NoRow /\ RowOK(s, p, row)
    PROVE  StepOK(s)
  <1> DEFINE r == req[s]
  <1>1. /\ pc[s] = label /\ FreeP(s, p) /\ Active(s)
        /\ UNCHANGED <<database, sequences, served, req, locals, told>>
    BY DEF UpdateProject, WriteLabels, Active
  <1>2. SessionOK(s) /\ r \in Requests
    BY <1>1 DEF IInv, SessionOK, ControlOK
  <1>3. CASE ViewP(s)[p] = NoRow
    <2>1. Fail(s) /\ Quiet(s)
      BY <1>3 DEF UpdateProject, Quiet, locals, IInv, TypeOK
    <2> QED
      BY <1>1, <2>1, FailOK DEF WriteLabels
  <1>4. CASE ViewP(s)[p] # NoRow
    <2>1. PICK l : /\ Jump(s, l, FALSE)
                   /\ \/ ~welcoming[s] /\ l = next
                      \/ welcoming[s] /\ l = Handler(r.op)
      BY <1>4, ReturnJumps DEF UpdateProject, IInv
    <2>2. WriteP(s, p, row) /\ RowOK(s, p, row) /\ row \in ProjectRow /\ projects[p] # NoRow
      BY <1>4 DEF UpdateProject, RowOK
    <2>3. r.op \in Ops
      BY <1>2, RequestFields
    <2>4. /\ welcoming[s] => l \in FirstLabels /\ (l = "UnassignUser" => r.op = "unassignUser")
          /\ l \in Labels \ {"idle"}
      BY <2>1, <2>3, HandlerLabel DEF FirstLabels, Labels
    <2>5. TypeOK' /\ OneWriter' /\ Frame(s)
      BY <1>1, <2>1, <2>2, <2>4, WritePFrame
    <2>6. /\ pc'[s] = l /\ welcoming'[s] = FALSE /\ req' = req /\ projects' = projects
          /\ tasks' = tasks /\ id' = id /\ todo' = todo /\ nextTask' = nextTask
          /\ nextProject' = nextProject /\ told' = told /\ dirtyT' = dirtyT
          /\ dirtyP'[s][p] = row /\ row # Clean /\ row # NoRow
          /\ \A q \in ProjectId \ {p} : dirtyP'[s][q] = dirtyP[s][q]
      BY <1>1, <2>1, <2>2, CleanAssumption, NoRowAssumption
         DEF Jump, WriteP, IInv, TypeOK, database, sequences, locals
    <2>7. /\ pc[s] \notin PastWrite /\ pc[s] \notin {"send", "commit", "cascade"}
          /\ \A t \in TaskId : dirtyT[s][t] = Clean
          /\ r.op \in AddOps => id[s] = 0
      BY <1>1, <1>2
         DEF SessionOK, WrittenT, ChangedT, AddedOK, WriteLabels, PastWrite, RemovalLabels,
             UnassignLabels, AddUserLabels, AddOps, ControlOK
    <2>8. ControlOK(s)'
      <3>1. CASE ~welcoming[s]
        BY <1>1, <1>2, <2>1, <2>6, <3>1
           DEF ControlOK, Active, AddUserLabels, RemoveLabels, UnassignLabels
      <3>2. CASE welcoming[s]
        <4>1. /\ l = "AddUser" => r.op = "addUser"
              /\ l = "getProject" => r.op = "getProject"
              /\ l = "RemoveUser" => r.op = "removeUser"
              /\ l = "UnassignUser" => r.op = "unassignUser"
              /\ l = "DeleteProject" => r.op = "deleteProject"
              /\ l = "UpdateName" => r.op = "updateName"
              /\ l = "UpdateDescription" => r.op = "updateDescription"
              /\ l = "AddProject" => r.op \in AddOps
              /\ l = "AssignUser" => r.op = "assignUser"
              /\ l = "SetProcessPoints" => r.op = "setProcessPoints"
          BY <2>1, <2>3, <3>2, HandlerLabel
        <4> QED
          BY <1>2, <2>4, <2>6, <3>2, <4>1
             DEF ControlOK, Active, FirstLabels, AddUserLabels, RemoveLabels, UnassignLabels
      <3> QED
        BY <3>1, <3>2 DEF IInv, TypeOK
    <2>9. WrittenP(s)'
      <3> SUFFICES ASSUME NEW q \in ProjectId, dirtyP'[s][q] # Clean
                   PROVE  Inserts(s, q)' \/ Changed(s, q)'
        BY DEF WrittenP
      <3>1. CASE q = p
        BY <2>1, <2>2, <2>6, <3>1 DEF Changed, RowOK, ProjectOps, PastWrite, RemovalLabels
      <3>2. CASE q # p
        BY <1>1, <1>2, <2>4, <2>6, <2>7, <3>2 DEF SessionOK, WrittenP, Changed, Inserts, Active
      <3> QED
        BY <3>1, <3>2
    <2>10. AddedOK(s)' /\ IdleOK(s)' /\ WrittenT(s)'
      <3>1. r.op \in AddOps => welcoming[s] /\ l \in FirstLabels
        BY <2>4 DEF AddOps
      <3> QED
        BY <2>3, <2>4, <2>6, <2>7, <3>1, HandlerLabel, <2>1
           DEF AddedOK, IdleOK, WrittenT, Active, FirstLabels, AddOps
    <2>11. Knows(s)' /\ Walks(s)' /\ Told(s)'
      <3>1. CASE welcoming[s]
        BY <2>4, <2>6, <3>1, <2>1, <2>3, HandlerLabel
           DEF Knows, Walks, Told, FirstLabels, RemovalLabels, UnassignLabels
      <3>2. CASE ~welcoming[s]
        BY <2>1, <2>6, <3>2 DEF Knows, Walks, Told, UnassignLabels
      <3> QED
        BY <3>1, <3>2
    <2>12. Done(s)'
      <3>1. CASE welcoming[s]
        BY <2>4, <2>6, <3>1, <2>1, <2>3, HandlerLabel
           DEF Done, FirstLabels, RemovalLabels, UnassignLabels
      <3>2. CASE ~welcoming[s]
        BY <2>1, <2>2, <2>6, <3>2 DEF Done, RowOK, RemovalLabels, UnassignLabels
      <3> QED
        BY <3>1, <3>2
    <2> QED
      BY <2>5, <2>8, <2>9, <2>10, <2>11, <2>12 DEF StepOK, SessionOK
  <1> QED
    BY <1>3, <1>4

\* AddUser writes the users it read, and the new one.
LEMMA AddUserWriteOK ==
    ASSUME IInv, NEW s \in Session, AddUserWrite(s)
    PROVE  StepOK(s)
  <1> DEFINE r == req[s]
             a == AddUserArguments(s)
             p == a.project
             users == addUser(read[s].users, a.user)
             row == updateUsers(ViewP(s)[p], users)
  <1>1. /\ pc[s] = "addUser_UPDATE"
        /\ UpdateProject(s, "addUser_UPDATE", p, row, "send")
    BY DEF AddUserWrite, UpdateProject
  <1>2. /\ p \in ProjectId /\ ~Inserts(s, p) /\ a.user \in User
        /\ welcoming[s] => p = PublicProject
        /\ ~welcoming[s] => r.op = "addUser" /\ p = r.project /\ a.user = r.user
                              /\ a.requester = r.uid
    BY <1>1, AddUserFields, InsertsNot DEF AddUserLabels
  <1>3. /\ read[s] \in ProjectRow /\ read[s].users[read[s].owner] > 0
        /\ OwnerKnown(p, read[s].owner) /\ OwnerKnown(p, a.requester)
    BY <1>1 DEF IInv, SessionOK, Knows, ReadOK
  <1>4. ASSUME ViewP(s)[p] # NoRow
        PROVE  projects[p] # NoRow /\ RowOK(s, p, row)
    <2> DEFINE seen == ViewP(s)[p]
    <2>1. /\ projects[p] # NoRow /\ seen \in ProjectRow
          /\ seen.owner = projects[p].owner /\ seen.name # "empty"
      BY <1>2, <1>4, Seen
    <2>2. seen.name = projects[p].name /\ seen.description = projects[p].description
      BY <1>1, <1>2, <1>4, SeenBefore DEF PastWrite, RemovalLabels, UnassignLabels
    <2>3. read[s].owner = seen.owner /\ a.requester = seen.owner
      BY <1>3, <2>1 DEF OwnerKnown
    <2>4. /\ read[s].users \in Users /\ users \in Users /\ users[a.user] > 0
          /\ \A u \in User : users[u] >= read[s].users[u]
      BY <1>2, <1>3, UsersType DEF ProjectRow, Users, addUser
    <2>5. users[seen.owner] > 0
      BY <1>3, <2>1, <2>3, <2>4 DEF ProjectRow, Users
    <2>6. /\ row \in ProjectRow /\ row.owner = seen.owner /\ row.name = seen.name
          /\ row.description = seen.description /\ row.users = users
      BY <2>1, <2>4 DEF updateUsers, ProjectRow
    <2> HIDE DEF seen, users, row, a
    <2> QED
      BY <1>2, <2>1, <2>2, <2>3, <2>4, <2>5, <2>6 DEF RowOK
  <1> HIDE DEF row, a
  <1> QED
    BY <1>1, <1>2, <1>4, UpdateProjectOK DEF WriteLabels

\* RemoveUser writes the users it read without one who is not the owner.
LEMMA RemoveUserWriteOK ==
    ASSUME IInv, NEW s \in Session, RemoveUserWrite(s)
    PROVE  StepOK(s)
  <1> DEFINE r == req[s]
             p == r.project
             users == removeUser(read[s].users, r.user)
             row == updateUsers(ViewP(s)[p], users)
  <1>1. /\ pc[s] = "removeUser_UPDATE"
        /\ UpdateProject(s, "removeUser_UPDATE", p, row, "GetTasks")
    BY DEF RemoveUserWrite, UpdateProject
  <1>2. ~welcoming[s] /\ r.op = "removeUser" /\ r \in Requests
    BY <1>1 DEF IInv, SessionOK, ControlOK, Active, RemoveLabels, AddUserLabels
  <1>3. p \in ProjectId /\ ~Inserts(s, p) /\ r.user \in User
    BY <1>1, <1>2, ProjectField, RequestFields DEF Active, ProjectOps
  <1>4. /\ read[s] \in ProjectRow /\ read[s].users[read[s].owner] > 0
        /\ OwnerKnown(p, read[s].owner)
        /\ projects[p] # NoRow =>
             projects[p].owner # r.user /\ r.uid \in {projects[p].owner, r.user}
    BY <1>1 DEF IInv, SessionOK, Knows, ReadOK
  <1>5. ASSUME ViewP(s)[p] # NoRow
        PROVE  projects[p] # NoRow /\ RowOK(s, p, row)
    <2> DEFINE seen == ViewP(s)[p]
    <2>1. /\ projects[p] # NoRow /\ seen \in ProjectRow
          /\ seen.owner = projects[p].owner /\ seen.name # "empty"
      BY <1>3, <1>5, Seen
    <2>2. seen.name = projects[p].name /\ seen.description = projects[p].description
      BY <1>1, <1>3, <1>5, SeenBefore DEF PastWrite, RemovalLabels, UnassignLabels
    <2>3. read[s].owner = seen.owner
      BY <1>4, <2>1 DEF OwnerKnown
    <2>4. /\ users \in Users /\ users[r.user] = 0
          /\ \A u \in User \ {r.user} : users[u] = read[s].users[u]
      BY <1>3, <1>4, UsersType DEF ProjectRow, Users, removeUser
    <2>5. users[seen.owner] > 0
      BY <1>4, <2>1, <2>3, <2>4 DEF ProjectRow
    <2>6. /\ row \in ProjectRow /\ row.owner = seen.owner /\ row.name = seen.name
          /\ row.description = seen.description /\ row.users = users
      BY <2>1, <2>4 DEF updateUsers, ProjectRow
    <2> HIDE DEF seen, users, row
    <2> QED
      BY <1>2, <1>4, <2>1, <2>2, <2>4, <2>5, <2>6 DEF RowOK
  <1> HIDE DEF row
  <1> QED
    BY <1>1, <1>2, <1>3, <1>5, UpdateProjectOK DEF WriteLabels

\* The owner changes the name or the description.
LEMMA UpdateTextOK ==
    ASSUME IInv, NEW s \in Session, UpdateNameWrite(s) \/ UpdateDescriptionWrite(s)
    PROVE  StepOK(s)
  <1> DEFINE r == req[s]
             p == r.project
             seen == ViewP(s)[p]
  <1>1. pc[s] \in {"updateName_UPDATE", "updateDescription_UPDATE"}
    BY DEF UpdateNameWrite, UpdateDescriptionWrite, UpdateProject
  <1>2. /\ ~welcoming[s] /\ r.op \in {"updateName", "updateDescription"} /\ r \in Requests
        /\ pc[s] = "updateName_UPDATE" => r.op = "updateName"
        /\ pc[s] = "updateDescription_UPDATE" => r.op = "updateDescription"
    BY <1>1 DEF IInv, SessionOK, ControlOK, Active, AddUserLabels
  <1>3. p \in ProjectId /\ ~Inserts(s, p) /\ r.text \in Text
    BY <1>1, <1>2, ProjectField, RequestFields DEF Active, ProjectOps
  <1>4. /\ OwnerKnown(p, r.uid)
        /\ pc[s] = "updateName_UPDATE" => ValidName(r.text)
    BY <1>1 DEF IInv, SessionOK, Knows
  <1>5. ASSUME seen # NoRow
        PROVE  /\ projects[p] # NoRow /\ seen \in ProjectRow
               /\ seen.owner = projects[p].owner /\ seen.name # "empty"
               /\ seen.users[seen.owner] > 0 /\ r.uid = projects[p].owner
               /\ seen.name = projects[p].name /\ seen.description = projects[p].description
               /\ p = PublicProject \/ seen.users = projects[p].users
    BY <1>1, <1>3, <1>4, <1>5, Seen, SeenBefore
       DEF OwnerKnown, PastWrite, RemovalLabels, UnassignLabels
  <1>6. CASE UpdateNameWrite(s)
    <2> DEFINE row == updateName(seen, FirstLine(r.text))
    <2>1. UpdateProject(s, "updateName_UPDATE", p, row, "send") /\ pc[s] = "updateName_UPDATE"
      BY <1>6 DEF UpdateNameWrite, UpdateProject
    <2>2. FirstLine(r.text) \in Text /\ FirstLine(r.text) # "empty"
      BY <1>3, <1>4, <2>1, FirstLineType DEF ValidName, IsBlank
    <2>3. ASSUME seen # NoRow
          PROVE  RowOK(s, p, row)
      <3>1. /\ row \in ProjectRow /\ row.owner = seen.owner /\ row.name = FirstLine(r.text)
            /\ row.description = seen.description /\ row.users = seen.users
        BY <1>5, <2>2, <2>3 DEF updateName, ProjectRow
      <3> HIDE DEF seen, row
      <3> QED
        BY <1>2, <1>5, <2>1, <2>2, <2>3, <3>1 DEF RowOK
    <2> HIDE DEF row
    <2> QED
      BY <1>2, <1>3, <1>5, <2>1, <2>3, UpdateProjectOK DEF WriteLabels
  <1>7. CASE UpdateDescriptionWrite(s)
    <2> DEFINE row == updateDescription(seen, r.text)
    <2>1. /\ UpdateProject(s, "updateDescription_UPDATE", p, row, "send")
          /\ pc[s] = "updateDescription_UPDATE"
      BY <1>7 DEF UpdateDescriptionWrite, UpdateProject
    <2>2. ASSUME seen # NoRow
          PROVE  RowOK(s, p, row)
      <3>1. /\ row \in ProjectRow /\ row.owner = seen.owner /\ row.name = seen.name
            /\ row.description = r.text /\ row.users = seen.users
        BY <1>3, <1>5, <2>2 DEF updateDescription, ProjectRow
      <3> HIDE DEF seen, row
      <3> QED
        BY <1>2, <1>5, <2>1, <2>2, <3>1 DEF RowOK
    <2> HIDE DEF row
    <2> QED
      BY <1>2, <1>3, <1>5, <2>1, <2>2, UpdateProjectOK DEF WriteLabels
  <1> QED
    BY <1>6, <1>7

-----------------------------------------------------------------------------
(* Deleting a project, and the tasks with it.                              *)

\* A committed project is settled: an id is drawn once.
LEMMA CommittedSettled ==
    ASSUME IInv, NEW p \in ProjectId, projects[p] # NoRow
    PROVE  Settled(p)
  <1>1. \A z \in Session : ~Inserts(z, p)
    BY DEF IInv, SessionOK, AddedOK, Inserts, ProjectId
  <1> QED
    BY <1>1 DEF IInv, Committable, Fresh, Settled

\* The tables after Goto: what a session keeps of what was known before.
LEMMA SettledKept ==
    ASSUME IInv, TypeOK', NEW s \in Session, Frame(s), NEW p \in ProjectId, Settled(p)
    PROVE  Settled(p)'
  BY FrameSettled DEF IInv

\* The DELETE of the row: only the owner gets there.
LEMMA DeleteProjectWriteOK ==
    ASSUME IInv, NEW s \in Session, DeleteProjectWrite(s)
    PROVE  StepOK(s)
  <1> DEFINE r == req[s]
             p == r.project
  <1>1. /\ pc[s] = "delete" /\ FreeP(s, p) /\ Active(s)
        /\ UNCHANGED <<database, sequences, served, req, locals, told>>
    BY DEF DeleteProjectWrite, Active
  <1>2. SessionOK(s) /\ ~welcoming[s] /\ r.op = "deleteProject" /\ r \in Requests
    BY <1>1 DEF IInv, SessionOK, ControlOK, AddUserLabels
  <1>3. p \in ProjectId /\ ~Inserts(s, p)
    BY <1>1, <1>2, ProjectField DEF ProjectOps
  <1>4. OwnerKnown(p, r.uid)
    BY <1>1, <1>2 DEF SessionOK, Knows
  <1>5. /\ pc[s] \notin PastWrite
        /\ \A t \in TaskId : dirtyT[s][t] = Clean
    BY <1>1, <1>2 DEF SessionOK, WrittenT, ChangedT, PastWrite, RemovalLabels, UnassignLabels,
                      AddOps, TaskOps
  <1>6. CASE ViewP(s)[p] = NoRow
    <2>1. Goto(s, "send") /\ Quiet(s)
      BY <1>1, <1>6 DEF DeleteProjectWrite, Quiet, locals, IInv, TypeOK
    <2>2. Jump(s, "send", FALSE)
      BY <1>2, <2>1, GotoJumpsOn DEF IInv
    <2>3. TypeOK' /\ OneWriter' /\ Frame(s)
      BY <1>1, <2>1, <2>2, QuietFrame DEF Labels
    <2>4. /\ pc'[s] = "send" /\ welcoming'[s] = FALSE /\ req' = req /\ projects' = projects
          /\ tasks' = tasks /\ id' = id /\ nextTask' = nextTask
          /\ nextProject' = nextProject /\ dirtyT' = dirtyT /\ dirtyP' = dirtyP
      BY <2>1, <2>2 DEF Jump, Quiet, IInv, TypeOK, database, sequences, written
    <2>5. dirtyP[s][p] # NoRow
      BY <1>2, <1>3, <1>5, CleanAssumption DEF SessionOK, WrittenP, Changed
    <2>6. projects[p] = NoRow
      BY <1>3, <1>6, <2>5 DEF ViewP
    <2>7. GetTasks(ViewT(s), p) = {}
      BY <1>5, <2>6 DEF GetTasks, ViewT, IInv, Committable, ProjectHasTasks
    <2>8. Settled(p)'
      <3>1. \A q \in ProjectId : Settled(q) => Settled(q)'
        BY <2>3, SettledKept
      <3> QED
        BY <1>3, <1>4, <2>4, <3>1 DEF OwnerKnown
    <2>9. ViewP(s)' = ViewP(s) /\ ViewT(s)' = ViewT(s)
      BY <2>4 DEF ViewP, ViewT
    <2>10. Done(s)'
      BY <1>2, <1>6, <2>4, <2>7, <2>8, <2>9 DEF Done, RemovalLabels, UnassignLabels
    <2>11. ControlOK(s)' /\ IdleOK(s)' /\ Knows(s)' /\ Walks(s)' /\ Told(s)'
      BY <1>2, <2>4 DEF ControlOK, IdleOK, Knows, Walks, Told, Active, AddUserLabels,
                        RemoveLabels, RemovalLabels, UnassignLabels
    <2>12. WrittenP(s)' /\ WrittenT(s)' /\ AddedOK(s)'
      BY <1>2, <1>5, <2>4 DEF SessionOK, WrittenP, Changed, WrittenT, AddedOK, Inserts, AddOps
    <2> QED
      BY <2>3, <2>10, <2>11, <2>12 DEF StepOK, SessionOK
  <1>7. CASE ViewP(s)[p] # NoRow
    <2>1. WriteP(s, p, NoRow) /\ Goto(s, "cascade")
      BY <1>7 DEF DeleteProjectWrite
    <2>2. Jump(s, "cascade", FALSE)
      BY <1>2, <2>1, GotoJumpsOn DEF IInv
    <2>3. TypeOK' /\ OneWriter' /\ Frame(s)
      BY <1>1, <1>3, <2>1, <2>2, WritePFrame DEF Labels
    <2>4. /\ pc'[s] = "cascade" /\ welcoming'[s] = FALSE /\ req' = req /\ projects' = projects
          /\ tasks' = tasks /\ id' = id /\ nextTask' = nextTask
          /\ nextProject' = nextProject /\ dirtyT' = dirtyT
          /\ dirtyP'[s][p] = NoRow
          /\ \A q \in ProjectId \ {p} : dirtyP'[s][q] = dirtyP[s][q]
      BY <1>1, <1>3, <2>1, <2>2 DEF Jump, WriteP, IInv, TypeOK, database, sequences, locals
    <2>5. projects[p] # NoRow /\ projects[p].owner = r.uid
      BY <1>3, <1>4, <1>7, Seen DEF OwnerKnown
    <2>6. WrittenP(s)'
      <3> SUFFICES ASSUME NEW q \in ProjectId, dirtyP'[s][q] # Clean
                   PROVE  Inserts(s, q)' \/ Changed(s, q)'
        BY DEF WrittenP
      <3>1. CASE q = p
        BY <1>2, <2>4, <2>5, <3>1 DEF Changed, ProjectOps, PastWrite
      <3>2. CASE q # p
        BY <1>2, <1>5, <2>4, <3>2 DEF SessionOK, WrittenP, Changed, Inserts, AddOps
      <3> QED
        BY <3>1, <3>2
    <2>7. ControlOK(s)' /\ IdleOK(s)' /\ Knows(s)' /\ Walks(s)' /\ Told(s)' /\ Done(s)'
      BY <1>2, <2>4 DEF ControlOK, IdleOK, Knows, Walks, Told, Done, Active, AddUserLabels,
                        RemoveLabels, RemovalLabels, UnassignLabels
    <2>8. WrittenT(s)' /\ AddedOK(s)'
      BY <1>2, <1>5, <2>4 DEF WrittenT, AddedOK, AddOps
    <2> QED
      BY <2>3, <2>6, <2>7, <2>8 DEF StepOK, SessionOK
  <1> QED
    BY <1>6, <1>7

\* A write of a free task keeps the parts that are not about the session alone.
LEMMA WriteTFrame ==
    ASSUME IInv, NEW s \in Session, NEW t \in TaskId, NEW row \in TaskRow \cup {NoRow},
           NEW l \in Labels \ {"idle"}, NEW b \in BOOLEAN,
           Active(s), Jump(s, l, b), FreeT(s, t), WriteT(s, t, row),
           UNCHANGED <<database, sequences, served, req, locals, told>>
    PROVE  TypeOK' /\ OneWriter' /\ Frame(s)
  <1>1. dirtyT' \in [Session -> [TaskId -> TaskRow \cup {NoRow, Clean}]]
    BY DEF WriteT, IInv, TypeOK
  <1>2. TypeOK'
    BY <1>1 DEF IInv, TypeOK, Jump, WriteT, database, sequences, locals
  <1>3. \A z \in Session : Active(z)' = Active(z)
    BY DEF IInv, TypeOK, Jump, Active
  <1>4. \A z \in Session : \A q \in ProjectId : Inserts(z, q)' <=> Inserts(z, q)
    BY <1>3 DEF Inserts, locals
  <1>5. /\ \A z \in Session \ {s} : dirtyT'[z] = dirtyT[z]
        /\ \A k \in TaskId \ {t} : dirtyT'[s][k] = dirtyT[s][k]
        /\ dirtyP' = dirtyP
    BY DEF WriteT, IInv, TypeOK
  <1>6. OneWriter'
    BY <1>4, <1>5 DEF IInv, OneWriter, FreeT
  <1>7. \A z \in Session \ {s} : Same(z)
    BY <1>5 DEF Same, Jump, IInv, TypeOK, locals
  <1>8. Frame(s)
    BY <1>4, <1>7 DEF Frame, sequences, IInv, TypeOK
  <1> QED
    BY <1>2, <1>6, <1>8

\* ON DELETE CASCADE deletes a task of the project, or finds none left.
LEMMA CascadeOK ==
    ASSUME IInv, NEW s \in Session, Cascade(s)
    PROVE  StepOK(s)
  <1> DEFINE r == req[s]
             p == r.project
             left == GetTasks(ViewT(s), p)
  <1>1. /\ pc[s] = "cascade" /\ Active(s)
        /\ UNCHANGED <<database, sequences, served, req, locals, told>>
    BY DEF Cascade, Active
  <1>2. SessionOK(s) /\ ~welcoming[s] /\ r.op = "deleteProject" /\ r \in Requests
    BY <1>1 DEF IInv, SessionOK, ControlOK, AddUserLabels
  <1>3. p \in ProjectId /\ ~Inserts(s, p)
    BY <1>1, <1>2, ProjectField DEF ProjectOps
  <1>4. dirtyP[s][p] = NoRow /\ Changed(s, p) /\ projects[p] # NoRow
    BY <1>1, <1>2, <1>3, CleanAssumption DEF SessionOK, Done, WrittenP, Changed
  <1>5. CASE left = {} /\ Goto(s, "send") /\ UNCHANGED written
    <2>1. Quiet(s) /\ Jump(s, "send", FALSE)
      BY <1>1, <1>2, <1>5, GotoJumpsOn DEF Quiet, locals, IInv, TypeOK
    <2>2. TypeOK' /\ OneWriter' /\ Frame(s)
      BY <1>1, <2>1, QuietFrame DEF Labels
    <2>3. /\ pc'[s] = "send" /\ welcoming'[s] = FALSE /\ req' = req /\ projects' = projects
          /\ tasks' = tasks /\ id' = id /\ nextTask' = nextTask
          /\ nextProject' = nextProject /\ dirtyT' = dirtyT /\ dirtyP' = dirtyP
      BY <2>1 DEF Jump, Quiet, IInv, TypeOK, database, sequences, written
    <2>4. Settled(p)'
      <3>1. \A q \in ProjectId : Settled(q) => Settled(q)'
        BY <2>2, SettledKept
      <3> QED
        BY <1>3, <1>4, <2>3, <3>1, CommittedSettled
    <2>5. /\ ViewP(s)' = ViewP(s) /\ ViewT(s)' = ViewT(s)
          /\ ViewP(s)[p] = NoRow
      BY <1>3, <1>4, <2>3, CleanAssumption DEF ViewP, ViewT
    <2>6. Done(s)'
      BY <1>2, <1>5, <2>3, <2>4, <2>5 DEF Done, RemovalLabels, UnassignLabels
    <2>7. ControlOK(s)' /\ IdleOK(s)' /\ Knows(s)' /\ Walks(s)' /\ Told(s)'
      BY <1>2, <2>3 DEF ControlOK, IdleOK, Knows, Walks, Told, Active, AddUserLabels,
                        RemoveLabels, RemovalLabels, UnassignLabels
    <2>8. WrittenP(s)' /\ AddedOK(s)'
      BY <1>1, <1>2, <2>3 DEF SessionOK, WrittenP, Changed, AddedOK, Inserts, AddOps, PastWrite
    <2>9. WrittenT(s)'
      BY <1>1, <1>2, <2>3 DEF SessionOK, WrittenT, ChangedT, AddOps, TaskOps, PastWrite
    <2> QED
      BY <2>2, <2>6, <2>7, <2>8, <2>9 DEF StepOK, SessionOK
  <1>6. ASSUME NEW t \in left, FreeT(s, t), WriteT(s, t, NoRow), UNCHANGED control
        PROVE  StepOK(s)
    <2>1. Jump(s, "cascade", FALSE) /\ t \in TaskId
      BY <1>1, <1>2, <1>6 DEF control, Jump, IInv, TypeOK, GetTasks
    <2>2. TypeOK' /\ OneWriter' /\ Frame(s)
      BY <1>1, <1>6, <2>1, WriteTFrame DEF Labels
    <2>3. /\ pc'[s] = "cascade" /\ welcoming'[s] = FALSE /\ req' = req /\ projects' = projects
          /\ tasks' = tasks /\ id' = id /\ nextTask' = nextTask
          /\ nextProject' = nextProject /\ dirtyP' = dirtyP
          /\ dirtyT'[s][t] = NoRow
          /\ \A k \in TaskId \ {t} : dirtyT'[s][k] = dirtyT[s][k]
      BY <1>1, <1>6, <2>1 DEF Jump, WriteT, IInv, TypeOK, database, sequences, locals
    <2>4. tasks[t] # NoRow /\ tasks[t].project = p
      BY <1>1, <1>2, <1>6, <2>1
         DEF GetTasks, ViewT, SessionOK, WrittenT, ChangedT, AddOps, TaskOps
    <2>5. WrittenT(s)'
      <3> SUFFICES ASSUME NEW k \in TaskId, dirtyT'[s][k] # Clean
                   PROVE  ChangedT(s, k)'
        BY DEF WrittenT
      <3>1. CASE k = t
        BY <1>2, <1>4, <2>3, <2>4, <3>1 DEF ChangedT
      <3>2. CASE k # t
        BY <1>1, <1>2, <2>3, <3>2 DEF SessionOK, WrittenT, ChangedT
      <3> QED
        BY <3>1, <3>2
    <2>6. /\ ControlOK(s)' /\ IdleOK(s)' /\ Knows(s)' /\ Walks(s)' /\ Told(s)'
          /\ Done(s)'
      BY <1>2, <1>4, <2>3 DEF ControlOK, IdleOK, Knows, Walks, Told, Done, Active,
            AddUserLabels, RemoveLabels, RemovalLabels, UnassignLabels
    <2>7. WrittenP(s)' /\ AddedOK(s)'
      BY <1>1, <1>2, <2>3 DEF SessionOK, WrittenP, Changed, AddedOK, Inserts, AddOps, Active
    <2> QED
      BY <2>2, <2>5, <2>6, <2>7 DEF StepOK, SessionOK
  <1> QED
    BY <1>5, <1>6 DEF Cascade

-----------------------------------------------------------------------------
(* The statements that write the row of a task.                            *)

UpdateLabels == {"unassignUser_UPDATE", "assignUser_UPDATE", "setProcessPoints_UPDATE"}

\* A task that s sees before it changes it is a committed one.
LEMMA SeenTask ==
    ASSUME IInv, NEW s \in Session, NEW t \in TaskId, ViewT(s)[t] # NoRow,
           pc[s] \in UpdateLabels
    PROVE  /\ ViewT(s)[t] \in TaskRow
           /\ tasks[t] # NoRow /\ ViewT(s)[t].project = tasks[t].project
  <1>1. ViewT(s)[t] = IF dirtyT[s][t] = Clean THEN tasks[t] ELSE dirtyT[s][t]
    BY DEF ViewT
  <1>2. ViewT(s)[t] \in TaskRow
    BY <1>1 DEF IInv, TypeOK, Tasks
  <1>3. dirtyT[s][t] # Clean => ChangedT(s, t)
    BY DEF IInv, SessionOK, WrittenT
  <1> QED
    BY <1>1, <1>2, <1>3 DEF ChangedT, UpdateLabels

\* An UPDATE of a task keeps the invariant if it keeps the task's project.
LEMMA UpdateTaskOK ==
    ASSUME IInv, NEW s \in Session, NEW label \in UpdateLabels, NEW t \in TaskId, NEW row,
           NEW next,
           UpdateTask(s, label, t, row, next),
           \/ req[s].op \in TaskOps /\ t = req[s].task /\ next = "send"
           \/ req[s].op = "removeUser" /\ t = id[s] /\ next = "unassign_tasks"
                /\ label = "unassignUser_UPDATE",
           ViewT(s)[t] # NoRow =>
             /\ row \in TaskRow /\ row.project = ViewT(s)[t].project
             /\ req[s].op = "assignUser" => row.assigned = req[s].uid
             /\ req[s].op = "unassignUser" => row.assigned = NoUser
             /\ req[s].op = "setProcessPoints" => row.points = req[s].points
    PROVE  StepOK(s)
  <1> DEFINE r == req[s]
             p == r.project
  <1>1. /\ pc[s] = label /\ FreeT(s, t) /\ Active(s)
        /\ UNCHANGED <<database, sequences, served, req, locals, told>>
    BY DEF UpdateTask, UpdateLabels, Active
  <1>2. SessionOK(s) /\ ~welcoming[s] /\ r \in Requests
    BY <1>1 DEF IInv, SessionOK, ControlOK, AddUserLabels, UpdateLabels
  <1>3. CASE ViewT(s)[t] = NoRow
    <2>1. Fail(s) /\ Quiet(s)
      BY <1>3 DEF UpdateTask, Quiet, locals, IInv, TypeOK
    <2> QED
      BY <1>1, <2>1, FailOK DEF UpdateLabels
  <1>4. CASE ViewT(s)[t] # NoRow
    <2>1. WriteT(s, t, row) /\ Goto(s, next) /\ row \in TaskRow /\ next \in {"send", "unassign_tasks"}
      BY <1>4 DEF UpdateTask
    <2>2. Jump(s, next, FALSE)
      BY <1>2, <2>1, GotoJumpsOn DEF IInv
    <2>3. TypeOK' /\ OneWriter' /\ Frame(s)
      BY <1>1, <2>1, <2>2, WriteTFrame DEF Labels
    <2>4. /\ pc'[s] = next /\ welcoming'[s] = FALSE /\ req' = req /\ projects' = projects
          /\ tasks' = tasks /\ id' = id /\ todo' = todo /\ nextTask' = nextTask
          /\ nextProject' = nextProject /\ dirtyP' = dirtyP
          /\ dirtyT'[s][t] = row /\ row # Clean /\ row # NoRow
          /\ \A k \in TaskId \ {t} : dirtyT'[s][k] = dirtyT[s][k]
      BY <1>1, <2>1, <2>2, CleanAssumption, NoRowAssumption
         DEF Jump, WriteT, IInv, TypeOK, database, sequences, locals
    <2>5. tasks[t] # NoRow /\ row.project = tasks[t].project
      BY <1>1, <1>4, SeenTask
    <2>6. r.op = "removeUser" =>
            /\ tasks[t].project = p /\ dirtyP[s][p] # Clean
            /\ \A k \in todo[s] : tasks[k] # NoRow /\ tasks[k].project = p
      BY <1>1, <1>2 DEF SessionOK, Walks, Done, RemovalLabels, UnassignLabels, TaskOps
    <2>7. WrittenT(s)'
      <3> SUFFICES ASSUME NEW k \in TaskId, dirtyT'[s][k] # Clean
                   PROVE  ChangedT(s, k)'
        BY DEF WrittenT
      <3>1. CASE k = t
        BY <2>1, <2>4, <2>5, <2>6, <3>1 DEF ChangedT, PastWrite, RemovalLabels
      <3>2. CASE k # t
        BY <1>1, <1>2, <2>1, <2>4, <3>2
           DEF SessionOK, WrittenT, ChangedT, PastWrite, RemovalLabels, UpdateLabels
      <3> QED
        BY <3>1, <3>2
    <2>8. Walks(s)' /\ Knows(s)' /\ Told(s)' /\ IdleOK(s)'
      BY <2>1, <2>4, <2>6 DEF Walks, Knows, Told, IdleOK, Active, RemovalLabels, UnassignLabels
    <2>9. ControlOK(s)'
      BY <1>2, <2>1, <2>4
         DEF ControlOK, Active, AddUserLabels, RemoveLabels, UnassignLabels, TaskOps
    <2>10. WrittenP(s)' /\ AddedOK(s)'
      BY <1>1, <1>2, <2>1, <2>4 DEF SessionOK, WrittenP, Changed, AddedOK, Inserts, AddOps,
              TaskOps, ProjectOps, PastWrite, RemovalLabels, Active
    <2>11. Done(s)'
      BY <1>1, <1>2, <2>1, <2>4, <1>4
         DEF SessionOK, Done, TaskOps, RemovalLabels, UnassignLabels
    <2> QED
      BY <2>3, <2>7, <2>8, <2>9, <2>10, <2>11 DEF StepOK, SessionOK
  <1> QED
    BY <1>3, <1>4

\* The three updates of a task.
LEMMA UpdateTasksOK ==
    ASSUME IInv, NEW s \in Session,
           AssignUserWrite(s) \/ SetProcessPointsWrite(s) \/ UnassignUserWrite(s)
    PROVE  StepOK(s)
  <1> DEFINE r == req[s]
  <1>1. pc[s] \in UpdateLabels
    BY DEF AssignUserWrite, SetProcessPointsWrite, UnassignUserWrite, UpdateTask, UpdateLabels
  <1>2. SessionOK(s) /\ r \in Requests
    BY <1>1 DEF IInv, SessionOK, ControlOK, Active, UpdateLabels
  <1>3. /\ r.uid \in User /\ (r.op \in TaskOps => r.task \in TaskId)
        /\ r.op = "setProcessPoints" => r.points \in Int
    BY <1>2, RequestFields, DraftsAssumption
  <1>4. \A t \in TaskId : ViewT(s)[t] # NoRow => ViewT(s)[t] \in TaskRow
    BY <1>1, SeenTask
  <1>5. CASE AssignUserWrite(s)
    <2>1. pc[s] = "assignUser_UPDATE" /\ r.op = "assignUser"
      BY <1>2, <1>5 DEF AssignUserWrite, UpdateTask, SessionOK, ControlOK
    <2>2. ASSUME NEW row \in TaskRow
          PROVE  /\ assignUser(row, r.uid) \in TaskRow
                 /\ assignUser(row, r.uid).project = row.project
                 /\ assignUser(row, r.uid).assigned = r.uid
      BY <1>3, TaskUpdateType DEF assignUser, TaskRow
    <2> QED
      BY <1>3, <1>4, <1>5, <2>1, <2>2, UpdateTaskOK DEF AssignUserWrite, TaskOps, UpdateLabels
  <1>6. CASE SetProcessPointsWrite(s)
    <2>1. pc[s] = "setProcessPoints_UPDATE" /\ r.op = "setProcessPoints"
      BY <1>2, <1>6 DEF SetProcessPointsWrite, UpdateTask, SessionOK, ControlOK
    <2>2. ASSUME NEW row \in TaskRow
          PROVE  /\ setProcessPoints(row, r.points) \in TaskRow
                 /\ setProcessPoints(row, r.points).project = row.project
                 /\ setProcessPoints(row, r.points).points = r.points
      BY <1>3, <2>1, TaskUpdateType DEF setProcessPoints, TaskRow
    <2> QED
      BY <1>3, <1>4, <1>6, <2>1, <2>2, UpdateTaskOK
         DEF SetProcessPointsWrite, TaskOps, UpdateLabels
  <1>7. CASE UnassignUserWrite(s)
    <2> DEFINE a == UnassignArguments(s)
    <2>1. pc[s] = "unassignUser_UPDATE" /\ r.op \in {"removeUser", "unassignUser"}
      BY <1>2, <1>7 DEF UnassignUserWrite, UpdateTask, SessionOK, ControlOK, UnassignLabels
    <2>2. ASSUME NEW row \in TaskRow
          PROVE  /\ unassignUser(row) \in TaskRow
                 /\ unassignUser(row).project = row.project
                 /\ unassignUser(row).assigned = NoUser
      BY TaskUpdateType DEF unassignUser, TaskRow
    <2>3. CASE r.op = "removeUser"
      <3>1. a.task = id[s] /\ a.next = "unassign_tasks"
        BY <2>3 DEF UnassignArguments
      <3>2. id[s] \in TaskId
        BY <1>2, <2>1, <2>3 DEF SessionOK, Walks, RemovalLabels, UnassignLabels
      <3> HIDE DEF a
      <3>3. UpdateTask(s, "unassignUser_UPDATE", id[s], unassignUser(ViewT(s)[id[s]]), "unassign_tasks")
        BY <1>7, <3>1 DEF UnassignUserWrite, a
      <3> QED
        BY <1>4, <2>2, <2>3, <3>2, <3>3, UpdateTaskOK DEF UpdateLabels
    <2>4. CASE r.op = "unassignUser"
      <3>1. a.task = r.task /\ a.next = "send" /\ r.task \in TaskId
        BY <1>3, <2>4 DEF UnassignArguments, TaskOps
      <3> HIDE DEF a
      <3>3. UpdateTask(s, "unassignUser_UPDATE", r.task, unassignUser(ViewT(s)[r.task]), "send")
        BY <1>7, <3>1 DEF UnassignUserWrite, a
      <3> QED
        BY <1>4, <2>2, <2>4, <3>1, <3>3, UpdateTaskOK DEF UpdateLabels, TaskOps
    <2> QED
      BY <2>1, <2>3, <2>4
  <1> QED
    BY <1>5, <1>6, <1>7

-----------------------------------------------------------------------------
(* The tasks RemoveUser goes through.                                      *)

\* A step of the loop over the tasks, which writes nothing, either.
LEMMA WalkFrame ==
    ASSUME IInv, NEW s \in Session, NEW l \in Labels \ {"idle"}, Active(s),
           req[s].op = "removeUser", Jump(s, l, FALSE),
           NEW rest \in SUBSET TaskId, NEW i \in Nat,
           todo' = [todo EXCEPT ![s] = rest], id' = [id EXCEPT ![s] = i],
           UNCHANGED <<database, sequences, served, req, read, written, told>>
    PROVE  /\ TypeOK' /\ OneWriter' /\ Frame(s)
           /\ pc'[s] = l /\ welcoming'[s] = FALSE /\ todo'[s] = rest /\ id'[s] = i
           /\ req' = req /\ projects' = projects /\ tasks' = tasks
           /\ dirtyP' = dirtyP /\ dirtyT' = dirtyT
  <1>1. TypeOK'
    BY DEF IInv, TypeOK, Jump, database, sequences, written
  <1>2. /\ pc'[s] = l /\ welcoming'[s] = FALSE /\ todo'[s] = rest /\ id'[s] = i
        /\ \A z \in Session \ {s} : Same(z)
        /\ req' = req /\ projects' = projects /\ tasks' = tasks
        /\ dirtyP' = dirtyP /\ dirtyT' = dirtyT
    BY DEF IInv, TypeOK, Jump, Same, database, written
  <1>3. \A z \in Session : \A p \in ProjectId : Inserts(z, p)' => Inserts(z, p)
    BY <1>2 DEF Inserts, Active, Same, AddOps
  <1>4. OneWriter'
    BY <1>2, <1>3 DEF IInv, OneWriter
  <1>5. Frame(s)
    BY <1>2, <1>3 DEF Frame, IInv, TypeOK, sequences, database
  <1> QED
    BY <1>1, <1>2, <1>4, <1>5

\* It keeps the session's part if the tasks left, and the one that UnassignUser
\* is called for, are tasks of the project.
LEMMA WalkOK ==
    ASSUME IInv, NEW s \in Session,
           pc[s] \in {"GetTasks", "unassign_tasks"},
           NEW l \in {"unassign_tasks", "UnassignUser", "send"}, Goto(s, l),
           NEW rest \in SUBSET TaskId, NEW i \in Nat,
           todo' = [todo EXCEPT ![s] = rest], id' = [id EXCEPT ![s] = i],
           UNCHANGED <<database, sequences, served, req, read, written, told>>,
           \A t \in rest : tasks[t] # NoRow /\ tasks[t].project = req[s].project,
           l = "UnassignUser" =>
             i \in TaskId /\ tasks[i] # NoRow /\ tasks[i].project = req[s].project
    PROVE  StepOK(s)
  <1> DEFINE r == req[s]
  <1>1. /\ SessionOK(s) /\ ~welcoming[s] /\ r.op = "removeUser" /\ r \in Requests /\ Active(s)
        /\ pc[s] \in RemovalLabels /\ pc[s] \in PastWrite
    BY DEF IInv, SessionOK, ControlOK, AddUserLabels, RemoveLabels, RemovalLabels, PastWrite, Active
  <1>2. Jump(s, l, FALSE)
    BY <1>1, GotoJumpsOn DEF IInv
  <1>3. /\ TypeOK' /\ OneWriter' /\ Frame(s)
        /\ pc'[s] = l /\ welcoming'[s] = FALSE /\ todo'[s] = rest /\ id'[s] = i
        /\ req' = req /\ projects' = projects /\ tasks' = tasks
        /\ dirtyP' = dirtyP /\ dirtyT' = dirtyT
    BY <1>1, <1>2, WalkFrame DEF Labels
  <1>4. ControlOK(s)' /\ IdleOK(s)' /\ Knows(s)' /\ Told(s)'
    BY <1>1, <1>3 DEF ControlOK, IdleOK, Knows, Told, Active, AddUserLabels, RemoveLabels,
                      UnassignLabels
  <1>5. Walks(s)'
    BY <1>3 DEF Walks, UnassignLabels
  <1>6. Done(s)'
    BY <1>1, <1>3 DEF SessionOK, Done
  <1>7. WrittenP(s)' /\ AddedOK(s)'
    BY <1>1, <1>3 DEF SessionOK, WrittenP, Changed, AddedOK, Inserts, AddOps, PastWrite,
                      RemovalLabels, UnassignLabels
  <1>8. WrittenT(s)'
    BY <1>1, <1>3 DEF SessionOK, WrittenT, ChangedT, AddOps, TaskOps, PastWrite, RemovalLabels,
                      UnassignLabels
  <1> QED
    BY <1>3, <1>4, <1>5, <1>6, <1>7, <1>8 DEF StepOK, SessionOK

\* While s holds the row of the project, the tasks it sees there are committed.
LEMMA RemoveUserTasksOK ==
    ASSUME IInv, NEW s \in Session, RemoveUserTasks(s)
    PROVE  StepOK(s)
  <1> DEFINE rest == GetTasks(ViewT(s), req[s].project)
  <1>1. pc[s] = "GetTasks" /\ req[s].op = "removeUser" /\ SessionOK(s)
    BY DEF RemoveUserTasks, IInv, SessionOK, ControlOK, RemoveLabels
  <1>2. rest \in SUBSET TaskId
    BY DEF GetTasks
  <1>3. ASSUME NEW t \in rest
        PROVE  tasks[t] # NoRow /\ tasks[t].project = req[s].project
    <2>1. /\ t \in TaskId
          /\ IF dirtyT[s][t] = Clean THEN tasks[t] # NoRow /\ tasks[t].project = req[s].project
                                     ELSE dirtyT[s][t] # NoRow
      BY DEF GetTasks, ViewT
    <2> QED
      BY <1>1, <2>1 DEF SessionOK, WrittenT, ChangedT, AddOps, TaskOps
  <1>4. id' = [id EXCEPT ![s] = id[s]] /\ id[s] \in Nat
    BY DEF RemoveUserTasks, IInv, TypeOK
  <1> HIDE DEF rest
  <1>5. todo' = [todo EXCEPT ![s] = rest]
    BY DEF RemoveUserTasks, rest
  <1> QED
    BY <1>1, <1>2, <1>3, <1>4, <1>5, WalkOK DEF RemoveUserTasks

\* The loop of RemoveUser only looks at tasks of the project.
LEMMA RemoveUserLoopOK ==
    ASSUME IInv, NEW s \in Session, RemoveUserLoop(s)
    PROVE  StepOK(s)
  <1>1. /\ pc[s] = "unassign_tasks" /\ req[s].op = "removeUser"
        /\ UNCHANGED <<database, sequences, served, req, read, written, told>>
        /\ id[s] \in Nat /\ todo[s] \in SUBSET TaskId
        /\ \A t \in todo[s] : tasks[t] # NoRow /\ tasks[t].project = req[s].project
    BY DEF RemoveUserLoop, IInv, TypeOK, SessionOK, ControlOK, RemoveLabels, Walks, RemovalLabels
  <1>2. CASE todo[s] = {} /\ Goto(s, "send") /\ UNCHANGED <<todo, id>>
    <2>1. todo' = [todo EXCEPT ![s] = todo[s]] /\ id' = [id EXCEPT ![s] = id[s]]
      BY <1>2 DEF IInv, TypeOK
    <2> QED
      BY <1>1, <1>2, <2>1, WalkOK
  <1>3. ASSUME NEW t \in todo[s], todo' = [todo EXCEPT ![s] = @ \ {t}],
               IF VerifyAssignment(ViewT(s), t, req[s].user)
               THEN Goto(s, "UnassignUser") /\ id' = [id EXCEPT ![s] = t]
               ELSE UNCHANGED <<control, id>>
        PROVE  StepOK(s)
    <2> DEFINE rest == todo[s] \ {t}
    <2>1. /\ rest \in SUBSET TaskId /\ t \in TaskId /\ t \in Nat
          /\ todo' = [todo EXCEPT ![s] = rest]
          /\ \A k \in rest : tasks[k] # NoRow /\ tasks[k].project = req[s].project
          /\ tasks[t] # NoRow /\ tasks[t].project = req[s].project
      BY <1>1, <1>3 DEF TaskId
    <2> HIDE DEF rest
    <2>2. CASE VerifyAssignment(ViewT(s), t, req[s].user)
      BY <1>1, <1>3, <2>1, <2>2, WalkOK
    <2>3. CASE ~VerifyAssignment(ViewT(s), t, req[s].user)
      <3>1. Goto(s, "unassign_tasks") /\ id' = [id EXCEPT ![s] = id[s]]
        BY <1>1, <1>3, <2>3 DEF Goto, control, IInv, TypeOK
      <3> QED
        BY <1>1, <2>1, <3>1, WalkOK
    <2> QED
      BY <2>2, <2>3
  <1> QED
    BY <1>2, <1>3 DEF RemoveUserLoop

-----------------------------------------------------------------------------
(* Adding a project.                                                       *)

\* Nobody has written a row with an id that is not drawn yet.
LEMMA NotDrawn ==
    ASSUME IInv, NEW z \in Session
    PROVE  /\ \A p \in ProjectId : p >= nextProject => dirtyP[z][p] = Clean /\ ~Inserts(z, p)
           /\ \A t \in TaskId : t >= nextTask => dirtyT[z][t] = Clean
  <1>1. ASSUME NEW p \in ProjectId, p >= nextProject
        PROVE  dirtyP[z][p] = Clean /\ ~Inserts(z, p)
    <2>1. ~Inserts(z, p)
      BY <1>1 DEF IInv, SessionOK, AddedOK, Inserts, TypeOK, ProjectId
    <2>2. projects[p] = NoRow
      BY <1>1 DEF IInv, Committable, Fresh, TypeOK, ProjectId
    <2> QED
      BY <2>1, <2>2 DEF IInv, SessionOK, WrittenP, Changed
  <1>2. ASSUME NEW t \in TaskId, t >= nextTask
        PROVE  dirtyT[z][t] = Clean
    <2>1. tasks[t] = NoRow /\ ~(t < nextTask)
      BY <1>2 DEF IInv, Committable, Fresh, TypeOK, TaskId
    <2> QED
      BY <2>1 DEF IInv, SessionOK, WrittenT, ChangedT
  <1> QED
    BY <1>1, <1>2

\* The INSERT of a project takes an id nobody has used.
LEMMA AddProjectInsertOK ==
    ASSUME IInv, NEW s \in Session, AddProjectInsert(s)
    PROVE  StepOK(s)
  <1> DEFINE r == req[s]
             d == DraftOf(r)
             p == nextProject
             row == addProject(d)
  <1>1. /\ pc[s] = "AddProject" /\ Active(s)
        /\ UNCHANGED <<database, nextTask, served, req, read, todo, told>>
    BY DEF AddProjectInsert, Active
  <1>2. /\ SessionOK(s) /\ ~welcoming[s] /\ r.op \in AddOps /\ r \in Requests
        /\ id[s] = 0 /\ pc[s] \notin PastWrite
    BY <1>1 DEF IInv, SessionOK, ControlOK, AddedOK, AddUserLabels, PastWrite, RemovalLabels,
                UnassignLabels
  <1>3. CASE /\ ValidProject(d) /\ nextProject <= MaxProject
             /\ WriteP(s, p, row) /\ nextProject' = p + 1
             /\ id' = [id EXCEPT ![s] = p] /\ Goto(s, "AddTasks")
    <2>1. p \in ProjectId /\ p \in Nat /\ p + 1 \in 1 .. MaxProject + 1
      BY <1>3, BoundsAssumption DEF IInv, TypeOK, ProjectId
    <2>2. row \in ProjectRow /\ row # Clean /\ row # NoRow
      BY <1>2, <1>3, DraftOfType, CleanAssumption, NoRowAssumption
    <2>3. Jump(s, "AddTasks", FALSE)
      BY <1>2, <1>3, GotoJumpsOn DEF IInv
    <2> HIDE DEF row
    <2>4. /\ pc'[s] = "AddTasks" /\ welcoming'[s] = FALSE /\ req' = req /\ id'[s] = p
          /\ projects' = projects /\ tasks' = tasks /\ nextTask' = nextTask
          /\ dirtyT' = dirtyT /\ dirtyP'[s][p] = row /\ nextProject' = p + 1
          /\ \A q \in ProjectId \ {p} : dirtyP'[s][q] = dirtyP[s][q]
          /\ \A z \in Session \ {s} : Same(z)
      BY <1>1, <1>3, <2>1, <2>3 DEF Jump, WriteP, Same, IInv, TypeOK, database
    <2>5. TypeOK'
      <3>1. dirtyP' \in [Session -> [ProjectId -> ProjectRow \cup {NoRow, Clean}]]
        BY <1>3, <2>2 DEF WriteP, IInv, TypeOK
      <3>2. id' \in [Session -> Nat]
        BY <1>3, <2>1 DEF IInv, TypeOK
      <3>3. /\ projects' = projects /\ tasks' = tasks /\ nextTask' = nextTask
            /\ served' = served /\ req' = req /\ read' = read /\ todo' = todo
            /\ told' = told /\ dirtyT' = dirtyT
            /\ nextProject' \in 1 .. MaxProject + 1
        BY <1>1, <1>3, <2>1 DEF WriteP, database
      <3>4. pc' \in [Session -> Labels] /\ welcoming' \in [Session -> BOOLEAN]
        BY <2>3 DEF Jump, IInv, TypeOK, Labels
      <3> QED
        BY <3>1, <3>2, <3>3, <3>4 DEF IInv, TypeOK
    <2>6. /\ \A z \in Session \ {s} : \A q \in ProjectId : Inserts(z, q)' <=> Inserts(z, q)
          /\ \A q \in ProjectId : Inserts(s, q)' <=> q = p
      BY <1>2, <2>4 DEF Inserts, Same, Active
    <2>7. OneWriter'
      <3>1. \A z \in Session : dirtyP[z][p] = Clean /\ ~Inserts(z, p)
        BY <2>1, NotDrawn
      <3>2. \A z, y \in Session : z # y =>
              \A q \in ProjectId : dirtyP'[z][q] = Clean \/ dirtyP'[y][q] = Clean
        BY <2>4, <3>1 DEF IInv, OneWriter, Same
      <3>3. \A z, y \in Session : z # y =>
              \A t \in TaskId : dirtyT'[z][t] = Clean \/ dirtyT'[y][t] = Clean
        BY <2>4 DEF IInv, OneWriter
      <3>4. \A z, y \in Session : z # y =>
              \A q \in ProjectId : ~(Inserts(z, q)' /\ Inserts(y, q)')
        BY <2>6, <3>1 DEF IInv, OneWriter
      <3> QED
        BY <3>2, <3>3, <3>4 DEF OneWriter
    <2>8. Frame(s)
      BY <1>1, <1>3, <2>1, <2>4, <2>6 DEF Frame, IInv, TypeOK
    <2>9. projects[p] = NoRow
      BY <2>1 DEF IInv, Committable, Fresh, ProjectId
    <2>10. AddedOK(s)'
      BY <1>3, <2>1, <2>4, <2>9 DEF AddedOK, AddUserLabels, ProjectId, row
    <2>11. WrittenP(s)'
      <3> SUFFICES ASSUME NEW q \in ProjectId, dirtyP'[s][q] # Clean
                   PROVE  Inserts(s, q)' \/ Changed(s, q)'
        BY DEF WrittenP
      <3>1. CASE q = p
        BY <2>6, <3>1
      <3>2. CASE q # p
        BY <1>2, <2>1, <2>4, <3>2 DEF SessionOK, WrittenP, Changed, Inserts, ProjectId
      <3> QED
        BY <3>1, <3>2
    <2>12. WrittenT(s)'
      BY <1>1, <1>2, <2>4 DEF SessionOK, WrittenT, ChangedT, AddOps, TaskOps
    <2>13. /\ ControlOK(s)' /\ IdleOK(s)' /\ Knows(s)' /\ Walks(s)' /\ Told(s)'
           /\ Done(s)'
      BY <1>2, <2>4 DEF ControlOK, IdleOK, Knows, Walks, Told, Done, Active, AddOps,
            AddUserLabels, RemoveLabels, RemovalLabels, UnassignLabels
    <2> QED
      BY <2>5, <2>7, <2>8, <2>10, <2>11, <2>12, <2>13 DEF StepOK, SessionOK
  <1>4. CASE Fail(s) /\ UNCHANGED <<nextProject, id, written>>
    <2>1. Quiet(s)
      BY <1>1, <1>4 DEF Quiet, sequences, IInv, TypeOK
    <2> QED
      BY <1>1, <1>4, <2>1, FailOK
  <1> QED
    BY <1>3, <1>4 DEF AddProjectInsert

\* The rows of the tasks a request adds.
LEMMA AddTasksRows ==
    ASSUME NEW T \in [TaskId -> TaskRow \cup {NoRow, Clean}], NEW p \in ProjectId,
           NEW d \in ProjectDraft, ValidTasks(d), NEW first \in Nat
    PROVE  LET A == addTasks(T, d.tasks, p, first)
           IN  /\ A \in [TaskId -> TaskRow \cup {NoRow, Clean}]
               /\ \A t \in TaskId :
                    IF t \in first .. first + Len(d.tasks) - 1
                    THEN A[t] \in TaskRow /\ A[t].project = p
                    ELSE A[t] = T[t]
  <1> DEFINE A == addTasks(T, d.tasks, p, first)
             new == first .. first + Len(d.tasks) - 1
  <1>1. d.tasks \in Seq(TaskDraft) /\ Len(d.tasks) \in Nat /\ DOMAIN d.tasks = 1 .. Len(d.tasks)
    BY DEF ProjectDraft
  <1>2. ASSUME NEW t \in TaskId, t \in new
        PROVE  A[t] \in TaskRow /\ A[t].project = p
    <2> DEFINE i == t - first + 1
    <2>1. i \in DOMAIN d.tasks
      BY <1>1, <1>2 DEF TaskId
    <2>2. /\ d.tasks[i] \in TaskDraft /\ d.tasks[i].max >= 1
      BY <1>1, <2>1 DEF ValidTasks
    <2>3. A[t] = addTask(d.tasks[i], p)
      BY <1>2 DEF addTasks
    <2> HIDE DEF i
    <2> QED
      BY <2>2, <2>3 DEF addTask, TaskDraft, TaskRow
  <1>3. ASSUME NEW t \in TaskId, t \notin new
        PROVE  A[t] = T[t]
    BY <1>3 DEF addTasks
  <1>4. A = [t \in TaskId |-> A[t]]
    BY DEF addTasks
  <1> HIDE DEF A
  <1>5. A \in [TaskId -> TaskRow \cup {NoRow, Clean}]
    BY <1>2, <1>3, <1>4
  <1> QED
    BY <1>2, <1>3, <1>5 DEF A

\* So does the INSERT of its tasks.
LEMMA AddTasksInsertOK ==
    ASSUME IInv, NEW s \in Session, AddTasksInsert(s)
    PROVE  StepOK(s)
  <1> DEFINE r == req[s]
             d == DraftOf(r)
             p == id[s]
             n == Len(d.tasks)
             new == nextTask .. nextTask + n - 1
  <1>1. /\ pc[s] = "AddTasks" /\ Active(s)
        /\ UNCHANGED <<database, nextProject, served, req, locals, dirtyP, told>>
    BY DEF AddTasksInsert, Active
  <1>2. /\ SessionOK(s) /\ ~welcoming[s] /\ r.op \in AddOps /\ r \in Requests
        /\ p \in ProjectId /\ pc[s] \notin PastWrite
        /\ \A t \in TaskId : dirtyT[s][t] = Clean
    BY <1>1 DEF IInv, SessionOK, ControlOK, AddedOK, AddUserLabels, PastWrite, RemovalLabels,
                UnassignLabels, WrittenT, ChangedT, AddOps, TaskOps
  <1>3. CASE /\ ValidDraft(d) /\ nextTask + n - 1 <= MaxTask
             /\ dirtyT' = [dirtyT EXCEPT ![s] = addTasks(@, d.tasks, p, nextTask)]
             /\ nextTask' = nextTask + n /\ Goto(s, "send")
    <2> DEFINE A == addTasks(dirtyT[s], d.tasks, p, nextTask)
    <2>1. d \in ProjectDraft /\ ValidTasks(d)
      BY <1>2, <1>3, DraftOfType DEF ValidDraft
    <2>2. n \in Nat /\ n >= 1 /\ nextTask \in Nat /\ nextTask >= 1
      BY <1>3, <2>1 DEF ValidDraft, ProjectDraft, IInv, TypeOK
    <2>3. dirtyT[s] \in [TaskId -> TaskRow \cup {NoRow, Clean}]
      BY DEF IInv, TypeOK
    <2>4. /\ A \in [TaskId -> TaskRow \cup {NoRow, Clean}]
          /\ \A t \in TaskId : IF t \in new THEN A[t] \in TaskRow /\ A[t].project = p
                                            ELSE A[t] = Clean
      BY <1>2, <2>1, <2>2, <2>3, AddTasksRows
    <2>5. Jump(s, "send", FALSE)
      BY <1>2, <1>3, GotoJumpsOn DEF IInv
    <2> HIDE DEF A
    <2>6. dirtyT' = [dirtyT EXCEPT ![s] = A]
      BY <1>3 DEF A
    <2> HIDE DEF d
    <2>7. /\ pc'[s] = "send" /\ welcoming'[s] = FALSE /\ req' = req /\ id' = id
          /\ projects' = projects /\ tasks' = tasks /\ nextTask' = nextTask + n
          /\ dirtyT'[s] = A /\ dirtyP' = dirtyP /\ nextProject' = nextProject
          /\ \A z \in Session \ {s} : Same(z)
      BY <1>1, <1>3, <2>5, <2>6 DEF Jump, Same, IInv, TypeOK, database, locals
    <2>8. TypeOK'
      <3>1. dirtyT' \in [Session -> [TaskId -> TaskRow \cup {NoRow, Clean}]]
        BY <2>4, <2>6 DEF IInv, TypeOK
      <3>2. nextTask' \in 1 .. MaxTask + 1
        BY <1>3, <2>2, BoundsAssumption
      <3>3. pc' \in [Session -> Labels] /\ welcoming' \in [Session -> BOOLEAN]
        BY <2>5 DEF Jump, IInv, TypeOK, Labels
      <3> QED
        BY <1>1, <2>7, <3>1, <3>2, <3>3 DEF IInv, TypeOK, locals
    <2>9. \A z \in Session : \A q \in ProjectId : Inserts(z, q)' <=> Inserts(z, q)
      BY <1>1, <2>7 DEF Inserts, Same, Active
    <2>10. OneWriter'
      <3>1. \A z \in Session : \A t \in TaskId : t \in new => dirtyT[z][t] = Clean
        BY <2>2, NotDrawn
      <3>2. \A z, y \in Session : z # y =>
              \A t \in TaskId : dirtyT'[z][t] = Clean \/ dirtyT'[y][t] = Clean
        BY <2>4, <2>7, <3>1 DEF IInv, OneWriter, Same
      <3> QED
        BY <2>7, <2>9, <3>2 DEF IInv, OneWriter
    <2>11. Frame(s)
      <3>1. nextTask <= nextTask'
        BY <2>2, <2>7
      <3> QED
        BY <1>1, <2>7, <2>9, <3>1 DEF Frame, IInv, TypeOK
    <2>12. WrittenT(s)'
      <3> SUFFICES ASSUME NEW t \in TaskId, dirtyT'[s][t] # Clean
                   PROVE  ChangedT(s, t)'
        BY DEF WrittenT
      <3>1. /\ t \in new /\ A[t] # NoRow /\ A[t].project = p
        BY <2>4, <2>7, NoRowAssumption
      <3>2. tasks[t] = NoRow /\ t < nextTask'
        BY <2>2, <2>7, <3>1 DEF IInv, Committable, Fresh
      <3> QED
        BY <1>2, <2>7, <3>1, <3>2 DEF ChangedT
    <2>13. AddedOK(s)'
      <3>1. nextTask \in TaskId /\ nextTask \in new
        BY <1>3, <2>2, BoundsAssumption DEF TaskId
      <3>2. ViewT(s)'[nextTask] = A[nextTask] /\ A[nextTask] # NoRow /\ A[nextTask].project = p
        BY <2>4, <2>7, <3>1, NoRowAssumption, CleanAssumption DEF ViewT
      <3>3. GetTasks(ViewT(s)', p) # {}
        BY <3>1, <3>2 DEF GetTasks
      <3>4. AddedOK(s)
        BY <1>2 DEF SessionOK
      <3> QED
        BY <1>1, <1>2, <2>7, <3>3, <3>4 DEF AddedOK, Active, AddUserLabels, ProjectId
    <2>14. WrittenP(s)'
      BY <1>1, <1>2, <2>7, <2>9 DEF SessionOK, WrittenP, Changed
    <2>15. /\ ControlOK(s)' /\ IdleOK(s)' /\ Knows(s)' /\ Walks(s)' /\ Told(s)'
           /\ Done(s)'
      BY <1>2, <2>7 DEF ControlOK, IdleOK, Knows, Walks, Told, Done, Active, AddOps,
            AddUserLabels, RemoveLabels, RemovalLabels, UnassignLabels
    <2> QED
      BY <2>8, <2>10, <2>11, <2>12, <2>13, <2>14, <2>15 DEF StepOK, SessionOK
  <1>4. CASE Fail(s) /\ UNCHANGED <<nextTask, dirtyT>>
    <2>1. Quiet(s)
      BY <1>1, <1>4 DEF Quiet, sequences, locals, written, IInv, TypeOK
    <2> QED
      BY <1>1, <1>4, <2>1, FailOK
  <1> QED
    BY <1>3, <1>4 DEF AddTasksInsert

-----------------------------------------------------------------------------
(* The messages, the beginning and the end of a request.                   *)

\* Messages are about projects, and for users.
LEMMA MessagesType ==
    ASSUME IInv, NEW s \in Session, pc[s] = "send"
    PROVE  MessagesOf(s) \subseteq Messages
  <1> DEFINE r == req[s]
  <1>1. SessionOK(s) /\ r \in Requests /\ Active(s) /\ r.op \notin {"getProjects", "getProject"}
    BY DEF IInv, SessionOK, ControlOK, Active
  <1>2. ASSUME NEW users, NEW p \in ProjectId,
               NEW type \in {"project_added", "project_updated", "project_deleted"}
        PROVE  MessageTo(users, type, p) \subseteq Messages
    BY DEF MessageTo, Members, Messages
  <1>3. r.op \in AddOps => id[s] \in ProjectId
    BY <1>1 DEF SessionOK, AddedOK
  <1>4. r.op \in TaskOps => ViewT(s)[r.task].project \in ProjectId
    <2> SUFFICES ASSUME r.op \in TaskOps
                 PROVE  ViewT(s)[r.task].project \in ProjectId
      OBVIOUS
    <2>1. r.task \in TaskId
      BY <1>1, RequestFields
    <2>2. dirtyT[s][r.task] \notin {Clean, NoRow}
      BY <1>1 DEF SessionOK, Done, TaskOps
    <2>3. ViewT(s)[r.task] \in TaskRow
      BY <2>1, <2>2 DEF ViewT, IInv, TypeOK
    <2> QED
      BY <2>3 DEF TaskRow
  <1>5. r.op \in ProjectOps => r.project \in ProjectId
    BY <1>1, RequestFields
  <1>6. r.op = "removeUser" => r.user \in User
    BY <1>1, RequestFields
  <1>7. r.op \in {"deleteProject", "addUser", "removeUser", "updateName", "updateDescription"}
                   \cup AddOps \cup TaskOps
    BY <1>1, RequestFields DEF Ops, ProjectOps
  <1>8. CASE r.op \in AddOps
    BY <1>2, <1>3, <1>8 DEF MessagesOf, sendAdd, AddOps
  <1>9. CASE r.op \in {"addUser", "updateName", "updateDescription"}
    BY <1>2, <1>5, <1>9 DEF MessagesOf, sendUpdate, ProjectOps
  <1>10. CASE r.op = "removeUser"
    <2>1. [type |-> "project_user_removed", project |-> r.project, to |-> r.user] \in Messages
      BY <1>5, <1>6, <1>10 DEF Messages, ProjectOps
    <2>2. sendUpdate(s, r.project) \subseteq Messages
      BY <1>2, <1>5, <1>10 DEF sendUpdate, ProjectOps
    <2>3. MessagesOf(s) = sendUserRemoved(s, r.project)
      BY <1>10 DEF MessagesOf
    <2> QED
      BY <2>1, <2>2, <2>3 DEF sendUserRemoved
  <1>11. CASE r.op = "deleteProject"
    BY <1>2, <1>5, <1>11 DEF MessagesOf, sendDelete, ProjectOps
  <1>12. CASE r.op \in TaskOps
    BY <1>2, <1>4, <1>12 DEF MessagesOf, sendTaskUpdate, sendUpdate, TaskOps
  <1> QED
    BY <1>7, <1>8, <1>9, <1>10, <1>11, <1>12

\* The messages are those of the tables as the session sees them.
LEMMA SendOK ==
    ASSUME IInv, NEW s \in Session, Send(s)
    PROVE  StepOK(s)
  <1>1. /\ pc[s] = "send" /\ Active(s) /\ Goto(s, "commit")
        /\ UNCHANGED <<database, sequences, served, req, locals, written>>
        /\ told' = [told EXCEPT ![s] = MessagesOf(s)]
    BY DEF Send, Active
  <1>2. SessionOK(s) /\ ~welcoming[s] /\ MessagesOf(s) \subseteq Messages
    BY <1>1, MessagesType DEF IInv, SessionOK, ControlOK, AddUserLabels
  <1>3. Jump(s, "commit", FALSE)
    BY <1>1, <1>2, GotoJumpsOn DEF IInv
  <1>4. /\ pc'[s] = "commit" /\ welcoming'[s] = FALSE /\ req' = req /\ id' = id /\ todo' = todo
        /\ read' = read /\ projects' = projects /\ tasks' = tasks /\ nextTask' = nextTask
        /\ dirtyT' = dirtyT /\ dirtyP' = dirtyP /\ nextProject' = nextProject
        /\ told'[s] = MessagesOf(s)
        /\ \A z \in Session \ {s} : Same(z)
    BY <1>1, <1>3 DEF Jump, Same, IInv, TypeOK, database, sequences, locals, written
  <1>5. TypeOK'
    <2>1. told' \in [Session -> SUBSET Messages]
      BY <1>1, <1>2 DEF IInv, TypeOK
    <2>2. pc' \in [Session -> Labels] /\ welcoming' \in [Session -> BOOLEAN]
      BY <1>3 DEF Jump, IInv, TypeOK, Labels
    <2> QED
      BY <1>1, <1>4, <2>1, <2>2 DEF IInv, TypeOK
  <1>6. \A z \in Session : \A q \in ProjectId : Inserts(z, q)' <=> Inserts(z, q)
    BY <1>1, <1>4 DEF Inserts, Same, Active
  <1>7. OneWriter' /\ Frame(s)
    BY <1>4, <1>6 DEF IInv, OneWriter, Frame, TypeOK, database
  <1>8. ViewP(s)' = ViewP(s) /\ ViewT(s)' = ViewT(s)
    BY <1>4 DEF ViewP, ViewT
  <1>9. Told(s)'
    <2>1. MessagesOf(s)' = MessagesOf(s)
      BY <1>4, <1>8 DEF MessagesOf, sendAdd, sendUpdate, sendUserRemoved, sendDelete,
                        sendTaskUpdate
    <2> QED
      BY <1>4, <2>1 DEF Told
  <1>10. ControlOK(s)' /\ IdleOK(s)' /\ Knows(s)' /\ Walks(s)'
    BY <1>1, <1>2, <1>4 DEF SessionOK, ControlOK, IdleOK, Knows, Walks, Active, AddUserLabels,
            RemoveLabels, RemovalLabels, UnassignLabels
  <1>11. WrittenP(s)'
    BY <1>1, <1>2, <1>4, <1>6 DEF SessionOK, WrittenP, Changed, PastWrite
  <1>12. WrittenT(s)'
    BY <1>1, <1>2, <1>4 DEF SessionOK, WrittenT, ChangedT, PastWrite
  <1>13. AddedOK(s)'
    BY <1>1, <1>2, <1>4, <1>8 DEF SessionOK, AddedOK, Active, AddUserLabels
  <1>14. Done(s)'
    <2>1. req[s].op = "deleteProject" => (Settled(req[s].project) => Settled(req[s].project)')
      <3>1. req[s].op = "deleteProject" => req[s].project \in ProjectId
        BY <1>1, ProjectField DEF ProjectOps
      <3>2. \A q \in ProjectId : Settled(q) => Settled(q)'
        BY <1>5, <1>7, SettledKept
      <3> QED
        BY <1>4, <3>1, <3>2
    <2> QED
      BY <1>1, <1>2, <1>4, <1>8, <2>1
         DEF SessionOK, Done, Active, RemovalLabels, UnassignLabels
  <1> QED
    BY <1>5, <1>7, <1>9, <1>10, <1>11, <1>12, <1>13, <1>14 DEF StepOK, SessionOK

\* A request begins without having read or written anything.
LEMMA BeginOK ==
    ASSUME IInv, NEW s \in Session, NEW r \in Requests, Begin(s, r)
    PROVE  StepOK(s)
  <1>1. /\ pc[s] = "idle" /\ ~Active(s)
        /\ UNCHANGED <<database, sequences, locals, written, told>>
    BY DEF Begin, Active
  <1>2. SessionOK(s) /\ dirtyP[s] = NothingP /\ dirtyT[s] = NothingT /\ id[s] = 0
    BY <1>1 DEF IInv, SessionOK, IdleOK
  <1>3. /\ pc'[s] = "AddUser" /\ welcoming'[s] = TRUE /\ req'[s] = r /\ id' = id
        /\ todo' = todo /\ read' = read /\ projects' = projects /\ tasks' = tasks
        /\ nextTask' = nextTask /\ nextProject' = nextProject
        /\ dirtyT' = dirtyT /\ dirtyP' = dirtyP /\ told' = told
        /\ \A z \in Session \ {s} : Same(z)
    BY <1>1 DEF Begin, Same, IInv, TypeOK, database, sequences, locals, written
  <1>4. TypeOK'
    <2>1. served' \in 0 .. MaxRequests
      BY RequestsAssumption DEF Begin, IInv, TypeOK
    <2>2. /\ pc' \in [Session -> Labels] /\ welcoming' \in [Session -> BOOLEAN]
          /\ req' \in [Session -> Requests \cup {NoRequest}]
      BY DEF Begin, IInv, TypeOK, Labels
    <2> QED
      BY <1>3, <2>1, <2>2 DEF IInv, TypeOK
  <1>5. /\ \A z \in Session \ {s} : \A q \in ProjectId : Inserts(z, q)' <=> Inserts(z, q)
        /\ \A q \in ProjectId : ~Inserts(s, q)'
    BY <1>2, <1>3 DEF Inserts, Same, Active, ProjectId
  <1>6. OneWriter' /\ Frame(s)
    <2>1. \A z, y \in Session : z # y =>
            \A q \in ProjectId : ~(Inserts(z, q)' /\ Inserts(y, q)')
      BY <1>5 DEF IInv, OneWriter
    <2>2. OneWriter'
      BY <1>3, <2>1 DEF IInv, OneWriter
    <2>3. Frame(s)
      BY <1>3, <1>5 DEF Frame, IInv, TypeOK, database
    <2> QED
      BY <2>2, <2>3
  <1>7. /\ \A p \in ProjectId : dirtyP'[s][p] = Clean
        /\ \A t \in TaskId : dirtyT'[s][t] = Clean
    BY <1>2, <1>3 DEF NothingP, NothingT
  <1>8. WrittenP(s)' /\ WrittenT(s)' /\ AddedOK(s)'
    BY <1>2, <1>3, <1>7 DEF WrittenP, WrittenT, AddedOK, AddUserLabels
  <1>9. ControlOK(s)' /\ IdleOK(s)' /\ Knows(s)' /\ Walks(s)' /\ Told(s)' /\ Done(s)'
    BY <1>3 DEF ControlOK, IdleOK, Knows, Walks, Told, Done, Active, AddUserLabels,
                RemoveLabels, RemovalLabels, UnassignLabels
  <1> QED
    BY <1>4, <1>6, <1>8, <1>9 DEF StepOK, SessionOK

\* A session that has finished holds nothing.
LEMMA FinishOK ==
    ASSUME IInv, NEW s \in Session, Finish(s), projects' \in Projects, tasks' \in Tasks
    PROVE  /\ TypeOK' /\ OneWriter' /\ SessionOK(s)'
           /\ \A z \in Session \ {s} : Same(z)
           /\ \A z \in Session : \A p \in ProjectId : Inserts(z, p)' => Inserts(z, p) /\ z # s
           /\ nextProject' = nextProject /\ nextTask' = nextTask
  <1>1. /\ pc'[s] = "idle" /\ welcoming'[s] = FALSE /\ id'[s] = 0
        /\ dirtyP'[s] = NothingP /\ dirtyT'[s] = NothingT
        /\ nextProject' = nextProject /\ nextTask' = nextTask
        /\ \A z \in Session \ {s} : Same(z)
    BY DEF Finish, Same, IInv, TypeOK, sequences
  <1>2. TypeOK'
    <2>1. /\ NothingP \in [ProjectId -> ProjectRow \cup {NoRow, Clean}]
          /\ NothingT \in [TaskId -> TaskRow \cup {NoRow, Clean}]
      BY DEF NothingP, NothingT
    <2>2. /\ dirtyP' \in [Session -> [ProjectId -> ProjectRow \cup {NoRow, Clean}]]
          /\ dirtyT' \in [Session -> [TaskId -> TaskRow \cup {NoRow, Clean}]]
      BY <2>1 DEF Finish, IInv, TypeOK
    <2> QED
      BY <2>2 DEF Finish, IInv, TypeOK, sequences, Labels
  <1>3. \A z \in Session : \A p \in ProjectId : Inserts(z, p)' => Inserts(z, p) /\ z # s
    BY <1>1 DEF Inserts, Same, Active
  <1>4. /\ \A p \in ProjectId : dirtyP'[s][p] = Clean
        /\ \A t \in TaskId : dirtyT'[s][t] = Clean
    BY <1>1 DEF NothingP, NothingT
  <1>5. OneWriter'
    <2>1. \A z, y \in Session : z # y =>
            /\ \A p \in ProjectId : dirtyP'[z][p] = Clean \/ dirtyP'[y][p] = Clean
            /\ \A t \in TaskId : dirtyT'[z][t] = Clean \/ dirtyT'[y][t] = Clean
      BY <1>1, <1>4 DEF IInv, OneWriter, Same
    <2> QED
      BY <1>3, <2>1 DEF IInv, OneWriter
  <1>6. SessionOK(s)'
    <2>1. WrittenP(s)' /\ WrittenT(s)'
      BY <1>4 DEF WrittenP, WrittenT
    <2>2. ControlOK(s)' /\ IdleOK(s)' /\ AddedOK(s)' /\ Knows(s)' /\ Walks(s)' /\ Done(s)' /\ Told(s)'
      BY <1>1 DEF ControlOK, IdleOK, AddedOK, Knows, Walks, Done, Told, Active, AddUserLabels,
            RemoveLabels, RemovalLabels, UnassignLabels, NothingP, NothingT
    <2> QED
      BY <2>1, <2>2 DEF SessionOK
  <1> QED
    BY <1>1, <1>2, <1>3, <1>5, <1>6

\* A transaction that is rolled back, by its handler or by the end of the
\* connection, leaves the tables alone.
LEMMA RollbackOK ==
    ASSUME IInv, NEW s \in Session, Rollback(s) \/ Crash(s)
    PROVE  StepOK(s)
  <1>1. Finish(s) /\ projects' = projects /\ tasks' = tasks
    BY DEF Rollback, Crash, database
  <1>2. projects' \in Projects /\ tasks' \in Tasks
    BY <1>1 DEF IInv, TypeOK
  <1>3. /\ TypeOK' /\ OneWriter' /\ SessionOK(s)'
        /\ \A z \in Session \ {s} : Same(z)
        /\ \A z \in Session : \A p \in ProjectId : Inserts(z, p)' => Inserts(z, p) /\ z # s
        /\ nextProject' = nextProject /\ nextTask' = nextTask
    BY <1>1, <1>2, FinishOK
  <1> QED
    BY <1>1, <1>3 DEF StepOK, Frame, database, IInv, TypeOK

-----------------------------------------------------------------------------
(* A commit.                                                               *)

\* The tables after the commit of s, row by row.
LEMMA CommitTables ==
    ASSUME IInv, NEW s \in Session, Commit(s)
    PROVE  /\ projects' \in Projects /\ tasks' \in Tasks
           /\ \A p \in ProjectId : projects'[p] =
                IF dirtyP[s][p] = Clean THEN projects[p] ELSE dirtyP[s][p]
           /\ \A t \in TaskId : tasks'[t] =
                IF dirtyT[s][t] = Clean THEN tasks[t] ELSE dirtyT[s][t]
           /\ SessionOK(s) /\ pc[s] = "commit" /\ Active(s)
  <1>1. /\ projects' = ViewP(s) /\ tasks' = ViewT(s)
        /\ pc[s] = "commit" /\ SessionOK(s)
    BY DEF Commit, IInv
  <1>2. ViewP(s) \in Projects /\ ViewT(s) \in Tasks
    BY DEF ViewP, ViewT, IInv, TypeOK, Projects, Tasks
  <1> QED
    BY <1>1, <1>2 DEF ViewP, ViewT, Active

\* What is committed for a task that was there, and for one that was not.
LEMMA CommitTask ==
    ASSUME IInv, NEW s \in Session, Commit(s), NEW t \in TaskId
    PROVE  /\ tasks[t] # NoRow /\ tasks'[t] # NoRow => tasks'[t].project = tasks[t].project
           /\ tasks[t] # NoRow /\ tasks'[t] = NoRow =>
                /\ dirtyP[s][tasks[t].project] = NoRow
           /\ tasks[t] = NoRow /\ tasks'[t] # NoRow =>
                /\ req[s].op \in AddOps /\ t < nextTask
                /\ tasks'[t].project = id[s] /\ Inserts(s, id[s])
  <1>1. /\ SessionOK(s) /\ pc[s] = "commit" /\ Active(s)
        /\ tasks'[t] = IF dirtyT[s][t] = Clean THEN tasks[t] ELSE dirtyT[s][t]
    BY CommitTables
  <1>2. dirtyT[s][t] # Clean => ChangedT(s, t)
    BY <1>1 DEF SessionOK, WrittenT
  <1> QED
    BY <1>1, <1>2 DEF ChangedT, Inserts

\* A commit does to the other sessions no more than they reckon with: it
\* changes rows they have not written, keeps the owners, and adds and removes
\* projects together with their tasks.
LEMMA CommitRely ==
    ASSUME IInv, NEW s \in Session, Commit(s), NEW z \in Session \ {s}
    PROVE  Rely(z)
  <1>1. /\ projects' \in Projects /\ tasks' \in Tasks /\ SessionOK(s) /\ pc[s] = "commit"
        /\ Active(s)
        /\ \A p \in ProjectId : projects'[p] =
             IF dirtyP[s][p] = Clean THEN projects[p] ELSE dirtyP[s][p]
        /\ \A t \in TaskId : tasks'[t] =
             IF dirtyT[s][t] = Clean THEN tasks[t] ELSE dirtyT[s][t]
    BY CommitTables
  <1>2. /\ Same(z) /\ nextProject' = nextProject /\ nextTask' = nextTask
        /\ \A y \in Session : \A p \in ProjectId : Inserts(y, p)' => Inserts(y, p) /\ y # s
    BY <1>1, FinishOK DEF Commit
  <1>3. ASSUME NEW p \in ProjectId, Settled(p)
        PROVE  /\ Settled(p)'
               /\ projects'[p] # NoRow =>
                    projects[p] # NoRow /\ projects'[p].owner = projects[p].owner
    <2>1. Settled(p)'
      BY <1>2, <1>3 DEF Settled
    <2>2. ~Inserts(s, p) /\ projects'[p] = ViewP(s)[p]
      BY <1>1, <1>3 DEF Settled, ViewP
    <2> QED
      BY <2>1, <2>2, Seen
  <1>4. ASSUME NEW p \in ProjectId, dirtyP[z][p] # Clean
        PROVE  /\ projects'[p] = projects[p]
               /\ \A t \in TaskId :
                    tasks[t] # NoRow /\ tasks[t].project = p => tasks'[t] # NoRow
    <2>1. dirtyP[s][p] = Clean
      BY <1>4 DEF IInv, OneWriter
    <2> QED
      BY <1>1, <2>1, CommitTask, CleanAssumption
  <1>5. \A t \in TaskId : dirtyT[z][t] # Clean => tasks'[t] = tasks[t]
    BY <1>1 DEF IInv, OneWriter
  <1>6. ASSUME NEW t \in TaskId, tasks'[t] # NoRow
        PROVE  /\ tasks[t] = NoRow => ~Settled(tasks'[t].project)
               /\ tasks[t] # NoRow => tasks'[t].project = tasks[t].project
    BY <1>6, CommitTask DEF Settled
  <1>7. nextProject <= nextProject' /\ nextTask <= nextTask'
    BY <1>2 DEF IInv, TypeOK
  <1> QED
    BY <1>2, <1>3, <1>4, <1>5, <1>6, <1>7 DEF Rely

\* The committed tables stay consistent, since what a session commits is
\* complete: a project comes with tasks and goes with all of its tasks.
LEMMA CommitCommittable ==
    ASSUME IInv, NEW s \in Session, Commit(s)
    PROVE  Committable'
  <1>1. /\ projects' \in Projects /\ tasks' \in Tasks /\ SessionOK(s) /\ pc[s] = "commit"
        /\ Active(s)
        /\ \A p \in ProjectId : projects'[p] =
             IF dirtyP[s][p] = Clean THEN projects[p] ELSE dirtyP[s][p]
        /\ \A t \in TaskId : tasks'[t] =
             IF dirtyT[s][t] = Clean THEN tasks[t] ELSE dirtyT[s][t]
    BY CommitTables
  <1>2. nextProject' = nextProject /\ nextTask' = nextTask
    BY <1>1, FinishOK DEF Commit
  <1> DEFINE d == DraftOf(req[s])
  <1>3. ASSUME NEW p \in ProjectId, Inserts(s, p)
        PROVE  /\ p < nextProject /\ projects'[p] = addProject(d)
               /\ projects'[p] \in ProjectRow /\ projects'[p] # NoRow
               /\ ValidProject(d)
               /\ GetTasks(tasks', p) # {}
    <2>1. /\ req[s] \in Requests /\ req[s].op \in AddOps /\ id[s] = p /\ id[s] # 0
      BY <1>1, <1>3 DEF SessionOK, ControlOK, Inserts, ProjectId
    <2>2. /\ p < nextProject /\ dirtyP[s][p] = addProject(d) /\ ValidProject(d)
          /\ GetTasks(ViewT(s), p) # {}
      BY <1>1, <2>1 DEF SessionOK, AddedOK
    <2>3. addProject(d) \in ProjectRow
      BY <2>1, <2>2, DraftOfType
    <2>4. dirtyP[s][p] # Clean /\ dirtyP[s][p] # NoRow
      BY <2>2, <2>3, CleanAssumption, NoRowAssumption
    <2>5. tasks' = ViewT(s)
      BY DEF Commit
    <2> QED
      BY <1>1, <2>2, <2>3, <2>4, <2>5
  <1>4. ASSUME NEW p \in ProjectId, projects'[p] # NoRow, ~Inserts(s, p)
        PROVE  /\ projects[p] # NoRow /\ projects'[p] \in ProjectRow
               /\ projects'[p].users[projects'[p].owner] > 0
               /\ projects'[p].name # "empty"
    <2>1. projects'[p] = ViewP(s)[p]
      BY <1>1, <1>4 DEF ViewP
    <2> QED
      BY <1>4, <2>1, Seen
  <1>5. Fresh'
    <2>1. \A p \in ProjectId : projects'[p] # NoRow => p < nextProject
      BY <1>3, <1>4 DEF IInv, Committable, Fresh
    <2>2. \A t \in TaskId : tasks'[t] # NoRow => t < nextTask
      BY CommitTask DEF IInv, Committable, Fresh
    <2> QED
      BY <1>2, <2>1, <2>2 DEF Fresh
  <1>6. OwnerIsMember'
    <2> SUFFICES ASSUME NEW p \in ProjectId, projects'[p] # NoRow
                 PROVE  projects'[p].owner \in Members(projects'[p].users)
      BY DEF OwnerIsMember
    <2>1. projects'[p] \in ProjectRow /\ projects'[p].users[projects'[p].owner] > 0
      <3>1. CASE Inserts(s, p)
        BY <1>3, <3>1 DEF addProject, ValidProject
      <3>2. CASE ~Inserts(s, p)
        BY <1>4, <3>2
      <3> QED
        BY <3>1, <3>2
    <2> QED
      BY <2>1 DEF Members, ProjectRow
  <1>7. ASSUME NEW p \in ProjectId, projects'[p] # NoRow
        PROVE  GetTasks(tasks', p) # {} /\ projects'[p].name # "empty"
    <2>1. CASE Inserts(s, p)
      BY <1>3, <2>1 DEF addProject, ValidProject
    <2>2. CASE ~Inserts(s, p)
      <3>1. projects[p] # NoRow /\ projects'[p].name # "empty"
        BY <1>4, <1>7, <2>2
      <3>2. PICK t \in TaskId : tasks[t] # NoRow /\ tasks[t].project = p
        BY <3>1 DEF IInv, Committable, ProjectHasTasks, GetTasks
      <3>3. dirtyP[s][p] # NoRow
        BY <1>1, <1>7, CleanAssumption
      <3>4. tasks'[t] # NoRow /\ tasks'[t].project = p
        BY <3>2, <3>3, CommitTask
      <3> QED
        BY <3>1, <3>4 DEF GetTasks
    <2> QED
      BY <2>1, <2>2
  <1>8. ASSUME NEW t \in TaskId, tasks'[t] # NoRow
        PROVE  projects'[tasks'[t].project] # NoRow
    <2> DEFINE p == tasks'[t].project
    <2>1. p \in ProjectId
      BY <1>1, <1>8 DEF Tasks, TaskRow
    <2>2. CASE tasks[t] = NoRow
      BY <1>3, <1>8, <2>1, <2>2, CommitTask
    <2>3. CASE tasks[t] # NoRow
      <3>1. tasks[t].project = p /\ projects[p] # NoRow
        BY <1>8, <2>3, CommitTask DEF IInv, Committable, ProjectHasTasks
      <3>2. dirtyP[s][p] # NoRow
        <4> SUFFICES ASSUME dirtyP[s][p] = NoRow
                     PROVE  FALSE
          OBVIOUS
        <4>1. Changed(s, p)
          BY <1>1, <1>3, <2>1, <3>1, CleanAssumption
             DEF SessionOK, WrittenP, Inserts, AddedOK, ProjectId
        <4>2. req[s].op = "deleteProject" /\ req[s].project = p
          BY <4>1 DEF Changed
        <4>3. GetTasks(ViewT(s), p) = {}
          BY <1>1, <4>2 DEF SessionOK, Done
        <4>4. tasks' = ViewT(s)
          BY DEF Commit
        <4> HIDE DEF p
        <4> QED
          BY <1>8, <4>3, <4>4 DEF GetTasks, p
      <3> QED
        BY <1>1, <2>1, <3>1, <3>2
    <2> QED
      BY <2>2, <2>3
  <1> QED
    BY <1>5, <1>6, <1>7, <1>8 DEF Committable, ProjectHasTasks

-----------------------------------------------------------------------------
(* The invariant.                                                          *)

\* The server starts on tables of which the invariant holds, with no session.
LEMMA InitIInv ==
    Init => IInv
  <1> SUFFICES ASSUME Init PROVE IInv
    OBVIOUS
  <1>1. TypeOK
    <2>1. /\ NothingP \in [ProjectId -> ProjectRow \cup {NoRow, Clean}]
          /\ NothingT \in [TaskId -> TaskRow \cup {NoRow, Clean}]
      BY DEF NothingP, NothingT
    <2> QED
      BY <2>1, InitAssumption, RequestsAssumption DEF Init, TypeOK, Labels
  <1>2. Fresh /\ ProjectHasTasks
    BY InitAssumption DEF Init, Fresh, ProjectHasTasks
  <1>3. OwnerIsMember
    BY <1>1, InitAssumption DEF Init, OwnerIsMember, Members, TypeOK, Projects, ProjectRow
  <1>4. \A s \in Session : /\ pc[s] = "idle" /\ welcoming[s] = FALSE /\ id[s] = 0
                           /\ dirtyP[s] = NothingP /\ dirtyT[s] = NothingT
                           /\ \A p \in ProjectId : dirtyP[s][p] = Clean
                           /\ \A t \in TaskId : dirtyT[s][t] = Clean
    BY DEF Init, NothingP, NothingT
  <1>5. OneWriter
    BY <1>4 DEF OneWriter, Inserts, Active
  <1>6. ASSUME NEW s \in Session
        PROVE  SessionOK(s)
    <2>1. WrittenP(s) /\ WrittenT(s)
      BY <1>4 DEF WrittenP, WrittenT
    <2>2. ControlOK(s) /\ IdleOK(s) /\ AddedOK(s) /\ Knows(s) /\ Walks(s) /\ Done(s) /\ Told(s)
      BY <1>4 DEF ControlOK, IdleOK, AddedOK, Knows, Walks, Done, Told, Active, AddUserLabels,
            RemoveLabels, RemovalLabels, UnassignLabels
    <2> QED
      BY <2>1, <2>2 DEF SessionOK
  <1> QED
    BY <1>1, <1>2, <1>3, <1>5, <1>6 DEF IInv, Committable

\* A step of one session that leaves the tables alone keeps the whole invariant.
LEMMA StepKeeps ==
    ASSUME IInv, NEW s \in Session, StepOK(s)
    PROVE  IInv'
  <1>1. TypeOK' /\ OneWriter' /\ SessionOK(s)' /\ Frame(s)
    BY DEF StepOK
  <1>2. ASSUME NEW z \in Session \ {s}
        PROVE  SessionOK(z)'
    BY <1>1, FrameRely, SessionStable DEF IInv, Committable
  <1>3. projects' = projects /\ tasks' = tasks /\ nextProject <= nextProject' /\ nextTask <= nextTask'
    BY <1>1 DEF Frame, database
  <1>4. Fresh'
    <2>1. \A p \in ProjectId : p < nextProject => p < nextProject'
      BY <1>1, <1>3 DEF IInv, TypeOK, ProjectId
    <2>2. \A t \in TaskId : t < nextTask => t < nextTask'
      BY <1>1, <1>3 DEF IInv, TypeOK, TaskId
    <2> QED
      BY <1>3, <2>1, <2>2 DEF IInv, Committable, Fresh
  <1>5. OwnerIsMember' /\ ProjectHasTasks'
    BY <1>3 DEF IInv, Committable, OwnerIsMember, ProjectHasTasks
  <1> QED
    BY <1>1, <1>2, <1>4, <1>5 DEF IInv, Committable

\* Every statement is such a step.
LEMMA StatementOK ==
    ASSUME IInv, NEW s \in Session, Statement(s)
    PROVE  StepOK(s)
  <1>1. CASE AddUserCheck(s) \/ AddUserRead(s) \/ AddUserWrite(s)
    BY <1>1, AddUserCheckOK, AddUserReadOK, AddUserWriteOK
  <1>2. CASE \/ GetProject(s) \/ RemoveUserRequester(s) \/ UnassignUserCheck(s)
             \/ AssignUserCheck(s) \/ SetProcessPointsNeeded(s)
             \/ SetProcessPointsAssignee(s) \/ SetProcessPointsMember(s)
    BY <1>2, PlainChecksOK
  <1>3. CASE \/ RemoveUserRemoved(s) \/ RemoveUserRead(s) \/ RemoveUserWrite(s)
             \/ RemoveUserTasks(s) \/ RemoveUserLoop(s)
    BY <1>3, RemoveUserRemovedOK, RemoveUserReadOK, RemoveUserWriteOK, RemoveUserTasksOK,
       RemoveUserLoopOK
  <1>4. CASE \/ DeleteProjectRead(s) \/ DeleteProjectCheck(s) \/ DeleteProjectWrite(s)
             \/ Cascade(s)
    BY <1>4, DeleteProjectReadOK, OwnerChecksOK, DeleteProjectWriteOK, CascadeOK
  <1>5. CASE \/ UpdateNameCheck(s) \/ UpdateNameWrite(s)
             \/ UpdateDescriptionCheck(s) \/ UpdateDescriptionWrite(s)
    BY <1>5, OwnerChecksOK, UpdateTextOK
  <1>6. CASE AddProjectInsert(s) \/ AddTasksInsert(s) \/ Send(s)
    BY <1>6, AddProjectInsertOK, AddTasksInsertOK, SendOK
  <1>7. CASE AssignUserWrite(s) \/ SetProcessPointsWrite(s) \/ UnassignUserWrite(s)
    BY <1>7, UpdateTasksOK
  <1> QED
    BY <1>1, <1>2, <1>3, <1>4, <1>5, <1>6, <1>7 DEF Statement

\* A commit keeps the invariant.
LEMMA CommitKeeps ==
    ASSUME IInv, NEW s \in Session, Commit(s)
    PROVE  IInv'
  <1>1. projects' \in Projects /\ tasks' \in Tasks
    BY CommitTables
  <1>2. TypeOK' /\ OneWriter' /\ SessionOK(s)'
    BY <1>1, FinishOK DEF Commit
  <1>3. ASSUME NEW z \in Session \ {s}
        PROVE  SessionOK(z)'
    BY <1>2, CommitRely, SessionStable DEF IInv, Committable
  <1> QED
    BY <1>2, <1>3, CommitCommittable DEF IInv

\* The invariant says nothing of primes if nothing changes.
LEMMA StutterKeeps ==
    ASSUME IInv, UNCHANGED vars
    PROVE  IInv'
  <1>1. TypeOK' /\ Committable'
    BY DEF vars, IInv, TypeOK, Committable, Fresh, OwnerIsMember, ProjectHasTasks
  <1>2. \A z \in Session : \A p \in ProjectId : Inserts(z, p)' <=> Inserts(z, p)
    BY DEF vars, Inserts, Active
  <1>3. OneWriter'
    BY <1>2 DEF vars, IInv, OneWriter
  <1>4. ASSUME NEW z \in Session
        PROVE  SessionOK(z)'
    <2>1. Rely(z)
      <3>1. \A p \in ProjectId : Settled(p) => Settled(p)'
        BY <1>2 DEF vars, Settled
      <3> QED
        BY <3>1 DEF vars, Rely, Same, IInv, TypeOK
    <2> QED
      BY <1>1, <2>1, SessionStable DEF IInv, Committable
  <1> QED
    BY <1>1, <1>3, <1>4 DEF IInv

\* So it is inductive.
LEMMA StepIInv ==
    IInv /\ [Next]_vars => IInv'
  <1> SUFFICES ASSUME IInv, [Next]_vars PROVE IInv'
    OBVIOUS
  <1>1. ASSUME NEW s \in Session, Statement(s)
        PROVE  IInv'
    BY <1>1, StatementOK, StepKeeps
  <1>2. ASSUME NEW s \in Session, Commit(s)
        PROVE  IInv'
    BY <1>2, CommitKeeps
  <1>3. ASSUME NEW s \in Session, Rollback(s) \/ Crash(s)
        PROVE  IInv'
    BY <1>3, RollbackOK, StepKeeps
  <1>4. ASSUME NEW s \in Session, NEW r \in Requests, Begin(s, r)
        PROVE  IInv'
    BY <1>4, BeginOK, StepKeeps
  <1>5. CASE UNCHANGED vars
    BY <1>5, StutterKeeps
  <1> QED
    BY <1>1, <1>2, <1>3, <1>4, <1>5 DEF Next, Step, AllServed

\* The invariant holds throughout, for any number of sessions and requests.
THEOREM Inductive == Spec => []IInv
  BY InitIInv, StepIInv, PTL DEF Spec

-----------------------------------------------------------------------------
(* What follows from it.                                                   *)

\* The committed tables: whatever requests run at the same time, and wherever
\* they fail, the owner of a committed project is a member of it, and no
\* project is without tasks and no task without its project.
THEOREM TablesSound == Spec => []TablesOK
  <1>1. IInv => TablesOK
    BY DEF IInv, Committable, TablesOK
  <1> QED
    BY <1>1, Inductive, PTL

\* What a request has achieved when it is about to commit.
LEMMA HasEffect ==
    ASSUME IInv, NEW s \in Session, pc[s] = "commit"
    PROVE  Effect(req[s], ViewP(s), ViewT(s), id[s])
  <1> DEFINE r == req[s]
  <1>1. SessionOK(s) /\ Active(s) /\ r \in Requests
    BY DEF IInv, SessionOK, ControlOK, Active
  <1>2. /\ r.op \in ProjectOps => r.project \in ProjectId
        /\ r.op \in TaskOps => r.task \in TaskId
        /\ r.op \in {"addUser", "removeUser"} => r.user \in User
        /\ r.op \in Ops
    BY <1>1, RequestFields
  <1>3. /\ \A p \in ProjectId : dirtyP[s][p] # Clean => ViewP(s)[p] = dirtyP[s][p]
        /\ \A t \in TaskId : dirtyT[s][t] # Clean => ViewT(s)[t] = dirtyT[s][t]
    BY DEF ViewP, ViewT
  <1>4. Done(s) /\ AddedOK(s)
    BY <1>1 DEF SessionOK
  <1>5. CASE r.op \in {"addUser", "removeUser"}
    <2>1. /\ dirtyP[s][r.project] \notin {Clean, NoRow}
          /\ dirtyP[s][r.project] \in ProjectRow \cup {NoRow, Clean}
          /\ ViewP(s)[r.project] = dirtyP[s][r.project]
          /\ r.user \in User
          /\ r.op = "addUser" => dirtyP[s][r.project].users[r.user] > 0
          /\ r.op = "removeUser" => dirtyP[s][r.project].users[r.user] = 0
      BY <1>1, <1>2, <1>3, <1>4, <1>5 DEF Done, ProjectOps, IInv, TypeOK
    <2> QED
      BY <1>5, <2>1 DEF Effect, Members
  <1>6. CASE r.op \in {"updateName", "updateDescription"}
    BY <1>1, <1>2, <1>3, <1>4, <1>6 DEF Done, ProjectOps, Effect
  <1>7. CASE r.op = "deleteProject"
    BY <1>1, <1>2, <1>3, <1>4, <1>7 DEF Done, ProjectOps, Effect
  <1>8. CASE r.op \in TaskOps
    BY <1>1, <1>2, <1>3, <1>4, <1>8 DEF Done, TaskOps, Effect
  <1>9. CASE r.op \in AddOps
    <2>1. /\ id[s] \in ProjectId /\ dirtyP[s][id[s]] = addProject(DraftOf(r))
          /\ addProject(DraftOf(r)) \in ProjectRow
          /\ GetTasks(ViewT(s), id[s]) # {}
      BY <1>1, <1>4, <1>9, DraftOfType DEF AddedOK
    <2>2. ViewP(s)[id[s]].owner = DraftOf(r).owner
      BY <1>3, <2>1, CleanAssumption DEF addProject
    <2> QED
      BY <1>9, <2>1, <2>2 DEF Effect, AddOps, GetTasks
  <1>10. CASE r.op \in {"getProjects", "getProject"}
    BY <1>10 DEF Effect
  <1> QED
    BY <1>2, <1>5, <1>6, <1>7, <1>8, <1>9, <1>10 DEF Ops, ProjectOps

\* A request that is about to commit has done what it was asked for: between
\* its checks, its writes and its commit no other request came in between.
THEOREM EffectSure == Spec => []CommitHasEffect
  <1>1. IInv => CommitHasEffect
    BY HasEffect DEF CommitHasEffect
  <1> QED
    BY <1>1, Inductive, PTL

\* The messages of a request that changes the row of a project go to all
\* members the row has at its commit, and to the user it removed.
THEOREM ToldAll == Spec => []MembersAreTold
  <1>1. ASSUME IInv, NEW s \in Session, pc[s] = "commit",
               req[s].op \in {"addUser", "removeUser", "updateName", "updateDescription"}
        PROVE  LET p == req[s].project
                   heard == {m.to : m \in {n \in told[s] : n.project = p}}
               IN  /\ Members(ViewP(s)[p].users) \subseteq heard
                   /\ req[s].op = "removeUser" => req[s].user \in heard
    <2> DEFINE p == req[s].project
               heard == {m.to : m \in {n \in told[s] : n.project = p}}
    <2>1. told[s] = MessagesOf(s)
      BY <1>1 DEF IInv, SessionOK, Told
    <2>2. told[s] = IF req[s].op = "removeUser" THEN sendUserRemoved(s, p) ELSE sendUpdate(s, p)
      BY <1>1, <2>1 DEF MessagesOf
    <2>3. sendUpdate(s, p) \subseteq told[s]
      BY <2>2 DEF sendUserRemoved
    <2>4. ASSUME NEW u \in Members(ViewP(s)[p].users)
          PROVE  u \in heard
      <3>1. [type |-> "project_updated", project |-> p, to |-> u] \in told[s]
        BY <2>3 DEF sendUpdate, MessageTo
      <3> QED
        BY <3>1
    <2>5. ASSUME req[s].op = "removeUser"
          PROVE  req[s].user \in heard
      <3>1. [type |-> "project_user_removed", project |-> p, to |-> req[s].user] \in told[s]
        BY <2>2, <2>5 DEF sendUserRemoved
      <3> QED
        BY <3>1
    <2> QED
      BY <2>4, <2>5
  <1>2. IInv => MembersAreTold
    BY <1>1 DEF MembersAreTold
  <1> QED
    BY <1>2, Inductive, PTL

\* Only a commit changes the committed tables.
LEMMA OnlyCommits ==
    ASSUME IInv, [Next]_vars, ~UNCHANGED database
    PROVE  \E s \in Session : Commit(s)
  <1>1. ASSUME NEW s \in Session, Statement(s) \/ Rollback(s) \/ Crash(s)
        PROVE  UNCHANGED database
    BY <1>1, StatementOK, RollbackOK DEF StepOK, Frame
  <1>2. ASSUME NEW s \in Session, NEW r \in Requests, Begin(s, r)
        PROVE  UNCHANGED database
    BY <1>2 DEF Begin
  <1>3. UNCHANGED vars => UNCHANGED database
    BY DEF vars, database
  <1> QED
    BY <1>1, <1>2, <1>3 DEF Next, Step, AllServed

\* What a commit does to a row that is there was written by right.
LEMMA CommitChanged ==
    ASSUME IInv, NEW s \in Session, Commit(s), NEW p \in ProjectId,
           projects[p] # NoRow, projects'[p] # projects[p]
    PROVE  Changed(s, p) /\ projects'[p] = dirtyP[s][p] /\ pc[s] = "commit"
  <1>1. /\ projects'[p] = IF dirtyP[s][p] = Clean THEN projects[p] ELSE dirtyP[s][p]
        /\ SessionOK(s) /\ pc[s] = "commit"
    BY CommitTables
  <1>2. ~Inserts(s, p)
    BY <1>1 DEF SessionOK, AddedOK, Inserts, ProjectId
  <1> QED
    BY <1>1, <1>2 DEF SessionOK, WrittenP

\* Every committed change of a project was asked for by a user with the right
\* to it, and touches no other column than the one the request is about.
THEOREM ColumnsKept == Spec => OnlyOwnColumns
  <1>1. ASSUME IInv, NEW s \in Session, Commit(s), NEW p \in ProjectId,
               projects[p] # NoRow
        PROVE  LET OfOwner(r) == r.project = p /\ r.uid = projects[p].owner
                   OfMember(r) == r.project = p /\ (r.uid = projects[p].owner \/ r.uid = r.user)
               IN
               /\ projects'[p] = NoRow => Committed({"deleteProject"}, OfOwner)
               /\ projects'[p] # NoRow =>
                    /\ projects'[p].owner = projects[p].owner
                    /\ projects'[p].name # projects[p].name =>
                         Committed({"updateName"}, OfOwner)
                    /\ projects'[p].description # projects[p].description =>
                         Committed({"updateDescription"}, OfOwner)
                    /\ projects'[p].users # projects[p].users =>
                         \/ Committed({"addUser"}, OfOwner)
                         \/ Committed({"removeUser"}, OfMember)
                         \/ p = PublicProject
    <2>1. CASE projects'[p] = projects[p]
      BY <1>1, <2>1
    <2>2. CASE projects'[p] # projects[p]
      <3>1. Changed(s, p) /\ projects'[p] = dirtyP[s][p] /\ pc[s] = "commit"
        BY <1>1, <2>2, CommitChanged
      <3> QED
        BY <1>1, <3>1 DEF Changed, Committed
    <2> QED
      BY <2>1, <2>2
  <1>2. IInv /\ (\E s \in Session : Commit(s)) => OwnColumns
    BY <1>1 DEF OwnColumns
  <1>3. UNCHANGED database => OwnColumns
    BY DEF OwnColumns, database
  <1>4. IInv /\ [Next]_vars => [OwnColumns]_vars
    BY <1>2, <1>3, OnlyCommits
  <1> QED
    BY <1>4, Inductive, PTL DEF Spec, OnlyOwnColumns

\* An id that was drawn gets a row only from the request that drew it: the row
\* of a deleted project does not come back with the array, the name or the
\* description another transaction was about to write.
THEOREM DeadIdsDead == Spec => DeadIdsStayDead
  <1>1. ASSUME IInv, NEW s \in Session, Commit(s), NEW p \in ProjectId,
               projects[p] = NoRow, projects'[p] # NoRow
        PROVE  pc[s] = "commit" /\ id[s] = p /\ req[s].op \in AddOps
    <2>1. /\ projects'[p] = IF dirtyP[s][p] = Clean THEN projects[p] ELSE dirtyP[s][p]
          /\ SessionOK(s) /\ pc[s] = "commit"
      BY <1>1, CommitTables
    <2>2. Inserts(s, p)
      BY <1>1, <2>1 DEF SessionOK, WrittenP, Changed
    <2> QED
      BY <2>1, <2>2 DEF Inserts
  <1>2. IInv /\ (\E s \in Session : Commit(s)) => DeadId
    BY <1>1 DEF DeadId, AddOps
  <1>3. UNCHANGED database => DeadId
    BY DEF DeadId, database
  <1>4. IInv /\ [Next]_vars => [DeadId]_vars
    BY <1>2, <1>3, OnlyCommits
  <1> QED
    BY <1>4, Inductive, PTL DEF Spec, DeadIdsStayDead

-----------------------------------------------------------------------------
(* Waiting.  A session may wait for the row of the public project, for the *)
(* row of another project, for a task of its own request, or, as the one   *)
(* that holds the row of a project, for one of the tasks of this project.  *)
(* Whoever holds what a session waits for waits, if at all, for something  *)
(* further down this list.                                                 *)

WaitsForP(s, p) ==
    \/ pc[s] = "addUser_UPDATE" /\ p = AddUserArguments(s).project
    \/ /\ pc[s] \in {"removeUser_UPDATE", "delete", "updateName_UPDATE",
                     "updateDescription_UPDATE"}
       /\ p = req[s].project

WaitsForT(s, t) ==
    \/ pc[s] = "cascade" /\ t \in GetTasks(ViewT(s), req[s].project)
    \/ pc[s] = "unassignUser_UPDATE" /\ t = UnassignArguments(s).task
    \/ pc[s] \in {"assignUser_UPDATE", "setProcessPoints_UPDATE"} /\ t = req[s].task

\* It holds the row of a project and goes through its tasks.
GoesThrough(s) ==
    \/ pc[s] = "cascade"
    \/ pc[s] = "unassignUser_UPDATE" /\ req[s].op = "removeUser"

\* Whom a session waits for, and for what.
LEMMA BlockersHold ==
    ASSUME IInv, NEW s \in Session, NEW z \in Blockers(s)
    PROVE  /\ z \in Session \ {s}
           /\ \/ \E p \in ProjectId : WaitsForP(s, p) /\ dirtyP[z][p] # Clean
              \/ \E t \in TaskId : WaitsForT(s, t) /\ dirtyT[z][t] # Clean
  <1> DEFINE r == req[s]
             a == AddUserArguments(s)
             PLabels == {"removeUser_UPDATE", "delete", "updateName_UPDATE",
                         "updateDescription_UPDATE"}
             TLabels == {"assignUser_UPDATE", "setProcessPoints_UPDATE"}
  <1>1. ControlOK(s) /\ Walks(s) /\ (Active(s) => r \in Requests)
    BY DEF IInv, SessionOK, ControlOK
  <1>2. /\ r \in Requests /\ r.op \in ProjectOps => r.project \in ProjectId
        /\ r \in Requests /\ r.op \in TaskOps => r.task \in TaskId
    BY RequestFields
  <1>3. CASE pc[s] = "addUser_UPDATE"
    <2>1. a.project \in ProjectId
      BY <1>3, AddUserFields DEF AddUserLabels
    <2>2. z \in BlockersP(s, a.project)
      BY <1>3 DEF Blockers
    <2> QED
      BY <1>3, <2>1, <2>2 DEF BlockersP, WaitsForP
  <1>4. CASE pc[s] \in PLabels
    <2>1. r.project \in ProjectId
      BY <1>1, <1>2, <1>4 DEF ControlOK, Active, RemoveLabels, ProjectOps
    <2>2. z \in BlockersP(s, r.project)
      BY <1>4 DEF Blockers
    <2> QED
      BY <1>4, <2>1, <2>2 DEF BlockersP, WaitsForP
  <1>5. CASE pc[s] = "cascade"
    <2>1. PICK t \in GetTasks(ViewT(s), r.project) : z \in BlockersT(s, t)
      BY <1>5 DEF Blockers
    <2> QED
      BY <1>5, <2>1 DEF BlockersT, WaitsForT, GetTasks
  <1>6. CASE pc[s] = "unassignUser_UPDATE"
    <2>1. UnassignArguments(s).task \in TaskId
      BY <1>1, <1>2, <1>6
         DEF ControlOK, Walks, UnassignArguments, Active, UnassignLabels, RemovalLabels, TaskOps
    <2>2. z \in BlockersT(s, UnassignArguments(s).task)
      BY <1>6 DEF Blockers
    <2> QED
      BY <1>6, <2>1, <2>2 DEF BlockersT, WaitsForT
  <1>7. CASE pc[s] \in TLabels
    <2>1. r.task \in TaskId
      BY <1>1, <1>2, <1>7 DEF ControlOK, Active, TaskOps
    <2>2. z \in BlockersT(s, r.task)
      BY <1>7 DEF Blockers
    <2> QED
      BY <1>7, <2>1, <2>2 DEF BlockersT, WaitsForT
  <1> QED
    BY <1>3, <1>4, <1>5, <1>6, <1>7 DEF Blockers

\* Who holds the row of a project other than the public one has written it in
\* its handler, and waits for nothing or goes through the tasks.
LEMMA HoldsProject ==
    ASSUME IInv, NEW z \in Session, NEW p \in ProjectId,
           p # PublicProject, dirtyP[z][p] # Clean
    PROVE  Blockers(z) = {} \/ GoesThrough(z)
  <1>1. SessionOK(z) /\ ControlOK(z) /\ (Inserts(z, p) \/ Changed(z, p))
    BY DEF IInv, SessionOK, WrittenP
  <1>2. CASE Inserts(z, p)
    <2>1. req[z].op \in AddOps /\ pc[z] \notin AddUserLabels
      BY <1>1, <1>2 DEF SessionOK, AddedOK, Inserts, ProjectId
    <2> QED
      BY <1>1, <2>1 DEF ControlOK, Blockers, AddOps, AddUserLabels, RemoveLabels, UnassignLabels
  <1>3. CASE Changed(z, p)
    <2>1. pc[z] \in PastWrite /\ req[z].op \in ProjectOps
      BY <1>3 DEF Changed
    <2> QED
      BY <1>1, <2>1
         DEF PastWrite, RemovalLabels, UnassignLabels, ControlOK, ProjectOps, Blockers, GoesThrough
  <1> QED
    BY <1>1, <1>2, <1>3

\* Who holds a task has reached the end of its request, or goes through the
\* tasks of a project whose row it has written.
LEMMA HoldsTask ==
    ASSUME IInv, NEW z \in Session, NEW t \in TaskId, dirtyT[z][t] # Clean
    PROVE  \/ Blockers(z) = {}
           \/ /\ GoesThrough(z)
              /\ tasks[t] # NoRow /\ dirtyP[z][tasks[t].project] # Clean
  <1>1. SessionOK(z) /\ ControlOK(z) /\ ChangedT(z, t)
    BY DEF IInv, SessionOK, WrittenT
  <1>2. pc[z] \in {"send", "commit", "rollback", "GetTasks", "unassign_tasks", "UnassignUser"}
           => Blockers(z) = {}
    BY DEF Blockers
  <1> QED
    BY <1>1, <1>2, CleanAssumption
       DEF ChangedT, PastWrite, RemovalLabels, UnassignLabels, GoesThrough, AddOps, TaskOps

\* Who goes through the tasks of a project waits only for sessions that wait
\* for nothing: the others that lock several tasks of a project need its row.
LEMMA GoesThroughLast ==
    ASSUME IInv, NEW s \in Session, GoesThrough(s), NEW z \in Blockers(s)
    PROVE  Blockers(z) = {}
  <1> DEFINE p == req[s].project
  <1>1. SessionOK(s) /\ ControlOK(s) /\ z \in Session \ {s} /\ Active(s)
    BY BlockersHold DEF IInv, SessionOK, GoesThrough, Active
  <1>2. req[s].op \in {"removeUser", "deleteProject"} /\ p \in ProjectId
    BY <1>1, RequestFields DEF ControlOK, GoesThrough, ProjectOps
  <1>3. dirtyP[s][p] # Clean
    BY <1>1, <1>2, CleanAssumption
       DEF SessionOK, Done, GoesThrough, RemovalLabels, UnassignLabels
  <1>4. PICK t \in TaskId : WaitsForT(s, t) /\ dirtyT[z][t] # Clean
    BY BlockersHold DEF GoesThrough, WaitsForP
  <1>5. tasks[t] # NoRow /\ tasks[t].project = p
    <2>1. CASE pc[s] = "cascade"
      <3>1. dirtyT[s][t] = Clean
        BY <1>1, <1>4 DEF IInv, OneWriter
      <3>2. ViewT(s)[t] = tasks[t]
        BY <3>1 DEF ViewT
      <3> QED
        BY <1>4, <2>1, <3>2 DEF WaitsForT, GetTasks
    <2>2. CASE pc[s] = "unassignUser_UPDATE" /\ req[s].op = "removeUser"
      BY <1>1, <1>4, <2>2
         DEF WaitsForT, UnassignArguments, SessionOK, Walks, RemovalLabels, UnassignLabels
    <2> QED
      BY <2>1, <2>2 DEF GoesThrough
  <1>6. dirtyP[z][p] = Clean
    BY <1>1, <1>2, <1>3 DEF IInv, OneWriter
  <1> QED
    BY <1>1, <1>4, <1>5, <1>6, HoldsTask

\* Who waits for a task waits for one that goes through tasks, or for none that
\* waits.
LEMMA TaskWait ==
    ASSUME IInv, NEW s \in Session, NEW t \in TaskId, WaitsForT(s, t), NEW z \in Blockers(s)
    PROVE  Blockers(z) = {} \/ GoesThrough(z)
  <1>1. \A p : ~WaitsForP(s, p)
    BY DEF WaitsForT, WaitsForP
  <1> QED
    BY <1>1, BlockersHold, HoldsTask

\* The same for the row of a project that is not the public one.
LEMMA ProjectWait ==
    ASSUME IInv, NEW s \in Session, NEW p \in ProjectId, WaitsForP(s, p),
           p # PublicProject, NEW z \in Blockers(s)
    PROVE  Blockers(z) = {} \/ GoesThrough(z)
  <1>1. \A t : ~WaitsForT(s, t)
    BY DEF WaitsForT, WaitsForP
  <1>2. \A q : WaitsForP(s, q) => q = p
    BY DEF WaitsForP
  <1> QED
    BY <1>1, <1>2, BlockersHold, HoldsProject

\* Who holds the row of the public project does not wait for it.
LEMMA PublicWait ==
    ASSUME IInv, NEW s \in Session, WaitsForP(s, PublicProject), NEW z \in Blockers(s)
    PROVE  Blockers(z) = {} \/ ~WaitsForP(z, PublicProject)
  <1>1. \A t : ~WaitsForT(s, t)
    BY DEF WaitsForT, WaitsForP
  <1>2. \A q : WaitsForP(s, q) => q = PublicProject
    BY DEF WaitsForP
  <1>3. z \in Session \ {s} /\ PublicProject \in ProjectId /\ dirtyP[z][PublicProject] # Clean
    BY <1>1, <1>2, BlockersHold
  <1>4. ASSUME WaitsForP(z, PublicProject), NEW y \in Blockers(z)
        PROVE  FALSE
    <2>1. \A t : ~WaitsForT(z, t)
      BY <1>4 DEF WaitsForT, WaitsForP
    <2>2. \A q : WaitsForP(z, q) => q = PublicProject
      BY <1>4 DEF WaitsForP
    <2>3. y \in Session \ {z} /\ dirtyP[y][PublicProject] # Clean
      BY <1>3, <2>1, <2>2, BlockersHold
    <2> QED
      BY <1>3, <2>3 DEF IInv, OneWriter
  <1> QED
    BY <1>4

\* Transactions never wait for each other in a cycle, however many requests
\* run: the database never has to break a deadlock.
THEOREM NoDeadlock == Spec => []NoWaitCycle
  <1>1. ASSUME IInv, NEW C \in SUBSET Session, C # {},
               \A s \in C : Blockers(s) \cap C # {}
        PROVE  FALSE
    <2>1. \A s \in C : s \in Session /\ \E z \in C : z \in Blockers(s)
      BY <1>1
    <2>2. \A s \in C : ~GoesThrough(s)
      BY <1>1, <2>1, GoesThroughLast
    <2>3. \A s \in C : \A t \in TaskId : ~WaitsForT(s, t)
      BY <1>1, <2>1, <2>2, TaskWait
    <2>4. \A s \in C : \A p \in ProjectId : WaitsForP(s, p) => p = PublicProject
      BY <1>1, <2>1, <2>2, ProjectWait
    <2>5. ASSUME NEW s \in C
          PROVE  WaitsForP(s, PublicProject)
      <3>1. PICK z \in C : z \in Blockers(s)
        BY <2>1
      <3>2. \/ \E p \in ProjectId : WaitsForP(s, p)
            \/ \E t \in TaskId : WaitsForT(s, t)
        BY <1>1, <3>1, BlockersHold
      <3> QED
        BY <2>3, <2>4, <3>2
    <2>6. PICK s \in C : TRUE
      BY <1>1
    <2>7. PICK z \in C : z \in Blockers(s)
      BY <2>1, <2>6
    <2>8. Blockers(z) = {}
      BY <1>1, <2>1, <2>5, <2>7, PublicWait
    <2> QED
      BY <2>1, <2>8
  <1>2. IInv => NoWaitCycle
    BY <1>1 DEF NoWaitCycle
  <1> QED
    BY <1>2, Inductive, PTL

-----------------------------------------------------------------------------
(* One request at a time.  Between its statements nothing it has read      *)
(* changes, so that at its commit it has done what TaskManager says in one *)
(* step; Greeted is what TaskManager calls Welcome.                        *)

\* The projects as the handler of the request of s finds them.
Greeted(s) ==
    IF CanAddUser(projects, PublicProject, req[s].uid, PublicOwner)
    THEN WithUser(projects, PublicProject, req[s].uid)
    ELSE projects

\* The labels of a handler before it writes.
BeforeWrite ==
    {"AddUser", "addUser", "addUser_UPDATE", "getProject",
     "RemoveUser", "RemoveUser_removed", "removeUser", "removeUser_UPDATE",
     "DeleteProject", "DeleteProject_owner", "delete", "UpdateName", "updateName_UPDATE",
     "UpdateDescription", "updateDescription_UPDATE", "AddProject", "AssignUser", "assignUser_UPDATE",
     "SetProcessPoints", "assignee", "member", "setProcessPoints_UPDATE"}

\* Where a request is when its handler has written all it writes.
Closing == {"send", "commit"}

\* Before the handler nothing is written.
SoleWelcome(s) == welcoming[s] =>
    /\ ViewP(s) = projects /\ dirtyT[s] = NothingT
    /\ pc[s] \in {"addUser", "addUser_UPDATE"} =>
         CanAddUser(projects, PublicProject, req[s].uid, PublicOwner)
    /\ pc[s] = "addUser_UPDATE" => read[s] = projects[PublicProject]

\* The handler starts on the tables with the user welcomed.
SoleBefore(s) ==
    (\/ pc[s] \in BeforeWrite /\ ~welcoming[s]
     \/ pc[s] \in UnassignLabels /\ req[s].op = "unassignUser"
     \/ pc[s] = "commit" /\ req[s].op \in {"getProjects", "getProject"}) =>
        ViewP(s) = Greeted(s) /\ dirtyT[s] = NothingT

\* A project is only shown to a member.
SoleGet(s) ==
    pc[s] = "commit" /\ req[s].op = "getProject" =>
        VerifyMembershipProject(Greeted(s), req[s].project, req[s].uid)

\* addUser: what was checked, read and written is what WithUser makes of the projects.
SoleAddUser(s) == req[s].op = "addUser" /\ ~welcoming[s] =>
    LET r == req[s]
        P == Greeted(s)
    IN  /\ pc[s] \in {"addUser", "addUser_UPDATE"} \cup Closing => CanAddUser(P, r.project, r.user, r.uid)
        /\ pc[s] = "addUser_UPDATE" => read[s] = P[r.project]
        /\ pc[s] \in Closing => ViewP(s) = WithUser(P, r.project, r.user) /\ dirtyT[s] = NothingT

\* The removal on a task that RemoveUser has gone past.
Swept(s, t) ==
    IF t \in GetTasks(tasks, req[s].project) /\ VerifyAssignment(tasks, t, req[s].user)
    THEN unassignUser(tasks[t]) ELSE tasks[t]

\* The tasks it has still to go past.
Left(s) == todo[s] \cup (IF pc[s] \in UnassignLabels THEN {id[s]} ELSE {})

\* removeUser: the row of the project, and then the tasks one after the other.
SoleRemoveUser(s) == req[s].op = "removeUser" /\ ~welcoming[s] =>
    LET r == req[s]
        P == Greeted(s)
    IN  /\ pc[s] = "RemoveUser_removed" => VerifyMembershipProject(P, r.project, r.uid)
        /\ pc[s] \in {"removeUser", "removeUser_UPDATE"} \cup RemovalLabels \cup Closing =>
             CanRemoveUser(P, r.project, r.uid, r.user)
        /\ pc[s] = "removeUser_UPDATE" => read[s] = P[r.project]
        /\ pc[s] \in RemovalLabels \cup Closing =>
             ViewP(s) = [P EXCEPT ![r.project] = updateUsers(@, removeUser(@.users, r.user))]
        /\ pc[s] = "GetTasks" => dirtyT[s] = NothingT
        /\ pc[s] \in {"unassign_tasks"} \cup UnassignLabels =>
             /\ Left(s) \subseteq GetTasks(tasks, r.project)
             /\ \A t \in TaskId : ViewT(s)[t] = IF t \in Left(s) THEN tasks[t] ELSE Swept(s, t)
        /\ pc[s] \in UnassignLabels => id[s] \notin todo[s] /\ VerifyAssignment(tasks, id[s], r.user)
        /\ pc[s] \in Closing => \A t \in TaskId : ViewT(s)[t] = Swept(s, t)

\* deleteProject: the row of the project, and then its tasks in any order.
SoleDelete(s) == req[s].op = "deleteProject" /\ ~welcoming[s] =>
    LET r == req[s]
        P == Greeted(s)
    IN  /\ pc[s] \in {"DeleteProject_owner", "delete", "cascade"} \cup Closing =>
             VerifyMembershipProject(P, r.project, r.uid)
        /\ pc[s] \in {"delete", "cascade"} \cup Closing =>
             VerifyOwnership(P, r.project, r.uid)
        /\ pc[s] \in {"cascade"} \cup Closing => ViewP(s) = delete(P, r.project)
        /\ pc[s] = "cascade" => \A t \in TaskId :
             \/ ViewT(s)[t] = tasks[t]
             \/ ViewT(s)[t] = NoRow /\ t \in GetTasks(tasks, r.project)
        /\ pc[s] \in Closing => ViewT(s) = cascade(tasks, r.project)

\* updateName and updateDescription.
SoleText(s) == ~welcoming[s] =>
    LET r == req[s]
        P == Greeted(s)
    IN  /\ r.op = "updateName" /\ pc[s] \in {"updateName_UPDATE"} \cup Closing =>
             VerifyOwnership(P, r.project, r.uid) /\ ValidName(r.text)
        /\ r.op = "updateName" /\ pc[s] \in Closing =>
             /\ ViewP(s) = [P EXCEPT ![r.project] = updateName(@, FirstLine(r.text))]
             /\ dirtyT[s] = NothingT
        /\ r.op = "updateDescription" /\ pc[s] \in {"updateDescription_UPDATE"} \cup Closing =>
             VerifyOwnership(P, r.project, r.uid) /\ ValidDescription(r.text)
        /\ r.op = "updateDescription" /\ pc[s] \in Closing =>
             /\ ViewP(s) = [P EXCEPT ![r.project] = updateDescription(@, r.text)]
             /\ dirtyT[s] = NothingT

\* The ids of a project and its tasks are the last ones drawn.
SoleAdd(s) == Active(s) /\ req[s].op \in AddOps /\ ~welcoming[s] =>
    LET d == DraftOf(req[s])
        first == nextTask - Len(d.tasks)
    IN  /\ id[s] # 0 =>
             /\ id[s] + 1 = nextProject
             /\ Len(d.tasks) <= MaxTasksPerProject /\ ValidProject(d)
        /\ pc[s] \in {"AddTasks"} \cup Closing =>
             ViewP(s) = [Greeted(s) EXCEPT ![id[s]] = addProject(d)]
        /\ pc[s] \notin Closing => dirtyT[s] = NothingT
        /\ pc[s] \in Closing =>
             /\ ValidDraft(d)
             /\ first \in 1 .. MaxTask /\ nextTask - 1 <= MaxTask
             /\ \A t \in TaskId : tasks[t] # NoRow => t < first
             /\ dirtyT[s] = addTasks(NothingT, d.tasks, id[s], first)

\* The requests about a task.
SoleTask(s) == ~welcoming[s] =>
    LET r == req[s]
        P == Greeted(s)
    IN  /\ r.op = "assignUser" /\ pc[s] \in {"assignUser_UPDATE"} \cup Closing =>
             Assignable(tasks, r.task)
        /\ r.op = "unassignUser" /\ pc[s] \in {"unassignUser_UPDATE"} \cup Closing =>
             VerifyAssignment(tasks, r.task, r.uid)
        /\ r.op = "setProcessPoints" /\ pc[s] \in {"assignee", "member"} =>
             /\ AssignmentInTaskDefined(P, tasks, r.task)
             /\ AssignmentInTaskNeeded(P, tasks, r.task) <=> pc[s] = "assignee"
        /\ r.op = "setProcessPoints" /\ pc[s] \in {"setProcessPoints_UPDATE"} \cup Closing =>
             MaySetProcessPoints(P, tasks, r.uid, r.task) /\ InRange(tasks[r.task], r.points)
        /\ r.op \in TaskOps /\ pc[s] \in Closing => ViewP(s) = P
        /\ r.op = "assignUser" /\ pc[s] \in Closing =>
             ViewT(s) = [tasks EXCEPT ![r.task] = assignUser(@, r.uid)]
        /\ r.op = "unassignUser" /\ pc[s] \in Closing =>
             ViewT(s) = [tasks EXCEPT ![r.task] = unassignUser(@)]
        /\ r.op = "setProcessPoints" /\ pc[s] \in Closing =>
             ViewT(s) = [tasks EXCEPT ![r.task] = setProcessPoints(@, r.points)]

\* What a session knows when no other one runs: all it has seen is still committed.
Sole(s) == Active(s) =>
    /\ SoleWelcome(s) /\ SoleBefore(s) /\ SoleGet(s)
    /\ SoleAddUser(s) /\ SoleRemoveUser(s) /\ SoleDelete(s) /\ SoleText(s)
    /\ SoleAdd(s) /\ SoleTask(s)

\* Together; TLC checks it on the instance of MC_OneSession.cfg.
SoleInv == \A s \in Session : Sole(s)

\* The tables a session sees are tables.
LEMMA SoleTypes ==
    ASSUME IInv, NEW s \in Session, Active(s)
    PROVE  /\ projects \in Projects /\ tasks \in Tasks /\ PublicProject \in ProjectId
           /\ req[s] \in Requests /\ req[s].uid \in User
           /\ Greeted(s) \in Projects /\ ViewP(s) \in Projects /\ ViewT(s) \in Tasks
  <1>1. projects \in Projects /\ tasks \in Tasks /\ PublicProject \in ProjectId
    BY BoundsAssumption DEF IInv, TypeOK, PublicProject, ProjectId
  <1>2. req[s] \in Requests
    BY DEF IInv, SessionOK, ControlOK
  <1>3. req[s].uid \in User
    BY <1>2, RequestFields
  <1>4. Greeted(s) \in Projects
    <2>1. CASE CanAddUser(projects, PublicProject, req[s].uid, PublicOwner)
      <3> DEFINE row == projects[PublicProject]
      <3>1. row \in ProjectRow /\ row.users \in Users
        BY <1>1, <2>1 DEF CanAddUser, VerifyOwnership, Projects, ProjectRow
      <3>2. updateUsers(row, addUser(row.users, req[s].uid)) \in ProjectRow
        BY <1>3, <3>1, UsersType DEF ProjectRow, updateUsers
      <3> QED
        BY <1>1, <2>1, <3>2 DEF Greeted, WithUser, Projects
    <2> QED
      BY <1>1, <2>1 DEF Greeted
  <1>5. ViewP(s) \in Projects /\ ViewT(s) \in Tasks
    BY DEF IInv, TypeOK, ViewP, ViewT, Projects, Tasks
  <1> QED
    BY <1>1, <1>2, <1>3, <1>4, <1>5

\* A statement that goes to another label, and keeps the committed tables.
LEMMA SoleMove ==
    ASSUME IInv, NEW s \in Session, NEW l, NEW b, Jump(s, l, b), UNCHANGED <<database, req>>
    PROVE  /\ pc'[s] = l /\ welcoming'[s] = b /\ req'[s] = req[s]
           /\ projects' = projects /\ tasks' = tasks
           /\ Greeted(s)' = Greeted(s)
           /\ \A t \in TaskId : Swept(s, t)' = Swept(s, t)
  BY DEF IInv, TypeOK, Jump, database, Greeted, Swept

\* One that writes nothing either.
LEMMA SoleQuiet ==
    ASSUME IInv, NEW s \in Session, Quiet(s)
    PROVE  /\ ViewP(s)' = ViewP(s) /\ ViewT(s)' = ViewT(s) /\ dirtyT'[s] = dirtyT[s]
           /\ id'[s] = id[s] /\ todo'[s] = todo[s] /\ nextProject' = nextProject /\ nextTask' = nextTask
           /\ UNCHANGED <<database, req>>
  BY DEF Quiet, database, sequences, written, ViewP, ViewT

\* The handler begins on the tables with the user welcomed.
LEMMA SoleEnters ==
    ASSUME IInv, NEW s \in Session, Active(s), pc[s] \in AddUserLabels,
           Jump(s, Handler(req[s].op), FALSE), UNCHANGED <<database, req>>,
           ViewP(s)' = Greeted(s), dirtyT'[s] = NothingT, id'[s] = id[s]
    PROVE  Sole(s)'
  <1> DEFINE l == Handler(req[s].op)
             op == req[s].op
  <1>1. op \in Ops
    BY SoleTypes, RequestFields
  <1>2. /\ l \in FirstLabels
        /\ l = "AddUser" => op = "addUser"
        /\ l = "getProject" => op = "getProject"
        /\ l = "RemoveUser" => op = "removeUser"
        /\ l = "UnassignUser" => op = "unassignUser"
        /\ l = "DeleteProject" => op = "deleteProject"
        /\ l = "UpdateName" => op = "updateName"
        /\ l = "UpdateDescription" => op = "updateDescription"
        /\ l = "AddProject" => op \in AddOps
        /\ l = "AssignUser" => op = "assignUser"
        /\ l = "SetProcessPoints" => op = "setProcessPoints"
        /\ l = "commit" => op = "getProjects"
    BY <1>1, HandlerLabel
  <1> HIDE DEF l
  <1>3. /\ pc'[s] = l /\ ~welcoming'[s] /\ req'[s] = req[s]
        /\ projects' = projects /\ tasks' = tasks
        /\ Greeted(s)' = Greeted(s)
    BY SoleMove DEF l
  <1>4. SoleWelcome(s)' /\ SoleBefore(s)' /\ SoleGet(s)'
    BY <1>2, <1>3 DEF SoleWelcome, SoleBefore, SoleGet, FirstLabels
  <1>5. SoleAddUser(s)' /\ SoleText(s)'
    BY <1>2, <1>3 DEF SoleAddUser, SoleText, FirstLabels, Closing
  <1>6. SoleRemoveUser(s)'
    BY <1>2, <1>3 DEF SoleRemoveUser, FirstLabels, Closing, RemovalLabels, UnassignLabels
  <1>7. SoleDelete(s)'
    BY <1>2, <1>3 DEF SoleDelete, FirstLabels, Closing
  <1>8. SoleAdd(s)'
    <2>1. op \in AddOps => id[s] = 0
      BY DEF IInv, SessionOK, AddedOK
    <2> QED
      BY <1>2, <1>3, <2>1 DEF SoleAdd, FirstLabels, Closing, AddOps
  <1>9. SoleTask(s)'
    BY <1>2, <1>3 DEF SoleTask, FirstLabels, Closing, TaskOps
  <1> QED
    BY <1>4, <1>5, <1>6, <1>7, <1>8, <1>9 DEF Sole

\* A statement that fails: the welcome is skipped, or the request is rolled back.
LEMMA SoleFails ==
    ASSUME IInv, NEW s \in Session, Sole(s), Fail(s), Quiet(s),
           pc[s] \notin {"idle", "rollback"} \cup Closing,
           welcoming[s] => ViewP(s) = Greeted(s)
    PROVE  Sole(s)'
  <1>1. PICK l : /\ Jump(s, l, FALSE)
                 /\ \/ ~welcoming[s] /\ l = "rollback"
                    \/ welcoming[s] /\ l = Handler(req[s].op)
    BY FailJumps DEF IInv
  <1>2. CASE welcoming[s]
    <2>1. Active(s) /\ pc[s] \in AddUserLabels /\ dirtyT[s] = NothingT
      BY <1>2 DEF Active, IInv, SessionOK, ControlOK, Sole, SoleWelcome
    <2> QED
      BY <1>1, <1>2, <2>1, SoleQuiet, SoleEnters
  <1>3. CASE ~welcoming[s]
    <2>1. /\ pc'[s] = "rollback" /\ ~welcoming'[s] /\ req'[s] = req[s]
          /\ projects' = projects /\ tasks' = tasks
      BY <1>1, <1>3, SoleMove, SoleQuiet
    <2>2. /\ dirtyT'[s] = dirtyT[s] /\ id'[s] = id[s] /\ nextProject' = nextProject
      BY SoleQuiet
    <2>3. SoleAdd(s)'
      BY <1>3, <2>1, <2>2 DEF Sole, SoleAdd, Closing, Active
    <2>4. SoleWelcome(s)' /\ SoleBefore(s)' /\ SoleGet(s)' /\ SoleAddUser(s)' /\ SoleText(s)'
      BY <2>1 DEF SoleWelcome, SoleBefore, SoleGet, SoleAddUser, SoleText, Closing,
         BeforeWrite, UnassignLabels
    <2>5. SoleRemoveUser(s)' /\ SoleDelete(s)' /\ SoleTask(s)'
      BY <2>1 DEF SoleRemoveUser, SoleDelete, SoleTask, Closing, RemovalLabels, UnassignLabels
    <2> QED
      BY <2>3, <2>4, <2>5 DEF Sole
  <1> QED
    BY <1>2, <1>3

\* A statement before the first write that goes on.
LEMMA SolePasses ==
    ASSUME IInv, NEW s \in Session, Sole(s), NEW l \in BeforeWrite, Goto(s, l), Quiet(s), ~welcoming[s],
           pc[s] \in BeforeWrite, l # "AddProject",
           ControlOK(s)',
           (SoleAddUser(s) /\ SoleRemoveUser(s) /\ SoleDelete(s) /\ SoleText(s) /\ SoleTask(s))'
    PROVE  Sole(s)'
  <1>1. Jump(s, l, FALSE)
    BY GotoJumpsOn DEF IInv
  <1>2. /\ pc'[s] = l /\ ~welcoming'[s] /\ req'[s] = req[s]
        /\ projects' = projects /\ tasks' = tasks /\ Greeted(s)' = Greeted(s)
    BY <1>1, SoleMove, SoleQuiet
  <1>3. ViewP(s)' = ViewP(s) /\ dirtyT'[s] = dirtyT[s]
    BY SoleQuiet
  <1>4. SoleBefore(s)
    BY DEF Sole, Active, BeforeWrite
  <1>5. (SoleWelcome(s) /\ SoleBefore(s) /\ SoleGet(s))'
    BY <1>2, <1>3, <1>4 DEF SoleWelcome, SoleBefore, SoleGet, BeforeWrite, UnassignLabels
  <1>6. SoleAdd(s)'
    BY <1>2 DEF SoleAdd, ControlOK, BeforeWrite, AddOps, AddUserLabels, RemoveLabels
  <1> QED
    BY <1>5, <1>6 DEF Sole

\* During the welcome only its own part says anything.
LEMMA SoleWelcoming ==
    ASSUME NEW s \in Session, welcoming'[s], pc'[s] \in AddUserLabels, SoleWelcome(s)'
    PROVE  Sole(s)'
  <1>1. (SoleBefore(s) /\ SoleGet(s) /\ SoleAddUser(s) /\ SoleText(s))'
    BY DEF SoleBefore, SoleGet, SoleAddUser, SoleText, AddUserLabels, UnassignLabels
  <1>2. (SoleRemoveUser(s) /\ SoleDelete(s) /\ SoleAdd(s) /\ SoleTask(s))'
    BY DEF SoleRemoveUser, SoleDelete, SoleAdd, SoleTask
  <1> QED
    BY <1>1, <1>2 DEF Sole

\* What an UPDATE or DELETE makes of the tables the session sees.
LEMMA WriteViewP ==
    ASSUME TypeOK, NEW s \in Session, NEW p \in ProjectId, NEW row \in ProjectRow \cup {NoRow},
           WriteP(s, p, row), projects' = projects
    PROVE  ViewP(s)' = [ViewP(s) EXCEPT ![p] = row] /\ dirtyT'[s] = dirtyT[s]
  <1>1. row # Clean
    BY CleanAssumption
  <1>2. \A q \in ProjectId : dirtyP'[s][q] = IF q = p THEN row ELSE dirtyP[s][q]
    BY DEF TypeOK, WriteP
  <1> QED
    BY <1>1, <1>2 DEF ViewP, WriteP

\* The same of a task.
LEMMA WriteViewT ==
    ASSUME TypeOK, NEW s \in Session, NEW t \in TaskId, NEW row \in TaskRow \cup {NoRow},
           WriteT(s, t, row), tasks' = tasks, projects' = projects
    PROVE  ViewT(s)' = [ViewT(s) EXCEPT ![t] = row] /\ ViewP(s)' = ViewP(s)
  <1>1. row # Clean
    BY CleanAssumption
  <1>2. \A q \in TaskId : dirtyT'[s][q] = IF q = t THEN row ELSE dirtyT[s][q]
    BY DEF TypeOK, WriteT
  <1> QED
    BY <1>1, <1>2 DEF ViewP, ViewT, WriteT

\* Verify either fails or goes on; both write nothing.
LEMMA Verifies ==
    ASSUME IInv, NEW s \in Session, NEW label, NEW ok, NEW next, Verify(s, label, ok, next)
    PROVE  Quiet(s) /\ read' = read /\ pc[s] = label /\ (IF ok THEN Goto(s, next) ELSE Fail(s))
  BY DEF Verify, Quiet, IInv, TypeOK, locals

\* The three statements of AddUser.
LEMMA SoleAddUserCheck ==
    ASSUME IInv, NEW s \in Session, Sole(s), ControlOK(s)', AddUserCheck(s)
    PROVE  Sole(s)'
  <1> DEFINE a == AddUserArguments(s)
             ok == CanAddUser(ViewP(s), a.project, a.user, a.requester)
  <1>1. Verify(s, "AddUser", ok, "addUser")
    BY DEF AddUserCheck
  <1>2. Quiet(s) /\ pc[s] = "AddUser" /\ (IF ok THEN Goto(s, "addUser") ELSE Fail(s))
    BY <1>1, Verifies
  <1>3. Active(s) /\ pc[s] \in AddUserLabels
    BY <1>2 DEF Active, AddUserLabels
  <1>4. /\ welcoming[s] => a = [project |-> PublicProject, user |-> req[s].uid, requester |-> PublicOwner]
        /\ ~welcoming[s] => a = [project |-> req[s].project, user |-> req[s].user, requester |-> req[s].uid]
    BY DEF AddUserArguments
  <1>5. welcoming[s] => ViewP(s) = projects /\ dirtyT[s] = NothingT
    BY <1>3 DEF Sole, SoleWelcome
  <1>6. ~welcoming[s] => req[s].op = "addUser" /\ ViewP(s) = Greeted(s)
    BY <1>2, <1>3 DEF Sole, SoleBefore, BeforeWrite, IInv, SessionOK, ControlOK
  <1>7. CASE ~ok
    <2>1. welcoming[s] => ViewP(s) = Greeted(s)
      BY <1>4, <1>5, <1>7 DEF Greeted
    <2> QED
      BY <1>2, <1>7, <2>1, SoleFails DEF Closing
  <1>8. CASE ok /\ welcoming[s]
    <2>1. Jump(s, "addUser", TRUE)
      BY <1>2, <1>8, GotoJumps DEF IInv, TypeOK
    <2>2. pc'[s] = "addUser" /\ welcoming'[s] /\ req'[s] = req[s] /\ projects' = projects
      BY <1>2, <2>1, SoleMove, SoleQuiet
    <2>3. ViewP(s)' = projects /\ dirtyT'[s] = NothingT
      BY <1>2, <1>5, <1>8, SoleQuiet
    <2>4. SoleWelcome(s)'
      BY <1>4, <1>5, <1>8, <2>2, <2>3 DEF SoleWelcome
    <2> QED
      BY <2>2, <2>4, SoleWelcoming DEF AddUserLabels
  <1>9. CASE ok /\ ~welcoming[s]
    <2>1. Jump(s, "addUser", FALSE)
      BY <1>2, <1>9, GotoJumpsOn DEF IInv
    <2>2. /\ pc'[s] = "addUser" /\ req'[s] = req[s] /\ Greeted(s)' = Greeted(s)
      BY <1>2, <2>1, SoleMove, SoleQuiet
    <2>3. SoleAddUser(s)'
      BY <1>4, <1>6, <1>9, <2>2 DEF SoleAddUser, Closing
    <2>4. (SoleRemoveUser(s) /\ SoleDelete(s) /\ SoleText(s) /\ SoleTask(s))'
      BY <1>6, <1>9, <2>2 DEF SoleRemoveUser, SoleDelete, SoleText, SoleTask, Closing, TaskOps
    <2> QED
      BY <1>2, <1>9, <2>3, <2>4, SolePasses DEF BeforeWrite
  <1> QED
    BY <1>7, <1>8, <1>9

\* A read of a project either fails, or keeps the row and goes on.
LEMMA ReadsProject ==
    ASSUME IInv, NEW s \in Session, NEW label, NEW p \in ProjectId, NEW next, ReadProject(s, label, p, next)
    PROVE  /\ Quiet(s) /\ pc[s] = label
           /\ \/ ViewP(s)[p] # NoRow /\ read'[s] = ViewP(s)[p] /\ Goto(s, next)
              \/ ViewP(s)[p] = NoRow /\ Fail(s)
  <1>1. ViewP(s)[p] # NoRow => ViewP(s)[p] \in ProjectRow
    BY DEF IInv, TypeOK, ViewP, Projects
  <1> QED
    BY <1>1 DEF ReadProject, Quiet, IInv, TypeOK

\* It keeps the row that is committed.
LEMMA SoleAddUserRead ==
    ASSUME IInv, NEW s \in Session, Sole(s), ControlOK(s)', AddUserRead(s)
    PROVE  Sole(s)'
  <1> DEFINE p == AddUserArguments(s).project
  <1>1. ReadProject(s, "addUser", p, "addUser_UPDATE")
    BY DEF AddUserRead
  <1>2. pc[s] = "addUser" /\ pc[s] \in AddUserLabels /\ Active(s)
    BY <1>1 DEF ReadProject, AddUserLabels, Active
  <1>3. /\ p \in ProjectId
        /\ welcoming[s] => p = PublicProject
        /\ ~welcoming[s] => p = req[s].project /\ req[s].op = "addUser"
    BY <1>2, AddUserFields
  <1> HIDE DEF p
  <1>4. /\ Quiet(s)
        /\ \/ ViewP(s)[p] # NoRow /\ read'[s] = ViewP(s)[p] /\ Goto(s, "addUser_UPDATE")
           \/ ViewP(s)[p] = NoRow /\ Fail(s)
    BY <1>1, <1>3, ReadsProject
  <1>5. CASE welcoming[s]
    <2>1. /\ ViewP(s) = projects /\ dirtyT[s] = NothingT
          /\ CanAddUser(projects, PublicProject, req[s].uid, PublicOwner)
      BY <1>2, <1>5 DEF Sole, SoleWelcome
    <2>2. read'[s] = projects[PublicProject] /\ Goto(s, "addUser_UPDATE")
      BY <1>3, <1>4, <1>5, <2>1 DEF CanAddUser, VerifyOwnership
    <2>3. Jump(s, "addUser_UPDATE", TRUE)
      BY <1>5, <2>2, GotoJumps DEF IInv, TypeOK
    <2>4. pc'[s] = "addUser_UPDATE" /\ welcoming'[s] /\ req'[s] = req[s] /\ projects' = projects
      BY <1>4, <2>3, SoleMove, SoleQuiet
    <2>5. ViewP(s)' = projects /\ dirtyT'[s] = NothingT
      BY <1>4, <2>1, SoleQuiet
    <2>6. SoleWelcome(s)'
      BY <2>1, <2>2, <2>4, <2>5 DEF SoleWelcome
    <2> QED
      BY <2>4, <2>6, SoleWelcoming DEF AddUserLabels
  <1>6. CASE ~welcoming[s] /\ ViewP(s)[p] # NoRow
    <2>1. /\ ViewP(s) = Greeted(s)
          /\ CanAddUser(Greeted(s), req[s].project, req[s].user, req[s].uid)
      BY <1>2, <1>3, <1>6 DEF Sole, SoleBefore, SoleAddUser, BeforeWrite
    <2>2. Jump(s, "addUser_UPDATE", FALSE)
      BY <1>4, <1>6, GotoJumpsOn DEF IInv
    <2>3. /\ pc'[s] = "addUser_UPDATE" /\ req'[s] = req[s] /\ Greeted(s)' = Greeted(s)
      BY <1>4, <2>2, SoleMove, SoleQuiet
    <2>4. SoleAddUser(s)'
      BY <1>3, <1>4, <1>6, <2>1, <2>3 DEF SoleAddUser, Closing
    <2>5. (SoleRemoveUser(s) /\ SoleDelete(s) /\ SoleText(s) /\ SoleTask(s))'
      BY <1>3, <1>6, <2>3 DEF SoleRemoveUser, SoleDelete, SoleText, SoleTask, Closing, TaskOps
    <2> QED
      BY <1>2, <1>4, <1>6, <2>4, <2>5, SolePasses DEF BeforeWrite
  <1>7. CASE ~welcoming[s] /\ ViewP(s)[p] = NoRow
    BY <1>2, <1>4, <1>7, SoleFails DEF Closing
  <1> QED
    BY <1>5, <1>6, <1>7

\* An UPDATE of a project either fails or writes the row and goes on.
LEMMA UpdatesProject ==
    ASSUME IInv, NEW s \in Session, NEW label, NEW p \in ProjectId, NEW row, NEW next,
           UpdateProject(s, label, p, row, next),
           ViewP(s)[p] # NoRow => row \in ProjectRow
    PROVE  /\ pc[s] = label /\ UNCHANGED <<database, req, id>>
           /\ \/ /\ ViewP(s)[p] # NoRow /\ Return(s, next)
                 /\ ViewP(s)' = [ViewP(s) EXCEPT ![p] = row] /\ dirtyT'[s] = dirtyT[s]
              \/ ViewP(s)[p] = NoRow /\ Fail(s) /\ Quiet(s)
  <1>1. projects' = projects
    BY DEF UpdateProject, database
  <1> QED
    BY <1>1, WriteViewP DEF UpdateProject, Quiet, IInv, TypeOK, locals

\* It writes the row AddUser promises, as the welcome or for the request.
LEMMA SoleAddUserWrite ==
    ASSUME IInv, NEW s \in Session, Sole(s), ControlOK(s)', AddUserWrite(s)
    PROVE  Sole(s)'
  <1> DEFINE a == AddUserArguments(s)
             row == updateUsers(ViewP(s)[a.project], addUser(read[s].users, a.user))
  <1>1. UpdateProject(s, "addUser_UPDATE", a.project, row, "send")
    BY DEF AddUserWrite
  <1>2. pc[s] = "addUser_UPDATE" /\ pc[s] \in AddUserLabels /\ Active(s)
    BY <1>1 DEF UpdateProject, AddUserLabels, Active
  <1>3. /\ a.project \in ProjectId /\ a.user \in User
        /\ welcoming[s] => a.project = PublicProject /\ a.user = req[s].uid
        /\ ~welcoming[s] => a.project = req[s].project /\ a.user = req[s].user /\ req[s].op = "addUser"
    BY <1>2, AddUserFields DEF AddUserArguments
  <1> DEFINE p == a.project
             V == ViewP(s)
             u == a.user
  <1>4. V[p] # NoRow /\ read[s] = V[p] /\ dirtyT[s] = NothingT
    <2>1. CASE welcoming[s]
      BY <1>2, <1>3, <2>1 DEF Sole, SoleWelcome, CanAddUser, VerifyOwnership
    <2>2. CASE ~welcoming[s]
      BY <1>2, <1>3, <2>2 DEF Sole, SoleBefore, SoleAddUser, BeforeWrite, CanAddUser,
         VerifyOwnership
    <2> QED
      BY <2>1, <2>2
  <1>5. V \in Projects
    BY <1>2, SoleTypes
  <1>6. V[p] \in ProjectRow
    BY <1>3, <1>4, <1>5 DEF Projects
  <1>7. row \in ProjectRow
    <2>1. V[p].users \in Users
      BY <1>6 DEF ProjectRow
    <2>2. addUser(V[p].users, u) \in Users
      BY <1>3, <2>1, UsersType
    <2> QED
      BY <1>4, <1>6, <2>2 DEF ProjectRow, updateUsers
  <1>8. [V EXCEPT ![p] = row] = WithUser(V, p, u)
    BY <1>3, <1>4 DEF WithUser
  <1> HIDE DEF a, row
  <1>9. /\ UNCHANGED <<database, req, id>> /\ Return(s, "send")
        /\ ViewP(s)' = WithUser(V, p, u) /\ dirtyT'[s] = NothingT
    BY <1>1, <1>3, <1>4, <1>7, <1>8, UpdatesProject
  <1>10. CASE welcoming[s]
    <2>1. V = projects /\ CanAddUser(projects, PublicProject, req[s].uid, PublicOwner)
      BY <1>2, <1>10 DEF Sole, SoleWelcome
    <2>2. ViewP(s)' = Greeted(s)
      BY <1>3, <1>9, <1>10, <2>1 DEF Greeted
    <2>3. Jump(s, Handler(req[s].op), FALSE)
      BY <1>9, <1>10, ReturnJumps DEF IInv
    <2>4. id'[s] = id[s]
      BY <1>9
    <2> QED
      BY <1>2, <1>9, <2>2, <2>3, <2>4, SoleEnters
  <1>11. CASE ~welcoming[s]
    <2>1. V = Greeted(s) /\ CanAddUser(Greeted(s), req[s].project, req[s].user, req[s].uid)
      BY <1>2, <1>3, <1>11 DEF Sole, SoleBefore, SoleAddUser, BeforeWrite
    <2>2. Jump(s, "send", FALSE)
      BY <1>9, <1>11, ReturnJumps DEF IInv
    <2>3. pc'[s] = "send" /\ ~welcoming'[s] /\ req'[s] = req[s] /\ Greeted(s)' = Greeted(s)
      BY <1>9, <2>2, SoleMove
    <2>4. SoleAddUser(s)'
      BY <1>3, <1>9, <1>11, <2>1, <2>3 DEF SoleAddUser, Closing
    <2>5. (SoleWelcome(s) /\ SoleBefore(s) /\ SoleGet(s))'
      BY <1>3, <1>11, <2>3 DEF SoleWelcome, SoleBefore, SoleGet, BeforeWrite, UnassignLabels
    <2>6. (SoleRemoveUser(s) /\ SoleDelete(s) /\ SoleText(s) /\ SoleAdd(s) /\ SoleTask(s))'
      BY <1>3, <1>11, <2>3 DEF SoleRemoveUser, SoleDelete, SoleText, SoleAdd, SoleTask, AddOps,
         TaskOps
    <2> QED
      BY <2>4, <2>5, <2>6 DEF Sole
  <1> QED
    BY <1>10, <1>11

\* A session that has written no task sees the committed ones.
LEMMA SeesTasks ==
    ASSUME TypeOK, NEW s \in Session, dirtyT[s] = NothingT
    PROVE  ViewT(s) = tasks
  BY DEF TypeOK, ViewT, NothingT, Tasks

\* Where a handler's statement has gone.
At(s, l) ==
    /\ pc'[s] = l /\ ~welcoming'[s] /\ req'[s] = req[s]
    /\ projects' = projects /\ tasks' = tasks /\ Greeted(s)' = Greeted(s)
    /\ \A t \in TaskId : Swept(s, t)' = Swept(s, t)

\* A statement of a handler that goes on.
LEMMA GoesAt ==
    ASSUME IInv, NEW s \in Session, NEW l, Goto(s, l), ~welcoming[s], UNCHANGED <<database, req>>
    PROVE  At(s, l)
  <1>1. Jump(s, l, FALSE)
    BY GotoJumpsOn DEF IInv
  <1> QED
    BY <1>1, SoleMove DEF At

\* A check of a handler before its first write.
LEMMA SoleCheck ==
    ASSUME IInv, NEW s \in Session, Sole(s), ControlOK(s)', ~welcoming[s],
           NEW label \in BeforeWrite, NEW next \in BeforeWrite, next # "AddProject",
           NEW ok, Verify(s, label, ok, next)
    PROVE  /\ ViewP(s) = Greeted(s) /\ ViewT(s) = tasks /\ pc[s] = label /\ Active(s)
           /\ ~ok => Sole(s)'
           /\ ok => At(s, next)
           /\ ok /\ (SoleAddUser(s) /\ SoleRemoveUser(s) /\ SoleDelete(s) /\ SoleText(s) /\ SoleTask(s))'
                => Sole(s)'
  <1>1. Quiet(s) /\ pc[s] = label /\ (IF ok THEN Goto(s, next) ELSE Fail(s))
    BY Verifies
  <1>2. Active(s)
    BY <1>1 DEF Active, BeforeWrite
  <1>3. ViewP(s) = Greeted(s) /\ dirtyT[s] = NothingT
    BY <1>1, <1>2 DEF Sole, SoleBefore
  <1>4. ViewT(s) = tasks
    BY <1>3, SeesTasks DEF IInv
  <1>5. ASSUME ~ok PROVE Sole(s)'
    BY <1>1, <1>5, SoleFails DEF BeforeWrite, Closing
  <1>6. ASSUME ok PROVE At(s, next)
    BY <1>1, <1>6, GoesAt, SoleQuiet
  <1>7. ASSUME ok, (SoleAddUser(s) /\ SoleRemoveUser(s) /\ SoleDelete(s) /\ SoleText(s) /\ SoleTask(s))'
        PROVE  Sole(s)'
    BY <1>1, <1>7, SolePasses
  <1> QED
    BY <1>1, <1>2, <1>3, <1>4, <1>5, <1>6, <1>7

\* Labels of the handlers other than addUser's.
LEMMA InHandler ==
    ASSUME IInv, NEW s \in Session, pc[s] \notin AddUserLabels
    PROVE  ~welcoming[s]
  BY DEF IInv, SessionOK, ControlOK

\* The request each label belongs to.
LEMMA OpAt ==
    ASSUME IInv, NEW s \in Session
    PROVE  /\ pc[s] = "getProject" => req[s].op = "getProject"
           /\ pc[s] \in RemoveLabels => req[s].op = "removeUser"
           /\ pc[s] \in UnassignLabels => req[s].op \in {"removeUser", "unassignUser"}
           /\ pc[s] \in {"DeleteProject", "DeleteProject_owner", "delete", "cascade"} =>
                req[s].op = "deleteProject"
           /\ pc[s] \in {"UpdateName", "updateName_UPDATE"} => req[s].op = "updateName"
           /\ pc[s] \in {"UpdateDescription", "updateDescription_UPDATE"} =>
                req[s].op = "updateDescription"
           /\ pc[s] \in {"AddProject", "AddTasks"} => req[s].op \in AddOps
           /\ pc[s] \in {"AssignUser", "assignUser_UPDATE"} => req[s].op = "assignUser"
           /\ pc[s] \in {"SetProcessPoints", "assignee", "member", "setProcessPoints_UPDATE"} =>
                req[s].op = "setProcessPoints"
  BY DEF IInv, SessionOK, ControlOK

\* GetProject.
LEMMA SoleGetProject ==
    ASSUME IInv, NEW s \in Session, Sole(s), GetProject(s)
    PROVE  Sole(s)'
  <1> DEFINE ok == VerifyMembershipProject(ViewP(s), req[s].project, req[s].uid)
  <1>1. Verify(s, "getProject", ok, "commit")
    BY DEF GetProject
  <1>2. Quiet(s) /\ pc[s] = "getProject" /\ (IF ok THEN Goto(s, "commit") ELSE Fail(s))
    BY <1>1, Verifies
  <1>3. ~welcoming[s] /\ req[s].op = "getProject" /\ Active(s)
    BY <1>2, InHandler, OpAt DEF AddUserLabels, Active
  <1>4. CASE ok
    <2>1. At(s, "commit")
      BY <1>2, <1>3, <1>4, GoesAt, SoleQuiet
    <2>2. ViewP(s) = Greeted(s) /\ dirtyT[s] = NothingT
      BY <1>2, <1>3 DEF Sole, SoleBefore, BeforeWrite
    <2>3. ViewP(s)' = ViewP(s) /\ dirtyT'[s] = dirtyT[s]
      BY <1>2, SoleQuiet
    <2>4. (SoleWelcome(s) /\ SoleBefore(s) /\ SoleGet(s))'
      BY <1>4, <2>1, <2>2, <2>3 DEF At, SoleWelcome, SoleBefore, SoleGet
    <2>5. (SoleAddUser(s) /\ SoleRemoveUser(s) /\ SoleDelete(s) /\ SoleText(s) /\ SoleAdd(s) /\ SoleTask(s))'
      BY <1>3, <2>1 DEF At, SoleAddUser, SoleRemoveUser, SoleDelete, SoleText, SoleAdd,
         SoleTask, AddOps, TaskOps
    <2> QED
      BY <2>4, <2>5 DEF Sole
  <1>5. CASE ~ok
    BY <1>2, <1>3, <1>5, SoleFails DEF Closing
  <1> QED
    BY <1>4, <1>5

\* The statements of RemoveUser, up to the tasks.
LEMMA SoleRemoveChecks ==
    ASSUME IInv, NEW s \in Session, Sole(s), ControlOK(s)', RemoveUserRequester(s) \/ RemoveUserRemoved(s)
    PROVE  Sole(s)'
  <1> DEFINE r == req[s]
  <1>1. CASE RemoveUserRequester(s)
    <2> DEFINE ok == VerifyMembershipProject(ViewP(s), r.project, r.uid)
    <2>1. Verify(s, "RemoveUser", ok, "RemoveUser_removed")
      BY <1>1 DEF RemoveUserRequester
    <2>2. ~welcoming[s] /\ r.op = "removeUser"
      BY <2>1, InHandler, OpAt DEF Verify, AddUserLabels, RemoveLabels
    <2> HIDE DEF ok
    <2>3. /\ ViewP(s) = Greeted(s)
          /\ ~ok => Sole(s)'
          /\ ok => At(s, "RemoveUser_removed")
          /\ ok /\ (SoleAddUser(s) /\ SoleRemoveUser(s) /\ SoleDelete(s) /\ SoleText(s) /\ SoleTask(s))'
               => Sole(s)'
      BY <2>1, <2>2, SoleCheck DEF BeforeWrite
    <2>4. ASSUME ok PROVE SoleRemoveUser(s)'
      BY <2>3, <2>4 DEF SoleRemoveUser, At, Closing, RemovalLabels, UnassignLabels, ok
    <2>5. ASSUME ok PROVE (SoleAddUser(s) /\ SoleDelete(s) /\ SoleText(s) /\ SoleTask(s))'
      BY <2>2, <2>3, <2>5 DEF SoleAddUser, SoleDelete, SoleText, SoleTask, At, TaskOps
    <2> QED
      BY <2>3, <2>4, <2>5
  <1>2. CASE RemoveUserRemoved(s)
    <2> DEFINE ok == CanBeRemoved(ViewP(s), r.project, r.uid, r.user)
    <2>1. Verify(s, "RemoveUser_removed", ok, "removeUser")
      BY <1>2 DEF RemoveUserRemoved
    <2>2. ~welcoming[s] /\ r.op = "removeUser"
      BY <2>1, InHandler, OpAt DEF Verify, AddUserLabels, RemoveLabels
    <2> HIDE DEF ok
    <2>3. /\ ViewP(s) = Greeted(s) /\ pc[s] = "RemoveUser_removed" /\ Active(s)
          /\ ~ok => Sole(s)'
          /\ ok => At(s, "removeUser")
          /\ ok /\ (SoleAddUser(s) /\ SoleRemoveUser(s) /\ SoleDelete(s) /\ SoleText(s) /\ SoleTask(s))'
               => Sole(s)'
      BY <2>1, <2>2, SoleCheck DEF BeforeWrite
    <2>4. VerifyMembershipProject(Greeted(s), r.project, r.uid)
      BY <2>2, <2>3 DEF Sole, SoleRemoveUser
    <2>5. ASSUME ok PROVE SoleRemoveUser(s)'
      BY <2>3, <2>4, <2>5 DEF SoleRemoveUser, At, Closing, RemovalLabels, UnassignLabels,
         CanRemoveUser, ok
    <2>6. ASSUME ok PROVE (SoleAddUser(s) /\ SoleDelete(s) /\ SoleText(s) /\ SoleTask(s))'
      BY <2>2, <2>3, <2>6 DEF SoleAddUser, SoleDelete, SoleText, SoleTask, At, TaskOps
    <2> QED
      BY <2>3, <2>5, <2>6
  <1> QED
    BY <1>1, <1>2

\* It keeps the row that is committed.
LEMMA SoleRemoveRead ==
    ASSUME IInv, NEW s \in Session, Sole(s), ControlOK(s)', RemoveUserRead(s)
    PROVE  Sole(s)'
  <1> DEFINE p == req[s].project
  <1>1. ReadProject(s, "removeUser", p, "removeUser_UPDATE")
    BY DEF RemoveUserRead
  <1>2. pc[s] = "removeUser" /\ Active(s)
    BY <1>1 DEF ReadProject, Active
  <1>3. ~welcoming[s] /\ req[s].op = "removeUser"
    BY <1>2, InHandler, OpAt DEF AddUserLabels, RemoveLabels
  <1>4. p \in ProjectId
    BY <1>2, <1>3, ProjectField DEF ProjectOps
  <1> HIDE DEF p
  <1>5. /\ Quiet(s)
        /\ \/ ViewP(s)[p] # NoRow /\ read'[s] = ViewP(s)[p] /\ Goto(s, "removeUser_UPDATE")
           \/ ViewP(s)[p] = NoRow /\ Fail(s)
    BY <1>1, <1>4, ReadsProject
  <1>6. CASE Goto(s, "removeUser_UPDATE") /\ read'[s] = ViewP(s)[p]
    <2>1. At(s, "removeUser_UPDATE")
      BY <1>3, <1>5, <1>6, GoesAt, SoleQuiet
    <2>2. ViewP(s) = Greeted(s) /\ CanRemoveUser(Greeted(s), p, req[s].uid, req[s].user)
      BY <1>2, <1>3 DEF Sole, SoleBefore, SoleRemoveUser, BeforeWrite, p
    <2>3. SoleRemoveUser(s)'
      BY <1>6, <2>1, <2>2 DEF SoleRemoveUser, At, Closing, RemovalLabels, UnassignLabels, p
    <2>4. (SoleAddUser(s) /\ SoleDelete(s) /\ SoleText(s) /\ SoleTask(s))'
      BY <1>3, <2>1 DEF SoleAddUser, SoleDelete, SoleText, SoleTask, At, TaskOps
    <2> QED
      BY <1>2, <1>3, <1>5, <1>6, <2>3, <2>4, SolePasses DEF BeforeWrite
  <1>7. CASE Fail(s)
    BY <1>2, <1>3, <1>5, <1>7, SoleFails DEF Closing
  <1> QED
    BY <1>5, <1>6, <1>7

\* It writes the row without the user.
LEMMA SoleRemoveWrite ==
    ASSUME IInv, NEW s \in Session, Sole(s), RemoveUserWrite(s)
    PROVE  Sole(s)'
  <1> DEFINE p == req[s].project
             V == ViewP(s)
             row == updateUsers(V[p], removeUser(read[s].users, req[s].user))
  <1>1. UpdateProject(s, "removeUser_UPDATE", p, row, "GetTasks")
    BY DEF RemoveUserWrite
  <1>2. pc[s] = "removeUser_UPDATE" /\ Active(s)
    BY <1>1 DEF UpdateProject, Active
  <1>3. ~welcoming[s] /\ req[s].op = "removeUser"
    BY <1>2, InHandler, OpAt DEF AddUserLabels, RemoveLabels
  <1>4. p \in ProjectId /\ req[s].user \in User
    BY <1>2, <1>3, ProjectField, SoleTypes, RequestFields DEF ProjectOps
  <1>5. /\ V = Greeted(s) /\ dirtyT[s] = NothingT /\ read[s] = V[p]
        /\ CanRemoveUser(Greeted(s), p, req[s].uid, req[s].user)
    BY <1>2, <1>3 DEF Sole, SoleBefore, SoleRemoveUser, BeforeWrite
  <1>6. V[p] # NoRow
    BY <1>5 DEF CanRemoveUser, VerifyMembershipProject
  <1>7. V[p] \in ProjectRow
    BY <1>2, <1>4, <1>6, SoleTypes DEF Projects
  <1>8. row \in ProjectRow
    <2>1. V[p].users \in Users
      BY <1>7 DEF ProjectRow
    <2>2. removeUser(V[p].users, req[s].user) \in Users
      BY <1>4, <2>1, UsersType
    <2> QED
      BY <1>5, <1>7, <2>2 DEF ProjectRow, updateUsers
  <1> HIDE DEF p, row
  <1>9. /\ UNCHANGED <<database, req, id>> /\ Return(s, "GetTasks")
        /\ ViewP(s)' = [V EXCEPT ![p] = row] /\ dirtyT'[s] = NothingT
    BY <1>1, <1>4, <1>5, <1>6, <1>8, UpdatesProject
  <1>10. Goto(s, "GetTasks")
    BY <1>3, <1>9 DEF Return
  <1>11. At(s, "GetTasks")
    BY <1>3, <1>9, <1>10, GoesAt
  <1>12. row = updateUsers(V[p], removeUser(V[p].users, req[s].user))
    BY <1>5 DEF row
  <1>13. SoleRemoveUser(s)'
    BY <1>5, <1>9, <1>11, <1>12 DEF SoleRemoveUser, At, Closing, RemovalLabels, UnassignLabels, p
  <1>14. (SoleWelcome(s) /\ SoleBefore(s) /\ SoleGet(s))'
    BY <1>11 DEF SoleWelcome, SoleBefore, SoleGet, At, BeforeWrite, UnassignLabels
  <1>15. (SoleAddUser(s) /\ SoleDelete(s) /\ SoleText(s) /\ SoleAdd(s) /\ SoleTask(s))'
    BY <1>3, <1>11 DEF SoleAddUser, SoleDelete, SoleText, SoleAdd, SoleTask, At, AddOps, TaskOps
  <1> QED
    BY <1>13, <1>14, <1>15 DEF Sole

\* The rest of Sole for a request that removes a user, past its write.
LEMMA SoleRemoving ==
    ASSUME NEW s \in Session, NEW l, At(s, l), req[s].op = "removeUser",
           l \in {"unassign_tasks", "send", "commit"} \cup UnassignLabels, SoleRemoveUser(s)'
    PROVE  Sole(s)'
  <1>1. (SoleWelcome(s) /\ SoleBefore(s) /\ SoleGet(s))'
    BY DEF SoleWelcome, SoleBefore, SoleGet, At, BeforeWrite, UnassignLabels
  <1>2. (SoleAddUser(s) /\ SoleDelete(s) /\ SoleText(s) /\ SoleAdd(s) /\ SoleTask(s))'
    BY DEF SoleAddUser, SoleDelete, SoleText, SoleAdd, SoleTask, At, AddOps, TaskOps
  <1> QED
    BY <1>1, <1>2 DEF Sole

\* An UPDATE of a task either fails or writes the row and goes on.
LEMMA UpdatesTask ==
    ASSUME IInv, NEW s \in Session, NEW label, NEW t \in TaskId, NEW row, NEW next,
           UpdateTask(s, label, t, row, next),
           ViewT(s)[t] # NoRow => row \in TaskRow
    PROVE  /\ pc[s] = label /\ UNCHANGED <<database, req, id, todo>>
           /\ \/ /\ ViewT(s)[t] # NoRow /\ Goto(s, next)
                 /\ ViewT(s)' = [ViewT(s) EXCEPT ![t] = row] /\ ViewP(s)' = ViewP(s)
              \/ ViewT(s)[t] = NoRow /\ Fail(s) /\ Quiet(s)
  <1>1. projects' = projects /\ tasks' = tasks
    BY DEF UpdateTask, database
  <1> QED
    BY <1>1, WriteViewT DEF UpdateTask, Quiet, IInv, TypeOK, locals

\* It finds the committed tasks of its project.
LEMMA SoleRemoveTasks ==
    ASSUME IInv, NEW s \in Session, Sole(s), RemoveUserTasks(s)
    PROVE  Sole(s)'
  <1>1. pc[s] = "GetTasks" /\ Active(s) /\ Goto(s, "unassign_tasks") /\ UNCHANGED <<database, req, written>>
    BY DEF RemoveUserTasks, Active
  <1>2. ~welcoming[s] /\ req[s].op = "removeUser"
    BY <1>1, InHandler, OpAt DEF AddUserLabels, RemoveLabels
  <1>3. At(s, "unassign_tasks")
    BY <1>1, <1>2, GoesAt
  <1> DEFINE r == req[s]
             V == [Greeted(s) EXCEPT ![r.project] = updateUsers(@, removeUser(@.users, r.user))]
  <1>4. /\ CanRemoveUser(Greeted(s), r.project, r.uid, r.user)
        /\ ViewP(s) = V /\ dirtyT[s] = NothingT
    BY <1>1, <1>2 DEF Sole, SoleRemoveUser, RemovalLabels
  <1>5. ViewT(s) = tasks
    BY <1>4, SeesTasks DEF IInv
  <1>6. ViewP(s)' = ViewP(s) /\ ViewT(s)' = tasks
    BY <1>1, <1>5 DEF database, written, ViewP, ViewT
  <1>7. todo'[s] = GetTasks(tasks, r.project)
    BY <1>5 DEF RemoveUserTasks, IInv, TypeOK
  <1>8. Left(s)' = GetTasks(tasks, r.project)
    BY <1>3, <1>7 DEF Left, At, UnassignLabels
  <1>9. \A t \in TaskId : t \notin GetTasks(tasks, r.project) => Swept(s, t)' = tasks[t]
    BY <1>3 DEF At, Swept
  <1> HIDE DEF V
  <1>10. SoleRemoveUser(s)'
    <2>1. /\ CanRemoveUser(Greeted(s), r.project, r.uid, r.user)'
          /\ (ViewP(s) = [Greeted(s) EXCEPT ![r.project] = updateUsers(@, removeUser(@.users, r.user))])'
      BY <1>3, <1>4, <1>6 DEF At, V
    <2>2. \A t \in TaskId : ViewT(s)'[t] = IF t \in Left(s)' THEN tasks'[t] ELSE Swept(s, t)'
      BY <1>3, <1>6, <1>8, <1>9 DEF At
    <2>3. Left(s)' \subseteq GetTasks(tasks, r.project)'
      BY <1>3, <1>8 DEF At
    <2> QED
      BY <1>3, <2>1, <2>2, <2>3 DEF SoleRemoveUser, At, UnassignLabels, Closing
  <1> QED
    BY <1>2, <1>3, <1>10, SoleRemoving

\* RemoveUser in the loop over its tasks.
Removing(s) ==
    LET r == req[s] IN
    /\ CanRemoveUser(Greeted(s), r.project, r.uid, r.user)
    /\ ViewP(s) = [Greeted(s) EXCEPT ![r.project] = updateUsers(@, removeUser(@.users, r.user))]
    /\ Left(s) \subseteq GetTasks(tasks, r.project)
    /\ \A t \in TaskId : ViewT(s)[t] = IF t \in Left(s) THEN tasks[t] ELSE Swept(s, t)

\* A task the removed user is not assigned to is swept as it is.
LEMMA SoleRemoveLoop ==
    ASSUME IInv, NEW s \in Session, Sole(s), RemoveUserLoop(s)
    PROVE  Sole(s)'
  <1> DEFINE r == req[s]
  <1>1. pc[s] = "unassign_tasks" /\ Active(s) /\ UNCHANGED <<database, req, written>>
    BY DEF RemoveUserLoop, Active
  <1>2. ~welcoming[s] /\ req[s].op = "removeUser"
    BY <1>1, InHandler, OpAt DEF AddUserLabels, RemoveLabels
  <1>3. Removing(s)
    BY <1>1, <1>2 DEF Sole, SoleRemoveUser, Removing, RemovalLabels
  <1>4. Left(s) = todo[s]
    BY <1>1 DEF Left, UnassignLabels
  <1>5. ViewP(s)' = ViewP(s) /\ ViewT(s)' = ViewT(s)
    BY <1>1 DEF database, written, ViewP, ViewT
  <1>6. ASSUME NEW l, At(s, l), Left(s)' \subseteq Left(s),
               \A t \in Left(s) \ Left(s)' : ~VerifyAssignment(tasks, t, r.user)
        PROVE  Removing(s)'
    <2>1. /\ CanRemoveUser(Greeted(s), r.project, r.uid, r.user)'
          /\ (ViewP(s) = [Greeted(s) EXCEPT ![r.project] = updateUsers(@, removeUser(@.users, r.user))])'
      BY <1>3, <1>5, <1>6 DEF At, Removing
    <2>2. \A t \in TaskId : t \in Left(s) \ Left(s)' => Swept(s, t) = tasks[t]
      BY <1>6 DEF Swept
    <2>3. \A t \in TaskId : ViewT(s)'[t] = IF t \in Left(s)' THEN tasks'[t] ELSE Swept(s, t)'
      BY <1>3, <1>5, <1>6, <2>2 DEF Removing, At
    <2>4. Left(s)' \subseteq GetTasks(tasks, r.project)'
      BY <1>3, <1>6 DEF Removing, At
    <2> QED
      BY <2>1, <2>3, <2>4 DEF Removing
  <1>7. CASE todo[s] = {} /\ Goto(s, "send") /\ UNCHANGED <<todo, id>>
    <2>1. At(s, "send")
      BY <1>1, <1>2, <1>7, GoesAt
    <2>2. Left(s)' = {} /\ Left(s) = {}
      BY <1>4, <1>7, <2>1 DEF Left, At, UnassignLabels
    <2>3. Removing(s)'
      BY <1>6, <2>1, <2>2
    <2>4. SoleRemoveUser(s)'
      BY <2>1, <2>2, <2>3 DEF SoleRemoveUser, Removing, At, Closing, UnassignLabels
    <2> QED
      BY <1>2, <2>1, <2>4, SoleRemoving
  <1>8. ASSUME NEW t \in todo[s], todo' = [todo EXCEPT ![s] = @ \ {t}],
               VerifyAssignment(ViewT(s), t, r.user),
               Goto(s, "UnassignUser"), id' = [id EXCEPT ![s] = t]
        PROVE  Sole(s)'
    <2>1. At(s, "UnassignUser")
      BY <1>1, <1>2, <1>8, GoesAt
    <2>2. todo'[s] = todo[s] \ {t} /\ id'[s] = t
      BY <1>8 DEF IInv, TypeOK
    <2>3. Left(s)' = Left(s)
      BY <1>4, <2>1, <2>2 DEF Left, At, UnassignLabels
    <2>4. Removing(s)'
      BY <1>6, <2>1, <2>3
    <2>5. t \in TaskId
      BY DEF IInv, TypeOK
    <2>6. VerifyAssignment(tasks, t, r.user)
      BY <1>3, <1>4, <1>8, <2>5 DEF Removing, VerifyAssignment
    <2>7. SoleRemoveUser(s)'
      BY <2>1, <2>2, <2>4, <2>6 DEF SoleRemoveUser, Removing, At, Closing, UnassignLabels
    <2> QED
      BY <1>2, <2>1, <2>7, SoleRemoving DEF UnassignLabels
  <1>9. ASSUME NEW t \in todo[s], todo' = [todo EXCEPT ![s] = @ \ {t}],
               ~VerifyAssignment(ViewT(s), t, r.user), UNCHANGED <<control, id>>
        PROVE  Sole(s)'
    <2>1. At(s, "unassign_tasks")
      BY <1>1, <1>2, <1>9 DEF At, control, database, Greeted, Swept
    <2>2. todo'[s] = todo[s] \ {t}
      BY <1>9 DEF IInv, TypeOK
    <2>3. Left(s)' = Left(s) \ {t}
      BY <1>4, <2>1, <2>2 DEF Left, At, UnassignLabels
    <2>4. t \in TaskId
      BY DEF IInv, TypeOK
    <2>5. ~VerifyAssignment(tasks, t, r.user)
      BY <1>3, <1>4, <1>9, <2>4 DEF Removing, VerifyAssignment
    <2>6. Removing(s)'
      BY <1>6, <2>1, <2>3, <2>5
    <2>7. SoleRemoveUser(s)'
      BY <2>1, <2>6 DEF SoleRemoveUser, Removing, At, Closing, UnassignLabels
    <2> QED
      BY <1>2, <2>1, <2>7, SoleRemoving
  <1> QED
    BY <1>7, <1>8, <1>9 DEF RemoveUserLoop

\* The arguments of UnassignUser.
LEMMA UnassignAt ==
    ASSUME IInv, NEW s \in Session, pc[s] \in UnassignLabels
    PROVE  LET a == UnassignArguments(s) IN
           /\ Active(s) /\ ~welcoming[s] /\ a.task \in TaskId
           /\ \/ /\ req[s].op = "removeUser" /\ a.task = id[s] /\ a.user = req[s].user
                 /\ a.next = "unassign_tasks"
              \/ /\ req[s].op = "unassignUser" /\ a.task = req[s].task /\ a.user = req[s].uid
                 /\ a.next = "send"
  <1>1. Active(s) /\ ~welcoming[s]
    BY InHandler DEF Active, UnassignLabels, AddUserLabels
  <1>2. req[s].op \in {"removeUser", "unassignUser"}
    BY OpAt
  <1>3. req[s].op = "removeUser" => id[s] \in TaskId
    BY DEF IInv, SessionOK, Walks, RemovalLabels
  <1>4. req[s].op = "unassignUser" => req[s].task \in TaskId
    BY <1>1, SoleTypes, RequestFields DEF TaskOps
  <1> QED
    BY <1>1, <1>2, <1>3, <1>4 DEF UnassignArguments

\* The statements of UnassignUser, on a task of the loop or of the request.
LEMMA SoleUnassignCheck ==
    ASSUME IInv, NEW s \in Session, Sole(s), UnassignUserCheck(s)
    PROVE  Sole(s)'
  <1> DEFINE a == UnassignArguments(s)
             ok == VerifyAssignment(ViewT(s), a.task, a.user)
             r == req[s]
             l == "unassignUser_UPDATE"
  <1>1. Verify(s, "UnassignUser", ok, l)
    BY DEF UnassignUserCheck
  <1>2. Quiet(s) /\ pc[s] = "UnassignUser" /\ (IF ok THEN Goto(s, l) ELSE Fail(s))
    BY <1>1, Verifies
  <1>3. /\ Active(s) /\ ~welcoming[s] /\ a.task \in TaskId
        /\ \/ r.op = "removeUser" /\ a.task = id[s] /\ a.user = r.user
           \/ r.op = "unassignUser" /\ a.task = r.task /\ a.user = r.uid
    BY <1>2, UnassignAt DEF UnassignLabels
  <1>4. CASE ~ok
    BY <1>2, <1>3, <1>4, SoleFails DEF Closing
  <1>5. ASSUME ok PROVE At(s, l)
    BY <1>2, <1>3, <1>5, GoesAt, SoleQuiet
  <1>6. /\ ViewP(s)' = ViewP(s) /\ ViewT(s)' = ViewT(s) /\ dirtyT'[s] = dirtyT[s]
        /\ id'[s] = id[s] /\ todo'[s] = todo[s]
    BY <1>2, SoleQuiet
  <1>7. CASE ok /\ r.op = "removeUser"
    <2>1. Removing(s) /\ id[s] \notin todo[s] /\ VerifyAssignment(tasks, id[s], r.user)
      BY <1>2, <1>3, <1>7 DEF Sole, SoleRemoveUser, Removing, UnassignLabels, RemovalLabels
    <2>2. Left(s)' = Left(s)
      BY <1>2, <1>5, <1>6, <1>7 DEF Left, At, UnassignLabels
    <2>3. Removing(s)'
      BY <1>5, <1>6, <1>7, <2>1, <2>2 DEF Removing, At
    <2>4. SoleRemoveUser(s)'
      BY <1>5, <1>6, <1>7, <2>1, <2>3 DEF SoleRemoveUser, Removing, At, Closing, UnassignLabels
    <2> QED
      BY <1>5, <1>7, <2>4, SoleRemoving DEF UnassignLabels
  <1>8. CASE ok /\ r.op = "unassignUser"
    <2>1. ViewP(s) = Greeted(s) /\ dirtyT[s] = NothingT
      BY <1>2, <1>3, <1>8 DEF Sole, SoleBefore, UnassignLabels
    <2>2. ViewT(s) = tasks
      BY <2>1, SeesTasks DEF IInv
    <2>3. (SoleWelcome(s) /\ SoleBefore(s) /\ SoleGet(s))'
      BY <1>5, <1>6, <1>8, <2>1 DEF SoleWelcome, SoleBefore, SoleGet, At
    <2>4. VerifyAssignment(tasks, r.task, r.uid)
      BY <1>3, <1>8, <2>2
    <2>5. SoleTask(s)'
      BY <1>5, <1>8, <2>4 DEF SoleTask, At, Closing
    <2>6. (SoleAddUser(s) /\ SoleRemoveUser(s) /\ SoleDelete(s) /\ SoleText(s) /\ SoleAdd(s))'
      BY <1>5, <1>8 DEF SoleAddUser, SoleRemoveUser, SoleDelete, SoleText, SoleAdd, At, AddOps
    <2> QED
      BY <2>3, <2>5, <2>6 DEF Sole
  <1> QED
    BY <1>3, <1>4, <1>7, <1>8

\* The rest of Sole for a request about a task, past its write.
LEMMA SoleTaskSent ==
    ASSUME NEW s \in Session, At(s, "send"), req[s].op \in TaskOps, SoleTask(s)'
    PROVE  Sole(s)'
  <1>1. (SoleWelcome(s) /\ SoleBefore(s) /\ SoleGet(s))'
    BY DEF SoleWelcome, SoleBefore, SoleGet, At, BeforeWrite, UnassignLabels
  <1>2. (SoleAddUser(s) /\ SoleRemoveUser(s) /\ SoleDelete(s) /\ SoleText(s) /\ SoleAdd(s))'
    BY DEF SoleAddUser, SoleRemoveUser, SoleDelete, SoleText, SoleAdd, At, AddOps, TaskOps
  <1> QED
    BY <1>1, <1>2 DEF Sole

\* It sweeps the task, or gives the task of the request back.
LEMMA SoleUnassignWrite ==
    ASSUME IInv, NEW s \in Session, Sole(s), UnassignUserWrite(s)
    PROVE  Sole(s)'
  <1> DEFINE a == UnassignArguments(s)
             t == a.task
             r == req[s]
             row == unassignUser(ViewT(s)[t])
  <1>1. UpdateTask(s, "unassignUser_UPDATE", t, row, a.next)
    BY DEF UnassignUserWrite
  <1>2. pc[s] = "unassignUser_UPDATE"
    BY <1>1 DEF UpdateTask
  <1>3. /\ Active(s) /\ ~welcoming[s] /\ t \in TaskId
        /\ \/ r.op = "removeUser" /\ t = id[s] /\ a.user = r.user /\ a.next = "unassign_tasks"
           \/ r.op = "unassignUser" /\ t = r.task /\ a.user = r.uid /\ a.next = "send"
    BY <1>2, UnassignAt DEF UnassignLabels
  <1>4. ViewT(s)[t] # NoRow => row \in TaskRow
    BY <1>3, SoleTypes, TaskUpdateType DEF Tasks
  <1> HIDE DEF a, t, row
  <1>5. /\ UNCHANGED <<database, req, id, todo>>
        /\ \/ /\ ViewT(s)[t] # NoRow /\ Goto(s, a.next)
              /\ ViewT(s)' = [ViewT(s) EXCEPT ![t] = row] /\ ViewP(s)' = ViewP(s)
           \/ ViewT(s)[t] = NoRow /\ Fail(s) /\ Quiet(s)
    BY <1>1, <1>3, <1>4, UpdatesTask
  <1>6. CASE Fail(s) /\ Quiet(s)
    BY <1>2, <1>3, <1>6, SoleFails DEF Closing
  <1>7. CASE /\ r.op = "removeUser" /\ Goto(s, "unassign_tasks")
             /\ ViewT(s)' = [ViewT(s) EXCEPT ![t] = row] /\ ViewP(s)' = ViewP(s)
    <2>1. At(s, "unassign_tasks")
      BY <1>3, <1>5, <1>7, GoesAt
    <2>2. Removing(s) /\ t \notin todo[s] /\ VerifyAssignment(tasks, t, r.user)
      BY <1>2, <1>3, <1>7 DEF Sole, SoleRemoveUser, Removing, UnassignLabels, RemovalLabels
    <2>3. Left(s) = todo[s] \cup {t} /\ Left(s)' = todo[s]
      BY <1>2, <1>3, <1>5, <1>7, <2>1 DEF Left, At, UnassignLabels
    <2>4. t \in GetTasks(tasks, r.project) /\ ViewT(s)[t] = tasks[t]
      BY <1>3, <2>2, <2>3 DEF Removing
    <2>5. \A q \in TaskId : q = t => Swept(s, q)' = row
      <3>1. Swept(s, t) = row
        BY <2>2, <2>4 DEF Swept, row
      <3> QED
        BY <2>1, <3>1 DEF At
    <2>6. /\ CanRemoveUser(Greeted(s), r.project, r.uid, r.user)'
          /\ (ViewP(s) = [Greeted(s) EXCEPT ![r.project] = updateUsers(@, removeUser(@.users, r.user))])'
      BY <1>7, <2>1, <2>2 DEF At, Removing
    <2>7. ViewT(s) \in [TaskId -> TaskRow \cup {NoRow}]
      BY <1>3, SoleTypes DEF Tasks
    <2>8. \A q \in TaskId : ViewT(s)'[q] = IF q \in Left(s)' THEN tasks'[q] ELSE Swept(s, q)'
      BY <1>7, <2>1, <2>2, <2>3, <2>5, <2>7 DEF Removing, At
    <2>9. Left(s)' \subseteq GetTasks(tasks, r.project)'
      BY <2>1, <2>2, <2>3 DEF Removing, At
    <2>10. SoleRemoveUser(s)'
      BY <2>1, <2>6, <2>8, <2>9 DEF SoleRemoveUser, At, Closing, UnassignLabels
    <2> QED
      BY <1>7, <2>1, <2>10, SoleRemoving
  <1>8. CASE /\ r.op = "unassignUser" /\ Goto(s, "send")
             /\ ViewT(s)' = [ViewT(s) EXCEPT ![t] = row] /\ ViewP(s)' = ViewP(s)
    <2>1. At(s, "send")
      BY <1>3, <1>5, <1>8, GoesAt
    <2>2. ViewP(s) = Greeted(s) /\ dirtyT[s] = NothingT /\ VerifyAssignment(tasks, t, r.uid)
      BY <1>2, <1>3, <1>8 DEF Sole, SoleBefore, SoleTask, UnassignLabels
    <2>3. ViewT(s) = tasks
      BY <2>2, SeesTasks DEF IInv
    <2>4. ViewT(s)' = [tasks EXCEPT ![t] = unassignUser(@)]
      BY <1>3, <1>8, <2>3, SoleTypes DEF row, Tasks
    <2>5. t = r.task
      BY <1>3, <1>8
    <2>6. SoleTask(s)'
      BY <1>8, <2>1, <2>2, <2>4, <2>5 DEF SoleTask, At, Closing
    <2> QED
      BY <1>8, <2>1, <2>6, SoleTaskSent DEF TaskOps
  <1> QED
    BY <1>3, <1>5, <1>6, <1>7, <1>8

\* The statements of DeleteProject.
LEMMA SoleDeleteRead ==
    ASSUME IInv, NEW s \in Session, Sole(s), ControlOK(s)', DeleteProjectRead(s)
    PROVE  Sole(s)'
  <1> DEFINE r == req[s]
             ok == VerifyMembershipProject(ViewP(s), r.project, r.uid)
             l == "DeleteProject_owner"
  <1>0. pc[s] = "DeleteProject" /\ Active(s)
    BY DEF DeleteProjectRead, Active
  <1>2. ~welcoming[s] /\ r.op = "deleteProject"
    BY <1>0, InHandler, OpAt DEF AddUserLabels
  <1>1. /\ pc[s] = "DeleteProject" /\ Active(s) /\ Quiet(s)
        /\ IF ok THEN Goto(s, l) ELSE Fail(s)
    <2>1. r.project \in ProjectId
      BY <1>0, <1>2, ProjectField DEF ProjectOps
    <2>2. ok => ViewP(s)[r.project] \in ProjectRow
      BY <1>0, <2>1, SoleTypes DEF VerifyMembershipProject, Projects
    <2>3. read \in [Session -> ProjectRow \cup {NoRow}]
      BY DEF IInv, TypeOK
    <2> QED
      BY <1>0, <2>2, <2>3 DEF DeleteProjectRead, Quiet
  <1>3. ViewP(s) = Greeted(s)
    BY <1>1, <1>2 DEF Sole, SoleBefore, BeforeWrite
  <1>4. CASE ok
    <2>1. At(s, l)
      BY <1>1, <1>2, <1>4, GoesAt, SoleQuiet
    <2>2. SoleDelete(s)'
      BY <1>3, <1>4, <2>1 DEF SoleDelete, At, Closing
    <2>3. (SoleAddUser(s) /\ SoleRemoveUser(s) /\ SoleText(s) /\ SoleTask(s))'
      BY <1>2, <2>1 DEF SoleAddUser, SoleRemoveUser, SoleText, SoleTask, At, TaskOps
    <2> QED
      BY <1>1, <1>2, <1>4, <2>2, <2>3, SolePasses DEF BeforeWrite
  <1>5. CASE ~ok
    BY <1>1, <1>2, <1>5, SoleFails DEF Closing
  <1> QED
    BY <1>4, <1>5

\* Only the owner goes on.
LEMMA SoleDeleteCheck ==
    ASSUME IInv, NEW s \in Session, Sole(s), ControlOK(s)', DeleteProjectCheck(s)
    PROVE  Sole(s)'
  <1> DEFINE r == req[s]
             ok == VerifyOwnership(ViewP(s), r.project, r.uid)
  <1>1. Verify(s, "DeleteProject_owner", ok, "delete")
    BY DEF DeleteProjectCheck
  <1>2. ~welcoming[s] /\ r.op = "deleteProject"
    BY <1>1, InHandler, OpAt DEF Verify, AddUserLabels
  <1> HIDE DEF ok
  <1>3. /\ ViewP(s) = Greeted(s) /\ pc[s] = "DeleteProject_owner" /\ Active(s)
        /\ ~ok => Sole(s)'
        /\ ok => At(s, "delete")
        /\ ok /\ (SoleAddUser(s) /\ SoleRemoveUser(s) /\ SoleDelete(s) /\ SoleText(s) /\ SoleTask(s))'
             => Sole(s)'
    BY <1>1, <1>2, SoleCheck DEF BeforeWrite
  <1>4. VerifyMembershipProject(Greeted(s), r.project, r.uid)
    BY <1>2, <1>3 DEF Sole, SoleDelete
  <1>5. ASSUME ok PROVE SoleDelete(s)'
    BY <1>3, <1>4, <1>5 DEF SoleDelete, At, Closing, ok
  <1>6. ASSUME ok PROVE (SoleAddUser(s) /\ SoleRemoveUser(s) /\ SoleText(s) /\ SoleTask(s))'
    BY <1>2, <1>3, <1>6 DEF SoleAddUser, SoleRemoveUser, SoleText, SoleTask, At, TaskOps
  <1> QED
    BY <1>3, <1>5, <1>6

\* The rest of Sole for a request that deletes a project, past its write.
LEMMA SoleDeleting ==
    ASSUME NEW s \in Session, NEW l \in {"cascade", "send"}, At(s, l), req[s].op = "deleteProject",
           SoleDelete(s)'
    PROVE  Sole(s)'
  <1>1. (SoleWelcome(s) /\ SoleBefore(s) /\ SoleGet(s))'
    BY DEF SoleWelcome, SoleBefore, SoleGet, At, BeforeWrite, UnassignLabels
  <1>2. (SoleAddUser(s) /\ SoleRemoveUser(s) /\ SoleText(s) /\ SoleAdd(s) /\ SoleTask(s))'
    BY DEF SoleAddUser, SoleRemoveUser, SoleText, SoleAdd, SoleTask, At, AddOps, TaskOps
  <1> QED
    BY <1>1, <1>2 DEF Sole

\* It deletes the row.
LEMMA SoleDeleteWrite ==
    ASSUME IInv, NEW s \in Session, Sole(s), DeleteProjectWrite(s)
    PROVE  Sole(s)'
  <1> DEFINE r == req[s]
             p == r.project
  <1>1. pc[s] = "delete" /\ Active(s) /\ UNCHANGED <<database, req, id, todo>>
    BY DEF DeleteProjectWrite, Active, locals
  <1>2. ~welcoming[s] /\ r.op = "deleteProject"
    BY <1>1, InHandler, OpAt DEF AddUserLabels
  <1>3. p \in ProjectId
    BY <1>1, <1>2, ProjectField DEF ProjectOps
  <1>4. /\ ViewP(s) = Greeted(s) /\ dirtyT[s] = NothingT
        /\ VerifyMembershipProject(Greeted(s), p, r.uid) /\ VerifyOwnership(Greeted(s), p, r.uid)
    BY <1>1, <1>2 DEF Sole, SoleBefore, SoleDelete, BeforeWrite
  <1>5. WriteP(s, p, NoRow) /\ Goto(s, "cascade")
    BY <1>4 DEF DeleteProjectWrite, VerifyOwnership
  <1>6. At(s, "cascade")
    BY <1>1, <1>2, <1>5, GoesAt
  <1>7. ViewP(s)' = [ViewP(s) EXCEPT ![p] = NoRow] /\ dirtyT'[s] = NothingT
    BY <1>3, <1>4, <1>5, <1>6, WriteViewP DEF At, IInv
  <1>8. ViewT(s)' = tasks
    BY <1>6, <1>7 DEF At, ViewT, NothingT, IInv, TypeOK, Tasks
  <1>9. SoleDelete(s)'
    BY <1>4, <1>6, <1>7, <1>8 DEF SoleDelete, At, Closing, delete
  <1> QED
    BY <1>2, <1>6, <1>9, SoleDeleting

\* It deletes the tasks of the project and no other.
LEMMA SoleCascade ==
    ASSUME IInv, NEW s \in Session, Sole(s), Cascade(s)
    PROVE  Sole(s)'
  <1> DEFINE r == req[s]
             p == r.project
             left == GetTasks(ViewT(s), p)
  <1>1. pc[s] = "cascade" /\ Active(s) /\ UNCHANGED <<database, req>>
    BY DEF Cascade, Active
  <1>2. ~welcoming[s] /\ r.op = "deleteProject"
    BY <1>1, InHandler, OpAt DEF AddUserLabels
  <1>3. /\ VerifyMembershipProject(Greeted(s), p, r.uid) /\ VerifyOwnership(Greeted(s), p, r.uid)
        /\ ViewP(s) = delete(Greeted(s), p)
        /\ \A t \in TaskId :
             ViewT(s)[t] = tasks[t] \/ (ViewT(s)[t] = NoRow /\ t \in GetTasks(tasks, p))
    BY <1>1, <1>2 DEF Sole, SoleDelete
  <1>4. CASE left = {} /\ Goto(s, "send") /\ UNCHANGED written
    <2>1. At(s, "send")
      BY <1>1, <1>2, <1>4, GoesAt
    <2>2. ViewP(s)' = ViewP(s) /\ ViewT(s)' = ViewT(s)
      BY <1>4, <2>1 DEF At, ViewP, ViewT, written
    <2>3. \A t \in TaskId : ViewT(s)[t] = IF t \in GetTasks(tasks, p) THEN NoRow ELSE tasks[t]
      BY <1>3, <1>4 DEF GetTasks
    <2>4. ViewT(s) = cascade(tasks, p)
      BY <2>3 DEF cascade, ViewT
    <2>5. SoleDelete(s)'
      BY <1>3, <2>1, <2>2, <2>4 DEF SoleDelete, At, Closing
    <2> QED
      BY <1>2, <2>1, <2>5, SoleDeleting
  <1>5. ASSUME NEW t \in left, WriteT(s, t, NoRow), UNCHANGED control
        PROVE  Sole(s)'
    <2>1. At(s, "cascade")
      BY <1>1, <1>2, <1>5 DEF At, control, database, Greeted, Swept
    <2>2. t \in TaskId /\ ViewT(s)[t] # NoRow /\ ViewT(s)[t].project = p
      BY DEF GetTasks
    <2>3. t \in GetTasks(tasks, p)
      BY <1>3, <2>2 DEF GetTasks
    <2>4. ViewT(s)' = [ViewT(s) EXCEPT ![t] = NoRow] /\ ViewP(s)' = ViewP(s)
      BY <1>5, <2>1, <2>2, WriteViewT DEF At, IInv
    <2>5. \A q \in TaskId : ViewT(s)'[q] = IF q = t THEN NoRow ELSE ViewT(s)[q]
      BY <1>1, <2>4, SoleTypes DEF Tasks
    <2>6. \A q \in TaskId :
             ViewT(s)'[q] = tasks[q] \/ (ViewT(s)'[q] = NoRow /\ q \in GetTasks(tasks, p))
      BY <1>3, <2>3, <2>5
    <2>7. SoleDelete(s)'
      BY <1>3, <2>1, <2>4, <2>6 DEF SoleDelete, At, Closing
    <2> QED
      BY <1>2, <2>1, <2>7, SoleDeleting
  <1> QED
    BY <1>4, <1>5 DEF Cascade

\* The checks of UpdateName and UpdateDescription.
LEMMA SoleTextChecks ==
    ASSUME IInv, NEW s \in Session, Sole(s), ControlOK(s)',
           UpdateNameCheck(s) \/ UpdateDescriptionCheck(s)
    PROVE  Sole(s)'
  <1> DEFINE r == req[s]
  <1>1. CASE UpdateNameCheck(s)
    <2> DEFINE ok == VerifyOwnership(ViewP(s), r.project, r.uid) /\ ValidName(r.text)
    <2>1. Verify(s, "UpdateName", ok, "updateName_UPDATE")
      BY <1>1 DEF UpdateNameCheck
    <2>2. ~welcoming[s] /\ r.op = "updateName"
      BY <2>1, InHandler, OpAt DEF Verify, AddUserLabels
    <2> HIDE DEF ok
    <2>3. /\ ViewP(s) = Greeted(s)
          /\ ~ok => Sole(s)'
          /\ ok => At(s, "updateName_UPDATE")
          /\ ok /\ (SoleAddUser(s) /\ SoleRemoveUser(s) /\ SoleDelete(s) /\ SoleText(s) /\ SoleTask(s))'
               => Sole(s)'
      BY <2>1, <2>2, SoleCheck DEF BeforeWrite
    <2>4. ASSUME ok PROVE SoleText(s)'
      BY <2>2, <2>3, <2>4 DEF SoleText, At, Closing, ok
    <2>5. ASSUME ok PROVE (SoleAddUser(s) /\ SoleRemoveUser(s) /\ SoleDelete(s) /\ SoleTask(s))'
      BY <2>2, <2>3, <2>5 DEF SoleAddUser, SoleRemoveUser, SoleDelete, SoleTask, At, TaskOps
    <2> QED
      BY <2>3, <2>4, <2>5
  <1>2. CASE UpdateDescriptionCheck(s)
    <2> DEFINE ok == VerifyOwnership(ViewP(s), r.project, r.uid) /\ ValidDescription(r.text)
    <2>1. Verify(s, "UpdateDescription", ok, "updateDescription_UPDATE")
      BY <1>2 DEF UpdateDescriptionCheck
    <2>2. ~welcoming[s] /\ r.op = "updateDescription"
      BY <2>1, InHandler, OpAt DEF Verify, AddUserLabels
    <2> HIDE DEF ok
    <2>3. /\ ViewP(s) = Greeted(s)
          /\ ~ok => Sole(s)'
          /\ ok => At(s, "updateDescription_UPDATE")
          /\ ok /\ (SoleAddUser(s) /\ SoleRemoveUser(s) /\ SoleDelete(s) /\ SoleText(s) /\ SoleTask(s))'
               => Sole(s)'
      BY <2>1, <2>2, SoleCheck DEF BeforeWrite
    <2>4. ASSUME ok PROVE SoleText(s)'
      BY <2>2, <2>3, <2>4 DEF SoleText, At, Closing, ok
    <2>5. ASSUME ok PROVE (SoleAddUser(s) /\ SoleRemoveUser(s) /\ SoleDelete(s) /\ SoleTask(s))'
      BY <2>2, <2>3, <2>5 DEF SoleAddUser, SoleRemoveUser, SoleDelete, SoleTask, At, TaskOps
    <2> QED
      BY <2>3, <2>4, <2>5
  <1> QED
    BY <1>1, <1>2

\* An UPDATE of the name or the description of its project by its owner.
LEMMA SoleTextWrite ==
    ASSUME IInv, NEW s \in Session, Sole(s), UpdateNameWrite(s) \/ UpdateDescriptionWrite(s)
    PROVE  Sole(s)'
  <1> DEFINE r == req[s]
             p == r.project
             V == ViewP(s)
  <1>1. pc[s] \in {"updateName_UPDATE", "updateDescription_UPDATE"} /\ Active(s)
    BY DEF UpdateNameWrite, UpdateDescriptionWrite, UpdateProject, Active
  <1>2. /\ ~welcoming[s]
        /\ pc[s] = "updateName_UPDATE" => r.op = "updateName"
        /\ pc[s] = "updateDescription_UPDATE" => r.op = "updateDescription"
    BY <1>1, InHandler, OpAt DEF AddUserLabels
  <1>3. p \in ProjectId /\ r.text \in Text
    BY <1>1, <1>2, ProjectField, SoleTypes, RequestFields DEF ProjectOps
  <1>4. V = Greeted(s) /\ dirtyT[s] = NothingT
    BY <1>1, <1>2 DEF Sole, SoleBefore, BeforeWrite
  <1>5. /\ VerifyOwnership(V, p, r.uid)
        /\ r.op = "updateName" => ValidName(r.text)
        /\ r.op = "updateDescription" => ValidDescription(r.text)
    BY <1>1, <1>2, <1>4 DEF Sole, SoleText
  <1>6. V[p] # NoRow /\ V[p] \in ProjectRow
    BY <1>1, <1>3, <1>5, SoleTypes DEF VerifyOwnership, Projects
  <1> HIDE DEF p
  <1>7. ASSUME NEW row \in ProjectRow, NEW label, UpdateProject(s, label, p, row, "send")
        PROVE  At(s, "send") /\ ViewP(s)' = [V EXCEPT ![p] = row] /\ dirtyT'[s] = NothingT
    <2>1. /\ UNCHANGED <<database, req, id>> /\ Return(s, "send")
          /\ ViewP(s)' = [V EXCEPT ![p] = row] /\ dirtyT'[s] = NothingT
      <3>1. /\ UNCHANGED <<database, req, id>>
            /\ \/ /\ ViewP(s)[p] # NoRow /\ Return(s, "send")
                  /\ ViewP(s)' = [ViewP(s) EXCEPT ![p] = row] /\ dirtyT'[s] = dirtyT[s]
               \/ ViewP(s)[p] = NoRow /\ Fail(s) /\ Quiet(s)
        BY <1>3, <1>7, UpdatesProject
      <3> QED
        BY <1>4, <1>6, <3>1
    <2> QED
      BY <1>2, <2>1, GoesAt DEF Return
  <1>8. (SoleWelcome(s) /\ SoleBefore(s) /\ SoleGet(s))' \/ ~At(s, "send")
    BY DEF SoleWelcome, SoleBefore, SoleGet, At, BeforeWrite, UnassignLabels
  <1>9. (SoleAddUser(s) /\ SoleRemoveUser(s) /\ SoleDelete(s) /\ SoleAdd(s) /\ SoleTask(s))' \/ ~At(s, "send")
    BY <1>1, <1>2 DEF SoleAddUser, SoleRemoveUser, SoleDelete, SoleAdd, SoleTask, At, AddOps,
       TaskOps
  <1>10. CASE UpdateNameWrite(s)
    <2> DEFINE row == updateName(V[p], FirstLine(r.text))
    <2>1. row \in ProjectRow
      BY <1>3, <1>6, FirstLineType DEF ProjectRow, updateName
    <2>2. UpdateProject(s, "updateName_UPDATE", p, row, "send")
      BY <1>10 DEF UpdateNameWrite, p
    <2>3. r.op = "updateName"
      BY <1>2, <2>2 DEF UpdateProject
    <2> HIDE DEF row
    <2>4. At(s, "send") /\ ViewP(s)' = [V EXCEPT ![p] = row] /\ dirtyT'[s] = NothingT
      BY <1>7, <2>1, <2>2
    <2>5. ViewP(s)' = [Greeted(s) EXCEPT ![p] = updateName(@, FirstLine(r.text))]
      BY <1>4, <2>4 DEF row
    <2>6. SoleText(s)'
      BY <1>4, <1>5, <2>3, <2>4, <2>5 DEF SoleText, At, Closing, p
    <2> QED
      BY <1>8, <1>9, <2>4, <2>6 DEF Sole
  <1>11. CASE UpdateDescriptionWrite(s)
    <2> DEFINE row == updateDescription(V[p], r.text)
    <2>1. row \in ProjectRow
      BY <1>3, <1>6 DEF ProjectRow, updateDescription
    <2>2. UpdateProject(s, "updateDescription_UPDATE", p, row, "send")
      BY <1>11 DEF UpdateDescriptionWrite, p
    <2>3. r.op = "updateDescription"
      BY <1>2, <2>2 DEF UpdateProject
    <2> HIDE DEF row
    <2>4. At(s, "send") /\ ViewP(s)' = [V EXCEPT ![p] = row] /\ dirtyT'[s] = NothingT
      BY <1>7, <2>1, <2>2
    <2>5. ViewP(s)' = [Greeted(s) EXCEPT ![p] = updateDescription(@, r.text)]
      BY <1>4, <2>4 DEF row
    <2>6. SoleText(s)'
      BY <1>4, <1>5, <2>3, <2>4, <2>5 DEF SoleText, At, Closing, p
    <2> QED
      BY <1>8, <1>9, <2>4, <2>6 DEF Sole
  <1> QED
    BY <1>10, <1>11

\* The rest of Sole for a request that adds a project, past its first insert.
LEMMA SoleAdding ==
    ASSUME NEW s \in Session, NEW l \in {"AddTasks", "send"}, At(s, l), req[s].op \in AddOps,
           SoleAdd(s)'
    PROVE  Sole(s)'
  <1>1. (SoleWelcome(s) /\ SoleBefore(s) /\ SoleGet(s))'
    BY DEF SoleWelcome, SoleBefore, SoleGet, At, BeforeWrite, UnassignLabels
  <1>2. (SoleAddUser(s) /\ SoleRemoveUser(s) /\ SoleText(s) /\ SoleDelete(s) /\ SoleTask(s))'
    BY DEF SoleAddUser, SoleRemoveUser, SoleText, SoleDelete, SoleTask, At, AddOps, TaskOps
  <1> QED
    BY <1>1, <1>2 DEF Sole

\* The two INSERTs of AddProjectWithTasks: the first draws the id of the project,
LEMMA SoleAddInsert ==
    ASSUME IInv, NEW s \in Session, Sole(s), AddProjectInsert(s)
    PROVE  Sole(s)'
  <1> DEFINE d == DraftOf(req[s])
  <1>1. pc[s] = "AddProject" /\ Active(s) /\ UNCHANGED <<database, req>>
    BY DEF AddProjectInsert, Active
  <1>2. ~welcoming[s] /\ req[s].op \in AddOps
    BY <1>1, InHandler, OpAt DEF AddUserLabels
  <1>3. d \in ProjectDraft /\ (ValidProject(d) => addProject(d) \in ProjectRow)
    BY <1>1, <1>2, SoleTypes, DraftOfType
  <1>4. ViewP(s) = Greeted(s) /\ dirtyT[s] = NothingT
    BY <1>1, <1>2 DEF Sole, SoleBefore, BeforeWrite
  <1>5. CASE /\ Len(d.tasks) <= MaxTasksPerProject /\ ValidProject(d) /\ nextProject <= MaxProject
             /\ WriteP(s, nextProject, addProject(d)) /\ nextProject' = nextProject + 1
             /\ id' = [id EXCEPT ![s] = nextProject] /\ Goto(s, "AddTasks")
    <2>1. At(s, "AddTasks")
      BY <1>1, <1>2, <1>5, GoesAt
    <2>2. id'[s] = nextProject
      BY <1>5 DEF IInv, TypeOK
    <2>3. nextProject \in ProjectId
      BY <1>5, BoundsAssumption DEF IInv, TypeOK, ProjectId
    <2>4. ViewP(s)' = [Greeted(s) EXCEPT ![nextProject] = addProject(d)] /\ dirtyT'[s] = NothingT
      BY <1>3, <1>4, <1>5, <2>1, <2>3, WriteViewP DEF At, IInv
    <2>5. DraftOf(req[s])' = d
      BY <1>1 DEF DraftOf
    <2>6. SoleAdd(s)'
      BY <1>5, <2>1, <2>2, <2>4, <2>5 DEF SoleAdd, At, Closing
    <2> QED
      BY <1>2, <2>1, <2>6, SoleAdding
  <1>6. CASE Fail(s) /\ UNCHANGED <<nextProject, id, written>>
    <2>1. Quiet(s)
      BY <1>6 DEF AddProjectInsert, Quiet, sequences, IInv, TypeOK
    <2> QED
      BY <1>1, <1>2, <1>6, <2>1, SoleFails DEF Closing
  <1> QED
    BY <1>5, <1>6 DEF AddProjectInsert

\* and the second draws as many ids as there are tasks.
LEMMA SoleAddTasks ==
    ASSUME IInv, NEW s \in Session, Sole(s), AddTasksInsert(s)
    PROVE  Sole(s)'
  <1> DEFINE d == DraftOf(req[s])
             n == Len(d.tasks)
  <1>1. pc[s] = "AddTasks" /\ Active(s) /\ UNCHANGED <<database, req, nextProject, id, dirtyP>>
    BY DEF AddTasksInsert, Active, locals
  <1>2. ~welcoming[s] /\ req[s].op \in AddOps
    BY <1>1, InHandler, OpAt DEF AddUserLabels
  <1>3. d \in ProjectDraft
    BY <1>1, <1>2, SoleTypes, DraftOfType
  <1>4. n \in Nat
    BY <1>3 DEF ProjectDraft
  <1>5. /\ id[s] # 0 => id[s] + 1 = nextProject /\ n <= MaxTasksPerProject /\ ValidProject(d)
        /\ ViewP(s) = [Greeted(s) EXCEPT ![id[s]] = addProject(d)]
        /\ dirtyT[s] = NothingT
    BY <1>1, <1>2 DEF Sole, SoleAdd, Closing
  <1> HIDE DEF n
  <1>6. CASE /\ ValidDraft(d) /\ nextTask + n - 1 <= MaxTask
             /\ dirtyT' = [dirtyT EXCEPT ![s] = addTasks(@, d.tasks, id[s], nextTask)]
             /\ nextTask' = nextTask + n /\ Goto(s, "send")
    <2>1. At(s, "send")
      BY <1>1, <1>2, <1>6, GoesAt
    <2>2. dirtyT'[s] = addTasks(NothingT, d.tasks, id[s], nextTask)
      BY <1>5, <1>6 DEF IInv, TypeOK
    <2>3. DraftOf(req[s])' = d
      BY <1>1 DEF DraftOf
    <2>4. n >= 1
      BY <1>4, <1>6 DEF ValidDraft, n
    <2>5. nextTask \in Nat /\ nextTask >= 1 /\ MaxTask \in Nat
      BY BoundsAssumption DEF IInv, TypeOK
    <2>6. nextTask' - n = nextTask /\ nextTask \in 1 .. MaxTask /\ nextTask' - 1 <= MaxTask
      BY <1>4, <1>6, <2>4, <2>5
    <2>7. \A t \in TaskId : tasks[t] # NoRow => t < nextTask
      BY DEF IInv, Committable, Fresh
    <2>8. ViewP(s)' = ViewP(s)
      BY <1>1 DEF ViewP, database
    <2>9. nextTask' - Len(d.tasks) = nextTask
      BY <2>6 DEF n
    <2>10. /\ id'[s] = id[s] /\ nextProject' = nextProject /\ req'[s] = req[s]
           /\ Greeted(s)' = Greeted(s) /\ pc'[s] = "send" /\ tasks' = tasks
      BY <1>1, <2>1 DEF At
    <2>11. SoleAdd(s)'
      BY <1>5, <1>6, <2>2, <2>3, <2>6, <2>7, <2>8, <2>9, <2>10 DEF SoleAdd, Closing, n
    <2> QED
      BY <1>2, <2>1, <2>11, SoleAdding
  <1>7. CASE Fail(s) /\ UNCHANGED <<nextTask, dirtyT>>
    <2>1. Quiet(s)
      BY <1>7 DEF AddTasksInsert, Quiet, sequences, written, locals, IInv, TypeOK
    <2> QED
      BY <1>1, <1>2, <1>7, <2>1, SoleFails DEF Closing
  <1> QED
    BY <1>6, <1>7 DEF AddTasksInsert, n

\* The check of AssignUser.
LEMMA SoleAssignCheck ==
    ASSUME IInv, NEW s \in Session, Sole(s), ControlOK(s)', AssignUserCheck(s)
    PROVE  Sole(s)'
  <1> DEFINE r == req[s]
             ok == Assignable(ViewT(s), r.task)
  <1>1. Verify(s, "AssignUser", ok, "assignUser_UPDATE")
    BY DEF AssignUserCheck
  <1>2. ~welcoming[s] /\ r.op = "assignUser"
    BY <1>1, InHandler, OpAt DEF Verify, AddUserLabels
  <1> HIDE DEF ok
  <1>3. /\ ViewT(s) = tasks
        /\ ~ok => Sole(s)'
        /\ ok => At(s, "assignUser_UPDATE")
        /\ ok /\ (SoleAddUser(s) /\ SoleRemoveUser(s) /\ SoleDelete(s) /\ SoleText(s) /\ SoleTask(s))'
             => Sole(s)'
    BY <1>1, <1>2, SoleCheck DEF BeforeWrite
  <1>4. ASSUME ok PROVE SoleTask(s)'
    BY <1>2, <1>3, <1>4 DEF SoleTask, At, Closing, ok
  <1>5. ASSUME ok PROVE (SoleAddUser(s) /\ SoleRemoveUser(s) /\ SoleText(s) /\ SoleDelete(s))'
    BY <1>2, <1>3, <1>5 DEF SoleAddUser, SoleRemoveUser, SoleText, SoleDelete, At
  <1> QED
    BY <1>3, <1>4, <1>5

\* The checks of SetProcessPoints add up to MaySetProcessPoints.
LEMMA SolePointsChecks ==
    ASSUME IInv, NEW s \in Session, Sole(s), ControlOK(s)',
           \/ SetProcessPointsNeeded(s) \/ SetProcessPointsAssignee(s) \/ SetProcessPointsMember(s)
    PROVE  Sole(s)'
  <1> DEFINE r == req[s]
             t == r.task
             needed == AssignmentInTaskNeeded(ViewP(s), ViewT(s), t)
  <1>1. CASE SetProcessPointsNeeded(s)
    <2> DEFINE ok == AssignmentInTaskDefined(ViewP(s), ViewT(s), t)
               l == IF needed THEN "assignee" ELSE "member"
    <2>1. Verify(s, "SetProcessPoints", ok, l)
      BY <1>1 DEF SetProcessPointsNeeded
    <2>2. ~welcoming[s] /\ r.op = "setProcessPoints"
      BY <2>1, InHandler, OpAt DEF Verify, AddUserLabels
    <2>3. l \in {"assignee", "member"} /\ (needed <=> l = "assignee")
      OBVIOUS
    <2> HIDE DEF ok, l
    <2>4. /\ ViewP(s) = Greeted(s) /\ ViewT(s) = tasks
          /\ ~ok => Sole(s)'
          /\ ok => At(s, l)
          /\ ok /\ (SoleAddUser(s) /\ SoleRemoveUser(s) /\ SoleDelete(s) /\ SoleText(s) /\ SoleTask(s))'
               => Sole(s)'
      BY <2>1, <2>2, <2>3, SoleCheck DEF BeforeWrite
    <2>5. ASSUME ok PROVE SoleTask(s)'
      <3>1. AssignmentInTaskDefined(Greeted(s), tasks, t)
        BY <2>4, <2>5 DEF ok
      <3>2. AssignmentInTaskNeeded(Greeted(s), tasks, t) <=> l = "assignee"
        BY <2>3, <2>4
      <3> QED
        BY <2>2, <2>3, <2>4, <2>5, <3>1, <3>2 DEF SoleTask, At, Closing
    <2>6. ASSUME ok PROVE (SoleAddUser(s) /\ SoleRemoveUser(s) /\ SoleText(s) /\ SoleDelete(s))'
      BY <2>2, <2>4, <2>6 DEF SoleAddUser, SoleRemoveUser, SoleText, SoleDelete, At
    <2> QED
      BY <2>4, <2>5, <2>6
  <1>2. ASSUME NEW label \in {"assignee", "member"}, NEW ok,
               Verify(s, label, ok, "setProcessPoints_UPDATE"),
               ok <=> /\ label = "assignee" => VerifyAssignment(ViewT(s), t, r.uid)
                      /\ label = "member" => VerifyMembershipTask(ViewP(s), ViewT(s), t, r.uid)
                      /\ InRange(ViewT(s)[t], r.points)
        PROVE  Sole(s)'
    <2>1. pc[s] = label
      BY <1>2 DEF Verify
    <2>2. ~welcoming[s] /\ r.op = "setProcessPoints"
      BY <2>1, InHandler, OpAt DEF AddUserLabels
    <2>3. /\ ViewP(s) = Greeted(s) /\ ViewT(s) = tasks /\ Active(s)
          /\ ~ok => Sole(s)'
          /\ ok => At(s, "setProcessPoints_UPDATE")
          /\ ok /\ (SoleAddUser(s) /\ SoleRemoveUser(s) /\ SoleDelete(s) /\ SoleText(s) /\ SoleTask(s))'
               => Sole(s)'
      BY <1>2, <2>2, SoleCheck DEF BeforeWrite
    <2>4. /\ AssignmentInTaskDefined(Greeted(s), tasks, t)
          /\ AssignmentInTaskNeeded(Greeted(s), tasks, t) <=> label = "assignee"
      BY <2>1, <2>2, <2>3 DEF Sole, SoleTask
    <2>5. ASSUME ok PROVE SoleTask(s)'
      <3>1. MaySetProcessPoints(Greeted(s), tasks, r.uid, t) /\ InRange(tasks[t], r.points)
        BY <1>2, <2>3, <2>4, <2>5 DEF MaySetProcessPoints
      <3> QED
        BY <2>2, <2>3, <2>5, <3>1 DEF SoleTask, At, Closing
    <2>6. ASSUME ok PROVE (SoleAddUser(s) /\ SoleRemoveUser(s) /\ SoleText(s) /\ SoleDelete(s))'
      BY <2>2, <2>3, <2>6 DEF SoleAddUser, SoleRemoveUser, SoleText, SoleDelete, At
    <2> QED
      BY <2>3, <2>5, <2>6
  <1>3. CASE SetProcessPointsAssignee(s)
    <2> DEFINE ok == VerifyAssignment(ViewT(s), t, r.uid) /\ InRange(ViewT(s)[t], r.points)
    <2>1. Verify(s, "assignee", ok, "setProcessPoints_UPDATE")
      BY <1>3 DEF SetProcessPointsAssignee
    <2> QED
      BY <1>2, <2>1
  <1>4. CASE SetProcessPointsMember(s)
    <2> DEFINE ok == VerifyMembershipTask(ViewP(s), ViewT(s), t, r.uid) /\ InRange(ViewT(s)[t], r.points)
    <2>1. Verify(s, "member", ok, "setProcessPoints_UPDATE")
      BY <1>4 DEF SetProcessPointsMember
    <2> QED
      BY <1>2, <2>1
  <1> QED
    BY <1>1, <1>3, <1>4

\* The UPDATE of AssignUser or SetProcessPoints.
LEMMA SoleTaskWrite ==
    ASSUME IInv, NEW s \in Session, Sole(s), AssignUserWrite(s) \/ SetProcessPointsWrite(s)
    PROVE  Sole(s)'
  <1> DEFINE r == req[s]
             t == r.task
             V == ViewT(s)
  <1>1. pc[s] \in {"assignUser_UPDATE", "setProcessPoints_UPDATE"} /\ Active(s)
    BY DEF AssignUserWrite, SetProcessPointsWrite, UpdateTask, Active
  <1>2. /\ ~welcoming[s]
        /\ pc[s] = "assignUser_UPDATE" => r.op = "assignUser"
        /\ pc[s] = "setProcessPoints_UPDATE" => r.op = "setProcessPoints"
    BY <1>1, InHandler, OpAt DEF AddUserLabels
  <1>3. /\ t \in TaskId /\ r.uid \in User
        /\ r.op = "setProcessPoints" => r.points \in Int
    BY <1>1, <1>2, SoleTypes, RequestFields, DraftsAssumption DEF TaskOps
  <1>4. ViewP(s) = Greeted(s) /\ dirtyT[s] = NothingT
    BY <1>1, <1>2 DEF Sole, SoleBefore, BeforeWrite
  <1>5. V = tasks
    BY <1>4, SeesTasks DEF IInv
  <1>6. /\ tasks[t] # NoRow
        /\ r.op = "assignUser" => Assignable(tasks, t)
        /\ r.op = "setProcessPoints" =>
             MaySetProcessPoints(Greeted(s), tasks, r.uid, t) /\ InRange(tasks[t], r.points)
    BY <1>1, <1>2 DEF Sole, SoleTask, Assignable, MaySetProcessPoints, AssignmentInTaskDefined
  <1>7. tasks[t] \in TaskRow
    BY <1>3, <1>6 DEF IInv, TypeOK, Tasks
  <1> HIDE DEF t
  <1>8. ASSUME NEW row \in TaskRow, NEW label, UpdateTask(s, label, t, row, "send")
        PROVE  At(s, "send") /\ ViewT(s)' = [tasks EXCEPT ![t] = row] /\ ViewP(s)' = Greeted(s)
    <2>1. /\ UNCHANGED <<database, req, id, todo>>
          /\ \/ /\ ViewT(s)[t] # NoRow /\ Goto(s, "send")
                /\ ViewT(s)' = [ViewT(s) EXCEPT ![t] = row] /\ ViewP(s)' = ViewP(s)
             \/ ViewT(s)[t] = NoRow /\ Fail(s) /\ Quiet(s)
      BY <1>3, <1>8, UpdatesTask
    <2>2. Goto(s, "send") /\ ViewT(s)' = [tasks EXCEPT ![t] = row] /\ ViewP(s)' = Greeted(s)
      BY <1>4, <1>5, <1>6, <2>1
    <2> QED
      BY <1>2, <2>1, <2>2, GoesAt
  <1>9. CASE AssignUserWrite(s)
    <2> DEFINE row == assignUser(V[t], r.uid)
    <2>1. row \in TaskRow
      BY <1>3, <1>5, <1>7, TaskUpdateType
    <2>2. UpdateTask(s, "assignUser_UPDATE", t, row, "send")
      BY <1>9 DEF AssignUserWrite, t
    <2>3. r.op = "assignUser"
      BY <1>2, <2>2 DEF UpdateTask
    <2> HIDE DEF row
    <2>4. At(s, "send") /\ ViewT(s)' = [tasks EXCEPT ![t] = row] /\ ViewP(s)' = Greeted(s)
      BY <1>8, <2>1, <2>2
    <2>5. ViewT(s)' = [tasks EXCEPT ![t] = assignUser(@, r.uid)]
      BY <1>5, <2>4 DEF row
    <2>6. SoleTask(s)'
      BY <1>6, <2>3, <2>4, <2>5 DEF SoleTask, At, Closing, t
    <2> QED
      BY <2>3, <2>4, <2>6, SoleTaskSent DEF TaskOps
  <1>10. CASE SetProcessPointsWrite(s)
    <2> DEFINE row == setProcessPoints(V[t], r.points)
    <2>2. UpdateTask(s, "setProcessPoints_UPDATE", t, row, "send")
      BY <1>10 DEF SetProcessPointsWrite, t
    <2>3. r.op = "setProcessPoints"
      BY <1>2, <2>2 DEF UpdateTask
    <2>1. row \in TaskRow
      BY <1>3, <1>5, <1>7, <2>3, TaskUpdateType
    <2> HIDE DEF row
    <2>4. At(s, "send") /\ ViewT(s)' = [tasks EXCEPT ![t] = row] /\ ViewP(s)' = Greeted(s)
      BY <1>8, <2>1, <2>2
    <2>5. ViewT(s)' = [tasks EXCEPT ![t] = setProcessPoints(@, r.points)]
      BY <1>5, <2>4 DEF row
    <2>6. SoleTask(s)'
      BY <1>6, <2>3, <2>4, <2>5 DEF SoleTask, At, Closing, t
    <2> QED
      BY <2>3, <2>4, <2>6, SoleTaskSent DEF TaskOps
  <1> QED
    BY <1>9, <1>10

\* Sending the messages changes nothing of it.
LEMMA SoleSend ==
    ASSUME IInv, NEW s \in Session, Sole(s), Send(s)
    PROVE  Sole(s)'
  <1>1. pc[s] = "send" /\ Active(s) /\ UNCHANGED <<database, sequences, req, locals, written>>
    BY DEF Send, Active
  <1>2. ~welcoming[s] /\ req[s].op \notin {"getProjects", "getProject"}
    BY <1>1, InHandler DEF AddUserLabels, IInv, SessionOK, ControlOK
  <1>3. At(s, "commit")
    BY <1>1, <1>2, GoesAt DEF Send
  <1>4. /\ ViewP(s)' = ViewP(s) /\ ViewT(s)' = ViewT(s) /\ dirtyT'[s] = dirtyT[s]
        /\ id'[s] = id[s] /\ nextProject' = nextProject /\ nextTask' = nextTask
    BY <1>1 DEF database, sequences, locals, written, ViewP, ViewT
  <1>5. DraftOf(req[s])' = DraftOf(req[s])
    BY <1>1 DEF DraftOf
  <1>6. (SoleWelcome(s) /\ SoleBefore(s) /\ SoleGet(s))'
    BY <1>2, <1>3 DEF SoleWelcome, SoleBefore, SoleGet, At, BeforeWrite, UnassignLabels
  <1>7. SoleAddUser(s)'
    BY <1>1, <1>2, <1>3, <1>4 DEF Sole, SoleAddUser, At, Closing
  <1>8. SoleRemoveUser(s)'
    BY <1>1, <1>2, <1>3, <1>4 DEF Sole, SoleRemoveUser, At, Closing, RemovalLabels, UnassignLabels
  <1>9. SoleDelete(s)'
    BY <1>1, <1>2, <1>3, <1>4 DEF Sole, SoleDelete, At, Closing
  <1>10. SoleText(s)'
    BY <1>1, <1>2, <1>3, <1>4 DEF Sole, SoleText, At, Closing
  <1>11. SoleAdd(s)'
    BY <1>1, <1>2, <1>3, <1>4, <1>5 DEF Sole, SoleAdd, At, Closing, Active
  <1>12. SoleTask(s)'
    BY <1>1, <1>2, <1>3, <1>4 DEF Sole, SoleTask, At, Closing
  <1> QED
    BY <1>6, <1>7, <1>8, <1>9, <1>10, <1>11, <1>12 DEF Sole

\* Every statement keeps what the session knows.
LEMMA SoleStatement ==
    ASSUME IInv, NEW s \in Session, Sole(s), Statement(s)
    PROVE  Sole(s)'
  <1>1. ControlOK(s)'
    BY StatementOK DEF StepOK, SessionOK
  <1>2. CASE AddUserCheck(s) \/ AddUserRead(s) \/ AddUserWrite(s) \/ GetProject(s)
    BY <1>1, <1>2, SoleAddUserCheck, SoleAddUserRead, SoleAddUserWrite, SoleGetProject
  <1>3. CASE \/ RemoveUserRequester(s) \/ RemoveUserRemoved(s) \/ RemoveUserRead(s)
             \/ RemoveUserWrite(s) \/ RemoveUserTasks(s) \/ RemoveUserLoop(s)
    BY <1>1, <1>3, SoleRemoveChecks, SoleRemoveRead, SoleRemoveWrite, SoleRemoveTasks,
       SoleRemoveLoop
  <1>4. CASE UnassignUserCheck(s) \/ UnassignUserWrite(s)
    BY <1>4, SoleUnassignCheck, SoleUnassignWrite
  <1>5. CASE \/ DeleteProjectRead(s) \/ DeleteProjectCheck(s) \/ DeleteProjectWrite(s)
             \/ Cascade(s)
    BY <1>1, <1>5, SoleDeleteRead, SoleDeleteCheck, SoleDeleteWrite, SoleCascade
  <1>6. CASE \/ UpdateNameCheck(s) \/ UpdateNameWrite(s)
             \/ UpdateDescriptionCheck(s) \/ UpdateDescriptionWrite(s)
    BY <1>1, <1>6, SoleTextChecks, SoleTextWrite
  <1>7. CASE AddProjectInsert(s) \/ AddTasksInsert(s) \/ Send(s)
    BY <1>7, SoleAddInsert, SoleAddTasks, SoleSend
  <1>8. CASE \/ AssignUserCheck(s) \/ AssignUserWrite(s) \/ SetProcessPointsNeeded(s)
             \/ SetProcessPointsAssignee(s) \/ SetProcessPointsMember(s) \/ SetProcessPointsWrite(s)
    BY <1>1, <1>8, SoleAssignCheck, SolePointsChecks, SoleTaskWrite
  <1> QED
    BY <1>2, <1>3, <1>4, <1>5, <1>6, <1>7, <1>8 DEF Statement

\* A request begins without having seen or written anything.
LEMMA SoleBegin ==
    ASSUME IInv, NEW s \in Session, NEW r \in Requests, Begin(s, r)
    PROVE  Sole(s)'
  <1>1. ~Active(s) /\ pc'[s] = "AddUser" /\ welcoming'[s] /\ UNCHANGED <<database, written>>
    BY DEF Begin, Active, IInv, TypeOK
  <1>2. dirtyP[s] = NothingP /\ dirtyT[s] = NothingT
    BY <1>1 DEF IInv, SessionOK, IdleOK
  <1>3. ViewP(s)' = projects
    BY <1>1, <1>2 DEF ViewP, NothingP, database, written, IInv, TypeOK, Projects
  <1>4. SoleWelcome(s)'
    BY <1>1, <1>2, <1>3 DEF SoleWelcome, database, written, NothingT
  <1> QED
    BY <1>1, <1>4, SoleWelcoming DEF AddUserLabels

\* It ends with nothing left to know.
LEMMA SoleFinish ==
    ASSUME IInv, NEW s \in Session, Finish(s)
    PROVE  Sole(s)'
  BY DEF Finish, Sole, Active, IInv, TypeOK

\* Nothing changes if nothing changes.
LEMMA SoleStutter ==
    ASSUME NEW s \in Session, Sole(s), UNCHANGED vars
    PROVE  Sole(s)'
  <1>1. /\ ViewP(s)' = ViewP(s) /\ ViewT(s)' = ViewT(s) /\ Greeted(s)' = Greeted(s)
        /\ Left(s)' = Left(s) /\ \A t \in TaskId : Swept(s, t)' = Swept(s, t)
        /\ DraftOf(req[s])' = DraftOf(req[s])
    BY DEF vars, ViewP, ViewT, Greeted, Left, Swept, DraftOf
  <1>2. (Active(s) <=> Active(s)') /\ UNCHANGED <<projects, tasks, nextProject, nextTask, pc, req, welcoming,
          read, id, todo, dirtyT>>
    BY DEF vars, Active
  <1>3. CASE ~Active(s)
    BY <1>2, <1>3 DEF Sole
  <1>4. CASE Active(s)
    <2>1. (SoleWelcome(s) /\ SoleBefore(s) /\ SoleGet(s))'
      BY <1>1, <1>2, <1>4 DEF Sole, SoleWelcome, SoleBefore, SoleGet
    <2>2. (SoleAddUser(s) /\ SoleDelete(s) /\ SoleText(s) /\ SoleTask(s))'
      BY <1>1, <1>2, <1>4 DEF Sole, SoleAddUser, SoleDelete, SoleText, SoleTask
    <2>3. SoleRemoveUser(s)'
      BY <1>1, <1>2, <1>4 DEF Sole, SoleRemoveUser
    <2>4. SoleAdd(s)'
      BY <1>1, <1>2, <1>4 DEF Sole, SoleAdd
    <2> QED
      BY <2>1, <2>2, <2>3, <2>4 DEF Sole
  <1> QED
    BY <1>3, <1>4

\* One request at a time
OneSession == \A s, z \in Session : s = z

\* So it is kept by every step of the only session,
LEMMA SoleStep ==
    ASSUME OneSession, IInv, SoleInv, [Next]_vars
    PROVE  SoleInv'
  <1> SUFFICES ASSUME NEW s \in Session PROVE Sole(s)'
    BY DEF SoleInv
  <1>1. Sole(s) /\ \A z \in Session : z = s
    BY DEF SoleInv, OneSession
  <1>2. CASE Statement(s)
    BY <1>1, <1>2, SoleStatement
  <1>3. CASE Finish(s)
    BY <1>3, SoleFinish
  <1>4. ASSUME NEW r \in Requests, Begin(s, r)
        PROVE  Sole(s)'
    BY <1>4, SoleBegin
  <1>5. CASE UNCHANGED vars
    BY <1>1, <1>5, SoleStutter
  <1> QED
    BY <1>1, <1>2, <1>3, <1>4, <1>5 DEF Next, Step, AllServed, Commit, Rollback, Crash

\* and holds at the start.
LEMMA SoleInit == Init => SoleInv
  BY DEF Init, SoleInv, Sole, Active

\* A request that adds a project has drawn its id, and not committed.
Drawn(s) == Active(s) /\ req[s].op \in AddOps /\ id[s] # 0
\* The ids of its tasks, too.
DrawnTasks(s) == Active(s) /\ req[s].op \in AddOps /\ pc[s] \in Closing

\* The least of nothing, of one, and of consecutive ids.
LEMMA FirstOrIs ==
    ASSUME NEW next
    PROVE  /\ FirstOr({}, next) = next
           /\ \A a, b \in Int : a <= b => FirstOr(a .. b, next) = a
  <1>1. FirstOr({}, next) = next
    BY DEF FirstOr
  <1>2. ASSUME NEW a \in Int, NEW b \in Int, a <= b
        PROVE  FirstOr(a .. b, next) = a
    <2> DEFINE least == CHOOSE i \in a .. b : \A j \in a .. b : i <= j
    <2>1. a \in a .. b /\ \A j \in a .. b : a <= j
      BY <1>2
    <2>2. least \in a .. b /\ \A j \in a .. b : least <= j
      BY <2>1
    <2>3. least = a
      BY <2>1, <2>2
    <2> QED
      BY <2>1, <2>3 DEF FirstOr
  <1> QED
    BY <1>1, <1>2

\* The next id of a project, as the abstract server has it.
LEMMA SerialProjectIs ==
    ASSUME OneSession, IInv, NEW s \in Session
    PROVE  SerialNextProject = IF Drawn(s) THEN id[s] ELSE nextProject
  <1> DEFINE set == {p \in ProjectId : \E z \in Session : pc[z] # "idle" /\ id[z] = p
                                         /\ req[z].op \in {"addProject", "importProject"}}
  <1>1. SerialNextProject = FirstOr(set, nextProject)
    BY DEF SerialNextProject
  <1>2. \A z \in Session : z = s
    BY DEF OneSession
  <1>3. CASE Drawn(s)
    <2>1. id[s] \in ProjectId
      BY <1>3 DEF Drawn, IInv, SessionOK, AddedOK
    <2>2. id[s] \in Int
      BY <2>1 DEF ProjectId
    <2>3a. id[s] .. id[s] = {id[s]}
      BY <2>2
    <2>3. set = id[s] .. id[s]
      BY <1>2, <1>3, <2>1, <2>3a DEF Drawn, Active, AddOps
    <2>4. FirstOr(id[s] .. id[s], nextProject) = id[s]
      <3>1. \A a \in Int : a <= a
        OBVIOUS
      <3> QED
        BY <2>2, <3>1, FirstOrIs
    <2> HIDE DEF set
    <2> QED
      BY <1>1, <1>3, <2>3, <2>4
  <1>4. CASE ~Drawn(s)
    <2>1. set = {}
      BY <1>2, <1>4 DEF Drawn, Active, AddOps, ProjectId
    <2> QED
      BY <1>1, <1>4, <2>1, FirstOrIs
  <1> QED
    BY <1>3, <1>4

\* What is known of a project that is added, once its tasks are inserted.
LEMMA DrawnTasksIs ==
    ASSUME IInv, NEW s \in Session, Sole(s), DrawnTasks(s)
    PROVE  LET d == DraftOf(req[s])
               first == nextTask - Len(d.tasks)
           IN  /\ Drawn(s) /\ ~welcoming[s]
               /\ d \in ProjectDraft /\ ValidDraft(d) /\ Len(d.tasks) \in Nat /\ Len(d.tasks) >= 1
               /\ first \in Nat /\ first >= 1 /\ nextTask - 1 <= MaxTask
               /\ \A t \in TaskId : tasks[t] # NoRow => t < first
               /\ \A t \in TaskId : IF t \in first .. nextTask - 1
                                    THEN dirtyT[s][t] # Clean ELSE dirtyT[s][t] = Clean
               /\ ViewT(s) = addTasks(tasks, d.tasks, id[s], first)
  <1> DEFINE d == DraftOf(req[s])
             n == Len(d.tasks)
             first == nextTask - n
  <1>1. ~welcoming[s]
    BY InHandler DEF DrawnTasks, Closing, AddUserLabels
  <1>2. Drawn(s) /\ id[s] \in ProjectId
    BY DEF DrawnTasks, Drawn, IInv, SessionOK, AddedOK, Closing
  <1>3. d \in ProjectDraft
    BY SoleTypes, DraftOfType DEF DrawnTasks
  <1>4. n \in Nat
    BY <1>3 DEF ProjectDraft
  <1>5. /\ ValidDraft(d) /\ first \in 1 .. MaxTask /\ nextTask - 1 <= MaxTask
        /\ \A t \in TaskId : tasks[t] # NoRow => t < first
        /\ dirtyT[s] = addTasks(NothingT, d.tasks, id[s], first)
    BY <1>1 DEF Sole, SoleAdd, DrawnTasks
  <1>6. n >= 1 /\ ValidTasks(d)
    BY <1>4, <1>5 DEF ValidDraft
  <1>7. first \in Nat /\ first >= 1 /\ first + n - 1 = nextTask - 1
    BY <1>4, <1>5 DEF IInv, TypeOK
  <1>8. NothingT \in [TaskId -> TaskRow \cup {NoRow, Clean}]
    BY DEF NothingT
  <1> HIDE DEF n, first, d
  <1>9. \A t \in TaskId :
          IF t \in first .. first + Len(d.tasks) - 1
          THEN dirtyT[s][t] \in TaskRow
          ELSE dirtyT[s][t] = NothingT[t]
    BY <1>2, <1>3, <1>5, <1>6, <1>7, <1>8, AddTasksRows
  <1>10. \A t \in TaskId :
          IF t \in first .. nextTask - 1
          THEN dirtyT[s][t] # Clean
          ELSE dirtyT[s][t] = Clean
    BY <1>7, <1>9, CleanAssumption DEF n, NothingT
  <1>11. ViewT(s) = addTasks(tasks, d.tasks, id[s], first)
    <2>1. \A t \in TaskId : ViewT(s)[t] = addTasks(tasks, d.tasks, id[s], first)[t]
      BY <1>5, <1>7, <1>10 DEF ViewT, addTasks, n
    <2> QED
      BY <2>1 DEF ViewT, addTasks
  <1> QED
    BY <1>1, <1>2, <1>3, <1>4, <1>5, <1>6, <1>7, <1>10, <1>11 DEF n, first, d

\* The next id of a task, as the abstract server has it.
LEMMA SerialTaskIs ==
    ASSUME OneSession, IInv, SoleInv, NEW s \in Session
    PROVE  SerialNextTask = IF DrawnTasks(s) THEN nextTask - Len(DraftOf(req[s]).tasks) ELSE nextTask
  <1> DEFINE set == {t \in TaskId : \E z \in Session : dirtyT[z][t] # Clean /\ tasks[t] = NoRow}
             first == nextTask - Len(DraftOf(req[s]).tasks)
  <1>1. SerialNextTask = FirstOr(set, nextTask)
    BY DEF SerialNextTask
  <1>2. \A z \in Session : z = s
    BY DEF OneSession
  <1>3. CASE DrawnTasks(s)
    <2>1. Sole(s)
      BY DEF SoleInv
    <2>2. /\ first \in Nat /\ first >= 1 /\ nextTask - 1 <= MaxTask
          /\ Len(DraftOf(req[s]).tasks) \in Nat /\ Len(DraftOf(req[s]).tasks) >= 1
          /\ \A t \in TaskId : tasks[t] # NoRow => t < first
          /\ \A t \in TaskId : IF t \in first .. nextTask - 1
                               THEN dirtyT[s][t] # Clean ELSE dirtyT[s][t] = Clean
      BY <1>3, <2>1, DrawnTasksIs
    <2>3. nextTask \in Nat /\ MaxTask \in Nat
      BY BoundsAssumption DEF IInv, TypeOK
    <2>4. first <= nextTask - 1
      BY <2>2, <2>3
    <2> HIDE DEF first
    <2>5. \A t \in first .. nextTask - 1 : t \in TaskId
      BY <2>2, <2>3 DEF TaskId
    <2>6. \A t \in first .. nextTask - 1 : tasks[t] = NoRow
      BY <2>2, <2>3, <2>5
    <2>7. set = first .. nextTask - 1
      BY <1>2, <2>2, <2>5, <2>6
    <2>8. first \in Int /\ nextTask - 1 \in Int
      BY <2>2, <2>3
    <2> HIDE DEF set
    <2>9. FirstOr(first .. nextTask - 1, nextTask) = first
      BY <2>4, <2>8, FirstOrIs
    <2>10. SerialNextTask = first
      BY <1>1, <2>7, <2>9
    <2> QED
      BY <1>3, <2>10 DEF first
  <1>4. CASE ~DrawnTasks(s)
    <2>1. \A t \in TaskId : dirtyT[s][t] # Clean => tasks[t] # NoRow
      <3> SUFFICES ASSUME NEW t \in TaskId, dirtyT[s][t] # Clean, tasks[t] = NoRow PROVE FALSE
        OBVIOUS
      <3>1. ChangedT(s, t)
        BY DEF IInv, SessionOK, WrittenT
      <3>2. Active(s)
        BY DEF IInv, SessionOK, IdleOK, NothingT
      <3> QED
        BY <1>4, <3>1, <3>2 DEF ChangedT, DrawnTasks, Closing
    <2>2. set = {}
      BY <1>2, <2>1
    <2> QED
      BY <1>1, <1>4, <2>2, FirstOrIs
  <1> QED
    BY <1>3, <1>4

\* The two sequences as the abstract server has them.
SerialIs ==
    \A s \in Session :
        /\ SerialNextProject = IF Drawn(s) THEN id[s] ELSE nextProject
        /\ SerialNextTask = IF DrawnTasks(s) THEN nextTask - Len(DraftOf(req[s]).tasks) ELSE nextTask

\* They follow from the invariants,
LEMMA SerialValues == OneSession /\ IInv /\ SoleInv => SerialIs
  BY SerialProjectIs, SerialTaskIs DEF SerialIs

\* after a step, too.
LEMMA SerialValuesNext ==
    ASSUME OneSession
    PROVE  IInv' /\ SoleInv' => SerialIs'
  BY SerialValues, PTL

-----------------------------------------------------------------------------
(* The server of one session implements TaskManager.                       *)

\* The welcome of TaskManager is what the session found.
LEMMA WelcomeIs ==
    ASSUME NEW s \in Session
    PROVE  Serial!Welcome(req[s].uid) = Greeted(s)
  BY DEF Serial!Welcome, Greeted, Serial!CanAddUser, Serial!VerifyOwnership, Serial!PublicProject,
         Serial!WithUser, Serial!updateUsers, Serial!addUser,
         CanAddUser, VerifyOwnership, PublicProject, WithUser, updateUsers, addUser

\* A session that commits.
Commits(s) ==
    /\ Active(s) /\ ~welcoming[s] /\ pc[s] = "commit"
    /\ req[s] \in Requests
    /\ projects' = ViewP(s) /\ tasks' = ViewT(s)
    /\ SerialNextProject' = nextProject /\ SerialNextTask' = nextTask

\* What a commit does to the abstract state.
LEMMA CommitIs ==
    ASSUME IInv, SerialIs', NEW s \in Session, Commit(s)
    PROVE  Commits(s)
  <1>1. pc[s] = "commit" /\ Active(s) /\ Finish(s) /\ projects' = ViewP(s) /\ tasks' = ViewT(s)
    BY DEF Commit, Active
  <1>2. ~welcoming[s]
    BY <1>1, InHandler DEF AddUserLabels
  <1>3. pc'[s] = "idle" /\ nextProject' = nextProject /\ nextTask' = nextTask
    BY <1>1 DEF Finish, sequences, IInv, TypeOK
  <1>4. ~Drawn(s)' /\ ~DrawnTasks(s)'
    BY <1>3 DEF Drawn, DrawnTasks, Active
  <1>5. SerialNextProject' = nextProject /\ SerialNextTask' = nextTask
    BY <1>3, <1>4 DEF SerialIs
  <1>6. req[s] \in Requests
    BY <1>1, SoleTypes
  <1> QED
    BY <1>1, <1>2, <1>5, <1>6 DEF Commits

\* Only a request that adds a project draws ids.
LEMMA KeepsSequences ==
    ASSUME SerialIs, NEW s \in Session, Commits(s), req[s].op \notin AddOps
    PROVE  SerialNextProject' = SerialNextProject /\ SerialNextTask' = SerialNextTask
  BY DEF SerialIs, Commits, Drawn, DrawnTasks

\* Committed, a reading request is TaskManager's GetProjects or GetProject,
LEMMA SerialGets ==
    ASSUME IInv, SerialIs, NEW s \in Session, Sole(s), Commits(s),
           req[s].op \in {"getProjects", "getProject"}
    PROVE  Serial!Next
  <1> DEFINE r == req[s]
  <1>1. r.uid \in User /\ (r.op = "getProject" => r.project \in ProjectId)
    BY RequestFields DEF Commits, ProjectOps
  <1>2. ViewP(s) = Greeted(s) /\ dirtyT[s] = NothingT
    BY DEF Commits, Sole, SoleBefore
  <1>3. ViewT(s) = tasks
    BY <1>2, SeesTasks DEF IInv
  <1>4. projects' = Serial!Welcome(r.uid) /\ tasks' = tasks
    BY <1>2, <1>3, WelcomeIs DEF Commits
  <1>5. SerialNextProject' = SerialNextProject /\ SerialNextTask' = SerialNextTask
    BY KeepsSequences DEF AddOps
  <1>6. CASE r.op = "getProjects"
    <2>1. Serial!GetProjects(r.uid)
      BY <1>4, <1>5 DEF Serial!GetProjects, Serial!sequences
    <2> QED
      BY <1>1, <2>1 DEF Serial!Next
  <1>7. CASE r.op = "getProject"
    <2>1. VerifyMembershipProject(Greeted(s), r.project, r.uid)
      BY <1>7 DEF Commits, Sole, SoleGet
    <2>2. Serial!VerifyMembershipProject(Serial!Welcome(r.uid), r.project, r.uid)
      BY <2>1, WelcomeIs DEF VerifyMembershipProject, Serial!VerifyMembershipProject
    <2>3. Serial!GetProject(r.uid, r.project)
      BY <1>4, <1>5, <2>2 DEF Serial!GetProject, Serial!sequences
    <2>4. Serial!ProjectRequest(r.uid, r.project)
      BY <2>3 DEF Serial!ProjectRequest
    <2> QED
      BY <1>1, <1>7, <2>4 DEF Serial!Next, ProjectId, Serial!ProjectId
  <1> QED
    BY <1>6, <1>7

\* one about a member its AddUser or RemoveUser,
LEMMA SerialUsers ==
    ASSUME IInv, SerialIs, NEW s \in Session, Sole(s), Commits(s),
           req[s].op \in {"addUser", "removeUser"}
    PROVE  Serial!Next
  <1> DEFINE r == req[s]
             p == r.project
             W == Serial!Welcome(r.uid)
  <1>1. r.uid \in User /\ p \in ProjectId /\ r.user \in User
    BY RequestFields DEF Commits, ProjectOps
  <1>2. W = Greeted(s)
    BY WelcomeIs
  <1>3. SerialNextProject' = SerialNextProject /\ SerialNextTask' = SerialNextTask
    BY KeepsSequences DEF AddOps
  <1>4. pc[s] \in Closing /\ projects' = ViewP(s) /\ tasks' = ViewT(s) /\ Active(s) /\ ~welcoming[s]
    BY DEF Commits, Closing
  <1> HIDE DEF W
  <1>5. CASE r.op = "addUser"
    <2>1. CanAddUser(W, p, r.user, r.uid) /\ projects' = WithUser(W, p, r.user) /\ dirtyT[s] = NothingT
      BY <1>2, <1>4, <1>5 DEF Sole, SoleAddUser
    <2>2. tasks' = tasks
      BY <1>4, <2>1, SeesTasks DEF IInv
    <2>3. Serial!CanAddUser(W, p, r.user, r.uid) /\ projects' = Serial!WithUser(W, p, r.user)
      BY <2>1 DEF CanAddUser, Serial!CanAddUser, VerifyOwnership, Serial!VerifyOwnership,
         WithUser, Serial!WithUser, updateUsers, Serial!updateUsers, addUser, Serial!addUser
    <2>4. Serial!AddUser(r.uid, p, r.user)
      BY <1>3, <2>2, <2>3 DEF Serial!AddUser, Serial!sequences, W
    <2>5. Serial!ProjectRequest(r.uid, p)
      BY <1>1, <2>4 DEF Serial!ProjectRequest
    <2> QED
      BY <1>1, <2>5 DEF Serial!Next, ProjectId, Serial!ProjectId
  <1>6. CASE r.op = "removeUser"
    <2>1. /\ CanRemoveUser(W, p, r.uid, r.user)
          /\ projects' = [W EXCEPT ![p] = updateUsers(@, removeUser(@.users, r.user))]
          /\ \A t \in TaskId : tasks'[t] = Swept(s, t)
      BY <1>2, <1>4, <1>6 DEF Sole, SoleRemoveUser
    <2>2. Serial!CanRemoveUser(W, p, r.uid, r.user)
      BY <2>1 DEF CanRemoveUser, Serial!CanRemoveUser, CanBeRemoved, Serial!CanBeRemoved,
         VerifyMembershipProject, Serial!VerifyMembershipProject, VerifyOwnership,
         Serial!VerifyOwnership
    <2>3. projects' = [W EXCEPT ![p] = Serial!updateUsers(@, Serial!removeUser(@.users, r.user))]
      BY <2>1 DEF updateUsers, Serial!updateUsers, removeUser, Serial!removeUser
    <2>4. tasks' = [t \in TaskId |-> Swept(s, t)]
      BY <1>4, <2>1 DEF ViewT
    <2>5. tasks' = [t \in Serial!TaskId |->
                      IF t \in Serial!GetTasks(tasks, p) /\ Serial!VerifyAssignment(tasks, t, r.user)
                      THEN Serial!unassignUser(tasks[t]) ELSE tasks[t]]
      BY <2>4 DEF Swept, TaskId, Serial!TaskId, GetTasks, Serial!GetTasks, VerifyAssignment,
         Serial!VerifyAssignment, unassignUser, Serial!unassignUser
    <2>6. Serial!RemoveUser(r.uid, p, r.user)
      BY <1>3, <2>2, <2>3, <2>5 DEF Serial!RemoveUser, Serial!sequences, W
    <2>7. Serial!ProjectRequest(r.uid, p)
      BY <1>1, <2>6 DEF Serial!ProjectRequest
    <2> QED
      BY <1>1, <2>7 DEF Serial!Next, ProjectId, Serial!ProjectId
  <1> QED
    BY <1>5, <1>6

\* one of the owner its DeleteProject, UpdateName or UpdateDescription,
LEMMA SerialOwner ==
    ASSUME IInv, SerialIs, NEW s \in Session, Sole(s), Commits(s),
           req[s].op \in {"deleteProject", "updateName", "updateDescription"}
    PROVE  Serial!Next
  <1> DEFINE r == req[s]
             p == r.project
             W == Serial!Welcome(r.uid)
  <1>1. r.uid \in User /\ p \in ProjectId
    BY RequestFields DEF Commits, ProjectOps
  <1>2. W = Greeted(s)
    BY WelcomeIs
  <1>3. SerialNextProject' = SerialNextProject /\ SerialNextTask' = SerialNextTask
    BY KeepsSequences DEF AddOps
  <1>4. pc[s] \in Closing /\ projects' = ViewP(s) /\ tasks' = ViewT(s) /\ Active(s) /\ ~welcoming[s]
    BY DEF Commits, Closing
  <1>5. r.op # "deleteProject" => r.text \in Texts
    BY RequestsAssumption DEF Commits, RequestType
  <1> HIDE DEF W
  <1>6. CASE r.op = "deleteProject"
    <2>1. /\ VerifyMembershipProject(W, p, r.uid) /\ VerifyOwnership(W, p, r.uid)
          /\ projects' = delete(W, p) /\ tasks' = cascade(tasks, p)
      BY <1>2, <1>4, <1>6 DEF Sole, SoleDelete
    <2>2. Serial!VerifyMembershipProject(W, p, r.uid) /\ Serial!VerifyOwnership(W, p, r.uid)
      BY <2>1 DEF VerifyMembershipProject, Serial!VerifyMembershipProject, VerifyOwnership,
         Serial!VerifyOwnership
    <2>3. projects' = Serial!delete(W, p) /\ tasks' = Serial!cascade(tasks, p)
      BY <2>1 DEF delete, Serial!delete, cascade, Serial!cascade, TaskId, Serial!TaskId, GetTasks,
         Serial!GetTasks
    <2>4. Serial!DeleteProject(r.uid, p)
      BY <1>3, <2>2, <2>3 DEF Serial!DeleteProject, Serial!sequences, W
    <2>5. Serial!ProjectRequest(r.uid, p)
      BY <2>4 DEF Serial!ProjectRequest
    <2> QED
      BY <1>1, <2>5 DEF Serial!Next, ProjectId, Serial!ProjectId
  <1>7. CASE r.op = "updateName"
    <2>1. /\ VerifyOwnership(W, p, r.uid) /\ ValidName(r.text) /\ dirtyT[s] = NothingT
          /\ projects' = [W EXCEPT ![p] = updateName(@, FirstLine(r.text))]
      BY <1>2, <1>4, <1>7 DEF Sole, SoleText
    <2>2. tasks' = tasks
      BY <1>4, <2>1, SeesTasks DEF IInv
    <2>3. Serial!VerifyOwnership(W, p, r.uid) /\ Serial!ValidName(r.text)
      BY <2>1 DEF VerifyOwnership, Serial!VerifyOwnership, ValidName, Serial!ValidName, IsBlank,
         Serial!IsBlank, FirstLine, Serial!FirstLine
    <2>4. projects' = [W EXCEPT ![p] = Serial!updateName(@, Serial!FirstLine(r.text))]
      BY <2>1 DEF updateName, Serial!updateName, FirstLine, Serial!FirstLine
    <2>5. Serial!UpdateName(r.uid, p, r.text)
      BY <1>3, <2>2, <2>3, <2>4 DEF Serial!UpdateName, Serial!sequences, W
    <2>6. Serial!ProjectRequest(r.uid, p)
      BY <1>5, <1>7, <2>5 DEF Serial!ProjectRequest
    <2> QED
      BY <1>1, <2>6 DEF Serial!Next, ProjectId, Serial!ProjectId
  <1>8. CASE r.op = "updateDescription"
    <2>1. /\ VerifyOwnership(W, p, r.uid) /\ ValidDescription(r.text) /\ dirtyT[s] = NothingT
          /\ projects' = [W EXCEPT ![p] = updateDescription(@, r.text)]
      BY <1>2, <1>4, <1>8 DEF Sole, SoleText
    <2>2. tasks' = tasks
      BY <1>4, <2>1, SeesTasks DEF IInv
    <2>3. Serial!VerifyOwnership(W, p, r.uid) /\ Serial!ValidDescription(r.text)
      BY <2>1 DEF VerifyOwnership, Serial!VerifyOwnership, ValidDescription,
         Serial!ValidDescription, IsBlank, Serial!IsBlank, TooLong, Serial!TooLong
    <2>4. projects' = [W EXCEPT ![p] = Serial!updateDescription(@, r.text)]
      BY <2>1 DEF updateDescription, Serial!updateDescription
    <2>5. Serial!UpdateDescription(r.uid, p, r.text)
      BY <1>3, <2>2, <2>3, <2>4 DEF Serial!UpdateDescription, Serial!sequences, W
    <2>6. Serial!ProjectRequest(r.uid, p)
      BY <1>5, <1>8, <2>5 DEF Serial!ProjectRequest
    <2> QED
      BY <1>1, <2>6 DEF Serial!Next, ProjectId, Serial!ProjectId
  <1> QED
    BY <1>6, <1>7, <1>8

\* one about a task its AssignUser, UnassignUser or SetProcessPoints,
LEMMA SerialTasks ==
    ASSUME IInv, SerialIs, NEW s \in Session, Sole(s), Commits(s), req[s].op \in TaskOps
    PROVE  Serial!Next
  <1> DEFINE r == req[s]
             t == r.task
             W == Serial!Welcome(r.uid)
  <1>1. /\ r.uid \in User /\ t \in TaskId
        /\ r.op = "setProcessPoints" => r.points \in Points
    BY RequestFields DEF Commits, TaskOps
  <1>2. W = Greeted(s)
    BY WelcomeIs
  <1>3. SerialNextProject' = SerialNextProject /\ SerialNextTask' = SerialNextTask
    BY KeepsSequences DEF AddOps, TaskOps
  <1>4. pc[s] \in Closing /\ tasks' = ViewT(s) /\ Active(s) /\ ~welcoming[s]
    BY DEF Commits, Closing
  <1>5. projects' = W
    BY <1>2, <1>4 DEF Commits, Sole, SoleTask, TaskOps
  <1> HIDE DEF W
  <1>6. CASE r.op = "assignUser"
    <2>1. Assignable(tasks, t) /\ tasks' = [tasks EXCEPT ![t] = assignUser(@, r.uid)]
      BY <1>4, <1>6 DEF Sole, SoleTask, TaskOps
    <2>2. Serial!AssignUser(r.uid, t)
      BY <1>3, <1>5, <2>1 DEF Serial!AssignUser, Serial!sequences, Assignable, Serial!Assignable,
         assignUser, Serial!assignUser, W
    <2>3. Serial!TaskRequest(r.uid, t)
      BY <2>2 DEF Serial!TaskRequest
    <2> QED
      BY <1>1, <2>3 DEF Serial!Next, TaskId, Serial!TaskId
  <1>7. CASE r.op = "unassignUser"
    <2>1. VerifyAssignment(tasks, t, r.uid) /\ tasks' = [tasks EXCEPT ![t] = unassignUser(@)]
      BY <1>4, <1>7 DEF Sole, SoleTask, TaskOps
    <2>2. Serial!UnassignUser(r.uid, t)
      BY <1>3, <1>5, <2>1 DEF Serial!UnassignUser, Serial!sequences, VerifyAssignment,
         Serial!VerifyAssignment, unassignUser, Serial!unassignUser, W
    <2>3. Serial!TaskRequest(r.uid, t)
      BY <2>2 DEF Serial!TaskRequest
    <2> QED
      BY <1>1, <2>3 DEF Serial!Next, TaskId, Serial!TaskId
  <1>8. CASE r.op = "setProcessPoints"
    <2>1. /\ MaySetProcessPoints(W, tasks, r.uid, t) /\ InRange(tasks[t], r.points)
          /\ tasks' = [tasks EXCEPT ![t] = setProcessPoints(@, r.points)]
      BY <1>2, <1>4, <1>8 DEF Sole, SoleTask, TaskOps
    <2>2. Serial!MaySetProcessPoints(W, tasks, r.uid, t)
      BY <2>1 DEF MaySetProcessPoints, Serial!MaySetProcessPoints, AssignmentInTaskDefined,
         Serial!AssignmentInTaskDefined, AssignmentInTaskNeeded, Serial!AssignmentInTaskNeeded,
         AssignmentInProjectNeeded, Serial!AssignmentInProjectNeeded, OneEntry, Serial!OneEntry,
         VerifyAssignment, Serial!VerifyAssignment, VerifyMembershipTask,
         Serial!VerifyMembershipTask, VerifyMembershipProject, Serial!VerifyMembershipProject
    <2>3. Serial!SetProcessPoints(r.uid, t, r.points)
      BY <1>3, <1>5, <2>1, <2>2 DEF Serial!SetProcessPoints, Serial!sequences, InRange,
         Serial!InRange, setProcessPoints, Serial!setProcessPoints, W
    <2>4. Serial!TaskRequest(r.uid, t)
      BY <1>1, <1>8, <2>3 DEF Serial!TaskRequest
    <2> QED
      BY <1>1, <2>4 DEF Serial!Next, TaskId, Serial!TaskId
  <1> QED
    BY <1>6, <1>7, <1>8 DEF TaskOps

\* The drafts of the abstract server.
LEMMA SerialDraft ==
    ASSUME NEW d
    PROVE  /\ ValidDraft(d) => Serial!ValidDraft(d)
           /\ ValidProject(d) => Serial!ValidProject(d)
           /\ ValidTasks(d) => Serial!ValidTasks(d)
           /\ \A u : Serial!ImportDraft(u, d) = ImportDraft(u, d)
           /\ addProject(d) = Serial!addProject(d)
           /\ \A p, first : addTasks(tasks, d.tasks, p, first) = Serial!addTasks(tasks, d.tasks, p, first)
  <1>1. ValidProject(d) => Serial!ValidProject(d)
    BY DEF ValidProject, Serial!ValidProject, TooLong, Serial!TooLong
  <1>2. ValidTasks(d) => Serial!ValidTasks(d)
    BY DEF ValidTasks, Serial!ValidTasks
  <1>3. ValidDraft(d) => Serial!ValidDraft(d)
    BY <1>1, <1>2 DEF ValidDraft, Serial!ValidDraft
  <1>4. \A u : Serial!ImportDraft(u, d) = ImportDraft(u, d)
    BY DEF Serial!ImportDraft, ImportDraft, Serial!addUser, addUser
  <1>5. addProject(d) = Serial!addProject(d)
    BY DEF addProject, Serial!addProject
  <1>6. \A p, first : addTasks(tasks, d.tasks, p, first) = Serial!addTasks(tasks, d.tasks, p, first)
    BY DEF addTasks, Serial!addTasks, addTask, Serial!addTask, TaskId, Serial!TaskId
  <1> QED
    BY <1>1, <1>2, <1>3, <1>4, <1>5, <1>6

\* and one that adds a project its AddProject or ImportProject: the ids it has drawn are
\* the next ones of the abstract server.
LEMMA SerialAdds ==
    ASSUME IInv, SerialIs, NEW s \in Session, Sole(s), Commits(s), req[s].op \in AddOps
    PROVE  Serial!Next
  <1> DEFINE r == req[s]
             d == DraftOf(r)
             W == Serial!Welcome(r.uid)
             n == Len(d.tasks)
             first == nextTask - n
  <1>1. r.uid \in User /\ r.draft \in Drafts
    BY RequestFields DEF Commits
  <1>2. W = Greeted(s)
    BY WelcomeIs
  <1>3. DrawnTasks(s)
    BY DEF Commits, DrawnTasks, Closing
  <1>4. /\ Drawn(s) /\ ValidDraft(d) /\ n \in Nat
        /\ first \in Nat /\ nextTask - 1 <= MaxTask
        /\ ViewT(s) = addTasks(tasks, d.tasks, id[s], first)
    BY <1>3, DrawnTasksIs
  <1>5. SerialNextProject = id[s] /\ SerialNextTask = first
    BY <1>3, <1>4 DEF SerialIs
  <1>6. id[s] \in ProjectId
    BY <1>4 DEF Drawn, IInv, SessionOK, AddedOK
  <1>7. id[s] + 1 = nextProject /\ projects' = [W EXCEPT ![id[s]] = addProject(d)]
    BY <1>2, <1>4 DEF Commits, Sole, SoleAdd, Drawn, Closing
  <1>8. SerialNextProject' = SerialNextProject + 1
    BY <1>5, <1>7 DEF Commits
  <1>9. nextTask \in Nat
    BY DEF IInv, TypeOK
  <1>10. SerialNextTask' = SerialNextTask + Len(d.tasks) /\ SerialNextTask + Len(d.tasks) - 1 <= MaxTask
    BY <1>4, <1>5, <1>9 DEF Commits
  <1>11. SerialNextProject <= MaxProject
    BY <1>5, <1>6 DEF ProjectId
  <1>12. Serial!IdsLeft(d)
    BY <1>10, <1>11 DEF Serial!IdsLeft
  <1>13. projects' = [W EXCEPT ![SerialNextProject] = Serial!addProject(d)]
    BY <1>5, <1>7, SerialDraft
  <1>14. tasks' = Serial!addTasks(tasks, d.tasks, SerialNextProject, SerialNextTask)
    BY <1>4, <1>5, SerialDraft DEF Commits
  <1>15. Serial!ValidDraft(d)
    BY <1>4, SerialDraft
  <1> HIDE DEF d, n, first
  <1>16. Serial!AddProjectWithTasks(r.uid, d)
    BY <1>8, <1>10, <1>12, <1>13, <1>14, <1>15 DEF Serial!AddProjectWithTasks
  <1>17. Serial!AddProject(r.uid, r.draft) \/ Serial!ImportProject(r.uid, r.draft)
    <2>1. CASE r.op = "importProject"
      <3>1. d = Serial!ImportDraft(r.uid, r.draft)
        BY <2>1, SerialDraft DEF d, DraftOf
      <3> QED
        BY <1>16, <3>1 DEF Serial!ImportProject
    <2>2. CASE r.op = "addProject"
      BY <1>16, <2>2 DEF d, DraftOf, Serial!AddProject
    <2> QED
      BY <2>1, <2>2 DEF AddOps
  <1> QED
    BY <1>1, <1>17 DEF Serial!Next

\* So every commit is a step of TaskManager.
LEMMA SerialCommit ==
    ASSUME IInv, SerialIs, SerialIs', NEW s \in Session, Sole(s), Commit(s)
    PROVE  Serial!Next
  <1>1. Commits(s)
    BY CommitIs
  <1>2. req[s].op \in Ops
    BY <1>1, RequestFields DEF Commits
  <1> QED
    BY <1>1, <1>2, SerialGets, SerialUsers, SerialOwner, SerialTasks, SerialAdds
       DEF Ops, ProjectOps, AddOps, TaskOps

\* A rollback or crash is none, unless ids were drawn: then it is AddProjectRolledBack.
LEMMA SerialEnds ==
    ASSUME IInv, SerialIs, SerialIs', NEW s \in Session, Sole(s), Rollback(s) \/ Crash(s)
    PROVE  Serial!Next \/ UNCHANGED Serial!vars
  <1> DEFINE r == req[s]
             d == DraftOf(r)
             n == IF DrawnTasks(s) THEN Len(d.tasks) ELSE 0
  <1>1. Finish(s) /\ UNCHANGED <<projects, tasks>> /\ Active(s)
    BY DEF Rollback, Crash, database, Active
  <1>2. pc'[s] = "idle" /\ nextProject' = nextProject /\ nextTask' = nextTask
    BY <1>1 DEF Finish, sequences, IInv, TypeOK
  <1>3. ~Drawn(s)' /\ ~DrawnTasks(s)'
    BY <1>2 DEF Drawn, DrawnTasks, Active
  <1>4. SerialNextProject' = nextProject /\ SerialNextTask' = nextTask
    BY <1>2, <1>3 DEF SerialIs
  <1>5. DrawnTasks(s) => Drawn(s)
    BY DrawnTasksIs
  <1>6. CASE ~Drawn(s)
    BY <1>1, <1>4, <1>5, <1>6 DEF SerialIs, Serial!vars
  <1>7. CASE Drawn(s)
    <2>1. r.uid \in User /\ r.draft \in Drafts /\ d \in ProjectDraft
      BY <1>1, <1>7, SoleTypes, RequestFields, DraftOfType DEF Drawn
    <2>2. id[s] \in ProjectId /\ ~welcoming[s]
      BY <1>7 DEF Drawn, IInv, SessionOK, AddedOK, ControlOK
    <2>3. id[s] + 1 = nextProject /\ Len(d.tasks) <= MaxTasksPerProject /\ ValidProject(d)
      BY <1>7, <2>2 DEF Sole, SoleAdd, Drawn
    <2>4. SerialNextProject = id[s] /\ SerialNextTask = nextTask - n
      BY <1>7 DEF SerialIs, IInv, TypeOK
    <2>5. Len(d.tasks) \in Nat /\ n \in 0 .. Len(d.tasks)
      BY <2>1 DEF ProjectDraft
    <2>6. DrawnTasks(s) => ValidTasks(d) /\ nextTask - 1 <= MaxTask
      BY DrawnTasksIs DEF ValidDraft
    <2>7. nextTask \in Nat
      BY DEF IInv, TypeOK
    <2>8. n > 0 => Serial!ValidTasks(d) /\ SerialNextTask + n - 1 <= MaxTask
      BY <2>4, <2>5, <2>6, <2>7, SerialDraft
    <2>9. SerialNextTask' = SerialNextTask + n /\ SerialNextProject' = SerialNextProject + 1
      BY <1>4, <2>3, <2>4, <2>5, <2>7
    <2>10. SerialNextProject <= MaxProject /\ Serial!ValidProject(d)
      BY <2>2, <2>3, <2>4, SerialDraft DEF ProjectId
    <2> HIDE DEF d, n
    <2>11. Serial!AddProjectRolledBack(d)
      BY <1>1, <2>3, <2>5, <2>8, <2>9, <2>10 DEF Serial!AddProjectRolledBack
    <2>12. d = r.draft \/ d = Serial!ImportDraft(r.uid, r.draft)
      BY SerialDraft DEF d, DraftOf
    <2> QED
      BY <2>1, <2>11, <2>12 DEF Serial!Next
  <1> QED
    BY <1>6, <1>7

\* A statement that draws no id.
LEMMA DrawsNone ==
    ASSUME IInv, IInv', SerialIs, SerialIs', NEW s \in Session,
           UNCHANGED <<projects, tasks, nextProject, nextTask>>,
           req'[s].op \in AddOps /\ pc'[s] # "idle" =>
             req'[s] = req[s] /\ id'[s] = id[s] /\ Active(s) /\ (pc[s] \in Closing <=> pc'[s] \in Closing),
           Active(s) /\ req[s].op \in AddOps => req'[s] = req[s] /\ pc'[s] # "idle"
    PROVE  UNCHANGED Serial!vars
  <1>1. (Drawn(s) <=> Drawn(s)') /\ (DrawnTasks(s) <=> DrawnTasks(s)')
    BY DEF Drawn, DrawnTasks, Active
  <1>2. Drawn(s)' => id'[s] = id[s]
    BY DEF Drawn, Active
  <1>3. DrawnTasks(s)' => DraftOf(req[s])' = DraftOf(req[s])
    BY DEF DrawnTasks, Active, DraftOf
  <1>4. SerialNextProject' = SerialNextProject /\ SerialNextTask' = SerialNextTask
    BY <1>1, <1>2, <1>3 DEF SerialIs
  <1> QED
    BY <1>4 DEF Serial!vars

\* The id of a project counts as drawn when the request ends, not when it is drawn,
LEMMA SerialInsert ==
    ASSUME IInv, IInv', SerialIs, SerialIs', NEW s \in Session, AddProjectInsert(s)
    PROVE  UNCHANGED Serial!vars
  <1>1. /\ pc[s] = "AddProject" /\ Active(s) /\ UNCHANGED <<projects, tasks, nextTask, req>>
        /\ req[s].op \in AddOps /\ id[s] = 0 /\ ~welcoming[s]
    BY InHandler DEF AddProjectInsert, Active, database, AddUserLabels, IInv, SessionOK, AddedOK,
       ControlOK
  <1>2. SerialNextProject = nextProject /\ SerialNextTask = nextTask
    BY <1>1 DEF SerialIs, Drawn, DrawnTasks, Closing
  <1>3. CASE nextProject' = nextProject + 1 /\ id' = [id EXCEPT ![s] = nextProject] /\ Goto(s, "AddTasks")
    <2>1. At(s, "AddTasks")
      BY <1>1, <1>3, GoesAt DEF database
    <2>2. id'[s] = nextProject /\ nextProject # 0
      BY <1>3 DEF IInv, TypeOK
    <2>3. Drawn(s)' /\ ~DrawnTasks(s)'
      BY <1>1, <2>1, <2>2 DEF Drawn, DrawnTasks, At, Closing, Active
    <2> QED
      BY <1>1, <1>2, <2>2, <2>3 DEF SerialIs, Serial!vars
  <1>4. CASE Fail(s) /\ UNCHANGED <<nextProject, id>>
    <2>1. id'[s] = 0 /\ pc'[s] = "rollback"
      BY <1>1, <1>4 DEF Fail, Goto, IInv, TypeOK
    <2>2. ~Drawn(s)' /\ ~DrawnTasks(s)'
      BY <2>1 DEF Drawn, DrawnTasks, Closing
    <2> QED
      BY <1>1, <1>2, <1>4, <2>2 DEF SerialIs, Serial!vars
  <1> QED
    BY <1>3, <1>4 DEF AddProjectInsert

\* and so do the ids of its tasks.
LEMMA SerialInsertTasks ==
    ASSUME IInv, IInv', SerialIs, SerialIs', NEW s \in Session, AddTasksInsert(s)
    PROVE  UNCHANGED Serial!vars
  <1> DEFINE d == DraftOf(req[s])
  <1>1. /\ pc[s] = "AddTasks" /\ Active(s) /\ UNCHANGED <<projects, tasks, nextProject, req, id>>
        /\ req[s].op \in AddOps /\ id[s] # 0 /\ ~welcoming[s]
    BY InHandler DEF AddTasksInsert, Active, database, locals, AddUserLabels, IInv, SessionOK,
       AddedOK, ControlOK
  <1>2. SerialNextProject = id[s] /\ SerialNextTask = nextTask
    BY <1>1 DEF SerialIs, Drawn, DrawnTasks, Closing
  <1>3. Len(d.tasks) \in Nat
    BY <1>1, SoleTypes, DraftOfType DEF ProjectDraft
  <1>4. CASE nextTask' = nextTask + Len(d.tasks) /\ Goto(s, "send")
    <2>1. At(s, "send")
      BY <1>1, <1>4, GoesAt DEF database
    <2>2. Drawn(s)' /\ DrawnTasks(s)'
      BY <1>1, <2>1 DEF Drawn, DrawnTasks, At, Closing, Active
    <2>3. DraftOf(req[s])' = d
      BY <1>1 DEF DraftOf
    <2>4. nextTask' - Len(d.tasks) = nextTask
      BY <1>3, <1>4 DEF IInv, TypeOK
    <2> HIDE DEF d
    <2>5. SerialNextTask' = nextTask /\ SerialNextProject' = id[s]
      BY <1>1, <2>2, <2>3, <2>4 DEF SerialIs
    <2> QED
      BY <1>1, <1>2, <2>5 DEF Serial!vars
  <1>5. CASE Fail(s) /\ UNCHANGED nextTask
    <2>1. pc'[s] = "rollback"
      BY <1>1, <1>5 DEF Fail, Goto, IInv, TypeOK
    <2>2. Drawn(s)' /\ ~DrawnTasks(s)'
      BY <1>1, <2>1 DEF Drawn, DrawnTasks, Closing, Active
    <2> QED
      BY <1>1, <1>2, <1>5, <2>2 DEF SerialIs, Serial!vars
  <1> QED
    BY <1>4, <1>5 DEF AddTasksInsert

\* No statement before the end of the request is seen by TaskManager.
LEMMA SerialStatement ==
    ASSUME IInv, IInv', SerialIs, SerialIs', NEW s \in Session, Statement(s)
    PROVE  UNCHANGED Serial!vars
  <1>1. CASE AddProjectInsert(s)
    BY <1>1, SerialInsert
  <1>2. CASE AddTasksInsert(s)
    BY <1>2, SerialInsertTasks
  <1>3. CASE Send(s)
    <2>1. /\ UNCHANGED <<projects, tasks, nextProject, nextTask, req, id>>
          /\ pc[s] = "send" /\ pc'[s] = "commit"
      BY <1>3 DEF Send, Goto, database, sequences, locals, IInv, TypeOK
    <2> QED
      BY <2>1, DrawsNone DEF Closing, Active
  <1>4. CASE AddUserCheck(s) \/ AddUserRead(s) \/ AddUserWrite(s)
    <2>1. /\ UNCHANGED <<projects, tasks, nextProject, nextTask, req, id>>
          /\ pc[s] \in AddUserLabels
      BY <1>4 DEF AddUserCheck, AddUserRead, AddUserWrite, Verify, ReadProject, UpdateProject,
         database, sequences, locals, AddUserLabels
    <2>2. req[s].op \in AddOps => id[s] = 0
      BY <2>1 DEF IInv, SessionOK, AddedOK, Active, AddUserLabels
    <2>3. ~Drawn(s) /\ ~DrawnTasks(s)
      BY <2>1, <2>2 DEF Drawn, DrawnTasks, Closing, AddUserLabels
    <2>4. ~Drawn(s)' /\ ~DrawnTasks(s)'
      <3>1. Drawn(s)' => FALSE
        BY <2>1, <2>2 DEF Drawn
      <3>2. DrawnTasks(s)' => Drawn(s)'
        BY DEF DrawnTasks, Drawn, Active, Closing, IInv, SessionOK, AddedOK
      <3> QED
        BY <3>1, <3>2
    <2> QED
      BY <2>1, <2>3, <2>4 DEF SerialIs, Serial!vars
  <1>5. CASE \/ GetProject(s)
             \/ RemoveUserRequester(s) \/ RemoveUserRemoved(s) \/ RemoveUserRead(s)
             \/ RemoveUserWrite(s) \/ RemoveUserTasks(s) \/ RemoveUserLoop(s)
             \/ UnassignUserCheck(s) \/ UnassignUserWrite(s)
             \/ DeleteProjectRead(s) \/ DeleteProjectCheck(s) \/ DeleteProjectWrite(s)
             \/ Cascade(s)
             \/ UpdateNameCheck(s) \/ UpdateNameWrite(s)
             \/ UpdateDescriptionCheck(s) \/ UpdateDescriptionWrite(s)
             \/ AssignUserCheck(s) \/ AssignUserWrite(s)
             \/ SetProcessPointsNeeded(s) \/ SetProcessPointsAssignee(s)
             \/ SetProcessPointsMember(s) \/ SetProcessPointsWrite(s)
    <2>1. UNCHANGED <<projects, tasks, nextProject, nextTask, req>>
      BY <1>5 DEF GetProject, RemoveUserRequester, RemoveUserRemoved, RemoveUserRead,
         RemoveUserWrite, RemoveUserTasks, RemoveUserLoop, UnassignUserCheck, UnassignUserWrite,
         DeleteProjectRead, DeleteProjectCheck, DeleteProjectWrite, Cascade, UpdateNameCheck,
         UpdateNameWrite, UpdateDescriptionCheck, UpdateDescriptionWrite, AssignUserCheck,
         AssignUserWrite, SetProcessPointsNeeded, SetProcessPointsAssignee,
         SetProcessPointsMember, SetProcessPointsWrite, Verify, ReadProject, UpdateProject,
         UpdateTask, database, sequences
    <2>2. pc[s] \in {"getProject", "RemoveUser", "RemoveUser_removed", "removeUser",
                     "removeUser_UPDATE", "GetTasks", "unassign_tasks", "UnassignUser",
                     "unassignUser_UPDATE", "DeleteProject", "DeleteProject_owner", "delete",
                     "cascade", "UpdateName", "updateName_UPDATE", "UpdateDescription",
                     "updateDescription_UPDATE", "AssignUser", "assignUser_UPDATE",
                     "SetProcessPoints", "assignee", "member", "setProcessPoints_UPDATE"}
      BY <1>5 DEF GetProject, RemoveUserRequester, RemoveUserRemoved, RemoveUserRead,
         RemoveUserWrite, RemoveUserTasks, RemoveUserLoop, UnassignUserCheck, UnassignUserWrite,
         DeleteProjectRead, DeleteProjectCheck, DeleteProjectWrite, Cascade, UpdateNameCheck,
         UpdateNameWrite, UpdateDescriptionCheck, UpdateDescriptionWrite, AssignUserCheck,
         AssignUserWrite, SetProcessPointsNeeded, SetProcessPointsAssignee,
         SetProcessPointsMember, SetProcessPointsWrite, Verify, ReadProject, UpdateProject,
         UpdateTask
    <2>3. req[s].op \notin AddOps
      BY <2>2, OpAt DEF AddOps, RemoveLabels, UnassignLabels
    <2> QED
      BY <2>1, <2>3, DrawsNone
  <1> QED
    BY <1>1, <1>2, <1>3, <1>4, <1>5 DEF Statement

\* Every step of the only session is a step of TaskManager, or none.
LEMMA SerialStep ==
    ASSUME OneSession, IInv, IInv', SoleInv, SerialIs, SerialIs', [Next]_vars
    PROVE  [Serial!Next]_(Serial!vars)
  <1>1. ASSUME NEW s \in Session, Statement(s)
        PROVE  UNCHANGED Serial!vars
    BY <1>1, SerialStatement
  <1>2. ASSUME NEW s \in Session, Commit(s)
        PROVE  Serial!Next
    BY <1>2, SerialCommit DEF SoleInv
  <1>3. ASSUME NEW s \in Session, Rollback(s) \/ Crash(s)
        PROVE  Serial!Next \/ UNCHANGED Serial!vars
    BY <1>3, SerialEnds DEF SoleInv
  <1>4. ASSUME NEW s \in Session, NEW r \in Requests, Begin(s, r)
        PROVE  UNCHANGED Serial!vars
    <2>1. /\ UNCHANGED <<projects, tasks, nextProject, nextTask, id>>
          /\ ~Active(s) /\ pc'[s] = "AddUser"
      BY <1>4 DEF Begin, Active, database, sequences, locals, IInv, TypeOK
    <2>2. id'[s] = 0
      BY <2>1 DEF IInv, SessionOK, IdleOK
    <2>3. ~Drawn(s) /\ ~DrawnTasks(s) /\ ~Drawn(s)' /\ ~DrawnTasks(s)'
      BY <2>1, <2>2 DEF Drawn, DrawnTasks, Closing
    <2> QED
      BY <2>1, <2>3 DEF SerialIs, Serial!vars
  <1>5. CASE UNCHANGED vars
    <2>1. UNCHANGED <<SerialNextProject, SerialNextTask>>
      BY <1>5 DEF vars, SerialNextProject, SerialNextTask
    <2> QED
      BY <1>5, <2>1 DEF vars, Serial!vars
  <1> QED
    BY <1>1, <1>2, <1>3, <1>4, <1>5 DEF Next, Step, AllServed

\* A server on which nothing has been stored.
EmptyServer ==
    /\ InitProjects = [p \in ProjectId |-> NoRow]
    /\ InitTasks = [t \in TaskId |-> NoRow]
    /\ InitNextProject = 1
    /\ InitNextTask = 1

\* And it starts where TaskManager starts.
LEMMA SerialInit ==
    ASSUME EmptyServer, Init
    PROVE  Serial!Init
  <1>1. SerialNextProject = 1
    <2>1. {p \in ProjectId : \E s \in Session : pc[s] # "idle" /\ id[s] = p
                                   /\ req[s].op \in {"addProject", "importProject"}} = {}
      BY DEF Init
    <2> QED
      BY <2>1, FirstOrIs DEF SerialNextProject, EmptyServer, Init
  <1>2. SerialNextTask = 1
    <2>1. {t \in TaskId : \E s \in Session : dirtyT[s][t] # Clean /\ tasks[t] = NoRow} = {}
      BY DEF Init, NothingT
    <2> QED
      BY <2>1, FirstOrIs DEF SerialNextTask, EmptyServer, Init
  <1> QED
    BY <1>1, <1>2 DEF Serial!Init, EmptyServer, Init, ProjectId, TaskId, Serial!ProjectId,
       Serial!TaskId

\* With one request at a time the server, with its statements, rollbacks and crashes,
\* is TaskManager: whatever is proved of TaskManager holds of it.
THEOREM SerialServer ==
    ASSUME OneSession, EmptyServer
    PROVE  Spec => SerialSpec
  <1>1. Init => IInv /\ SoleInv /\ Serial!Init
    BY InitIInv, SoleInit, SerialInit
  <1>2. IInv /\ SoleInv /\ [Next]_vars => IInv' /\ SoleInv'
    BY StepIInv, SoleStep
  <1>3. IInv /\ SoleInv => SerialIs
    BY SerialValues
  <1>4. IInv' /\ SoleInv' => SerialIs'
    BY SerialValuesNext
  <1>5. IInv /\ SoleInv /\ [Next]_vars => [Serial!Next]_(Serial!vars)
    BY <1>2, <1>3, <1>4, SerialStep
  <1> QED
    BY <1>1, <1>2, <1>5, PTL DEF Spec, SerialSpec, Serial!Spec
=============================================================================
