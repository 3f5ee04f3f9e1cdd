------------------------------ MODULE TaskPage ------------------------------
(***************************************************************************)
(* The page of a project: the list of its tasks, the details of one, the   *)
(* map and the settings.  The TaskService keeps the selected task and      *)
(* announces selections, updates and answers to details and map, which     *)
(* keep what they were told last.  Other users work on the same tasks and  *)
(* join and leave the projects; the page is told by messages, which go out *)
(* before a change is committed, and asks for the project then.            *)
(*                                                                         *)
(* The server makes one change at a time and reads a project in one step:  *)
(* how changes interleave is the subject of Transactions, how reading      *)
(* does that of LiveUpdates.  The projects stay: one that is deleted or    *)
(* left could only make requests fail.                                     *)
(***************************************************************************)
EXTENDS Integers

CONSTANTS
    Project, Task, ProjectOf,   \* the project of each task
    me, other,                  \* the user of the tab and another one
    NoUser,
    MyProjects,                 \* the projects owned by me, the others are a third user's
    JoinedAtFirst,              \* the projects the other user is in at first
    Named,                      \* the users OpenStreetMap has a name of
    maxProcessPoints,
    Slot,                       \* bound: own requests on their way
    Get,                        \* bound: requests for a project on their way
    MaxChanges,                 \* bound: changes of the stored tasks and members
    NoCall, NoGet, NoPage, NoTask, NoProject, NoChange, NoView

ASSUME TaskPageAssumption ==
    /\ ProjectOf \in [Task -> Project]
    /\ \A p \in Project : \E t \in Task : ProjectOf[t] = p
    /\ MyProjects \subseteq Project /\ JoinedAtFirst \subseteq Project /\ Named \subseteq {me, other}
    /\ maxProcessPoints \in Nat \ {0} /\ MaxChanges \in Nat

VARIABLES
    tasks,         \* the stored tasks
    joined,        \* the projects the other user is in
    change,        \* the change that is not committed yet
    changes,       \* how many there were
    news,          \* projects of which an update is on its way to the tab
    get,           \* requests for a project on their way
    misled,        \* projects about which the page may be wrong: see Mislead
    call,          \* own requests on their way
    selectedTask,  \* TaskService: the selected task, as it was when selected
    page           \* the page and its components

stored == <<tasks, joined, change, changes>>
updates == <<news, get, misled>>
vars == <<stored, updates, call, selectedTask, page>>

-----------------------------------------------------------------------------
Points == 0 .. maxProcessPoints
Copy == [id : Task, points : Points, user : {me, other, NoUser}]
TaskOp == {"assign", "unassign", "points"}
ProjectOp == {"delete", "leave"}
Tab == {"Tasks", "Settings"} \* that of the users has no part in this

\* answer: the task as the server answers it, NoTask before.  overtaken: an
\* update of the project came in between.
Call == [op : TaskOp, task : Task, points : Points, answer : Copy \cup {NoTask}, overtaken : BOOLEAN]
        \cup [op : ProjectOp, project : Project]

\* A project as the server answers it.
View == [copies : SUBSET Copy, needsAssignment : BOOLEAN]

\* opens: the page waits for the answer, otherwise it is due to a message.
GetCall == [project : Project, opens : BOOLEAN, answer : View \cup {NoView}]

\* What a change will have made of tasks and members, and the own request it is
\* for, if any.
Row == [points : Points, user : {me, other, NoUser}]
Change == [project : Project, tasks : [Task -> Row], joined : SUBSET Project, slots : SUBSET Slot]

\* route: the project the page was opened for, whose polygons are on the map.
\* shown, view: the project it shows.  newProcessPoints is what the form of the
\* details says, typed whether the user typed it for this task.  highlighted:
\* the map's task.  deaf: the map's subscription has ended.  behind: the details
\* may be older than the stored task, see DetailsCatchUp.  action, confirming:
\* of the settings, the latter with the project the user was asked about.
Page == [route : Project, shown : Project, view : View, tab : Tab, task : Copy \cup {NoTask},
         newProcessPoints : Points, typed : Task \cup {NoTask}, highlighted : Task, deaf : BOOLEAN,
         behind : BOOLEAN, action : ProjectOp, confirming : Project \cup {NoProject}]

\* What stands for nothing is none of the values.
ASSUME NothingAssumption ==
    /\ NoCall \notin Call /\ NoPage \notin Page /\ NoGet \notin GetCall
    /\ NoChange \notin Change /\ NoView \notin View
    /\ NoTask \notin Copy \cup Task /\ NoProject \notin Project

\* A row as the service hands it to the components: with the assigned user if
\* he is among those whose name it has.
toTask(t, row, users) ==
    [id |-> t, points |-> row.points, user |-> IF row.user \in users THEN row.user ELSE NoUser]

\* In a project's tasks those are its users, in an answer all.
Users(p) == IF p \in joined THEN {me, other} ELSE {me}
CopyOf(t) == toTask(t, tasks[t], Users(ProjectOf[t]) \cap Named)

needsAssignment(p) == p \notin MyProjects \/ p \in joined
TasksOf(p) == {CopyOf(t) : t \in {u \in Task : ProjectOf[u] = p}}
ViewOf(p) == [copies |-> TasksOf(p), needsAssignment |-> needsAssignment(p)]

TypeOK ==
    /\ tasks \in [Task -> Row]
    /\ joined \subseteq Project
    /\ change \in Change \cup {NoChange}
    /\ changes \in 0 .. MaxChanges
    /\ news \subseteq Project
    /\ get \in [Get -> GetCall \cup {NoGet}]
    /\ misled \subseteq Project
    /\ call \in [Slot -> Call \cup {NoCall}]
    /\ selectedTask \in Copy \cup {NoTask}
    /\ page \in Page \cup {NoPage}

Init ==
    /\ tasks = [t \in Task |-> [points |-> 0, user |-> NoUser]]
    /\ joined = JoinedAtFirst
    /\ change = NoChange /\ changes = 0
    /\ news = {} /\ misled = {}
    /\ get = [g \in Get |-> NoGet]
    /\ call = [k \in Slot |-> NoCall]
    /\ selectedTask = NoTask
    /\ page = NoPage

\* Requests on their way: for a project, for a page.
Asking(p) == {g \in Get : get[g] # NoGet /\ get[g].project = p}
Opening == {g \in Get : get[g] # NoGet /\ get[g].opens}

\* Events after which the page may be wrong about projects until a page of them
\* is opened.  Each is named where it happens: Lost, Overtaken, TooEarly, Failed.
Mislead(projects) == misled' = misled \cup projects

-----------------------------------------------------------------------------
\* Details and map, when a task is announced: selectTask of each.  The map
\* fails to find the polygon of another project's task, which ends its
\* subscription.
DetailsSelectTask_KeepsPoints(pg, copy) == [pg EXCEPT !.task = copy]

DetailsSelectTask(pg, copy) ==
    [pg EXCEPT !.task = copy, !.newProcessPoints = copy.points, !.typed = NoTask]

\* The polygons of the tasks the page was opened with.
HasPolygon(pg, t) == ProjectOf[t] = pg.route

MapSelectTask(pg, copy) == [pg EXCEPT !.highlighted = copy.id, !.deaf = ~HasPolygon(pg, copy.id)]

selectedTaskChanged(pg, copy) ==
    LET told == IF pg.tab = "Tasks" THEN [DetailsSelectTask(pg, copy) EXCEPT !.behind = FALSE] ELSE pg
    IN  IF pg.deaf THEN told ELSE MapSelectTask(told, copy)

\* The resolver asks for the project.
OpenProject(p) ==
    /\ page = NoPage
    /\ Opening = {}
    /\ \E g \in Get : /\ get[g] = NoGet
                      /\ get' = [get EXCEPT ![g] = [project |-> p, opens |-> TRUE, answer |-> NoView]]
    /\ misled' = IF Asking(p) = {} THEN misled \ {p} ELSE misled \cup {p}
    /\ UNCHANGED <<stored, news, call, selectedTask, page>>

Back ==
    /\ page # NoPage
    /\ page' = NoPage
    /\ UNCHANGED <<stored, updates, call, selectedTask>>

\* Details and settings are made anew with their tab, from the selected task as
\* the service has it and from the project that is shown.
SelectTab(tab) ==
    /\ page # NoPage
    /\ tab # page.tab
    /\ page' = CASE tab = "Tasks" ->
                      [DetailsSelectTask(page, selectedTask) EXCEPT
                          !.tab = tab, !.behind = TRUE, !.action = "leave", !.confirming = NoProject]
                 [] tab = "Settings" ->
                      [page EXCEPT !.tab = tab, !.task = NoTask, !.newProcessPoints = 0, !.typed = NoTask,
                          !.behind = FALSE, !.action = IF page.shown \in MyProjects THEN "delete" ELSE "leave"]
    /\ UNCHANGED <<stored, updates, call, selectedTask>>

selectTask_Silently(copy) ==
    /\ selectedTask' = copy
    /\ UNCHANGED <<stored, updates, call, page>>

selectTask(copy) ==
    /\ selectedTask' = copy
    /\ page' = selectedTaskChanged(page, copy)
    /\ UNCHANGED <<stored, updates, call>>

\* The list has the tasks of the shown project, the map the polygons of the
\* project of the route.
onListItemClicked ==
    /\ page # NoPage
    /\ page.tab = "Tasks"
    /\ \E clicked \in page.view.copies : selectTask(clicked)

onMapClicked ==
    /\ page # NoPage
    /\ page.tab # "Tasks" \* where the list can do the same
    /\ \E clicked \in page.view.copies : HasPolygon(page, clicked.id) /\ selectTask(clicked)

-----------------------------------------------------------------------------
\* Requests for the task of the details.  The service refuses when the details
\* do not show its selected task.
FreeSlot == {k \in Slot : call[k] = NoCall}

Send(request) == \E k \in FreeSlot :
    /\ call' = [call EXCEPT ![k] = request]
    /\ UNCHANGED <<stored, updates, selectedTask>>

HasDetails == page # NoPage /\ page.task # NoTask

SendForTask(op, points) ==
    /\ page.task.id = selectedTask.id
    /\ UNCHANGED page
    /\ Send([op |-> op, task |-> page.task.id, points |-> points, answer |-> NoTask, overtaken |-> FALSE])

needUserAssignment == page.view.needsAssignment
MayWork == page.task.user = me \/ ~needUserAssignment

onAssignButtonClicked ==
    /\ HasDetails
    /\ needUserAssignment /\ page.task.user = NoUser
    /\ SendForTask("assign", 0)

onUnassignButtonClicked ==
    /\ HasDetails
    /\ needUserAssignment /\ page.task.user = me
    /\ SendForTask("unassign", 0)

TypePoints ==
    /\ HasDetails
    /\ MayWork
    /\ \E points \in Points \ {page.newProcessPoints} :
          page' = [page EXCEPT !.newProcessPoints = points, !.typed = page.task.id]
    /\ UNCHANGED <<stored, updates, call, selectedTask>>

onSaveButtonClick ==
    /\ HasDetails
    /\ MayWork
    /\ SendForTask("points", page.newProcessPoints)

onDoneButtonClick ==
    /\ HasDetails
    /\ MayWork
    /\ SendForTask("points", maxProcessPoints)

\* The settings ask before they delete or leave.
onDeleteOrLeaveClicked ==
    /\ page # NoPage
    /\ page.tab = "Settings" /\ page.confirming = NoProject
    /\ page' = [page EXCEPT !.confirming = page.shown]
    /\ UNCHANGED <<stored, updates, call, selectedTask>>

onNoButtonClicked ==
    /\ page # NoPage
    /\ page.confirming # NoProject
    /\ page' = [page EXCEPT !.confirming = NoProject]
    /\ UNCHANGED <<stored, updates, call, selectedTask>>

onYesButtonClicked ==
    /\ page # NoPage
    /\ page.confirming # NoProject
    /\ UNCHANGED page
    /\ Send([op |-> page.action, project |-> page.shown])

-----------------------------------------------------------------------------
(* The server, and what others do.                                         *)

\* Mutant: the messages are forgotten.
Begin_Silently(p, newTasks, newJoined, slots) ==
    /\ change = NoChange
    /\ changes < MaxChanges
    /\ change' = [project |-> p, tasks |-> newTasks, joined |-> newJoined, slots |-> slots]
    /\ changes' = changes + 1
    /\ UNCHANGED <<tasks, joined, news, get, misled, call, selectedTask, page>>

\* A handler has made its change and sends its messages, to all who are in the
\* project.
Begin(p, newTasks, newJoined, slots) ==
    /\ change = NoChange
    /\ changes < MaxChanges
    /\ change' = [project |-> p, tasks |-> newTasks, joined |-> newJoined, slots |-> slots]
    /\ changes' = changes + 1
    /\ news' = news \cup {p}
    /\ UNCHANGED <<tasks, joined, get, misled, call, selectedTask, page>>

Permitted(op, t, u, points) ==
    CASE op = "assign" -> tasks[t].user = NoUser
      [] op = "unassign" -> tasks[t].user = u
      [] op = "points" -> /\ points \in Points
                          /\ IF needsAssignment(ProjectOf[t]) THEN tasks[t].user = u
                             ELSE u \in Users(ProjectOf[t])

Outcome(op, t, u, points) ==
    CASE op = "assign" -> [tasks[t] EXCEPT !.user = u]
      [] op = "unassign" -> [tasks[t] EXCEPT !.user = NoUser]
      [] op = "points" -> [tasks[t] EXCEPT !.points = points]

Work(op, t, u, points, slots) ==
    /\ Permitted(op, t, u, points)
    /\ Begin(ProjectOf[t], [tasks EXCEPT ![t] = Outcome(op, t, u, points)], joined, slots)

OtherWorks == \E t \in Task, op \in TaskOp, points \in Points : Work(op, t, other, points, {})

Serve(k) ==
    /\ call[k] # NoCall /\ call[k].op \in TaskOp /\ call[k].answer = NoTask
    /\ Work(call[k].op, call[k].task, me, call[k].points, {k})

OtherJoins(p) ==
    /\ p \notin joined
    /\ Begin(p, tasks, joined \cup {p}, {})

\* The tasks of the project that are assigned to him are unassigned.
OtherLeaves(p) ==
    /\ p \in joined
    /\ Begin(p, [t \in Task |-> IF ProjectOf[t] = p /\ tasks[t].user = other
                                THEN [tasks[t] EXCEPT !.user = NoUser] ELSE tasks[t]],
             joined \ {p}, {})

\* The request is answered after the commit, with the task as it was written.
Commit ==
    /\ change # NoChange
    /\ tasks' = change.tasks
    /\ joined' = change.joined
    /\ change' = NoChange
    /\ call' = [k \in Slot |-> IF k \in change.slots
                  THEN [call[k] EXCEPT !.answer = toTask(call[k].task, change.tasks[call[k].task], Named)]
                  ELSE call[k]]
    /\ UNCHANGED <<changes, updates, selectedTask, page>>

\* The commit fails, and the request with it.
Rollback ==
    /\ change # NoChange
    /\ change' = NoChange
    /\ call' = [k \in Slot |-> IF k \in change.slots THEN NoCall ELSE call[k]]
    /\ UNCHANGED <<tasks, joined, changes, updates, selectedTask, page>>

Pending(p) == change # NoChange /\ change.project = p

-----------------------------------------------------------------------------
(* What the tab receives.                                                  *)

\* handleReceivedMessage: getProject.  Overtaken: another answer about the
\* project is on its way.  That messages arrive one by one is nothing else than
\* requests that take their time.
Receive(p) ==
    /\ p \in news
    /\ news' = news \ {p}
    /\ \E g \in Get : /\ get[g] = NoGet
                      /\ get' = [get EXCEPT ![g] = [project |-> p, opens |-> FALSE, answer |-> NoView]]
    /\ Mislead(IF Asking(p) # {} THEN {p} ELSE {})
    /\ UNCHANGED <<stored, call, selectedTask, page>>

\* Lost: the tab is not connected.
Lose(p) ==
    /\ p \in news
    /\ news' = news \ {p}
    /\ Mislead({p})
    /\ UNCHANGED <<stored, get, call, selectedTask, page>>

\* The server reads.  TooEarly: it has sent messages about a change that is not
\* committed.
Read(g) ==
    /\ get[g] # NoGet
    /\ get[g].answer = NoView
    /\ get' = [get EXCEPT ![g].answer = ViewOf(get[g].project)]
    /\ Mislead(IF Pending(get[g].project) THEN {get[g].project} ELSE {})
    /\ UNCHANGED <<stored, news, call, selectedTask, page>>

\* Failed: the request or its answer is lost, the users' names cannot be loaded,
\* or the user gives up waiting for the page.
GetFails(g) ==
    /\ get[g] # NoGet
    /\ get' = [get EXCEPT ![g] = NoGet]
    /\ Mislead({get[g].project})
    /\ UNCHANGED <<stored, news, call, selectedTask, page>>

\* An answer about a project arrives, and overtakes those about its tasks.
Arrives(g) ==
    LET p == get[g].project
    IN  /\ get[g] # NoGet
        /\ get[g].answer # NoView
        /\ get' = [get EXCEPT ![g] = NoGet]
        /\ call' = [k \in Slot |-> IF call[k] # NoCall /\ call[k].op \in TaskOp /\ ProjectOf[call[k].task] = p
                                   THEN [call[k] EXCEPT !.overtaken = call[k].answer # NoTask] ELSE call[k]]
        /\ UNCHANGED <<stored, news, misled>>

\* The page is made with the resolver's project; its first task is selected
\* before the components are there to hear of it.
Opened(g) ==
    LET p == get[g].project
    IN  /\ Arrives(g)
        /\ get[g].opens
        /\ \E first \in get[g].answer.copies :
              /\ selectedTask' = first
              /\ page' = selectedTaskChanged(
                    [route |-> p, shown |-> p, view |-> get[g].answer, tab |-> "Tasks", task |-> first,
                     newProcessPoints |-> 0, typed |-> NoTask, highlighted |-> first.id, deaf |-> FALSE,
                     behind |-> FALSE, action |-> "leave", confirming |-> NoProject], first)

updateTasks_NoSelection(pg, copies) == pg

updateTasks(pg, copies) ==
    IF \E c \in copies : c.id = selectedTask.id
    THEN selectedTaskChanged(pg, CHOOSE c \in copies : c.id = selectedTask.id) ELSE pg

\* Not only an update of the project of the route replaces the project of the
\* page.
projectChanged(g) ==
    LET view == get[g].answer
    IN  /\ Arrives(g)
        /\ ~get[g].opens
        /\ page' = IF page = NoPage THEN NoPage
                   ELSE [updateTasks(page, view.copies) EXCEPT !.shown = get[g].project, !.view = view]
        /\ UNCHANGED selectedTask

\* The answer is announced, whichever task is selected by then, and the
\* service keeps the selected task as it was.
Answer(k) ==
    LET c == call[k]
    IN  /\ c # NoCall /\ c.op \in TaskOp /\ c.answer # NoTask
        /\ call' = [call EXCEPT ![k] = NoCall]
        /\ page' = IF page = NoPage THEN NoPage
                   ELSE LET told == selectedTaskChanged(page, c.answer)
                        IN  [told EXCEPT !.behind = c.overtaken /\ page.tab = "Tasks"]
        /\ UNCHANGED <<stored, updates, selectedTask>>

\* The request is refused or lost, or its answer is, or the names for it cannot
\* be loaded.
Failure(k) ==
    /\ call[k] # NoCall
    /\ change # NoChange => k \notin change.slots
    /\ call' = [call EXCEPT ![k] = NoCall]
    /\ page' = IF page # NoPage /\ call[k].op \in ProjectOp THEN [page EXCEPT !.confirming = NoProject] ELSE page
    /\ UNCHANGED <<stored, updates, selectedTask>>

\* Deleted or left: to the project list, whatever page the user is at by then or
\* waits for.
Success(k) ==
    /\ call[k] # NoCall
    /\ call[k].op \in ProjectOp
    /\ call' = [call EXCEPT ![k] = NoCall]
    /\ page' = NoPage
    /\ get' = [g \in Get |-> IF g \in Opening THEN NoGet ELSE get[g]]
    /\ Mislead({get[g].project : g \in Opening})
    /\ UNCHANGED <<stored, news, selectedTask>>

Next ==
    \/ \E p \in Project : OpenProject(p) \/ OtherJoins(p) \/ OtherLeaves(p) \/ Receive(p) \/ Lose(p)
    \/ Back
    \/ \E tab \in Tab : SelectTab(tab)
    \/ onListItemClicked \/ onMapClicked
    \/ onAssignButtonClicked \/ onUnassignButtonClicked
    \/ TypePoints \/ onSaveButtonClick \/ onDoneButtonClick
    \/ onDeleteOrLeaveClicked \/ onNoButtonClicked \/ onYesButtonClicked
    \/ OtherWorks \/ Commit \/ Rollback
    \/ \E g \in Get : Read(g) \/ GetFails(g) \/ Opened(g) \/ projectChanged(g)
    \/ \E k \in Slot : Serve(k) \/ Answer(k) \/ Failure(k) \/ Success(k)

\* Every transaction ends; a message arrives or is lost; a request for a project
\* fails or is answered.
Fairness ==
    /\ WF_vars(Commit \/ Rollback)
    /\ \A p \in Project : WF_vars(Receive(p) \/ Lose(p))
    /\ \A g \in Get : WF_vars(Read(g) \/ GetFails(g) \/ Opened(g) \/ projectChanged(g))

Spec == Init /\ [][Next]_vars /\ Fairness

-----------------------------------------------------------------------------
\* Points in the form that are not those of the shown task were typed for it:
\* no announcement carries what was typed for one task over to another.
FormIsOfTask ==
    HasDetails /\ page.newProcessPoints # page.task.points => page.typed = page.task.id

FormOK == TypeOK /\ FormIsOfTask

\* When nothing about its project is on its way, the details show the selected
\* task as the server would answer it, unless they were made anew from the
\* service's old copy, or told by an answer that an update had overtaken, or an
\* event named at Mislead came in between.
Settled(p) ==
    /\ p \notin news \cup misled
    /\ Asking(p) = {}
    /\ ~Pending(p)

DetailsCatchUp ==
    HasDetails /\ page.task.id = selectedTask.id /\ ~page.behind /\ Settled(ProjectOf[page.task.id])
    => page.task = CopyOf(page.task.id)

\* Details, map and list agree on the selected task, and only an answer to a
\* request for another task, which came late, makes them disagree.
Agreement(pg, selected) ==
    pg # NoPage => /\ pg.task # NoTask => pg.task.id = selected.id
                   /\ pg.deaf \/ (pg.highlighted = selected.id)

AgreementLasts ==
    [][Agreement(page, selectedTask) =>
          \/ Agreement(page', selectedTask')
          \/ \E k \in Slot : Answer(k) /\ call[k].task # selectedTask.id]_vars

\* Work on a task of the project that is shown, and a change of its users,
\* reaches the list, though the answers to own requests do not, unless an event
\* named at Mislead prevents it.
ListCatchesUp ==
    \A t \in Task : []<>(\/ page = NoPage
                       \/ page.shown # ProjectOf[t]
                       \/ ProjectOf[t] \in misled
                       \/ CopyOf(t) \in page.view.copies)

\* The project that is deleted or left is the one the user was asked about, and
\* is deleted by its owner only; an update of another project makes it that one.
ConfirmedIsDone ==
    [][\A k \in Slot :
          call[k] = NoCall /\ call'[k] # NoCall /\ call'[k].op \in ProjectOp
          => /\ call'[k].project = page.confirming
             /\ (call'[k].op = "delete") <=> (call'[k].project \in MyProjects)]_vars
=============================================================================
