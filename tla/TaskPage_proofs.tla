--------------------------- MODULE TaskPage_proofs --------------------------
(***************************************************************************)
(* Proofs about TaskPage.tla, for any projects and tasks, any number of    *)
(* requests on their way and of changes.  The invariant follows every copy *)
(* of a task in the tab (in the list, in the details, in an answer on its  *)
(* way): it is as the server would answer it, or the project is covered: a *)
(* message about it is on its way, or an answer to come shows it as it is, *)
(* or the page may be wrong about it.                                      *)
(***************************************************************************)
EXTENDS TaskPage, TLAPS

\* A request for the project that was not read yet, or is still right.
Unread(g, p) == get[g] # NoGet /\ get[g].project = p /\ get[g].answer = NoView
Right(g, p) == get[g] # NoGet /\ get[g].project = p /\ get[g].answer = ViewOf(p)

Covered == {p \in Project : p \in misled \cup news \/ \E g \in Get : Unread(g, p) \/ Right(g, p)}
Fresh == {c \in Copy : c = CopyOf(c.id) \/ ProjectOf[c.id] \in Covered}

\* The details have a task as long as they are there, and the form is for it.
DetailsGood(pg) ==
    /\ (pg.tab = "Tasks") <=> (pg.task # NoTask)
    /\ pg.task # NoTask /\ pg.newProcessPoints # pg.task.points => pg.typed = pg.task.id

\* A page beside the selected task, F being the fresh copies.
PageGood(pg, selected, F) ==
    /\ pg \in Page /\ selected \in Copy
    /\ DetailsGood(pg)
    /\ pg.view.copies \subseteq F
    /\ pg.task # NoTask /\ pg.task.id = selected.id /\ ~pg.behind => pg.task \in F

\* A request: its answer is about its task, and an update follows that it has
\* not been overtaken by.  C are the covered projects.
CallGood(c, C) ==
    c # NoCall /\ c.op \in TaskOp /\ c.answer # NoTask =>
        /\ c.answer.id = c.task
        /\ ~c.overtaken => ProjectOf[c.task] \in C

\* A request for a project that was read: it has all tasks, and is right or
\* another update follows.
GetGood(g) ==
    get[g] # NoGet /\ get[g].answer # NoView =>
        /\ \A c \in get[g].answer.copies : ProjectOf[c.id] = get[g].project
        /\ \A t \in Task : ProjectOf[t] = get[g].project => \E c \in get[g].answer.copies : c.id = t
        /\ get[g].answer = ViewOf(get[g].project) \/ get[g].project \in misled \cup news

\* Of two requests for a project one overtakes the other.
Apart ==
    \A g, h \in Get :
        g # h /\ get[g] # NoGet /\ get[h] # NoGet /\ get[g].project = get[h].project
        => get[g].project \in misled

\* A change is one of its project only, and who reads it too early is misled.
ChangeGood ==
    change # NoChange =>
        /\ \A t \in Task : ProjectOf[t] # change.project => change.tasks[t] = tasks[t]
        /\ \A p \in Project : p # change.project => (p \in change.joined <=> p \in joined)
        /\ \/ change.project \in misled \cup news
           \/ \E g \in Get : Unread(g, change.project)

\* The request it is for waits for the answer.
Waits(c) == c # NoCall /\ c.op \in TaskOp /\ c.answer = NoTask /\ ProjectOf[c.task] = change.project

SlotsGood == change # NoChange => \A k \in change.slots : Waits(call[k])

PageOK == page # NoPage => PageGood(page, selectedTask, Fresh)
CallsOK == \A k \in Slot : CallGood(call[k], Covered)
ServerOK == (\A g \in Get : GetGood(g)) /\ Apart /\ ChangeGood

IInv == TypeOK /\ PageOK /\ CallsOK /\ ServerOK /\ SlotsGood

-----------------------------------------------------------------------------
(* Copies of tasks.                                                        *)

\* A copy made of a row.
LEMMA CopyOfRow ==
    ASSUME NEW t \in Task, NEW row \in Row, NEW users
    PROVE  toTask(t, row, users) \in Copy /\ toTask(t, row, users).id = t
  BY DEF toTask, Copy, Row

\* The tasks of a project, as the server answers them.
LEMMA CopyOfTask ==
    ASSUME TypeOK, NEW t \in Task
    PROVE  CopyOf(t) \in Copy /\ CopyOf(t).id = t
  BY CopyOfRow DEF TypeOK, CopyOf

LEMMA TasksOfProject ==
    ASSUME TypeOK, NEW p \in Project
    PROVE  /\ TasksOf(p) \subseteq Copy /\ ViewOf(p) \in View /\ ViewOf(p) # NoView
           /\ ViewOf(p).copies = TasksOf(p)
           /\ \A c \in TasksOf(p) : ProjectOf[c.id] = p /\ c = CopyOf(c.id)
           /\ \A t \in Task : ProjectOf[t] = p => \E c \in TasksOf(p) : c.id = t
  <1>1. ASSUME NEW c \in TasksOf(p)
        PROVE  c \in Copy /\ ProjectOf[c.id] = p /\ c = CopyOf(c.id)
    <2>1. PICK t \in Task : ProjectOf[t] = p /\ c = CopyOf(t)
      BY ZenonT(30) DEF TasksOf
    <2> QED
      BY <2>1, CopyOfTask
  <1>2. ASSUME NEW t \in Task, ProjectOf[t] = p
        PROVE  \E c \in TasksOf(p) : c.id = t
    <2>1. CopyOf(t) \in TasksOf(p)
      BY <1>2 DEF TasksOf
    <2> QED
      BY <2>1, CopyOfTask
  <1>3. TasksOf(p) \subseteq Copy
    BY <1>1
  <1>4. ViewOf(p) \in View /\ ViewOf(p).copies = TasksOf(p)
    <2>1. needsAssignment(p) \in BOOLEAN
      BY DEF needsAssignment
    <2> QED
      BY <1>3, <2>1 DEF ViewOf, View
  <1> QED
    BY <1>1, <1>2, <1>3, <1>4, NothingAssumption

\* What a request does to a row.
LEMMA OutcomeType ==
    ASSUME TypeOK, NEW t \in Task, NEW op \in TaskOp, NEW u \in {me, other},
           NEW points \in Points
    PROVE  Outcome(op, t, u, points) \in Row
  <1>1. tasks[t] \in Row
    BY DEF TypeOK
  <1>2. /\ [tasks[t] EXCEPT !.user = u] \in Row /\ [tasks[t] EXCEPT !.user = NoUser] \in Row
        /\ [tasks[t] EXCEPT !.points = points] \in Row
    BY <1>1 DEF Row
  <1> QED
    BY <1>2 DEF Outcome, TaskOp

\* Copies stay fresh when projects stay covered, and each task stays or its
\* project is covered.
LEMMA FreshKept ==
    ASSUME Covered \subseteq Covered',
           \A t \in Task : CopyOf(t)' = CopyOf(t) \/ ProjectOf[t] \in Covered'
    PROVE  Fresh \subseteq Fresh'
  <1> SUFFICES ASSUME NEW c \in Fresh
               PROVE  c \in Fresh'
    OBVIOUS
  <1>1. c \in Copy /\ c.id \in Task /\ (c = CopyOf(c.id) \/ ProjectOf[c.id] \in Covered)
    BY DEF Fresh, Copy
  <1>2. c = CopyOf(c.id)' \/ ProjectOf[c.id] \in Covered'
    BY <1>1
  <1> QED
    BY <1>1, <1>2 DEF Fresh

\* Nothing of it changes as long as the server and the updates stay.
LEMMA SameServer ==
    ASSUME UNCHANGED <<stored, updates>>
    PROVE  /\ Covered' = Covered /\ Fresh' = Fresh /\ ServerOK = ServerOK'
  <1>1. UNCHANGED <<tasks, joined, change, changes, news, get, misled>>
    BY DEF stored, updates
  <1>2. \A p : ViewOf(p)' = ViewOf(p)
    BY <1>1 DEF ViewOf, TasksOf, CopyOf, Users, needsAssignment
  <1>3. \A g, p : (Unread(g, p)' = Unread(g, p)) /\ (Right(g, p)' = Right(g, p))
    BY <1>1, <1>2 DEF Unread, Right
  <1>4. Covered' = Covered
    BY <1>1, <1>3 DEF Covered
  <1>5. \A t : CopyOf(t)' = CopyOf(t)
    BY <1>1 DEF CopyOf, Users
  <1>6. Fresh' = Fresh
    BY <1>4, <1>5 DEF Fresh
  <1>7. (\A g \in Get : GetGood(g))' = (\A g \in Get : GetGood(g))
    BY <1>1, <1>2 DEF GetGood
  <1>8. (Apart' = Apart) /\ (ChangeGood' = ChangeGood)
    BY <1>1, <1>3 DEF Apart, ChangeGood
  <1> QED
    BY <1>4, <1>6, <1>7, <1>8 DEF ServerOK

-----------------------------------------------------------------------------
(* Announcements.                                                          *)

\* A task is announced: the details show it, if they are there; the map finds
\* its polygon or is deaf from then on; the rest of the page stays.
LEMMA Told ==
    ASSUME NEW pg \in Page, pg.tab = "Tasks" \/ DetailsGood(pg), NEW copy \in Copy
    PROVE  LET r == selectedTaskChanged(pg, copy) IN
           /\ r \in Page /\ r.tab = pg.tab /\ r.view = pg.view
           /\ DetailsGood(r)
           /\ r.task # NoTask => r.task = copy /\ ~r.behind
           /\ pg.deaf => r.deaf
           /\ r.deaf \/ r.highlighted = copy.id
  <1> DEFINE d == DetailsSelectTask(pg, copy)
             u == [d EXCEPT !.behind = FALSE]
             told == IF pg.tab = "Tasks" THEN u ELSE pg
             m == MapSelectTask(told, copy)
  <1>1. copy # NoTask /\ copy.id \in Task /\ copy.points \in Points
    BY NothingAssumption DEF Copy
  <1>2. /\ d \in Page /\ d.tab = pg.tab /\ d.view = pg.view /\ d.task = copy
        /\ d.newProcessPoints = copy.points /\ d.deaf = pg.deaf
    BY <1>1 DEF DetailsSelectTask, Page
  <1> HIDE DEF d
  <1>3. /\ u \in Page /\ u.tab = pg.tab /\ u.view = pg.view /\ u.task = copy
        /\ u.newProcessPoints = copy.points /\ u.deaf = pg.deaf /\ u.behind = FALSE
    BY <1>2 DEF Page
  <1> HIDE DEF u
  <1>4. /\ told \in Page /\ told.tab = pg.tab /\ told.view = pg.view /\ DetailsGood(told)
        /\ told.task # NoTask => told.task = copy /\ ~told.behind
        /\ told.deaf = pg.deaf
    BY <1>1, <1>3 DEF DetailsGood
  <1>5. selectedTaskChanged(pg, copy) = IF pg.deaf THEN told ELSE m
    BY DEF selectedTaskChanged, u, d
  <1> HIDE DEF told
  <1>6. /\ m \in Page /\ m.tab = told.tab /\ m.view = told.view /\ m.task = told.task
        /\ m.newProcessPoints = told.newProcessPoints /\ m.typed = told.typed
        /\ m.behind = told.behind /\ m.highlighted = copy.id
    BY <1>1, <1>4 DEF MapSelectTask, Page
  <1> HIDE DEF m
  <1> QED
    BY <1>4, <1>5, <1>6 DEF DetailsGood

\* The page after an announcement of a task that is fresh, if it is the
\* selected one.
LEMMA ToldGood ==
    ASSUME NEW F, NEW pg \in Page, pg.tab = "Tasks" \/ DetailsGood(pg),
           pg.view.copies \subseteq F,
           NEW copy \in Copy, NEW selected \in Copy,
           copy.id = selected.id => copy \in F
    PROVE  PageGood(selectedTaskChanged(pg, copy), selected, F)
  <1> DEFINE r == selectedTaskChanged(pg, copy)
  <1>1. /\ r \in Page /\ r.view = pg.view /\ DetailsGood(r)
        /\ r.task # NoTask => r.task = copy
    BY Told
  <1> HIDE DEF r
  <1> QED
    BY <1>1 DEF PageGood, r

\* A page is as good beside more fresh copies.
LEMMA PageKept ==
    ASSUME NEW F, NEW G, F \subseteq G, NEW pg, NEW selected, PageGood(pg, selected, F)
    PROVE  PageGood(pg, selected, G)
  BY DEF PageGood

-----------------------------------------------------------------------------
(* Requests.                                                               *)

TaskCall == [op : TaskOp, task : Task, points : Points, answer : Copy \cup {NoTask},
             overtaken : BOOLEAN]
ProjectCall == [op : ProjectOp, project : Project]

\* The two kinds of requests.
LEMMA CallKinds ==
    /\ Call = TaskCall \cup ProjectCall
    /\ \A c \in Call : c.op \in TaskOp <=> c \in TaskCall
    /\ \A c \in Call : c.op \in ProjectOp <=> c \notin TaskCall
  BY DEF Call, TaskCall, ProjectCall, TaskOp, ProjectOp

\* A request is sent: it has no answer yet.
LEMMA SendKeeps ==
    ASSUME IInv, NEW request \in Call, request.op \in TaskOp => request.answer = NoTask,
           Send(request)
    PROVE  /\ call' \in [Slot -> Call \cup {NoCall}] /\ CallsOK' /\ SlotsGood'
           /\ UNCHANGED <<stored, updates, selectedTask>>
  <1>1. PICK k \in Slot : call[k] = NoCall /\ call' = [call EXCEPT ![k] = request]
    BY DEF Send, FreeSlot
  <1>2. UNCHANGED <<stored, updates, selectedTask>>
    BY DEF Send
  <1>3. call \in [Slot -> Call \cup {NoCall}]
    BY DEF IInv, TypeOK
  <1>4. CallsOK'
    BY <1>1, <1>2, <1>3, SameServer DEF IInv, CallsOK, CallGood
  <1>5. SlotsGood'
    <2>1. UNCHANGED change
      BY <1>2 DEF stored
    <2>2. ASSUME change # NoChange, NEW j \in change.slots
          PROVE  j \in Slot /\ call'[j] = call[j] /\ Waits(call[j])
      <3>1. j \in Slot
        BY <2>2 DEF IInv, TypeOK, Change
      <3>2. Waits(call[j])
        BY <2>2 DEF IInv, SlotsGood
      <3> QED
        BY <1>1, <1>3, <3>1, <3>2 DEF Waits
    <2> QED
      BY <2>1, <2>2 DEF SlotsGood, Waits
  <1> QED
    BY <1>1, <1>2, <1>3, <1>4, <1>5

-----------------------------------------------------------------------------
(* The steps of the page.                                                  *)

\* The page is good after a step that only changes the page and the selection.
LEMMA PageStep ==
    ASSUME IInv, UNCHANGED <<stored, updates, call>>,
           selectedTask' \in Copy,
           page' = NoPage \/ PageGood(page', selectedTask', Fresh)
    PROVE  IInv'
  <1>1. page' \in Page \cup {NoPage}
    BY DEF PageGood
  <1>2. UNCHANGED <<tasks, joined, change, changes, news, get, misled, call>>
    BY DEF stored, updates
  <1>3. TypeOK'
    BY <1>1, <1>2 DEF IInv, TypeOK
  <1>4. PageOK' /\ CallsOK' /\ ServerOK'
    BY <1>2, SameServer DEF IInv, PageOK, CallsOK
  <1>5. SlotsGood'
    BY <1>2 DEF IInv, SlotsGood, Waits
  <1> QED
    BY <1>3, <1>4, <1>5 DEF IInv

\* The page is left.
LEMMA BackKeeps ==
    ASSUME IInv, Back
    PROVE  IInv'
  <1>1. page # NoPage /\ page' = NoPage /\ UNCHANGED <<stored, updates, call, selectedTask>>
    BY DEF Back
  <1>2. selectedTask \in Copy
    BY <1>1 DEF IInv, PageOK, PageGood
  <1> QED
    BY <1>1, <1>2, PageStep

\* The details are made anew, with an old copy perhaps; or they go.
LEMMA SelectTabKeeps ==
    ASSUME IInv, NEW tab \in Tab, SelectTab(tab)
    PROVE  IInv'
  <1>1. /\ page # NoPage /\ tab # page.tab
        /\ UNCHANGED <<stored, updates, call, selectedTask>>
    BY DEF SelectTab
  <1>2. PageGood(page, selectedTask, Fresh)
    BY <1>1 DEF IInv, PageOK
  <1>3. page \in Page /\ selectedTask \in Copy /\ selectedTask # NoTask
        /\ selectedTask.points \in Points /\ 0 \in Points
    BY <1>2, NothingAssumption, TaskPageAssumption DEF PageGood, Copy, Points
  <1>4. CASE tab = "Tasks"
    <2> DEFINE d == DetailsSelectTask(page, selectedTask)
               pg == [d EXCEPT !.tab = tab, !.behind = TRUE, !.action = "leave",
                               !.confirming = NoProject]
    <2>1. page' = pg
      BY <1>4 DEF SelectTab
    <2>2. /\ d \in Page /\ d.task = selectedTask /\ d.newProcessPoints = selectedTask.points
          /\ d.view = page.view
      BY <1>3 DEF DetailsSelectTask, Page
    <2> HIDE DEF d
    <2>3. /\ pg \in Page /\ pg.task = selectedTask /\ pg.newProcessPoints = selectedTask.points
          /\ pg.view = page.view /\ pg.tab = "Tasks" /\ pg.behind = TRUE
      BY <1>4, <2>2 DEF Page, Tab, ProjectOp
    <2> HIDE DEF pg
    <2>4. PageGood(pg, selectedTask, Fresh)
      BY <1>2, <1>3, <2>3 DEF PageGood, DetailsGood
    <2> QED
      BY <1>1, <1>3, <2>1, <2>4, PageStep
  <1>5. CASE tab = "Settings"
    <2> DEFINE a == IF page.shown \in MyProjects THEN "delete" ELSE "leave"
               pg == [page EXCEPT !.tab = tab, !.task = NoTask, !.newProcessPoints = 0,
                                  !.typed = NoTask, !.behind = FALSE, !.action = a]
    <2>1. page' = pg
      BY <1>5 DEF SelectTab
    <2>2. a \in ProjectOp
      BY DEF ProjectOp
    <2> HIDE DEF a
    <2>3. /\ pg \in Page /\ pg.task = NoTask /\ pg.view = page.view /\ pg.tab = "Settings"
      BY <1>3, <1>5, <2>2 DEF Page, Tab
    <2> HIDE DEF pg
    <2>4. PageGood(pg, selectedTask, Fresh)
      BY <1>2, <1>3, <2>3 DEF PageGood, DetailsGood
    <2> QED
      BY <1>1, <1>3, <2>1, <2>4, PageStep
  <1> QED
    BY <1>4, <1>5 DEF Tab

\* A click on a task of the list, or of the map.
LEMMA SelectTaskKeeps ==
    ASSUME IInv, onListItemClicked \/ onMapClicked
    PROVE  IInv'
  <1>1. PICK clicked \in page.view.copies : selectTask(clicked)
    BY DEF onListItemClicked, onMapClicked
  <1>2. page # NoPage
    BY DEF onListItemClicked, onMapClicked
  <1>3. PageGood(page, selectedTask, Fresh)
    BY <1>2 DEF IInv, PageOK
  <1>4. clicked \in Copy /\ clicked \in Fresh
    BY <1>3 DEF PageGood, Fresh
  <1>5. PageGood(selectedTaskChanged(page, clicked), clicked, Fresh)
    BY <1>3, <1>4, ToldGood DEF PageGood
  <1> QED
    BY <1>1, <1>4, <1>5, PageStep DEF selectTask

\* The user types in the form of the task that the details show.
LEMMA TypePointsKeeps ==
    ASSUME IInv, TypePoints
    PROVE  IInv'
  <1>1. PICK points \in Points :
          page' = [page EXCEPT !.newProcessPoints = points, !.typed = page.task.id]
    BY DEF TypePoints
  <1>2. /\ page # NoPage /\ page.task # NoTask
        /\ UNCHANGED <<stored, updates, call, selectedTask>>
    BY DEF TypePoints, HasDetails
  <1>3. PageGood(page, selectedTask, Fresh)
    BY <1>2 DEF IInv, PageOK
  <1>4. page \in Page /\ page.task.id \in Task /\ selectedTask \in Copy
    BY <1>2, <1>3 DEF PageGood, Page, Copy
  <1>5. /\ page' \in Page /\ page'.task = page.task /\ page'.tab = page.tab
        /\ page'.view = page.view /\ page'.behind = page.behind
        /\ page'.typed = page.task.id
    BY <1>1, <1>4 DEF Page
  <1>6. PageGood(page', selectedTask, Fresh)
    BY <1>3, <1>5 DEF PageGood, DetailsGood
  <1> QED
    BY <1>2, <1>4, <1>6, PageStep

\* The dialog of the settings.
LEMMA ConfirmingKeeps ==
    ASSUME IInv, onDeleteOrLeaveClicked \/ onNoButtonClicked
    PROVE  IInv'
  <1>1. /\ page # NoPage /\ UNCHANGED <<stored, updates, call, selectedTask>>
        /\ \E p \in Project \cup {NoProject} : page' = [page EXCEPT !.confirming = p]
    <2>1. page # NoPage
      BY DEF onDeleteOrLeaveClicked, onNoButtonClicked
    <2>2. page.shown \in Project
      BY <2>1 DEF IInv, PageOK, PageGood, Page
    <2> QED
      BY <2>1, <2>2 DEF onDeleteOrLeaveClicked, onNoButtonClicked
  <1>2. PageGood(page, selectedTask, Fresh)
    BY <1>1 DEF IInv, PageOK
  <1>3. PICK p \in Project \cup {NoProject} : page' = [page EXCEPT !.confirming = p]
    BY <1>1
  <1>4. /\ page' \in Page /\ page'.task = page.task /\ page'.tab = page.tab
        /\ page'.view = page.view /\ page'.behind = page.behind
        /\ page'.typed = page.typed /\ page'.newProcessPoints = page.newProcessPoints
    BY <1>2, <1>3 DEF PageGood, Page
  <1>5. PageGood(page', selectedTask, Fresh)
    BY <1>2, <1>4 DEF PageGood, DetailsGood
  <1> QED
    BY <1>1, <1>2, <1>5, PageStep DEF PageGood

\* The requests that are sent: for the task of the details, or the project.
LEMMA RequestsKeep ==
    ASSUME IInv, \/ onAssignButtonClicked \/ onUnassignButtonClicked
                 \/ onSaveButtonClick \/ onDoneButtonClick \/ onYesButtonClicked
    PROVE  IInv'
  <1>1. page # NoPage /\ UNCHANGED page
    BY DEF onAssignButtonClicked, onUnassignButtonClicked, onSaveButtonClick, onDoneButtonClick,
           onYesButtonClicked, HasDetails, SendForTask
  <1>2. PageGood(page, selectedTask, Fresh) /\ page \in Page
    BY <1>1 DEF IInv, PageOK, PageGood
  <1>3. 0 \in Points /\ maxProcessPoints \in Points /\ page.newProcessPoints \in Points
    BY <1>2, TaskPageAssumption DEF Points, Page
  <1>4. \E request \in Call : (request.op \in TaskOp => request.answer = NoTask) /\ Send(request)
    <2>1. ASSUME NEW op \in TaskOp, NEW points \in Points, HasDetails, SendForTask(op, points)
          PROVE  \E request \in Call :
                   (request.op \in TaskOp => request.answer = NoTask) /\ Send(request)
      <3> DEFINE request == [op |-> op, task |-> page.task.id, points |-> points,
                             answer |-> NoTask, overtaken |-> FALSE]
      <3>1. page.task.id \in Task
        BY <1>2, <2>1 DEF HasDetails, Page, Copy
      <3>2. request \in Call /\ request.answer = NoTask
        BY <3>1 DEF Call
      <3>3. Send(request)
        BY <2>1 DEF SendForTask
      <3> HIDE DEF request
      <3> QED
        BY <3>2, <3>3
    <2>2. CASE onYesButtonClicked
      <3> DEFINE request == [op |-> page.action, project |-> page.shown]
      <3>1. request \in Call /\ request.op \notin TaskOp
        BY <1>2 DEF Call, Page, ProjectOp, TaskOp
      <3>2. Send(request)
        BY <2>2 DEF onYesButtonClicked
      <3> HIDE DEF request
      <3> QED
        BY <3>1, <3>2
    <2>3. "assign" \in TaskOp /\ "unassign" \in TaskOp /\ "points" \in TaskOp
      BY DEF TaskOp
    <2> QED
      BY <1>3, <2>1, <2>2, <2>3 DEF onAssignButtonClicked, onUnassignButtonClicked,
         onSaveButtonClick, onDoneButtonClick
  <1>5. PICK request \in Call :
          (request.op \in TaskOp => request.answer = NoTask) /\ Send(request)
    BY <1>4
  <1>6. /\ call' \in [Slot -> Call \cup {NoCall}] /\ CallsOK' /\ SlotsGood'
        /\ UNCHANGED <<stored, updates, selectedTask>>
    BY <1>5, SendKeeps
  <1>7. TypeOK'
    BY <1>1, <1>6 DEF IInv, TypeOK, stored, updates
  <1>8. PageOK' /\ ServerOK'
    BY <1>1, <1>2, <1>6, SameServer DEF IInv, PageOK
  <1> QED
    BY <1>6, <1>7, <1>8 DEF IInv

-----------------------------------------------------------------------------
(* The steps of the server and of the updates.                             *)

\* What is left to show when neither page nor requests change, or only so that
\* they are good.
LEMMA ServerStep ==
    ASSUME IInv, ServerOK',
           /\ tasks' \in [Task -> Row] /\ joined' \subseteq Project
           /\ change' \in Change \cup {NoChange} /\ changes' \in 0 .. MaxChanges
           /\ news' \subseteq Project /\ get' \in [Get -> GetCall \cup {NoGet}]
           /\ misled' \subseteq Project,
           call' \in [Slot -> Call \cup {NoCall}], CallsOK', SlotsGood',
           UNCHANGED <<selectedTask, page>>, Fresh \subseteq Fresh'
    PROVE  IInv'
  <1>1. TypeOK'
    BY DEF IInv, TypeOK
  <1>2. PageOK'
    BY PageKept DEF IInv, PageOK
  <1> QED
    BY <1>1, <1>2 DEF IInv

\* Requests that stay are good beside more covered projects.
LEMMA CallsKept ==
    ASSUME IInv, UNCHANGED call, Covered \subseteq Covered'
    PROVE  CallsOK'
  BY DEF IInv, CallsOK, CallGood

\* A change begins, and messages are sent about it.
LEMMA BeginKeeps ==
    ASSUME IInv, NEW p \in Project, NEW newTasks \in [Task -> Row], NEW newJoined \in SUBSET Project,
           NEW slots \in SUBSET Slot, Begin(p, newTasks, newJoined, slots),
           \A t \in Task : ProjectOf[t] # p => newTasks[t] = tasks[t],
           \A q \in Project : q # p => (q \in newJoined <=> q \in joined),
           \A k \in slots : /\ call[k] # NoCall /\ call[k].op \in TaskOp
                            /\ call[k].answer = NoTask /\ ProjectOf[call[k].task] = p
    PROVE  IInv'
  <1> DEFINE c == [project |-> p, tasks |-> newTasks, joined |-> newJoined, slots |-> slots]
  <1>1. /\ change = NoChange /\ change' = c /\ changes < MaxChanges /\ changes' = changes + 1
        /\ news' = news \cup {p} /\ UNCHANGED <<tasks, joined, get, misled, call, selectedTask, page>>
    BY DEF Begin
  <1>2. c \in Change /\ c.project = p /\ c.tasks = newTasks /\ c.joined = newJoined /\ c.slots = slots
    BY DEF Change
  <1> HIDE DEF c
  <1>3. \A q : ViewOf(q)' = ViewOf(q)
    BY <1>1 DEF ViewOf, TasksOf, CopyOf, Users, needsAssignment
  <1>4. Covered \subseteq Covered'
    BY <1>1, <1>3 DEF Covered, Unread, Right
  <1>5. Fresh \subseteq Fresh'
    <2>1. \A t : CopyOf(t)' = CopyOf(t)
      BY <1>1 DEF CopyOf, Users
    <2> QED
      BY <1>4, <2>1 DEF Fresh
  <1>6. ServerOK'
    <2>1. ASSUME NEW g \in Get
          PROVE  GetGood(g)'
      BY <1>1, <1>3 DEF IInv, ServerOK, GetGood
    <2>2. Apart'
      BY <1>1 DEF IInv, ServerOK, Apart
    <2>3. ChangeGood'
      BY <1>1, <1>2 DEF ChangeGood
    <2> QED
      BY <2>1, <2>2, <2>3 DEF ServerOK
  <1>7. SlotsGood'
    BY <1>1, <1>2 DEF SlotsGood, Waits
  <1>8. changes' \in 0 .. MaxChanges
    BY <1>1, TaskPageAssumption DEF IInv, TypeOK
  <1>9. CallsOK'
    BY <1>1, <1>4, CallsKept
  <1> QED
    BY <1>1, <1>2, <1>5, <1>6, <1>7, <1>8, <1>9, ServerStep DEF IInv, TypeOK

\* Work of a user on a task.
LEMMA WorkKeeps ==
    ASSUME IInv, NEW t \in Task, NEW op \in TaskOp, NEW u \in {me, other}, NEW points \in Points,
           NEW slots \in SUBSET Slot, Work(op, t, u, points, slots),
           \A k \in slots : /\ call[k] # NoCall /\ call[k].op \in TaskOp
                            /\ call[k].answer = NoTask /\ call[k].task = t
    PROVE  IInv'
  <1> DEFINE row == Outcome(op, t, u, points)
             newTasks == [tasks EXCEPT ![t] = row]
  <1>1. row \in Row /\ tasks \in [Task -> Row] /\ joined \in SUBSET Project /\ ProjectOf[t] \in Project
    BY OutcomeType, TaskPageAssumption DEF IInv, TypeOK
  <1>2. Begin(ProjectOf[t], newTasks, joined, slots)
    BY DEF Work
  <1> HIDE DEF row
  <1>3. /\ newTasks \in [Task -> Row]
        /\ \A v \in Task : ProjectOf[v] # ProjectOf[t] => newTasks[v] = tasks[v]
    BY <1>1
  <1> HIDE DEF newTasks
  <1> QED
    BY <1>1, <1>2, <1>3, BeginKeeps

LEMMA OtherWorksKeeps ==
    ASSUME IInv, OtherWorks
    PROVE  IInv'
  <1>1. PICK t \in Task, op \in TaskOp, points \in Points : Work(op, t, other, points, {})
    BY DEF OtherWorks
  <1> QED
    BY <1>1, WorkKeeps

LEMMA ServeKeeps ==
    ASSUME IInv, NEW k \in Slot, Serve(k)
    PROVE  IInv'
  <1>1. /\ call[k] # NoCall /\ call[k].op \in TaskOp /\ call[k].answer = NoTask
        /\ Work(call[k].op, call[k].task, me, call[k].points, {k})
    BY DEF Serve
  <1>2. call[k].task \in Task /\ call[k].points \in Points
    BY <1>1, CallKinds DEF IInv, TypeOK, TaskCall
  <1> QED
    BY <1>1, <1>2, WorkKeeps

\* The other user joins or leaves a project.
LEMMA MembersKeep ==
    ASSUME IInv, NEW p \in Project, OtherJoins(p) \/ OtherLeaves(p)
    PROVE  IInv'
  <1>1. tasks \in [Task -> Row] /\ joined \in SUBSET Project
    BY DEF IInv, TypeOK
  <1>2. CASE OtherJoins(p)
    <2>1. Begin(p, tasks, joined \cup {p}, {})
      BY <1>2 DEF OtherJoins
    <2> QED
      BY <1>1, <2>1, BeginKeeps
  <1>3. CASE OtherLeaves(p)
    <2> DEFINE newTasks == [t \in Task |-> IF ProjectOf[t] = p /\ tasks[t].user = other
                                           THEN [tasks[t] EXCEPT !.user = NoUser] ELSE tasks[t]]
    <2>1. Begin(p, newTasks, joined \ {p}, {})
      BY <1>3 DEF OtherLeaves
    <2>2. newTasks \in [Task -> Row] /\ \A t \in Task : ProjectOf[t] # p => newTasks[t] = tasks[t]
      BY <1>1 DEF Row
    <2> HIDE DEF newTasks
    <2> QED
      BY <1>1, <2>1, <2>2, BeginKeeps
  <1> QED
    BY <1>2, <1>3

\* The change is committed: its project is covered, the others stay as they are.
LEMMA CommitKeeps ==
    ASSUME IInv, Commit
    PROVE  IInv'
  <1> DEFINE p == change.project
  <1>1. /\ change \in Change /\ p \in Project /\ change.slots \subseteq Slot
        /\ change.tasks \in [Task -> Row] /\ change.joined \subseteq Project
    BY DEF Commit, IInv, TypeOK, Change
  <1>2. /\ change # NoChange /\ tasks' = change.tasks /\ joined' = change.joined /\ change' = NoChange
        /\ UNCHANGED <<changes, news, get, misled, selectedTask, page>>
    BY DEF Commit, updates
  <1>3. /\ \A t \in Task : ProjectOf[t] # p => change.tasks[t] = tasks[t]
        /\ \A q \in Project : q # p => (q \in change.joined <=> q \in joined)
        /\ p \in misled \cup news \/ \E g \in Get : Unread(g, p)
    BY <1>2 DEF IInv, ServerOK, ChangeGood
  <1>4. ASSUME NEW t \in Task, ProjectOf[t] # p
        PROVE  CopyOf(t)' = CopyOf(t)
    <2>1. ProjectOf[t] \in Project
      BY TaskPageAssumption
    <2> QED
      BY <1>2, <1>3, <1>4, <2>1 DEF CopyOf, Users
  <1>5. ASSUME NEW q \in Project, q # p
        PROVE  ViewOf(q)' = ViewOf(q)
    <2>1. TasksOf(q)' = TasksOf(q)
      BY <1>4, <1>5 DEF TasksOf
    <2>2. needsAssignment(q)' = needsAssignment(q)
      BY <1>2, <1>3, <1>5 DEF needsAssignment
    <2> QED
      BY <2>1, <2>2 DEF ViewOf
  <1>6. p \in Covered'
    BY <1>1, <1>2, <1>3 DEF Covered, Unread
  <1>7. Covered \subseteq Covered'
    <2> SUFFICES ASSUME NEW q \in Covered, q # p
                 PROVE  q \in Covered'
      BY <1>6
    <2> QED
      BY <1>2, <1>5 DEF Covered, Unread, Right
  <1>8. Fresh \subseteq Fresh'
    <2>1. \A t \in Task : CopyOf(t)' = CopyOf(t) \/ ProjectOf[t] \in Covered'
      BY <1>4, <1>6
    <2> QED
      BY <1>7, <2>1, FreshKept
  <1>9. ServerOK'
    <2>1. ASSUME NEW g \in Get
          PROVE  GetGood(g)'
      <3> SUFFICES ASSUME get[g] # NoGet, get[g].answer # NoView
                   PROVE  GetGood(g)'
        BY <1>2 DEF GetGood
      <3>1. GetGood(g) /\ get[g].project \in Project
        BY DEF IInv, ServerOK, TypeOK, GetCall
      <3>2. CASE get[g].project # p
        BY <1>2, <1>5, <3>1, <3>2 DEF GetGood
      <3>3. CASE get[g].project = p
        <4>1. p \in misled \cup news
          BY <1>3, <3>3 DEF Unread, IInv, ServerOK, Apart
        <4> QED
          BY <1>2, <3>1, <3>3, <4>1 DEF GetGood
      <3> QED
        BY <3>2, <3>3
    <2>2. Apart' /\ ChangeGood'
      BY <1>2 DEF IInv, ServerOK, Apart, ChangeGood
    <2> QED
      BY <2>1, <2>2 DEF ServerOK
  <1>10. ASSUME NEW k \in Slot
         PROVE  call'[k] \in Call \cup {NoCall} /\ CallGood(call'[k], Covered')
    <2> DEFINE c == call[k]
               answer == toTask(c.task, change.tasks[c.task], Named)
               d == [c EXCEPT !.answer = answer]
    <2>1. c \in Call \cup {NoCall} /\ CallGood(c, Covered)
      BY DEF IInv, TypeOK, CallsOK
    <2>2. CASE k \in change.slots
      <3>1. Waits(c)
        BY <1>2, <2>2 DEF IInv, SlotsGood
      <3>2. c \in TaskCall /\ ProjectOf[c.task] = p
        BY <2>1, <3>1, CallKinds DEF Waits
      <3>3. answer \in Copy /\ answer.id = c.task
        BY <1>1, <3>2, CopyOfRow DEF TaskCall
      <3> HIDE DEF answer
      <3>4. d \in TaskCall /\ d.answer = answer /\ d.task = c.task
        BY <3>2, <3>3 DEF TaskCall
      <3>5. call'[k] = d
        BY <2>2 DEF Commit, answer
      <3> HIDE DEF d
      <3>6. CallGood(d, Covered')
        BY <1>6, <3>2, <3>3, <3>4 DEF CallGood
      <3> QED
        BY <3>4, <3>5, <3>6, CallKinds
    <2>3. CASE k \notin change.slots
      <3>1. call'[k] = c
        BY <2>3 DEF Commit
      <3> QED
        BY <1>7, <2>1, <3>1 DEF CallGood
    <2> QED
      BY <2>2, <2>3
  <1>11. call' \in [Slot -> Call \cup {NoCall}] /\ CallsOK'
    <2>1. call' = [k \in Slot |-> call'[k]]
      BY DEF Commit
    <2>2. call' \in [Slot -> Call \cup {NoCall}]
      BY <1>10, <2>1
    <2> QED
      BY <1>10, <2>2 DEF CallsOK
  <1>12. SlotsGood'
    BY <1>2 DEF SlotsGood
  <1> QED
    BY <1>1, <1>2, <1>8, <1>9, <1>11, <1>12, ServerStep DEF IInv, TypeOK

\* The commit fails.
LEMMA RollbackKeeps ==
    ASSUME IInv, Rollback
    PROVE  IInv'
  <1>1. /\ change' = NoChange /\ UNCHANGED <<tasks, joined, changes, news, get, misled, selectedTask, page>>
        /\ call' = [k \in Slot |-> IF k \in change.slots THEN NoCall ELSE call[k]]
    BY DEF Rollback, updates
  <1>2. \A q : ViewOf(q)' = ViewOf(q)
    BY <1>1 DEF ViewOf, TasksOf, CopyOf, Users, needsAssignment
  <1>3. Covered' = Covered
    BY <1>1, <1>2 DEF Covered, Unread, Right
  <1>4. Fresh \subseteq Fresh'
    <2>1. \A t : CopyOf(t)' = CopyOf(t)
      BY <1>1 DEF CopyOf, Users
    <2> QED
      BY <1>3, <2>1 DEF Fresh
  <1>5. ServerOK'
    <2>1. ASSUME NEW g \in Get
          PROVE  GetGood(g)'
      BY <1>1, <1>2 DEF IInv, ServerOK, GetGood
    <2> QED
      BY <1>1, <2>1 DEF IInv, ServerOK, Apart, ChangeGood
  <1>6. call' \in [Slot -> Call \cup {NoCall}]
    BY <1>1 DEF IInv, TypeOK
  <1>7. CallsOK'
    BY <1>1, <1>3 DEF IInv, CallsOK, CallGood
  <1>8. SlotsGood'
    BY <1>1 DEF SlotsGood
  <1> QED
    BY <1>1, <1>4, <1>5, <1>6, <1>7, <1>8, ServerStep DEF IInv, TypeOK

\* What a step of the messages and of the requests for projects leaves alone.
LEMMA UpdateStep ==
    ASSUME IInv, UNCHANGED <<stored, call, selectedTask, page>>,
           news' \subseteq Project, misled' \subseteq Project,
           get' \in [Get -> GetCall \cup {NoGet}],
           Covered \subseteq Covered', ServerOK'
    PROVE  IInv'
  <1>1. UNCHANGED <<tasks, joined, change, changes>>
    BY DEF stored
  <1>2. Fresh \subseteq Fresh'
    <2>1. \A t : CopyOf(t)' = CopyOf(t)
      BY <1>1 DEF CopyOf, Users
    <2> QED
      BY <2>1 DEF Fresh
  <1>3. SlotsGood'
    BY <1>1 DEF IInv, SlotsGood, Waits
  <1> QED
    BY <1>1, <1>2, <1>3, CallsKept, ServerStep DEF IInv, TypeOK

\* The projects are answered the same as long as nothing stored changes.
LEMMA SameViews ==
    ASSUME UNCHANGED stored
    PROVE  \A q : ViewOf(q)' = ViewOf(q)
  BY DEF stored, ViewOf, TasksOf, CopyOf, Users, needsAssignment

\* A request for a project is sent: the project is covered by it, whatever was
\* forgotten about it or taken from the messages.
LEMMA AskKeeps ==
    ASSUME IInv, NEW p \in Project, NEW opens \in BOOLEAN, NEW g \in Get, get[g] = NoGet,
           get' = [get EXCEPT ![g] = [project |-> p, opens |-> opens, answer |-> NoView]],
           UNCHANGED <<stored, call, selectedTask, page>>,
           news' \subseteq news, news \ {p} \subseteq news',
           misled' \subseteq misled \cup {p}, misled \ {p} \subseteq misled',
           Asking(p) # {} => p \in misled'
    PROVE  IInv'
  <1> DEFINE new == [project |-> p, opens |-> opens, answer |-> NoView]
  <1>1. new \in GetCall /\ new # NoGet /\ new.project = p /\ new.answer = NoView
    BY NothingAssumption DEF GetCall
  <1>2. get \in [Get -> GetCall \cup {NoGet}] /\ news \subseteq Project /\ misled \subseteq Project
    BY DEF IInv, TypeOK
  <1>3. get' = [get EXCEPT ![g] = new]
    OBVIOUS
  <1> HIDE DEF new
  <1>4. get' \in [Get -> GetCall \cup {NoGet}] /\ get'[g] = new /\ \A h \in Get \ {g} : get'[h] = get[h]
    BY <1>1, <1>2, <1>3
  <1>5. \A q : ViewOf(q)' = ViewOf(q)
    BY SameViews
  <1>6. p \in Covered'
    BY <1>1, <1>4 DEF Covered, Unread
  <1>7. Covered \subseteq Covered'
    <2> SUFFICES ASSUME NEW q \in Covered, q # p
                 PROVE  q \in Covered'
      BY <1>6
    <2>1. q \in Project /\ (q \in misled \cup news \/ \E h \in Get : Unread(h, q) \/ Right(h, q))
      BY DEF Covered
    <2>2. CASE q \in misled \cup news
      BY <2>1, <2>2 DEF Covered
    <2>3. ASSUME NEW h \in Get, Unread(h, q) \/ Right(h, q)
          PROVE  q \in Covered'
      <3>1. h # g
        BY <2>3 DEF Unread, Right
      <3> QED
        BY <1>4, <1>5, <2>1, <2>3, <3>1 DEF Covered, Unread, Right
    <2> QED
      BY <2>1, <2>2, <2>3
  <1>8. ServerOK'
    <2>1. ASSUME NEW h \in Get
          PROVE  GetGood(h)'
      <3>1. CASE h = g
        BY <1>1, <1>4, <3>1 DEF GetGood
      <3>2. CASE h # g
        <4>1. GetGood(h) /\ get'[h] = get[h]
          BY <1>4, <3>2 DEF IInv, ServerOK
        <4>2. get[h] # NoGet /\ get[h].project = p => p \in misled'
          BY DEF Asking
        <4> QED
          BY <1>5, <4>1, <4>2 DEF GetGood
      <3> QED
        BY <3>1, <3>2
    <2>2. Apart'
      <3> SUFFICES ASSUME NEW h \in Get, NEW i \in Get, h # i, get'[h] # NoGet, get'[i] # NoGet,
                          get'[h].project = get'[i].project
                   PROVE  get'[h].project \in misled'
        BY DEF Apart
      <3>1. CASE h = g \/ i = g
        BY <1>1, <1>4, <3>1 DEF Asking
      <3>2. CASE h # g /\ i # g
        <4>1. get[h].project \in misled /\ get'[h] = get[h]
          BY <1>4, <3>2 DEF IInv, ServerOK, Apart
        <4>2. get[h].project = p => p \in misled'
          BY <1>4, <3>2 DEF Asking
        <4> QED
          BY <4>1, <4>2
      <3> QED
        BY <3>1, <3>2
    <2>3. ChangeGood'
      <3> SUFFICES ASSUME change # NoChange
                   PROVE  \/ change.project \in misled' \cup news'
                          \/ \E h \in Get : Unread(h, change.project)'
        BY DEF IInv, ServerOK, ChangeGood, stored
      <3>1. CASE change.project = p
        BY <1>1, <1>4, <3>1 DEF Unread, stored
      <3>2. CASE change.project # p
        <4>1. CASE change.project \in misled \cup news
          BY <3>2, <4>1
        <4>2. ASSUME NEW h \in Get, Unread(h, change.project)
              PROVE  Unread(h, change.project)'
          <5>1. h # g
            BY <4>2 DEF Unread
          <5> QED
            BY <1>4, <4>2, <5>1 DEF Unread, stored
        <4> QED
          BY <4>1, <4>2 DEF IInv, ServerOK, ChangeGood
      <3> QED
        BY <3>1, <3>2
    <2> QED
      BY <2>1, <2>2, <2>3 DEF ServerOK
  <1> QED
    BY <1>2, <1>4, <1>7, <1>8, UpdateStep

\* The resolver's request, and that for a message.
LEMMA OpenProjectKeeps ==
    ASSUME IInv, NEW p \in Project, OpenProject(p)
    PROVE  IInv'
  <1>1. PICK g \in Get :
          /\ get[g] = NoGet
          /\ get' = [get EXCEPT ![g] = [project |-> p, opens |-> TRUE, answer |-> NoView]]
    BY DEF OpenProject
  <1>2. /\ misled' = IF Asking(p) = {} THEN misled \ {p} ELSE misled \cup {p}
        /\ UNCHANGED <<stored, news, call, selectedTask, page>>
    BY DEF OpenProject
  <1> QED
    BY <1>1, <1>2, AskKeeps

LEMMA ReceiveKeeps ==
    ASSUME IInv, NEW p \in Project, Receive(p)
    PROVE  IInv'
  <1>1. PICK g \in Get :
          /\ get[g] = NoGet
          /\ get' = [get EXCEPT ![g] = [project |-> p, opens |-> FALSE, answer |-> NoView]]
    BY DEF Receive
  <1>2. /\ news' = news \ {p} /\ misled' = misled \cup (IF Asking(p) # {} THEN {p} ELSE {})
        /\ UNCHANGED <<stored, call, selectedTask, page>>
    BY DEF Receive, Mislead
  <1> QED
    BY <1>1, <1>2, AskKeeps

\* A message is lost: the page may be wrong about the project.
LEMMA LoseKeeps ==
    ASSUME IInv, NEW p \in Project, Lose(p)
    PROVE  IInv'
  <1>1. news' = news \ {p} /\ misled' = misled \cup {p} /\ UNCHANGED <<stored, get, call, selectedTask, page>>
    BY DEF Lose, Mislead
  <1>2. \A q : ViewOf(q)' = ViewOf(q)
    BY <1>1, SameViews
  <1>3. Covered \subseteq Covered'
    BY <1>1, <1>2 DEF Covered, Unread, Right
  <1>4. ServerOK'
    <2>1. \A g \in Get : GetGood(g)'
      BY <1>1, <1>2 DEF IInv, ServerOK, GetGood
    <2>2. Apart'
      BY <1>1 DEF IInv, ServerOK, Apart
    <2>3. ChangeGood'
      BY <1>1 DEF IInv, ServerOK, ChangeGood, Unread, stored
    <2> QED
      BY <2>1, <2>2, <2>3 DEF ServerOK
  <1> QED
    BY <1>1, <1>3, <1>4, UpdateStep DEF IInv, TypeOK

\* The server reads a project: what it answers is right, unless a change of it
\* is not committed.
LEMMA ReadKeeps ==
    ASSUME IInv, NEW g \in Get, Read(g)
    PROVE  IInv'
  <1> DEFINE p == get[g].project
             d == [get[g] EXCEPT !.answer = ViewOf(p)]
  <1>1. /\ get[g] # NoGet /\ get[g].answer = NoView /\ get' = [get EXCEPT ![g] = d]
        /\ misled' = misled \cup (IF Pending(p) THEN {p} ELSE {})
        /\ UNCHANGED <<stored, news, call, selectedTask, page>>
    BY DEF Read, Mislead
  <1>2. get \in [Get -> GetCall \cup {NoGet}] /\ get[g] \in GetCall /\ p \in Project
    BY <1>1 DEF IInv, TypeOK, GetCall
  <1>3. d \in GetCall /\ d # NoGet /\ d.project = p /\ d.answer = ViewOf(p) /\ ViewOf(p) # NoView
    BY <1>2, TasksOfProject, NothingAssumption DEF GetCall, IInv
  <1> HIDE DEF d
  <1>4. get' \in [Get -> GetCall \cup {NoGet}] /\ get'[g] = d /\ \A h \in Get \ {g} : get'[h] = get[h]
    BY <1>1, <1>2, <1>3
  <1>5. \A q : ViewOf(q)' = ViewOf(q)
    BY <1>1, SameViews
  <1>6. \A h \in Get : get[h] # NoGet => get'[h] # NoGet /\ get'[h].project = get[h].project
    BY <1>1, <1>3, <1>4
  <1>7. Covered \subseteq Covered'
    <2>1. ASSUME NEW q, NEW h \in Get, Unread(h, q) \/ Right(h, q)
          PROVE  Unread(h, q)' \/ Right(h, q)'
      <3>1. CASE h = g
        BY <1>3, <1>4, <1>5, <2>1, <3>1 DEF Unread, Right
      <3>2. CASE h # g
        BY <1>4, <1>5, <2>1, <3>2 DEF Unread, Right
      <3> QED
        BY <3>1, <3>2
    <2> QED
      BY <1>1, <2>1 DEF Covered
  <1>8. ServerOK'
    <2>1. ASSUME NEW h \in Get
          PROVE  GetGood(h)'
      <3>1. CASE h = g
        <4>1. /\ \A c \in d.answer.copies : ProjectOf[c.id] = p
              /\ \A t \in Task : ProjectOf[t] = p => \E c \in d.answer.copies : c.id = t
          BY <1>2, <1>3, TasksOfProject DEF IInv
        <4> QED
          BY <1>3, <1>4, <1>5, <3>1, <4>1 DEF GetGood
      <3>2. CASE h # g
        BY <1>1, <1>4, <1>5, <3>2 DEF IInv, ServerOK, GetGood
      <3> QED
        BY <3>1, <3>2
    <2>2. Apart'
      <3>1. \A h \in Get : get'[h] # NoGet => get[h] # NoGet
        BY <1>1, <1>4
      <3> QED
        BY <1>1, <1>6, <3>1 DEF IInv, ServerOK, Apart
    <2>3. ChangeGood'
      <3> SUFFICES ASSUME change # NoChange
                   PROVE  \/ change.project \in misled' \cup news'
                          \/ \E h \in Get : Unread(h, change.project)'
        BY <1>1 DEF IInv, ServerOK, ChangeGood, stored
      <3>1. CASE change.project \in misled \cup news
        BY <1>1, <3>1
      <3>2. ASSUME NEW h \in Get, Unread(h, change.project)
            PROVE  change.project \in misled' \/ Unread(h, change.project)'
        <4>1. CASE h = g
          BY <1>1, <3>2, <4>1 DEF Unread, Pending
        <4>2. CASE h # g
          BY <1>1, <1>4, <3>2, <4>2 DEF Unread, stored
        <4> QED
          BY <4>1, <4>2
      <3> QED
        BY <3>1, <3>2 DEF IInv, ServerOK, ChangeGood
    <2> QED
      BY <2>1, <2>2, <2>3 DEF ServerOK
  <1>9. misled' \subseteq Project
    BY <1>1, <1>2 DEF IInv, TypeOK
  <1> QED
    BY <1>1, <1>4, <1>7, <1>8, <1>9, UpdateStep DEF IInv, TypeOK

\* Requests for projects end without an answer: the page may be wrong about
\* them.
LEMMA FailuresCover ==
    ASSUME IInv, NEW G \in SUBSET Get, \A g \in G : get[g] # NoGet,
           get' = [g \in Get |-> IF g \in G THEN NoGet ELSE get[g]],
           misled' = misled \cup {get[g].project : g \in G}, UNCHANGED <<stored, news>>
    PROVE  /\ misled' \subseteq Project /\ get' \in [Get -> GetCall \cup {NoGet}]
           /\ Covered \subseteq Covered' /\ ServerOK'
  <1>1. get \in [Get -> GetCall \cup {NoGet}] /\ misled \subseteq Project
    BY DEF IInv, TypeOK
  <1>2. get' \in [Get -> GetCall \cup {NoGet}]
    BY <1>1
  <1>3. \A g \in G : get[g].project \in Project
    BY <1>1 DEF GetCall
  <1>4. misled' \subseteq Project /\ misled \subseteq misled' /\ \A g \in G : get[g].project \in misled'
    BY <1>1, <1>3
  <1>5. \A g \in Get : get'[g] # NoGet => g \notin G /\ get'[g] = get[g]
    OBVIOUS
  <1>6. \A g \in Get \ G : get'[g] = get[g]
    OBVIOUS
  <1>7. \A q : ViewOf(q)' = ViewOf(q)
    BY SameViews
  <1>8. \A q : \A g \in Get : Unread(g, q) => q \in misled' \/ Unread(g, q)'
    BY <1>4, <1>6 DEF Unread
  <1>9. \A q : \A g \in Get : Right(g, q) => q \in misled' \/ Right(g, q)'
    BY <1>4, <1>6, <1>7 DEF Right
  <1>10. Covered \subseteq Covered'
    BY <1>4, <1>8, <1>9 DEF Covered
  <1>11. ServerOK'
    <2>1. ASSUME NEW g \in Get
          PROVE  GetGood(g)'
      <3>1. GetGood(g)
        BY DEF IInv, ServerOK
      <3> QED
        BY <1>4, <1>5, <1>7, <3>1 DEF GetGood
    <2>2. Apart'
      BY <1>4, <1>5 DEF IInv, ServerOK, Apart
    <2>3. ChangeGood'
      <3> SUFFICES ASSUME change # NoChange
                   PROVE  \/ change.project \in misled' \cup news'
                          \/ \E h \in Get : Unread(h, change.project)'
        BY DEF IInv, ServerOK, ChangeGood, stored
      <3>1. CASE change.project \in misled \cup news
        BY <1>4, <3>1
      <3>2. CASE \E h \in Get : Unread(h, change.project)
        <4>1. change' = change
          BY DEF stored
        <4> QED
          BY <1>6, <1>4, <3>2, <4>1 DEF Unread
      <3> QED
        BY <3>1, <3>2 DEF IInv, ServerOK, ChangeGood
    <2> QED
      BY <2>1, <2>2, <2>3 DEF ServerOK
  <1> QED
    BY <1>2, <1>4, <1>10, <1>11

LEMMA GetFailsKeeps ==
    ASSUME IInv, NEW g \in Get, GetFails(g)
    PROVE  IInv'
  <1>1. /\ get[g] # NoGet /\ get' = [get EXCEPT ![g] = NoGet] /\ misled' = misled \cup {get[g].project}
        /\ UNCHANGED <<stored, news, call, selectedTask, page>>
    BY DEF GetFails, Mislead
  <1>2. /\ get' = [h \in Get |-> IF h \in {g} THEN NoGet ELSE get[h]]
        /\ misled' = misled \cup {get[h].project : h \in {g}}
    BY <1>1 DEF IInv, TypeOK
  <1>3. {g} \in SUBSET Get /\ \A h \in {g} : get[h] # NoGet
    BY <1>1
  <1>4. /\ misled' \subseteq Project /\ get' \in [Get -> GetCall \cup {NoGet}]
        /\ Covered \subseteq Covered' /\ ServerOK'
    BY <1>1, <1>2, <1>3, FailuresCover
  <1> QED
    BY <1>1, <1>4, UpdateStep DEF IInv, TypeOK

\* An answer about a project arrives: other projects stay covered, its copies
\* are fresh, and the answers to requests for its tasks are overtaken.
LEMMA ArrivesKeeps ==
    ASSUME IInv, NEW g \in Get, Arrives(g)
    PROVE  LET p == get[g].project IN
           /\ p \in Project /\ get[g].answer \in View
           /\ \A t \in Task : ProjectOf[t] = p => \E c \in get[g].answer.copies : c.id = t
           /\ get[g].answer.copies \subseteq Fresh'
           /\ \A c \in Fresh : ProjectOf[c.id] # p => c \in Fresh'
           /\ get' \in [Get -> GetCall \cup {NoGet}] /\ UNCHANGED <<stored, news, misled>>
           /\ ServerOK' /\ SlotsGood'
           /\ call' \in [Slot -> Call \cup {NoCall}] /\ CallsOK'
  <1> DEFINE p == get[g].project
  <1>1. /\ get[g] # NoGet /\ get[g].answer # NoView /\ get' = [get EXCEPT ![g] = NoGet]
        /\ UNCHANGED <<stored, news, misled>>
    BY DEF Arrives
  <1>2. /\ get \in [Get -> GetCall \cup {NoGet}] /\ get[g] \in GetCall
        /\ p \in Project /\ get[g].answer \in View
    BY <1>1 DEF IInv, TypeOK, GetCall
  <1>3. get'[g] = NoGet /\ \A h \in Get \ {g} : get'[h] = get[h]
    BY <1>1, <1>2
  <1>4. /\ \A q : ViewOf(q)' = ViewOf(q)
        /\ \A t : CopyOf(t)' = CopyOf(t)
    BY <1>1, SameViews DEF stored, CopyOf, Users
  <1>5. \A q \in Covered : q # p => q \in Covered'
    <2> SUFFICES ASSUME NEW q \in Covered, q # p
                 PROVE  q \in Covered'
      OBVIOUS
    <2>1. CASE q \in misled \cup news
      BY <1>1, <2>1 DEF Covered
    <2>2. ASSUME NEW h \in Get, Unread(h, q) \/ Right(h, q)
          PROVE  q \in Covered'
      <3>1. h # g
        BY <2>2 DEF Unread, Right
      <3>2. Unread(h, q)' \/ Right(h, q)'
        BY <1>3, <1>4, <2>2, <3>1 DEF Unread, Right
      <3> QED
        BY <3>2 DEF Covered
    <2> QED
      BY <2>1, <2>2 DEF Covered
  <1>6. \A c \in Fresh : ProjectOf[c.id] # p => c \in Fresh'
    BY <1>4, <1>5 DEF Fresh
  <1>7. /\ \A c \in get[g].answer.copies : ProjectOf[c.id] = p
        /\ \A t \in Task : ProjectOf[t] = p => \E c \in get[g].answer.copies : c.id = t
        /\ get[g].answer = ViewOf(p) \/ p \in misled \cup news
    BY <1>1 DEF IInv, ServerOK, GetGood
  <1>8. get[g].answer.copies \subseteq Fresh'
    <2>1. get[g].answer.copies \subseteq Copy
      BY <1>2 DEF View
    <2>2. CASE get[g].answer = ViewOf(p)
      <3>1. \A c \in get[g].answer.copies : c = CopyOf(c.id)
        BY <1>2, <2>2, TasksOfProject DEF IInv
      <3> QED
        BY <1>4, <2>1, <3>1 DEF Fresh
    <2>3. CASE p \in misled \cup news
      <3>1. p \in Covered'
        BY <1>1, <1>2, <2>3 DEF Covered
      <3> QED
        BY <1>7, <2>1, <3>1 DEF Fresh
    <2> QED
      BY <1>7, <2>2, <2>3
  <1>9. ServerOK'
    <2>1. ASSUME NEW h \in Get
          PROVE  GetGood(h)'
      BY <1>1, <1>3, <1>4 DEF IInv, ServerOK, GetGood
    <2>2. Apart'
      <3>1. \A h \in Get : get'[h] # NoGet => get'[h] = get[h]
        BY <1>3
      <3> QED
        BY <1>1, <3>1 DEF IInv, ServerOK, Apart
    <2>3. ChangeGood'
      <3>1. UNCHANGED <<change, tasks, joined>>
        BY <1>1 DEF stored
      <3>2. \A h \in Get : \A q : Unread(h, q) => Unread(h, q)'
        BY <1>1, <1>3 DEF Unread
      <3> QED
        BY <1>1, <3>1, <3>2 DEF IInv, ServerOK, ChangeGood
    <2> QED
      BY <2>1, <2>2, <2>3 DEF ServerOK
  <1>10. ASSUME NEW k \in Slot
         PROVE  /\ call'[k] \in Call \cup {NoCall} /\ CallGood(call'[k], Covered')
                /\ Waits(call[k]) => Waits(call[k])' /\ Waits(call'[k])
    <2> DEFINE c == call[k]
               late == c.answer # NoTask
               d == [c EXCEPT !.overtaken = late]
    <2>1. c \in Call \cup {NoCall} /\ CallGood(c, Covered) /\ UNCHANGED change
      BY <1>1 DEF IInv, TypeOK, CallsOK, stored
    <2>2. CASE c # NoCall /\ c.op \in TaskOp /\ ProjectOf[c.task] = p
      <3>1. call'[k] = d
        BY <2>2 DEF Arrives
      <3>2. c \in TaskCall
        BY <2>1, <2>2, CallKinds
      <3>3. /\ d \in TaskCall /\ d.answer = c.answer /\ d.task = c.task /\ d.op = c.op
            /\ d.answer # NoTask => d.overtaken
        BY <3>2 DEF TaskCall
      <3> HIDE DEF d
      <3>4. d \in Call /\ d # NoCall
        BY <3>3, CallKinds, NothingAssumption
      <3>5. CallGood(d, Covered')
        BY <2>1, <2>2, <3>3 DEF CallGood
      <3> QED
        BY <2>1, <3>1, <3>3, <3>4, <3>5 DEF Waits
    <2>3. CASE ~(c # NoCall /\ c.op \in TaskOp /\ ProjectOf[c.task] = p)
      <3>1. call'[k] = c
        BY <2>3 DEF Arrives
      <3>2. CallGood(c, Covered')
        BY <1>5, <2>1, <2>3 DEF CallGood
      <3> QED
        BY <2>1, <3>1, <3>2 DEF Waits
    <2> QED
      BY <2>2, <2>3
  <1>11. call' \in [Slot -> Call \cup {NoCall}] /\ CallsOK'
    <2>1. call' = [k \in Slot |-> call'[k]]
      BY DEF Arrives
    <2>2. call' \in [Slot -> Call \cup {NoCall}]
      BY <1>10, <2>1
    <2> QED
      BY <1>10, <2>2 DEF CallsOK
  <1>12. SlotsGood'
    <2>1. UNCHANGED change
      BY <1>1 DEF stored
    <2>2. change # NoChange => change.slots \subseteq Slot
      BY DEF IInv, TypeOK, Change
    <2>3. \A k \in Slot : Waits(call[k]) => Waits(call'[k])
      BY <1>10
    <2> QED
      BY <2>1, <2>2, <2>3 DEF IInv, SlotsGood, Waits
  <1>13. get' \in [Get -> GetCall \cup {NoGet}]
    BY <1>1, <1>2
  <1> QED
    BY <1>1, <1>2, <1>6, <1>7, <1>8, <1>9, <1>11, <1>12, <1>13

\* The page that is made of the answer, or told of it.
LEMMA ArrivedPage ==
    ASSUME IInv, NEW g \in Get, Arrives(g), selectedTask' \in Copy \cup {NoTask},
           page' = NoPage \/ PageGood(page', selectedTask', Fresh')
    PROVE  IInv'
  <1>1. /\ get' \in [Get -> GetCall \cup {NoGet}] /\ UNCHANGED <<stored, news, misled>>
        /\ ServerOK' /\ SlotsGood' /\ call' \in [Slot -> Call \cup {NoCall}] /\ CallsOK'
    BY ArrivesKeeps
  <1>2. page' \in Page \cup {NoPage}
    BY DEF PageGood
  <1>3. TypeOK'
    BY <1>1, <1>2 DEF IInv, TypeOK, stored
  <1>4. PageOK'
    BY DEF PageOK
  <1> QED
    BY <1>1, <1>3, <1>4 DEF IInv

\* The page as it is opened with an answer, before the first task is announced.
NewPage(p, view, first) ==
    [route |-> p, shown |-> p, view |-> view, tab |-> "Tasks", task |-> first,
     newProcessPoints |-> 0, typed |-> NoTask, highlighted |-> first.id, deaf |-> FALSE,
     behind |-> FALSE, action |-> "leave", confirming |-> NoProject]

LEMMA OpenedPage ==
    ASSUME IInv, NEW g \in Get, Opened(g)
    PROVE  \E p \in Project, view \in View, first \in Copy :
             /\ first \in view.copies /\ view = get[g].answer
             /\ NewPage(p, view, first) \in Page
             /\ selectedTask' = first
             /\ page' = selectedTaskChanged(NewPage(p, view, first), first)
  <1> DEFINE p == get[g].project
             view == get[g].answer
  <1>1. p \in Project /\ view \in View
    BY ArrivesKeeps DEF Opened
  <1>2. PICK first \in view.copies :
          selectedTask' = first /\ page' = selectedTaskChanged(NewPage(p, view, first), first)
    BY DEF Opened, NewPage
  <1> HIDE DEF view, p
  <1>3. first \in Copy /\ first.id \in Task /\ 0 \in Points
    BY <1>1, TaskPageAssumption DEF View, Copy, Points
  <1>4. NewPage(p, view, first) \in Page
    BY <1>1, <1>3 DEF NewPage, Page, Tab, ProjectOp
  <1> QED
    BY <1>1, <1>2, <1>3, <1>4 DEF view

LEMMA OpenedKeeps ==
    ASSUME IInv, NEW g \in Get, Opened(g)
    PROVE  IInv'
  <1>1. PICK p \in Project, view \in View, first \in Copy :
          /\ first \in view.copies /\ view = get[g].answer
          /\ NewPage(p, view, first) \in Page
          /\ selectedTask' = first
          /\ page' = selectedTaskChanged(NewPage(p, view, first), first)
    BY OpenedPage
  <1>2. view.copies \subseteq Fresh' /\ Arrives(g)
    BY <1>1, ArrivesKeeps DEF Opened
  <1> DEFINE new == NewPage(p, view, first)
             r == selectedTaskChanged(new, first)
  <1>3. new.tab = "Tasks" /\ new.view = view
    BY DEF NewPage
  <1>4. PageGood(r, first, Fresh')
    <2> HIDE DEF new
    <2> QED
      BY <1>1, <1>2, <1>3, ToldGood DEF new
  <1> QED
    BY <1>1, <1>2, <1>4, ArrivedPage

\* The copy of the selected task among others.
LEMMA Chosen ==
    ASSUME NEW copies, \E c \in copies : c.id = selectedTask.id
    PROVE  LET c == CHOOSE c \in copies : c.id = selectedTask.id
           IN  c \in copies /\ c.id = selectedTask.id
  OBVIOUS

\* The page with an update of the selected task, if it is one.
LEMMA UpdatedPage ==
    ASSUME NEW view \in View, NEW pg \in Page, DetailsGood(pg)
    PROVE  LET r == updateTasks(pg, view.copies) IN
           /\ r \in Page /\ DetailsGood(r)
           /\ \/ /\ \E c \in view.copies : c.id = selectedTask.id
                 /\ r.task # NoTask => r.task \in view.copies /\ r.task.id = selectedTask.id
                 /\ r.deaf \/ r.highlighted = selectedTask.id
              \/ ~(\E c \in view.copies : c.id = selectedTask.id) /\ r = pg
  <1> DEFINE copies == view.copies
             r == updateTasks(pg, copies)
  <1>1. CASE \E c \in copies : c.id = selectedTask.id
    <2> DEFINE c == CHOOSE c \in copies : c.id = selectedTask.id
               s == selectedTaskChanged(pg, c)
    <2>1. c \in copies /\ c.id = selectedTask.id
      BY <1>1, Chosen
    <2>2. r = s
      BY <1>1 DEF updateTasks
    <2> HIDE DEF c
    <2>3. c \in Copy
      BY <2>1 DEF View
    <2>4. /\ s \in Page /\ DetailsGood(s) /\ (s.task # NoTask => s.task = c)
          /\ s.deaf \/ s.highlighted = c.id
      BY <2>3, Told
    <2> HIDE DEF r, s
    <2> QED
      BY <1>1, <2>1, <2>2, <2>4 DEF r
  <1>2. CASE ~\E c \in copies : c.id = selectedTask.id
    BY <1>2 DEF updateTasks
  <1> QED
    BY <1>1, <1>2

\* An update of a project: the old copies go, in list and details.
LEMMA ProjectChangedKeeps ==
    ASSUME IInv, NEW g \in Get, projectChanged(g)
    PROVE  IInv'
  <1> DEFINE p == get[g].project
             view == get[g].answer
             r == updateTasks(page, view.copies)
             pg == [r EXCEPT !.shown = p, !.view = view]
  <1>1. Arrives(g) /\ selectedTask' = selectedTask /\ page' = IF page = NoPage THEN NoPage ELSE pg
    BY DEF projectChanged
  <1>2. /\ p \in Project /\ view \in View
        /\ \A t \in Task : ProjectOf[t] = p => \E c \in view.copies : c.id = t
        /\ view.copies \subseteq Fresh'
        /\ \A c \in Fresh : ProjectOf[c.id] # p => c \in Fresh'
    BY <1>1, ArrivesKeeps
  <1> HIDE DEF view, p
  <1>3. ASSUME page # NoPage
        PROVE  PageGood(pg, selectedTask, Fresh')
    <2>1. PageGood(page, selectedTask, Fresh) /\ page \in Page /\ DetailsGood(page) /\ selectedTask \in Copy
      BY <1>3 DEF IInv, PageOK, PageGood
    <2>2. /\ r \in Page /\ DetailsGood(r)
          /\ \/ r.task # NoTask => r.task \in view.copies
             \/ ~(\E c \in view.copies : c.id = selectedTask.id) /\ r = page
      BY <1>2, <2>1, UpdatedPage
    <2>3. r.task # NoTask /\ r.task.id = selectedTask.id /\ ~r.behind => r.task \in Fresh'
      <3>1. CASE r.task # NoTask => r.task \in view.copies
        BY <1>2, <3>1
      <3>2. CASE ~(\E c \in view.copies : c.id = selectedTask.id) /\ r = page
        <4>1. ProjectOf[selectedTask.id] # p
          BY <1>2, <2>1, <3>2 DEF Copy
        <4> HIDE DEF r
        <4> QED
          BY <1>2, <2>1, <3>2, <4>1 DEF PageGood
      <3> HIDE DEF r
      <3> QED
        BY <2>2, <3>1, <3>2
    <2> HIDE DEF r
    <2>4. /\ pg \in Page /\ pg.view = view /\ pg.task = r.task /\ pg.tab = r.tab
          /\ pg.newProcessPoints = r.newProcessPoints /\ pg.typed = r.typed
          /\ pg.behind = r.behind
      BY <1>2, <2>2 DEF Page
    <2> HIDE DEF pg
    <2> QED
      BY <1>2, <2>1, <2>2, <2>3, <2>4 DEF PageGood, DetailsGood
  <1> HIDE DEF pg
  <1>4. selectedTask' \in Copy \cup {NoTask}
    BY <1>1 DEF IInv, TypeOK
  <1> QED
    BY <1>1, <1>3, <1>4, ArrivedPage

-----------------------------------------------------------------------------
(* The end of a request.                                                   *)

\* The other requests stay as they are.
LEMMA EndedCalls ==
    ASSUME IInv, NEW k \in Slot, call' = [call EXCEPT ![k] = NoCall],
           change # NoChange => k \notin change.slots,
           UNCHANGED change, Covered \subseteq Covered'
    PROVE  call' \in [Slot -> Call \cup {NoCall}] /\ CallsOK' /\ SlotsGood'
  <1>1. call \in [Slot -> Call \cup {NoCall}]
    BY DEF IInv, TypeOK
  <1>2. call' \in [Slot -> Call \cup {NoCall}]
    BY <1>1
  <1>3. CallsOK'
    <2> SUFFICES ASSUME NEW j \in Slot
                 PROVE  CallGood(call'[j], Covered')
      BY DEF CallsOK
    <2>1. call'[j] = call[j] \/ call'[j] = NoCall
      BY <1>1
    <2> QED
      BY <2>1 DEF IInv, CallsOK, CallGood
  <1>4. SlotsGood'
    <2>1. change # NoChange => change.slots \subseteq Slot
      BY DEF IInv, TypeOK, Change
    <2> QED
      BY <1>1, <2>1 DEF IInv, SlotsGood, Waits
  <1> QED
    BY <1>2, <1>3, <1>4

\* No transaction waits for a request that is answered or not for a task.
LEMMA NoSlot ==
    ASSUME IInv, NEW k \in Slot, call[k] # NoCall,
           call[k].op \in TaskOp => call[k].answer # NoTask
    PROVE  change # NoChange => k \notin change.slots
  BY DEF IInv, SlotsGood, Waits

LEMMA EndKeeps ==
    ASSUME IInv, NEW k \in Slot, call' = [call EXCEPT ![k] = NoCall],
           change # NoChange => k \notin change.slots,
           UNCHANGED <<stored, updates, selectedTask>>,
           page' = NoPage \/ PageGood(page', selectedTask, Fresh)
    PROVE  IInv'
  <1>1. UNCHANGED <<tasks, joined, change, changes, news, get, misled>>
    BY DEF stored, updates
  <1>2. Covered' = Covered /\ Fresh' = Fresh /\ ServerOK'
    BY SameServer DEF IInv
  <1>3. call' \in [Slot -> Call \cup {NoCall}] /\ CallsOK' /\ SlotsGood'
    BY <1>1, <1>2, EndedCalls
  <1>4. TypeOK'
    <2>1. page' \in Page \cup {NoPage}
      BY DEF PageGood
    <2> QED
      BY <1>1, <1>3, <2>1 DEF IInv, TypeOK
  <1>5. PageOK'
    BY <1>2 DEF PageOK
  <1> QED
    BY <1>2, <1>3, <1>4, <1>5 DEF IInv

\* An answer tells the details; if an update was faster they may be behind.
LEMMA AnswerKeeps ==
    ASSUME IInv, NEW k \in Slot, Answer(k)
    PROVE  IInv'
  <1> DEFINE c == call[k]
             told == selectedTaskChanged(page, c.answer)
             late == c.overtaken /\ page.tab = "Tasks"
             pg == [told EXCEPT !.behind = late]
  <1>1. /\ c # NoCall /\ c.op \in TaskOp /\ c.answer # NoTask
        /\ call' = [call EXCEPT ![k] = NoCall]
        /\ UNCHANGED <<stored, updates, selectedTask>>
        /\ page' = IF page = NoPage THEN NoPage ELSE pg
    BY DEF Answer
  <1>2. c \in TaskCall /\ CallGood(c, Covered)
    BY <1>1, CallKinds DEF IInv, TypeOK, CallsOK
  <1>3. /\ c.answer \in Copy /\ c.overtaken \in BOOLEAN
        /\ ~c.overtaken => c.answer \in Fresh
    BY <1>1, <1>2 DEF TaskCall, CallGood, Fresh
  <1>4. ASSUME page # NoPage
        PROVE  PageGood(pg, selectedTask, Fresh)
    <2>1. PageGood(page, selectedTask, Fresh)
      BY <1>4 DEF IInv, PageOK
    <2>2. /\ told \in Page /\ told.tab = page.tab /\ told.view = page.view
          /\ DetailsGood(told) /\ (told.task # NoTask => told.task = c.answer)
      BY <1>3, <2>1, Told DEF PageGood
    <2>3. late \in BOOLEAN
      BY <1>3
    <2> HIDE DEF told, c
    <2>4. /\ pg \in Page /\ pg.tab = told.tab /\ pg.view = told.view /\ pg.task = told.task
          /\ pg.newProcessPoints = told.newProcessPoints /\ pg.typed = told.typed
          /\ pg.behind = late
      <3> HIDE DEF late
      <3> QED
        BY <2>2, <2>3 DEF Page
    <2> HIDE DEF pg
    <2>5. pg.task # NoTask /\ ~pg.behind => pg.task \in Fresh
      BY <1>3, <2>2, <2>4 DEF DetailsGood
    <2>6. DetailsGood(pg)
      BY <2>2, <2>4 DEF DetailsGood
    <2> QED
      BY <2>1, <2>2, <2>4, <2>5, <2>6 DEF PageGood
  <1>5. change # NoChange => k \notin change.slots
    BY <1>1, NoSlot
  <1> HIDE DEF pg
  <1> QED
    BY <1>1, <1>4, <1>5, EndKeeps

\* A request that fails ends, and the dialog with it.
LEMMA FailureKeeps ==
    ASSUME IInv, NEW k \in Slot, Failure(k)
    PROVE  IInv'
  <1>1. /\ call' = [call EXCEPT ![k] = NoCall]
        /\ change # NoChange => k \notin change.slots
        /\ UNCHANGED <<stored, updates, selectedTask>>
    BY DEF Failure
  <1>2. CASE page' = page
    BY <1>1, <1>2, EndKeeps DEF IInv, PageOK
  <1>3. CASE page # NoPage /\ page' = [page EXCEPT !.confirming = NoProject]
    <2>1. PageGood(page, selectedTask, Fresh)
      BY <1>3 DEF IInv, PageOK
    <2>2. /\ page' \in Page /\ page'.task = page.task /\ page'.tab = page.tab
          /\ page'.view = page.view /\ page'.behind = page.behind
          /\ page'.typed = page.typed /\ page'.newProcessPoints = page.newProcessPoints
      BY <1>3, <2>1 DEF PageGood, Page
    <2>3. PageGood(page', selectedTask, Fresh)
      BY <2>1, <2>2 DEF PageGood, DetailsGood
    <2> QED
      BY <1>1, <2>3, EndKeeps
  <1> QED
    BY <1>2, <1>3 DEF Failure

\* A project that is deleted or left has no page, and none is waited for.
LEMMA SuccessKeeps ==
    ASSUME IInv, NEW k \in Slot, Success(k)
    PROVE  IInv'
  <1>1. /\ call[k] # NoCall /\ call[k].op \in ProjectOp
        /\ call' = [call EXCEPT ![k] = NoCall] /\ page' = NoPage
        /\ get' = [g \in Get |-> IF g \in Opening THEN NoGet ELSE get[g]]
        /\ misled' = misled \cup {get[g].project : g \in Opening}
        /\ UNCHANGED <<stored, news, selectedTask>>
    BY DEF Success, Mislead
  <1>2. Opening \in SUBSET Get /\ \A g \in Opening : get[g] # NoGet
    BY DEF Opening
  <1>3. /\ misled' \subseteq Project /\ get' \in [Get -> GetCall \cup {NoGet}]
        /\ Covered \subseteq Covered' /\ ServerOK'
    BY <1>1, <1>2, FailuresCover
  <1>4. change # NoChange => k \notin change.slots
    BY <1>1, NoSlot DEF TaskOp, ProjectOp
  <1>5. UNCHANGED <<tasks, joined, change, changes, news>>
    BY <1>1 DEF stored
  <1>6. call' \in [Slot -> Call \cup {NoCall}] /\ CallsOK' /\ SlotsGood'
    BY <1>1, <1>3, <1>4, <1>5, EndedCalls
  <1>7. TypeOK' /\ PageOK'
    BY <1>1, <1>3, <1>5, <1>6 DEF IInv, TypeOK, PageOK
  <1> QED
    BY <1>3, <1>6, <1>7 DEF IInv

-----------------------------------------------------------------------------
(* The theorems.                                                           *)

\* No page, no request, no update.
LEMMA InitIInv == Init => IInv
  <1> SUFFICES ASSUME Init PROVE IInv
    OBVIOUS
  <1>1. 0 \in Points /\ 0 \in 0 .. MaxChanges
    BY TaskPageAssumption DEF Points
  <1>2. TypeOK
    BY <1>1, TaskPageAssumption DEF Init, TypeOK, Row
  <1>3. PageOK /\ CallsOK /\ SlotsGood
    BY DEF Init, PageOK, CallsOK, CallGood, SlotsGood
  <1>4. ServerOK
    BY DEF Init, ServerOK, GetGood, Apart, ChangeGood
  <1> QED
    BY <1>2, <1>3, <1>4 DEF IInv

\* Every step keeps the invariant.
LEMMA StepIInv == IInv /\ [Next]_vars => IInv'
  <1> SUFFICES ASSUME IInv, [Next]_vars
               PROVE  IInv'
    OBVIOUS
  <1>1. CASE UNCHANGED vars
    <2>1. UNCHANGED <<stored, updates, call, selectedTask, page>>
      BY <1>1 DEF vars
    <2>2. UNCHANGED <<tasks, joined, change, changes, news, get, misled>>
      BY <2>1 DEF stored, updates
    <2> QED
      BY <2>1, <2>2, SameServer DEF IInv, TypeOK, PageOK, CallsOK, SlotsGood, Waits
  <1>2. ASSUME NEW p \in Project, OpenProject(p) PROVE IInv'
    BY <1>2, OpenProjectKeeps
  <1>3. ASSUME NEW p \in Project, OtherJoins(p) \/ OtherLeaves(p) PROVE IInv'
    BY <1>3, MembersKeep
  <1>4. ASSUME NEW p \in Project, Receive(p) PROVE IInv'
    BY <1>4, ReceiveKeeps
  <1>5. ASSUME NEW p \in Project, Lose(p) PROVE IInv'
    BY <1>5, LoseKeeps
  <1>6. CASE Back
    BY <1>6, BackKeeps
  <1>7. ASSUME NEW tab \in Tab, SelectTab(tab) PROVE IInv'
    BY <1>7, SelectTabKeeps
  <1>8. CASE onListItemClicked \/ onMapClicked
    BY <1>8, SelectTaskKeeps
  <1>9. CASE TypePoints
    BY <1>9, TypePointsKeeps
  <1>10. CASE \/ onAssignButtonClicked \/ onUnassignButtonClicked
              \/ onSaveButtonClick \/ onDoneButtonClick \/ onYesButtonClicked
    BY <1>10, RequestsKeep
  <1>11. CASE onDeleteOrLeaveClicked \/ onNoButtonClicked
    BY <1>11, ConfirmingKeeps
  <1>12. CASE OtherWorks
    BY <1>12, OtherWorksKeeps
  <1>13. CASE Commit
    BY <1>13, CommitKeeps
  <1>14. CASE Rollback
    BY <1>14, RollbackKeeps
  <1>15. ASSUME NEW g \in Get, Read(g) PROVE IInv'
    BY <1>15, ReadKeeps
  <1>16. ASSUME NEW g \in Get, GetFails(g) PROVE IInv'
    BY <1>16, GetFailsKeeps
  <1>17. ASSUME NEW g \in Get, Opened(g) PROVE IInv'
    BY <1>17, OpenedKeeps
  <1>18. ASSUME NEW g \in Get, projectChanged(g) PROVE IInv'
    BY <1>18, ProjectChangedKeeps
  <1>19. ASSUME NEW k \in Slot, Serve(k) PROVE IInv'
    BY <1>19, ServeKeeps
  <1>20. ASSUME NEW k \in Slot, Answer(k) PROVE IInv'
    BY <1>20, AnswerKeeps
  <1>21. ASSUME NEW k \in Slot, Failure(k) PROVE IInv'
    BY <1>21, FailureKeeps
  <1>22. ASSUME NEW k \in Slot, Success(k) PROVE IInv'
    BY <1>22, SuccessKeeps
  <1> QED
    BY <1>1, <1>2, <1>3, <1>4, <1>5, <1>6, <1>7, <1>8, <1>9, <1>10, <1>11, <1>12, <1>13,
       <1>14, <1>15, <1>16, <1>17, <1>18, <1>19, <1>20, <1>21, <1>22 DEF Next

\* The invariant holds in every state: every copy of a task in the tab is as the
\* server would answer it, or its project is covered.
THEOREM Inductive == Spec => []IInv
  BY InitIInv, StepIInv, PTL DEF Spec

\* FormOK: what was typed for one task never stands in the form of another.
THEOREM FormIsOwn == Spec => []FormOK
  <1>1. IInv => FormOK
    <2> SUFFICES ASSUME IInv PROVE FormOK
      OBVIOUS
    <2>1. FormIsOfTask
      BY DEF FormIsOfTask, HasDetails, IInv, PageOK, PageGood, DetailsGood
    <2> QED
      BY <2>1 DEF IInv, FormOK
  <1> QED
    BY <1>1, Inductive, PTL

\* DetailsCatchUp: when nothing about its project is on its way, the details show
\* the selected task as the server would answer it, with the named exceptions.
THEOREM DetailsFollow == Spec => []DetailsCatchUp
  <1>1. IInv => DetailsCatchUp
    <2> SUFFICES ASSUME IInv, HasDetails, page.task.id = selectedTask.id, ~page.behind,
                        Settled(ProjectOf[page.task.id])
                 PROVE  page.task = CopyOf(page.task.id)
      BY DEF DetailsCatchUp
    <2>1. PageGood(page, selectedTask, Fresh) /\ page.task # NoTask
      BY DEF IInv, PageOK, HasDetails
    <2>2. page.task \in Fresh
      BY <2>1 DEF PageGood
    <2>3. ProjectOf[page.task.id] \notin Covered
      BY DEF Settled, Asking, Covered, Unread, Right
    <2> QED
      BY <2>2, <2>3 DEF Fresh
  <1> QED
    BY <1>1, Inductive, PTL

\* AgreementLasts: details, map and list agree on the selected task until a late
\* answer about another task.
THEOREM AgreementOnlyLostByAnswers == Spec => AgreementLasts
  <1> DEFINE Lasts == Agreement(page, selectedTask) =>
                \/ Agreement(page', selectedTask')
                \/ \E k \in Slot : Answer(k) /\ call[k].task # selectedTask.id
  <1>1. IInv /\ [Next]_vars => [Lasts]_vars
    <2> SUFFICES ASSUME IInv, Next, Agreement(page, selectedTask)
                 PROVE  \/ Agreement(page', selectedTask')
                        \/ \E k \in Slot : Answer(k) /\ call[k].task # selectedTask.id
      BY DEF Lasts
    <2>1. page # NoPage => /\ PageGood(page, selectedTask, Fresh)
                           /\ page \in Page /\ DetailsGood(page) /\ page.view.copies \subseteq Copy
                           /\ selectedTask \in Copy
      BY DEF IInv, PageOK, PageGood, Fresh
    \* After an announcement of the selected task.
    <2>2. ASSUME NEW pg \in Page, pg.tab = "Tasks" \/ DetailsGood(pg), NEW copy \in Copy,
                 NEW selected, copy.id = selected.id
          PROVE  Agreement(selectedTaskChanged(pg, copy), selected)
      <3> DEFINE r == selectedTaskChanged(pg, copy)
      <3>1. (r.task # NoTask => r.task = copy) /\ (r.deaf \/ r.highlighted = copy.id)
        BY <2>2, Told
      <3> HIDE DEF r
      <3> QED
        BY <2>2, <3>1 DEF Agreement, r
    \* A page that only differs in what the announcements do not touch.
    <2>3. ASSUME NEW pg, NEW r, r.task = pg.task, r.deaf = pg.deaf, r.highlighted = pg.highlighted,
                 NEW selected, pg # NoPage, Agreement(pg, selected)
          PROVE  Agreement(r, selected)
      BY <2>3 DEF Agreement
    <2>4. ASSUME NEW g \in Get, Opened(g)
          PROVE  Agreement(page', selectedTask')
      <3>1. PICK p \in Project, view \in View, first \in Copy :
              /\ NewPage(p, view, first) \in Page
              /\ selectedTask' = first
              /\ page' = selectedTaskChanged(NewPage(p, view, first), first)
        BY <2>4, OpenedPage
      <3>2. NewPage(p, view, first).tab = "Tasks"
        BY DEF NewPage
      <3> QED
        BY <2>2, <3>1, <3>2
    <2>5. CASE Back \/ \E k \in Slot : Success(k)
      BY <2>5 DEF Back, Success, Agreement
    <2>6. ASSUME NEW tab \in Tab, SelectTab(tab)
          PROVE  Agreement(page', selectedTask')
      <3>1. page # NoPage /\ selectedTask' = selectedTask /\ selectedTask.points \in Points
        BY <2>1, <2>6 DEF SelectTab, Copy
      <3>2. /\ page'.task \in {selectedTask, NoTask} /\ page'.deaf = page.deaf
            /\ page'.highlighted = page.highlighted
        <4>1. CASE tab = "Tasks"
          BY <2>1, <2>6, <3>1, <4>1 DEF SelectTab, DetailsSelectTask, Page
        <4>2. CASE tab = "Settings"
          BY <2>1, <2>6, <3>1, <4>2 DEF SelectTab, Page
        <4> QED
          BY <4>1, <4>2 DEF Tab
      <3> QED
        BY <3>1, <3>2 DEF Agreement
    <2>7. CASE onListItemClicked \/ onMapClicked
      <3>1. page # NoPage /\ \E clicked \in page.view.copies : selectTask(clicked)
        BY <2>7 DEF onListItemClicked, onMapClicked
      <3>2. PICK clicked \in page.view.copies : selectTask(clicked)
        BY <3>1
      <3> QED
        BY <2>1, <2>2, <3>1, <3>2 DEF selectTask
    <2>8. CASE TypePoints
      <3>1. /\ page'.task = page.task /\ page'.deaf = page.deaf /\ page # NoPage
            /\ page'.highlighted = page.highlighted /\ selectedTask' = selectedTask
        BY <2>1, <2>8 DEF TypePoints, HasDetails, Page
      <3> QED
        BY <2>3, <3>1
    <2>9. CASE onDeleteOrLeaveClicked \/ onNoButtonClicked
      <3>1. /\ page'.task = page.task /\ page'.deaf = page.deaf /\ page # NoPage
            /\ page'.highlighted = page.highlighted /\ selectedTask' = selectedTask
        BY <2>1, <2>9 DEF onDeleteOrLeaveClicked, onNoButtonClicked, Page
      <3> QED
        BY <2>3, <3>1
    <2>10. CASE \/ onAssignButtonClicked \/ onUnassignButtonClicked
                \/ onSaveButtonClick \/ onDoneButtonClick \/ onYesButtonClicked
      BY <2>10 DEF onAssignButtonClicked, onUnassignButtonClicked, onSaveButtonClick,
         onDoneButtonClick, onYesButtonClicked, SendForTask, Send
    \* What the server and the messages do.
    <2>11. CASE OtherWorks \/ Commit \/ Rollback \/ \E k \in Slot : Serve(k)
      BY <2>11 DEF OtherWorks, Commit, Rollback, Serve, Work, Begin
    <2>12. CASE \E p \in Project : \/ OpenProject(p) \/ OtherJoins(p) \/ OtherLeaves(p)
                                   \/ Receive(p) \/ Lose(p)
      BY <2>12 DEF OpenProject, OtherJoins, OtherLeaves, Begin, Receive, Lose
    <2>13. CASE \E g \in Get : Read(g) \/ GetFails(g)
      BY <2>13 DEF Read, GetFails
    <2>14. ASSUME NEW k \in Slot, Failure(k)
           PROVE  Agreement(page', selectedTask')
      <3>1. selectedTask' = selectedTask
        BY <2>14 DEF Failure
      <3>2. CASE page' = page
        BY <3>1, <3>2
      <3>3. CASE page # NoPage /\ page' = [page EXCEPT !.confirming = NoProject]
        <4>1. /\ page'.task = page.task /\ page'.deaf = page.deaf
              /\ page'.highlighted = page.highlighted
          BY <2>1, <3>3 DEF Page
        <4> QED
          BY <2>3, <3>1, <3>3, <4>1
      <3> QED
        BY <2>14, <3>2, <3>3 DEF Failure
    <2>15. ASSUME NEW g \in Get, projectChanged(g)
           PROVE  Agreement(page', selectedTask')
      <3>1. selectedTask' = selectedTask /\ Arrives(g)
        BY <2>15 DEF projectChanged
      <3>2. CASE page = NoPage
        BY <2>15, <3>2 DEF projectChanged, Agreement
      <3>3. CASE page # NoPage
        <4> DEFINE p == get[g].project
                   view == get[g].answer
                   r == updateTasks(page, view.copies)
        <4>1. page' = [r EXCEPT !.shown = p, !.view = view]
          BY <2>15, <3>3 DEF projectChanged
        <4>2. r \in Page /\ Agreement(r, selectedTask)
          <5>1. view \in View
            BY <3>1, ArrivesKeeps
          <5>2. /\ r \in Page
                /\ \/ /\ r.task # NoTask => r.task.id = selectedTask.id
                      /\ r.deaf \/ r.highlighted = selectedTask.id
                   \/ r = page
            BY <2>1, <3>3, <5>1, UpdatedPage
          <5> HIDE DEF r
          <5> QED
            BY <5>2 DEF Agreement
        <4> HIDE DEF r, view, p
        <4>3. page'.task = r.task /\ page'.deaf = r.deaf /\ page'.highlighted = r.highlighted
          BY <4>1, <4>2 DEF Page
        <4>4. r # NoPage
          BY <4>2, NothingAssumption
        <4> QED
          BY <2>3, <3>1, <4>2, <4>3, <4>4
      <3> QED
        BY <3>2, <3>3
    <2>16. ASSUME NEW k \in Slot, Answer(k), call[k].task = selectedTask.id
           PROVE  Agreement(page', selectedTask')
      <3> DEFINE c == call[k]
                 told == selectedTaskChanged(page, c.answer)
                 late == c.overtaken /\ page.tab = "Tasks"
      <3>1. /\ c # NoCall /\ c.op \in TaskOp /\ c.answer # NoTask
            /\ selectedTask' = selectedTask
            /\ page' = IF page = NoPage THEN NoPage ELSE [told EXCEPT !.behind = late]
        BY <2>16 DEF Answer
      <3>2. c.answer \in Copy /\ c.answer.id = selectedTask.id
        <4>1. c \in TaskCall /\ CallGood(c, Covered)
          BY <3>1, CallKinds DEF IInv, TypeOK, CallsOK
        <4> QED
          BY <2>16, <3>1, <4>1 DEF TaskCall, CallGood
      <3>3. CASE page = NoPage
        BY <3>1, <3>3 DEF Agreement
      <3>4. CASE page # NoPage
        <4>1. Agreement(told, selectedTask) /\ told \in Page
          BY <2>1, <2>2, <3>2, <3>4, Told
        <4> HIDE DEF told, late
        <4>2. page'.task = told.task /\ page'.deaf = told.deaf /\ page'.highlighted = told.highlighted
          BY <3>1, <3>4, <4>1 DEF Page
        <4>3. told # NoPage
          BY <4>1, NothingAssumption
        <4> QED
          BY <2>3, <3>1, <4>1, <4>2, <4>3
      <3> QED
        BY <3>3, <3>4
    <2> QED
      BY <2>4, <2>5, <2>6, <2>7, <2>8, <2>9, <2>10, <2>11, <2>12, <2>13, <2>14, <2>15, <2>16
         DEF Next
  <1> QED
    BY <1>1, Inductive, PTL DEF Spec, AgreementLasts
=============================================================================
