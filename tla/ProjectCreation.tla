-------------------------- MODULE ProjectCreation ---------------------------
(***************************************************************************)
(* The page on which a user puts a new project together.  The drafts of    *)
(* its tasks are kept by TaskDraftService, which lives as long as the      *)
(* browser tab; the map, its drawing tools, the tool bar, the list and the *)
(* form that divides a task belong to the page and start anew with it.     *)
(* What is saved are the features on the map, not the drafts of the list.  *)
(*                                                                         *)
(* Every handler of the page is a function from states to states: the      *)
(* events of the service are handled before the call that emits returns.   *)
(* A draft is seen as its id, the size of its polygon (what a grid makes   *)
(* of it) and whether its geometry is an OpenLayers feature: toTaskDraft   *)
(* puts the bare polygon into it.  Names and properties are left out.      *)
(***************************************************************************)
EXTENDS Integers, FiniteSets, SequencesExt

CONSTANTS
    Size,               \* sizes of polygons
    Bare,               \* stands for the size when the geometry is no feature
    CellSize,           \* the size of a cell of a grid
    Grid,               \* what can be entered for size and shape of the cells
    NoGrid,             \* an entry whose cell size is not positive
    FirstGrid,          \* the grid of a new form
    Cells,              \* how many cells a grid has in a polygon of a size
    Exports,            \* sequences of sizes: the tasks of projects to import
    maxTasksPerProject,
    MaxDrafts,          \* bound: drafts at the same time
    MaxCalls,           \* bound: requests on their way
    NoDraft, NoButton, NoDivide

ASSUME ProjectCreationAssumption ==
    /\ CellSize \in Size /\ FirstGrid \in Grid /\ NoGrid \notin Grid
    /\ Cells \in [Size -> [Grid -> Nat]]
    /\ Exports \subseteq Seq(Size)
    /\ maxTasksPerProject \in Nat /\ MaxDrafts \in Nat /\ MaxCalls \in Nat
    /\ NoDraft \notin Nat /\ Bare \notin Size

VARIABLES
    tasks,     \* TaskDraftService: the drafts
    selected,  \* TaskDraftService: the id of the selected draft
    page,      \* the page and the components on it
    copying,   \* exports asked for
    saving     \* new projects sent to the server

vars == <<tasks, selected, page, copying, saving>>

-----------------------------------------------------------------------------
DraftId == 0 .. MaxDrafts - 1
Draft == [id : DraftId, size : Size \cup {Bare}]
Tool == {"draw", "edit", "delete"}
Tab == {"Tasks", "other"} \* the other three tabs only differ in what they show

\* The form that divides a task, with the number of its previewTasks.
Division == [grid : Grid \cup {NoGrid}, cells : Nat]

\* Nothing entered, no button and no form are none of those.
ASSUME NothingAssumption == NoButton \notin Tool /\ NoDivide \notin Division

\* deaf: the service's events the page does not handle any more.  old: the
\* drafts that were there before the page and that it has not shown yet.
Page == [open : BOOLEAN, tab : Tab, active : Tool \cup {"select"}, button : Tool \cup {NoButton},
         map : SUBSET Draft, divide : Division \cup {NoDivide}, preview : BOOLEAN,
         deaf : SUBSET {"added", "changed"}, old : SUBSET DraftId]

NewPage == [open |-> TRUE, tab |-> "other", active |-> "select", button |-> NoButton, map |-> {},
            divide |-> NoDivide, preview |-> FALSE, deaf |-> {}, old |-> {t.id : t \in tasks}]
NoPage == [NewPage EXCEPT !.open = FALSE, !.old = {}]

TypeOK ==
    /\ tasks \subseteq Draft
    /\ selected \in DraftId \cup {NoDraft}
    /\ page \in Page
    /\ copying \in 0 .. MaxCalls /\ saving \in 0 .. MaxCalls

Init ==
    /\ tasks = {} /\ selected = NoDraft
    /\ page = NoPage
    /\ copying = 0 /\ saving = 0

-----------------------------------------------------------------------------
\* The handlers, on states of service and page.
state == [tasks |-> tasks, selected |-> selected, page |-> page]
SelectedDraft(s) == CHOOSE t \in s.tasks : t.id = s.selected
canAddTasks(s) == Cardinality(s.tasks) < maxTasksPerProject

selectTask(s, id) == [s EXCEPT !.selected = id, !.page.preview = FALSE]

deselectTask(s) == selectTask(s, NoDraft)

setInteraction(s, tool, on) == deselectTask([s EXCEPT !.page.active = IF on THEN tool ELSE "select"])

removeFromMap(s, id) == [s EXCEPT !.page.map = @ \ {f \in @ : f.id = id}]

\* addFeatures fails on a bare polygon before any feature is added, and the
\* failure ends the subscription it happened in.
showTasks(s, new, event) ==
    IF ~s.page.open \/ event \in s.page.deaf THEN s
    ELSE IF \E t \in new : t.size = Bare THEN [s EXCEPT !.page.deaf = @ \cup {event}]
    ELSE LET shown == [s EXCEPT !.page.map = @ \cup new]
         IN  IF canAddTasks(s) THEN shown ELSE setInteraction(shown, "draw", FALSE)

\* In ascending order: the fold takes an element after all smaller ones.
findSmallestId(ids) ==
    MapThenFoldSet(LAMBDA id, current : IF id = current THEN current + 1 ELSE current, 0,
                   LAMBDA id : id, Max, ids)

withIds(ts, new) ==
    FoldLeft(LAMBDA all, t : all \cup {[t EXCEPT !.id = findSmallestId({u.id : u \in all})]}, ts, new)

addTasks_Deaf(s, new) == [s EXCEPT !.tasks = withIds(@, new)]

addTasks(s, new) ==
    LET all == withIds(s.tasks, new)
    IN  showTasks([s EXCEPT !.tasks = all], all \ s.tasks, "added")

removeTask_KeepsFeature(s, id) ==
    LET left == [s EXCEPT !.tasks = @ \ {t \in @ : t.id = id}]
    IN  IF s.selected = id THEN deselectTask(left) ELSE left

removeTask(s, id) ==
    LET left == [s EXCEPT !.tasks = @ \ {t \in @ : t.id = id}]
    IN  removeFromMap(IF s.selected = id THEN deselectTask(left) ELSE left, id)

changeTaskName_AsNew(s, id) ==
    LET t == CHOOSE u \in s.tasks : u.id = id
    IN  addTasks(removeTask(s, id), <<t>>)

changeTaskName(s, id) ==
    LET t == CHOOSE u \in s.tasks : u.id = id
    IN  IF ~s.page.open \/ "changed" \in s.page.deaf THEN s ELSE showTasks(removeFromMap(s, id), {t}, "changed")

\* Neither knows an id: addTasks finds one.
toTaskDraft == [id |-> NoDraft, size |-> Bare]
toImportedDraft(size) == [toTaskDraft EXCEPT !.size = size]

amountOfCells(d, grid) == IF grid = NoGrid \/ d.size = Bare THEN 0 ELSE Cells[d.size][grid]
createTaskDrafts(d, grid) == [i \in 1 .. amountOfCells(d, grid) |-> toImportedDraft(CellSize)]

\* A form is there as long as the tab "Tasks" shows a selected draft, whichever
\* it is; a new one asks for the cells, in vain when the geometry is bare.
newForm(d, grid) == [grid |-> grid, cells |-> amountOfCells(d, grid)]

rendered(s) ==
    LET shown == s.page.open /\ s.page.tab = "Tasks" /\ s.selected # NoDraft
    IN  [s EXCEPT !.page.old = @ \cap {t.id : t \in s.tasks \ s.page.map},
                  !.page.divide = IF ~shown THEN NoDivide
                                  ELSE IF @ = NoDivide THEN newForm(SelectedDraft(s), FirstGrid) ELSE @]

Become(s) ==
    /\ Cardinality(s.tasks) <= MaxDrafts
    /\ LET r == rendered(s) IN tasks' = r.tasks /\ selected' = r.selected /\ page' = r.page

-----------------------------------------------------------------------------
\* The page comes and goes.
OpenPage ==
    /\ ~page.open
    /\ Become([state EXCEPT !.page = NewPage])
    /\ UNCHANGED <<copying, saving>>

Cancel ==
    /\ page.open
    /\ Become([state EXCEPT !.page = NoPage])
    /\ UNCHANGED <<copying, saving>>

onTabSelected_KeepsButton(tab) ==
    Become([state EXCEPT !.page.tab = tab, !.page.active = "select", !.page.preview = FALSE])

onTabSelected(tab) ==
    Become([state EXCEPT !.page.tab = tab, !.page.active = "select", !.page.preview = FALSE,
                         !.page.button = NoButton])

SelectTab ==
    /\ page.open
    /\ \E tab \in Tab : onTabSelected(tab)
    /\ UNCHANGED <<copying, saving>>

\* The tool bar, by mouse or key; the key "esc" stands for the button that is
\* selected.  The disabled button "draw" has a key as well.
onToggle(s, tool) == setInteraction(s, tool, s.page.active # tool)

onButton(tool) ==
    /\ page.open
    /\ Become([onToggle(state, tool) EXCEPT !.page.button = IF @ = tool THEN NoButton ELSE tool])
    /\ UNCHANGED <<copying, saving>>

\* The interactions of the map.
DrawEnd ==
    /\ page.open /\ page.active = "draw"
    /\ Become(addTasks(state, <<toTaskDraft>>))
    /\ UNCHANGED <<copying, saving>>

Modify ==
    /\ page.open /\ page.active = "edit"
    /\ \E f \in page.map, size \in Size :
          LET resized(ts) == {IF t = f THEN [t EXCEPT !.size = size] ELSE t : t \in ts}
          IN  Become([state EXCEPT !.tasks = resized(@), !.page.map = resized(@)])
    /\ UNCHANGED <<copying, saving>>

RemoveOnMap ==
    /\ page.open /\ page.active = "delete"
    /\ \E f \in page.map : Become(removeTask(state, f.id))
    /\ UNCHANGED <<copying, saving>>

SelectOnMap ==
    /\ page.open /\ page.active = "select"
    /\ Become(deselectTask(state)) \/ \E f \in page.map : Become(selectTask(state, f.id))
    /\ UNCHANGED <<copying, saving>>

\* The tab "Tasks".
onTaskClicked ==
    /\ page.open /\ page.tab = "Tasks"
    /\ \E t \in tasks : Become(selectTask(state, t.id))
    /\ UNCHANGED <<copying, saving>>

onTaskNameChanged ==
    /\ page.divide # NoDivide
    /\ Become(changeTaskName(state, selected))
    /\ UNCHANGED <<copying, saving>>

taskDividePropertyChanged ==
    /\ page.divide # NoDivide
    /\ SelectedDraft(state).size # Bare
    /\ \E grid \in Grid \cup {NoGrid} :
          Become([state EXCEPT !.page.divide = newForm(SelectedDraft(state), grid)])
    /\ UNCHANGED <<copying, saving>>

onPreviewButtonClicked ==
    /\ page.divide # NoDivide
    /\ Become([state EXCEPT !.page.preview = TRUE])
    /\ UNCHANGED <<copying, saving>>

amountTasksAfterDividing_OneLess == Cardinality(tasks) - 2 + page.divide.cells

amountTasksAfterDividing == Cardinality(tasks) - 1 + page.divide.cells

canDivideTasks == amountTasksAfterDividing <= maxTasksPerProject

onDivideButtonClicked ==
    /\ page.divide # NoDivide
    /\ canDivideTasks
    /\ page.divide.grid # NoGrid
    /\ SelectedDraft(state).size # Bare
    /\ Become(addTasks(removeTask(state, selected), createTaskDrafts(SelectedDraft(state), page.divide.grid)))
    /\ UNCHANGED <<copying, saving>>

-----------------------------------------------------------------------------
\* Projects of the server or of a file become drafts.  A file and the answer to
\* a request do not ask whether the page is still there.
importProjectAsNewProject == \E sizes \in Exports :
    Become(addTasks(state, [i \in DOMAIN sizes |-> toImportedDraft(sizes[i])]))

onImportClicked ==
    /\ page.open /\ page.tab = "other"
    /\ copying + saving < MaxCalls
    /\ copying' = copying + 1
    /\ UNCHANGED <<tasks, selected, page, saving>>

Imported ==
    /\ copying > 0
    /\ copying' = copying - 1
    /\ importProjectAsNewProject \/ UNCHANGED <<tasks, selected, page>>
    /\ UNCHANGED saving

onProjectSelected ==
    /\ page.open
    /\ importProjectAsNewProject
    /\ UNCHANGED <<copying, saving>>

\* Nothing keeps a user from saving twice; the answer leads to the project
\* list from wherever he is.
onSaveButtonClicked ==
    /\ page.open
    /\ tasks # {}
    /\ copying + saving < MaxCalls
    /\ saving' = saving + 1
    /\ UNCHANGED <<tasks, selected, page, copying>>

Saved ==
    /\ saving > 0
    /\ saving' = saving - 1
    /\ Become([state EXCEPT !.page = NoPage]) \/ UNCHANGED <<tasks, selected, page>>
    /\ UNCHANGED copying

Next ==
    \/ OpenPage \/ Cancel \/ SelectTab
    \/ \E tool \in Tool : onButton(tool)
    \/ DrawEnd \/ Modify \/ RemoveOnMap \/ SelectOnMap
    \/ onTaskClicked \/ onTaskNameChanged
    \/ taskDividePropertyChanged \/ onPreviewButtonClicked \/ onDivideButtonClicked
    \/ onImportClicked \/ Imported \/ onProjectSelected
    \/ onSaveButtonClicked \/ Saved

Spec == Init /\ [][Next]_vars

-----------------------------------------------------------------------------
\* No two drafts have the same id, though ids are found among the drafts that
\* are there and those of the same batch, and removed ones are given again.
IdsUnique == \A t, u \in tasks : t.id = u.id => t = u

\* What is on the map, and therefore saved, is in the list: no draft that was
\* removed, divided or changed stays behind as a feature.
MapIsListed == page.map \subseteq tasks

\* The selected draft, whose name is edited and which is divided, exists.
SelectionLives == selected # NoDraft => \E t \in tasks : t.id = selected

\* A draft of the list that would not be saved was there before the page, or
\* came after a bare polygon had ended the page's subscription.
MissingHasCause ==
    page.open /\ "added" \notin page.deaf => \A t \in tasks \ page.map : t.id \in page.old

\* Tool bar and map keep agreeing on the active tool, through buttons, keys and
\* tabs; only reaching the maximum of tasks turns the tool off under the button.
Agree(p) == p.active = IF p.button = NoButton THEN "select" ELSE p.button
ToolbarFollows == [][Agree(page) => Agree(page') \/ Cardinality(tasks') >= maxTasksPerProject]_vars

\* Dividing keeps to the maximum of tasks as long as the cells counted by the
\* form are those of the draft that is selected now.
DivideWithinLimit ==
    [][onDivideButtonClicked /\ page.divide = newForm(SelectedDraft(state), page.divide.grid)
          => Cardinality(tasks') <= maxTasksPerProject]_vars

\* A preview of the cells is never left on the map without the form it is of:
\* whatever ends the selection or hides the form clears it.
PreviewHasForm == page.preview => page.divide # NoDivide

\* The service, the map and the form go together whatever events passed between
\* them.
Consistent == TypeOK /\ IdsUnique /\ MapIsListed /\ SelectionLives /\ PreviewHasForm

\* Whoever types a new name keeps the draft he renames, unless the page has
\* reached the maximum of tasks.
RenameKeepsSelection ==
    [][onTaskNameChanged /\ Cardinality(tasks) < maxTasksPerProject
          => selected' = selected /\ tasks' = tasks]_vars
=============================================================================
