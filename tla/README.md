# simple-task-manager: specification and verification

The simple-task-manager (STM) lets OpenStreetMap users work on areas together: a
*project* has *users*, one of them the *owner*, and *tasks*; a user assigns himself to a
task, sets its *process points* and unassigns himself. A Go server keeps the data in
PostgreSQL and notifies Angular clients over websockets.

This directory holds TLA+ modules of that program, TLC configurations and TLAPS proofs.
`PROJECT.json` lists every definition with the source lines it stands for, the runs, the
mutants (a plausible bug in the code that makes a property fail), the findings and the
hazards.

```
tlc -workers 2 -config MC_Pairs.cfg MC_Transactions      # any run: see the table below
tlapm LiveUpdates_proofs.tla                              # a module's proofs (up to some minutes)
```

## 1. Inventory

| Component (source) | State | Operations | Interacts with | Hard part |
|---|---|---|---|---|
| Schema and stores (`server/database/scripts`, `project_store.go`, `task_store.go`) | tables `projects`, `tasks`, their id sequences | one SQL statement each | PostgreSQL at READ COMMITTED | whole-array writes of `users`, `WHERE id =` without the condition that was checked, cascade |
| Permission service (`permission.go`) | none | ownership, membership, assignment, "is an assignment needed" | reads both tables in the caller's transaction | its answer is stale when it is used |
| Project service (`project.go`) | none | add (with tasks), get, add and remove user, delete, name, description | permission, task service, store | multi-statement changes, removal loops over tasks |
| Task service (`task.go`) | none | add, assign, unassign, set points, delete (no caller) | permission, store | check, then write |
| Export/import (`export.go`) | none | export, import | project service | ownership and membership of the importing user |
| REST API (`api_util.go`, `api_v2_7.go`, `context.go`) | one transaction per request | authenticate, begin, add the user to project 1, handler, commit or roll back, send messages | everything above, websocket registry | messages before the commit; two changes of one row in a request; failures by panic and recover |
| Websocket registry (`websocket.go`) | map of user to connections | connect, send, drop | API goroutines, clients | unsynchronised map and slices, a broken connection stays unless closing fails too |
| Authentication (`auth.go`, `token.go`) | login configurations by key, token key | login, callback, verify | OSM server, client | shared callback URL, restart, expiry |
| Database handle (`database.go`) | global `db` | open, ping, reopen, begin | API goroutines | concurrent first use, reconnect |
| Migrations (`init-db.sh`, `scripts/`) | `db_versions` | run the missing scripts in order | PostgreSQL | interrupted runs |
| Client: projects (`project.service.ts`, `project-list`, `project`) | list shown, project shown | apply answers and messages | REST, websocket | answers overtaken by messages; a page that takes any project's update |
| Client: settings (`project-settings`) | the question to confirm | delete, leave, export, name | project service | the project changes between question and answer |
| Client: websocket (`websocket-client.service.ts`) | connection | connect, retry each second, emit | server | messages lost while disconnected |
| Client: tasks (`task.service.ts`, list, details, map) | selected task, and a copy of it in each view | select, assign, unassign, points, update | REST, project service | late answers, stale selection, a view that stops listening |
| Client: creation (`task-draft.service.ts`, `project-creation`) | drafts, selection; map, tools, forms | draw, edit, remove, select, rename, divide, copy, import, save | map view, project service | list and map are two states of one thing; ids are reused |
| Client: users (`user.service.ts`, `user-list`, `user-invitation`) | cache by id | get by ids or name, invite, remove | OSM API | out-of-order answers, renamed users |
| Client: authentication (`auth.service.ts`, guard, interceptor, login, landing page) | token in the local storage, user of a tab, timers | login, logout, guard, intercept | server, other tabs | tabs share the token, late refusals, two logins |
| Client: notifications, loading, layout, translation | queues, flags | | | |

What makes the core correct: the owner stays a member; a project has tasks and a task has
its project; users join once; whoever leaves keeps no task; an assignment is not taken
over, and only its holder ends it or sets points; ids of deleted projects stay dead; a
failed request leaves nothing behind; requests never wait for each other in a cycle, and
each is answered; members hear of each change. What makes a client correct: its views agree
with each other and, once nothing is on its way, with the server; what a user confirms or
types is what is sent; his drafts are all saved; a token is his own and lasts until he logs
out. Sections 3 and 4 say which of these the code keeps, in which situations, and which it
does not.

## 2. Modules

| Module | What it models |
|---|---|
| `Tables` | rows, and each statement of the two stores as a function on a row or a table |
| `Permission` | `permission.go`: each check as a predicate over the tables a SELECT sees |
| `Services` | the decisions of the project, task and export services; their constants |
| `TaskManager` | the abstract specification: each request is one atomic step, a failed one a stuttering step |
| `Transactions` | the detailed one: a step per SQL statement, any interleaving of the sessions, READ COMMITTED, row locks, commit, rollback, crash, messages |
| `Websocket` | `websocket.go`: the map of connections, an access at a time, used by several goroutines |
| `LiveUpdates` | what a browser tab shows: messages sent before the commit, answers fetched because of them, list and project page |
| `TaskPage` | the page of one project: selection, list, details, map and settings, requests and their answers, the work of another user |
| `ProjectCreation` | the page of a new project: drafts and their ids, map, tools, tool bar, division, copies and imports |
| `Session` | logins over the shared callback URL, tokens, the tabs of a browser, refusals, a restart |
| `Users` | names of users: cache, overlapping loads, invitation by name, renamed and removed accounts |
| `MC_` and the name of a module | finite instances for TLC |
| `TaskManager_proofs` | facts about the stores' statements; the properties of the abstract specification |
| `Transactions_proofs` | what survives any interleaving of any number of sessions; that a server with one session implements `TaskManager` |
| `Websocket_proofs` | the registry, with any number of goroutines |
| `LiveUpdates_proofs` | what tabs show, with any number of tabs, transactions and requests |
| `ProjectCreation_proofs` | what the two loops that find ids compute; the properties of the page |
| `TaskPage_proofs`, `Session_proofs`, `Users_proofs` | the properties of these modules |

`TaskManager` and `Transactions` use the same `Services`, so that a check is written once;
what differs is *when* it is evaluated. In `TaskManager` a check and the write it guards
are one step. In `Transactions` they are separate steps of a session `s`, each on
`ViewP(s)` and `ViewT(s)`, the committed tables overlaid with the session's own writes.

### State and code

* `projects`, `tasks`: the committed tables, with `NoRow` where an id has no row.
  `nextProject`, `nextTask`: the sequences behind the `SERIAL` columns, which a rollback
  does not set back.
* `users`, a `text[]` column, is kept as the number of times each user occurs. Order never
  matters; duplicates do (`ARRAY_LENGTH(users, 1) = 1` decides whether a task needs an
  assignment; `removeUser` removes every occurrence).
* Names and descriptions are kinds of text (`Text`): what `strings.Split`, `TrimSpace` and
  the length limit tell apart. Geometry is one bit, whether `AddTasks` accepts it.
* `pc[s]`: the statement a session runs next, labelled with the function or with the
  function and `UPDATE`. `read[s]`: the row `addUser`, `removeUser` or `deleteProjects`
  keeps between two statements. `todo[s]`: tasks left in the loop of `RemoveUser`.
  `dirtyP[s]`, `dirtyT[s]`: rows its transaction wrote, which are its row locks too.
  `told[s]`: messages it sent.
* `welcoming[s]`: the request is still in the `AddUser("1", ...)` which
  `handleAuthenticatedRequest` makes before every handler (its "HACK") and whose error it
  ignores. In `TaskManager` this is the operator `Welcome`, a part of every action.
* `TypeOK` of both modules says the ranges of all of this.

SELECTs in a row are one step of `Transactions` only where they read nothing another
transaction can change in between (see the comment at its head). An `UPDATE` whose row is
gone makes the store return an error, as the code does (`rows.Next()` is false); a `DELETE`
does not. Requests that fail before a transaction exists (a missing parameter, an invalid
token, a body that cannot be parsed) change nothing and are left out. Routes, JSON, logging
and the API documentation are not modelled.

External parts, modelled as the code uses them: PostgreSQL's visibility and row locks.
Foreign keys need no further lock: no request updates `projects.id`, and tasks are inserted
only by the transaction that inserted their project.

`Websocket`. A Go slice is an array and a length, so that two goroutines that hold slices of
one array see each other's writes. `job[w]` holds the local variables of the goroutine `w` in
`GetWebsocketConnection` or `SendAll` (`pc`: its next statement); `state[c]` says whether a
connection is open, `broken` (the peer is gone), `closed` or `lost` in a crash. What Go
leaves undefined is a choice: two accesses of the map at once may end the process
(`FatalError`, and the server starts with an empty map), two writers of one connection may
work, fail or panic, a nil entry panics (`Panic`: the request ends). `failures`, `got` and
`disturbed` are no state of the program: they count failing writes, collect who got the
messages, and name the users at whose slice two goroutines have met.

`LiveUpdates`. Of a project it keeps its row and its tasks, each as a number of committed
changes (`members[p]` has the users of every state of the row). A handler's transaction
sends its messages and commits or rolls back later: `AddProject`, `UpdateProject` (name and
description), `UpdateTask`, and in more than one step `GetProjectToDelete`, `DeleteProject` and
`CheckUser`, `GetUsers`, `UpdateUsers`, by which users join and leave. The last writes the array
of users that `GetUsers` has read, whatever it is by then: a user who was added in between is
dropped without a message, one who was removed is back. A tab has messages waiting (`mail`), GET
requests under way (`call`: asked, member verified, row read, tasks read, failed), a page
(`place`), and what the page shows (`shown`, entries of the list; `page`, the project page).
What can make the tab wrong is recorded where it happens in `misled[t]`: an answer read
before the commit it was asked for (TooEarly), two answers, or an answer and a message,
about one project at once (Overtaken), a message lost, or not sent to a user whom the array
written back drops, or who joined while the project was being deleted (Missed), a rollback after
the message (Undone), a project added to a list that has it (Twice), a lost answer (Failed),
the page replaced by another project (Strayed). Left out: project 1, whose users change
without messages; the answers to the tab's own changes; a reload, which is a new tab.

`TaskPage`. Others' work, own requests, and others who join and leave change what is stored
(`tasks`, `joined`). The server makes one `change` at a time: its messages (`news`) go out when it
begins, and it commits or rolls back later; how changes interleave is the subject of
`Transactions`. A message is received or lost; a received one becomes a GET request (`get`), as
opening the page does, which is read in one step, fails, or arrives (`Opened`,
`projectChanged`); how reading interleaves with changes is the subject of `LiveUpdates`. `misled`
has the projects about which the page may be wrong, with the events named where they happen: Lost
(a message), Overtaken (two answers about a project on their way), TooEarly (read before the
commit), Failed. `CopyOf` is a task as the service makes it of an answer: the assigned user is
left out when he is not among the project's users or no name of him is known (`Named`), which
happens, since `AssignUser` asks for no membership. `selectedTask` is the `TaskService`'s; what
each view holds is in `page`: `view` (the project as the page has it, with the copies that the
list shows), `task` and `newProcessPoints` (details), `highlighted` (map). `call[k]` is a request
of the tab, with the server's answer once there is one, so that an update can come between the
two. `overtaken`, `behind` and `typed` record what the properties need to tell and are no state of
the program. The details and the settings are made anew with their tab, the map is not; once it
has been told of a task it has no polygon for, its subscription is gone (`deaf`). Left out: the
tab's own changes of name, description and users, and that its user is removed or the project
deleted by others (`LiveUpdates` has it).

`ProjectCreation`. The handlers are functions on states `[tasks, selected, page]`, because an
event of the `TaskDraftService` is handled before the call that emits it returns; an action
is `Become(handler(state))`. A draft is its id, the size of its polygon and whether its
geometry is a feature: a drawn task gets the bare polygon (`Bare`), on which the map's handler
fails, and this ends the subscription (`deaf`). The map has its own features, and
these are saved. `old` names drafts of an earlier visit of the page. How many cells a grid
has in a polygon is a constant (`Cells`).

`Session`. A login has the phases of `OauthLogin` (three, around the request to
OpenStreetMap), the authorization in the popup, `OauthCallback` and the landing page.
`callbackUrl` is the field of the one configuration that all logins write. Each of the three
requests to OpenStreetMap may fail. The first two end the login; the third, for the user's
details, need not: the code looks neither at its status nor at the error of reading the answer,
and makes a token of a user without name and id (`Nobody`). A restart ends what is under way in
the server and forgets the configurations; `trouble` says which logins met an error or a restart.
A tab has its page, its user, its timers, the failed requests on their way to it, and `sockets`,
the tokens with which it has made websocket connections: a connection that is lost or refused is
tried again every second with the token of its first time, so it is open, or will be, as long as
the server accepts that token (`Open`), and refused for ever after. `switched` and `asked` are
recorded for the properties. Requests that are granted change nothing here.

`Users`. OpenStreetMap's names change (`Rename`, `RemoveAccount`), a free name goes to somebody
else; `borne` remembers who had which. Loading a project asks for the names which the cache
does not have (`getUsersByIds`, answer, receipt in separate steps, two loads at a time). An
invitation looks a name up in the cache, then by changesets, then by notes.

Operators with a name like `addTasks_Deaf` or `AccessGranted_Unverified` are the mutants:
nothing uses them but the mutation entries of `PROJECT.json`.

## 3. Runs that pass

| Run (cfg) | Question | Bounds |
|---|---|---|
| serial (`MC_TaskManager`) | do requests, served one at a time, keep every promise? | 3 users, 2 projects, 2 tasks, 5 drafts (3 of them refused, one listing a user twice), no bound on the number of requests |
| pairs (`MC_Pairs`) | which promises survive any interleaving and crash of two requests out of 30, with a third one following? | 2 sessions, 3 requests in all, 3 project ids, 5 task ids |
| locks (`MC_Locks`) | can transactions wait for each other in a cycle, and is every request answered? | 3 sessions with fair steps, 3 requests out of 4 that lock several rows from different sides |
| one_session (`MC_OneSession`) | does the server implement `TaskManager` when requests do not overlap? | 1 session, 5 requests out of 18, from the empty database on |
| websocket (`MC_Websocket`) | does the registry keep the right connections and reach them? | 2 goroutines, 3 connections (two of one user), 2 calls of `SendAll`, 3 arrays between two starts |
| live_updates (`MC_LiveUpdates`) | is what a tab shows right, unless a named race happened? | 3 users, 1 tab of one who is a member at first or not, 2 projects (1 not added yet), 2 transactions in 2 sessions, 2 GET requests at a time, 1 connection loss |
| task_page (`MC_TaskPage`) | do details, form, list and map agree, and do they catch up with the server? | 2 projects (1 own, 1 of a third user, which needs assignments) with a task each, 1 own request and 1 GET request at a time, 2 changes |
| creation (`MC_ProjectCreation`) | do the list of drafts, the map, the forms and the tool bar agree? | 2 sizes, 1 grid, at most 2 tasks in a project, 3 drafts, 1 request at a time |
| session (`MC_Session`) | whose token does a tab get, what ends a session, does a login lead in? | 2 users, 2 tabs, 2 logins, 2 timers a tab, 1 restart, 1 failed request at a time |
| users (`MC_Users`) | are the names of members right, is nobody missing, who is invited? | 3 users, 4 names, 2 loads at a time, 2 changes |

Why the bounds are enough. A race here needs one request between two statements of
another, so two sessions show it; the third request starts after a commit while one of the
two is still running. A cycle of waiting may need three sessions. Two projects are the
public one and another, and the ids beyond them let a project be added. Two tasks in one
project make the order of locks in the cascade and in the loop of `RemoveUser` matter.
Counters are bounded by `MaxProject`, `MaxTask` (then a sequence is exhausted, which the
code answers with an error) and `MaxRequests`; `AllServed` stutters when the bound is
reached, so that deadlock is checked in all runs (in `live_updates` nothing is ever the last
step: a tab can always open a page). Symmetry is over interchangeable sessions, goroutines,
connections and requests, and only in runs of safety properties.

What the properties of `pairs` say: the tables are well-formed, the owner stays a member and
projects and tasks stay together (`TablesOK`, the conjunction of `TypeOK`, `OwnerIsMember` and
`ProjectHasTasks`), a commit has the effect that was asked for
(`CommitHasEffect`), every member of the changed row was told (`MembersAreTold`), requests
change only columns they are about and on behalf of someone who may
(`OnlyOwnColumns`), ids stay dead (`DeadIdsStayDead`).

What `websocket` shows: as long as no two goroutines use the slice of one user at once, the
registry has each open connection of his once and no other (`Kept` in `RegistryOK`), a
connection leaves it at the second failing write (`BrokenGoes`), and a send reaches each open
connection (`SendReachesAll`); however goroutines interleave, no message reaches a connection
of a user it is not for (`OnlyForUsers`). Two goroutines are enough for a meeting, and three
connections for an array that is shared, outgrown and shortened; a connection that fails needs
two sends. Two connections of one user are interchangeable, and so are the goroutines
(symmetry).

What `live_updates` shows: when nothing is on its way (no message, request or transaction), a
list has each project of its user once and in its present state, and no other, and a project
page shows its project, for all projects not in `misled` (`Informed` in `UpToDate`); and for
these no step takes the list or the project page back to an older state (`NoStepBack`). So the
races listed at `misled` are the only ways to a wrong view, among them the two requests of which
one drops a user whom the other has just added. A race takes one change and one answer, or two
changes; a third transaction adds nothing but time. The third user is one who can be added to, or
dropped from, the array beside the tab's.

What `task_page` shows: points in the form that differ from the task's were typed for this
task (`FormIsOfTask` in `FormOK`); when nothing about its project is on its way, the details show
the selected task as the server would answer it, but for the following cases: the details were
opened anew, from the service's old copy, or told by the answer to an own request that a newer
update had overtaken (`behind`), or a message was lost, a request for the project failed, read
before the commit, or was on its way with another one (`misled`) (`DetailsCatchUp`). List, details
and map agree on the selected task until an answer for another task comes (`AgreementLasts`); and
the list gets every change in the end, unless the project is in `misled` (`ListCatchesUp`). Two
projects are the page's and one that replaces it, by which an answer comes to be for a task that
is no longer selected; two changes let an update overtake an answer, or come too early. The run
keeps GET requests one at a time, so that no two of them overtake each other; the proofs of the
three safety properties hold for any number of them.

What `creation` shows: ids are unique though they are found anew for each draft of a batch, no
removed draft stays on the map to be saved, the selected draft exists, and a preview has its
form (`Consistent`); a draft of the list that will not be saved was there before the page or
came after a bare polygon had ended the subscription (`MissingHasCause`); tool bar and map
keep agreeing except at the maximum (`ToolbarFollows`); dividing keeps to the maximum if the
form's count is of the selected draft (`DivideWithinLimit`; selecting another draft leaves the
count as it was); renaming keeps drafts and selection below the maximum
(`RenameKeepsSelection`). Three drafts exceed the maximum of two, two drafts are needed for a
stale count, and the third id is one to reuse between others.

What `session` shows: a token is of the user who authorized in the popup it came back to, or
of nobody when OpenStreetMap did not tell who he is (`TokenIsOwn` in `SessionOK`); a login that
no error of OpenStreetMap and no restart has met fails only when another one was in `OauthLogin`
at the same time (`FailsByOther`); a tab inside has a websocket of its user, unless another tab
has switched the user, and an open one if the stored token is accepted and the tab has connected
with it (`InsideIsConnected`); a good token leaves the storage by a logout, a login, or a refusal
of an older token that came late (`SessionKept`); and the timers take whoever asked for a login
inside as soon as a token stays (`LoginLeadsIn`), restart or not. Two logins are what a mix-up
takes; two tabs, what shares a storage.

What `users` shows: a name in the cache or on the page was borne by this user since the page was
loaded, and nobody is listed twice (`NamesWereBorne` in `UsersOK`); no member is missing
(`ListComplete`); who is invited bore the entered name, possibly in the past
(`InvitedBoreName`). The two changes are a renaming and the taking of the name, or a removed
account.

Refinement. `SerialSpec` substitutes for `TaskManager`'s variables the committed tables and
the sequences *as they were before the running transaction drew from them*: the abstract
step is the commit (or the rollback, which still uses ids up). `one_session` checks this, and
section 5 proves it for any bounds. With two sessions the refinement does not hold; section 4
says how it fails.

Fairness. `FairSpec` has weak fairness of each session's `Step` (statement, commit, rollback).
A request has a goroutine of its own, which the Go scheduler runs again and again; a statement
that waits for a row is disabled until the holder ends, which `locks` shows it does, and no
step of another session makes it wait forever, since a bounded number of requests is in
flight. Nothing is assumed of crashes and new requests. In `TaskPage` each change ends, by commit
or rollback; each message arrives or is lost; each GET request is answered or fails: that the
network delivers, or that the answer is the good one, is not assumed. In `Session` the timers of
the login page are weakly fair: `setInterval` fires until it is cleared. That users act or
OpenStreetMap answers is never assumed.

## 4. Runs that find a violation

Each checks one claim of the repository; the finding in `PROJECT.json` quotes it.

| Run (cfg) | Claim | What happens |
|---|---|---|
| disturbed (`MC_Disturbed`) | `WorkUndisturbed`: a request does not take over a task, nor unassign or set the points of a task another user holds | the assignment changes hands between the check and the write, whose `WHERE` names the id only |
| confirmed (`MC_Confirmed`) | `ConfirmedIsDone`: the project that is deleted or left is the one the user was asked about, and only its owner deletes it | an update of another project replaces the project of the page between question and answer, and the request is for that one |

`NoTakeover` is the atomic half of `WorkUndisturbed` and holds, and is proved, for the atomic
requests of `TaskManager`: the claim fails because of the interleaving alone. Most tests of
the repository run one request at a time, and so cannot see it.

The models contain more that a reader of the code may not expect. It has no run of its own, but
is where a passing property names an exception, or stops short:

* Whole-array writes of `users` undo a concurrent removal or addition, and a user whose two
  requests race joins twice: `TablesOK` counts users, and `OnlyOwnColumns` leaves the
  column `users` to the requests that write it.
* `UsersJoinOnce`, `LeaversKeepNoTask`, `NoTakeover` and `PointsNeedAssignee` hold for the atomic
  requests of `TaskManager` only. A user who is removed while he is being assigned keeps the task,
  and `AssignUser` asks for no membership at all; the page of another member then shows the task
  without a user (`CopyOf`).
* Two goroutines at one user's slice lose a registration: `disturbed` in `RegistryOK` and
  `SendReachesAll`.
* The races of a tab's view: `misled` in `UpToDate` and `NoStepBack`. One of them is a member whom
  another request's array of users drops: he gets no message and keeps seeing the project.
* The map stops following the selection once another project's task was announced: `deaf` in
  `AgreementLasts`. Details opened anew show the task as it was when selected: `behind` in
  `DetailsCatchUp`. A message that is lost and a request that fails are never made up for: `misled`
  there and in `ListCatchesUp`.
* A drawn polygon is listed, but neither shown nor saved, and nothing that is added after it is:
  `deaf` in `MissingHasCause`. Uploaded and loaded shapes fail before they are added at all
  (`addTasks` asks the bare polygon for the geometry of a feature, which throws).
* Dividing may exceed the maximum when another draft was selected under the form:
  the premise of `DivideWithinLimit`.
* Concurrent logins take each other's callback URL and fail: the exceptions of `FailsByOther`. When
  OpenStreetMap answers the request for the user's details with an error, the login ends with a
  valid token of nobody (`auth.go:211-225`): that of `TokenIsOwn`. A websocket whose token is no
  longer accepted is tried with it for ever, though another login of its user has stored a new
  one: that of `InsideIsConnected`. A
  late refusal of an old token ends a new session: that of `SessionKept`.
* A name that has changed hands invites its former bearer: `InvitedBoreName` says "bore", not
  "bears".

## 5. Proofs

Every safety property a passing run checks, invariant or action property, and the refinement
`SerialSpec` are proved for all values of the constants; liveness is not (see the end of this
section).
`PROJECT.json` lists the theorems. Each module of proofs states an inductive invariant
`IInv` (TLC has checked them on the instances of the runs, too), shows that `Init` implies it
and that every action keeps it, and derives the properties.

Assumptions. Constants are named model values, sets or bounds: what stands for nothing
(`NoUser`, `NoRow`, `NoCall`, `NoDivide`, ...) is none of the values, bounds are natural numbers,
functions have their domains, drafts and requests have the types of the DTOs, and the tables a
server starts on are ones of which the invariants of `TaskManager` hold (`InitAssumption`).
`Websocket` assumes finitely many connections, `Users` that no two users have one name at
first, `TaskPage` that each project has a task, `Session` that `Nobody` is none of the users. TLC evaluates all of them in the runs. No proof needs a bound on the number
of sessions, tabs, goroutines or requests, except that `SerialServer` is about one session.

**TaskManager.** The invariant is

    IInv == TypeOK /\ OwnerIsMember /\ ProjectHasTasks /\ Fresh

`Fresh` (no row has an id its sequence will hand out later) is what the properties lack by
themselves: without it `AddProjectWithTasks` could overwrite a project, or put a task of
another project under the new one. `TypeOK` alone is inductive and is proved first, action
by action. The rest goes by rows: a step turns a project row into a `Successor` of it (same
owner; each user as before, or once instead of never, or gone and then neither the owner nor
assigned to a task), loses a row only with all its tasks, and makes no new row except in
`AddProjectWithTasks` (`ProjectSteps`); likewise for tasks (`TaskSteps`).

**Transactions.** The invariant has a part about the committed tables (`Committable`: `Fresh`,
`OwnerIsMember`, `ProjectHasTasks`), one about pairs of sessions (`OneWriter`: a row has at most
one), and one about each session alone (`SessionOK`): which request gets to which label, what
the session may have written and by what right (`WrittenP`, `WrittenT`), what it still
knows of what it has read (`Knows`), that the tasks `RemoveUser` goes through stay (`Walks`),
and what it has achieved (`Done`, `Told`). The argument is one of rely and guarantee. `Rely`
sums up what all the others do to a session: an id once settled keeps its owner and never comes
back, what a session has written stays as it was underneath, and a project it has written keeps
its tasks. `SessionStable` shows once that this harms no part of `SessionOK`; each action is then
looked at only from the session that takes it, and shown to be within what others rely on.
The commit is the one step that changes the tables, and it can do so because what a session
may have written makes committable tables of committable ones. For `NoWaitCycle` rows get an
order in which no session waits backwards: the public project's row, another project's, the
task of an own request, the tasks of a session that goes through many. The last two levels
need `OneWriter` and `Walks`: who goes through tasks holds the row of their project.

**Transactions implements TaskManager** (`SerialServer`). Two hypotheses: there is one session
(`OneSession`), and the server starts on empty tables (`EmptyServer`), as `TaskManager` does.
The number of requests, their kinds, and the bounds are free; crashes may happen. The second
invariant, `SoleInv`, says of each label what `SessionOK` cannot say when others may
interfere: what the session checked still holds of the committed tables, and what it wrote is
what the abstract action makes of them. `Greeted(s)` are the committed projects after the
`Welcome` of the request, on which the handler starts; in the loop of `RemoveUser` the tasks
are those gone past (`Swept`) and those to come (`Left`). `SerialIs` gives the two sequences as
the abstract specification has them: without the ids the open transaction drew. Then each
statement is a stuttering step, a commit is the abstract action of its request, and a rollback
or crash is a stuttering step, or `AddProjectRolledBack` when ids were used up. The proof
showed that `AddProjectRolledBack` had been too narrow: it asked for enough task ids, but an
add whose project has its id also fails when those of its tasks run out. TLC had not noticed,
since some other draft always explained the same step.

**Websocket.** Whatever goroutines do to each other, two things hold (`Common`): an array
belongs to one user, so that a slice never leads to a stranger (`OnlyForUsers`), and a slice is
no longer than there are connections that were appended. The rest (`UserInv`) is
about a user at whose slice no two goroutines have met: the slice his one goroutine holds
lists all his open connections, at each of its statements (`JobInv`), with those it
has reached so far. A step of another goroutine touches neither this list nor the job. The
list is stated on the slots of an array up to the slice's length, since arrays are shared by
slices of different lengths.

**LiveUpdates.** For each tab and each project not in `misled` (`PairOK`): what an answer on its
way holds, what the list has, and what the page shows is as the server *will* have it, or a
message that will make the tab ask again is on its way. `WillSee(t, p)` says that the user will
see the project once all transactions have committed; it is what messages tell about,
since they are sent before the commit. `TxOK` are the locks which transactions that have sent
messages rely on. A step of the server is, for a tab, one of three: it does not touch the
project (`Untouched`), it is told to the tab (`AnnouncedOK`), or the tab's user has no part in
it (`UnawareOK`); then `SendOK` puts the tabs together, since a tab that should be told and is
not is in `misled`. A step of a tab takes a message, moves a request on or applies an answer;
with at most one request about a project on its way (a second one puts it in `misled`) an
answer is applied only when nothing newer was. That the invariant has no further exceptions is
what makes the list at `misled` complete, for any number of changes. `NoStepBack` needs of it
that what a request has read is no older than what the list shows.

**TaskPage.** Every copy of a task in the tab (in the list, in the details, in an answer) is as
the server would answer it, or its project is `Covered`: a message is on its way, a GET request
has not been read or its answer is right, or the project is in `misled` (`Fresh`, `PageOK`,
`CallsOK`, `GetGood`). `Apart` says that of two GET requests for one project there are none unless
it is in `misled`, so that an answer is applied when nothing newer was. `ChangeGood` says that a
change that is not committed has its message still on its way, or the request that it led to not
read; `SlotsGood`, that the own request it is for waits for its answer.
**Session.** The invariant follows a token from the callback to the popup, the storage and the
requests and sockets made with it: each login makes its own token, the sockets of a tab have
tokens that were stored once, one of which is its user's, and the stored one if the tab has
connected with it; a token that is refused was dead when it was sent, and stays dead.
**Users.** Of everything on its way (names asked for, answers, the cache, the list) the
invariant says that it was true once, and how the parts of a load complete each other.

**ProjectCreation.** Handlers are functions on states, so the invariant is one on states too
(`Good`: the drafts have ids of their own, the map has only drafts of the list, the selected
one exists, a preview has its form, and a draft missing on the map has one of the two causes);
each handler keeps it, event by event, and `IInv` adds when the form is rendered. That ids are
unique rests on what the two loops compute: `findSmallestId` gives an id no
draft has (`SmallestId`), and the drafts of one batch get an id each (`WithIds`). Both loops are folds, and what a fold computes for
every input takes an induction. The library's induction theorems take a predicate, which the
provers cannot instantiate; but that a non-empty set of finite sets has a minimal element is a
statement about sets, and suffices here: take a minimal set on which the fold would not do
what is claimed.

Only model-checked: liveness under fairness (`Answered`, `ListCatchesUp`, `LoginLeadsIn`), which
the prover does not handle. The two claims of section 4 are false, and so have no proof.

## 6. Plan

Worth proving next: `SerialServer` from any tables that satisfy the invariants of
`TaskManager`, whose `Init` would have to take them as a constant; and the safety half of
`Answered`, a measure that each fair step of a session lowers.

Worth modelling further: the answers to a tab's own change of name and description, which
`projectChanged` announces too, so that an update arrives twice; `LiveUpdates` composed
with `Websocket`, so that a message is missed when its registration was lost; an
export followed by an import, compared with the project exported.

Not modelled, and why:

* geometry, map extents and styles, shape formats: their arithmetic is data to every property
  here; what control depends on (how many cells, is it a feature, is there a polygon) is kept;
* notifications, loading flag, language, shortcuts, layout, translation: no other part reads
  their state;
* the database handle: opened when it is missing or does not answer, by whoever notices;
* migrations: scripts that run alone before the server; their result is the schema of `Tables`;
* configuration, logging, generated API documentation, JSON and routes: start-up values and
  formats;
* operations without a caller: `TaskService.Delete`, `createNewTasks`.
