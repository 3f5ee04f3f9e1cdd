---------------------------- MODULE LiveUpdates -----------------------------
(***************************************************************************)
(* What a browser tab shows while others change projects.  A handler sends *)
(* its messages before its transaction commits; a tab asks for the project *)
(* a message is about, and applies the answers as they arrive; what the    *)
(* tab shows at first is the answer to the request of the page it opened.  *)
(*                                                                         *)
(* A project is seen as its row (name, description, users) and its tasks,  *)
(* each with a number that counts its committed changes.  Users are in the *)
(* public project already, so that no request changes it.                  *)
(***************************************************************************)
EXTENDS Integers, Sequences

CONSTANTS
    User,
    Project,
    OwnerOf,     \* the owner of each project
    Tab,
    UserOf,      \* the user logged in in each tab
    Session,     \* transactions open at the same time
    Slot,        \* bound: requests of a tab on their way at the same time
    NoTx, NoCall, NoCopy, NoPage,
    InitMembers, \* what members may be at first
    MaxChanges,  \* bound: transactions
    MaxCuts      \* bound: losses of a tab's websocket connection

ASSUME LiveUpdatesAssumption ==
    /\ OwnerOf \in [Project -> User]
    /\ UserOf \in [Tab -> User]
    /\ InitMembers \subseteq [Project -> Seq(SUBSET User)]
    /\ MaxChanges \in Nat /\ MaxCuts \in Nat

VARIABLES
    members,  \* of each project the users in each state of its row; <<>> when
              \* it was not added yet
    work,     \* of each project how often its tasks changed
    gone,     \* the deleted projects
    changes,  \* transactions so far
    tx,       \* the open transactions that change a project: see Tx
    mail,     \* messages on their way to each tab
    online,   \* the tab's websocket is connected
    cuts,     \* how often it was not
    call,     \* the tab's requests on their way
    place,    \* the page the tab is at: the project list or a project
    shown,    \* the list: for each project the entries it has there
    page,     \* the project page: the project it shows
    misled    \* projects about which the tab may be wrong: see Mislead

server == <<members, work, gone, changes, tx>>
view == <<place, shown, page>>
link == <<mail, online, cuts>>
vars == <<members, work, gone, changes, tx, mail, online, cuts, call, place, shown, page, misled>>

-----------------------------------------------------------------------------
Row == Nat \ {0}
Copy == [row : Row, work : Nat]
Manager == "manager"
Place == Project \cup {Manager}

MessageType == {"project_added", "project_updated", "project_deleted", "project_user_removed"}
Message == [type : MessageType, project : Project]

\* why: the event the answer becomes, or the page that waits for it.  about:
\* the projects asked for.
Call == [why : {"added", "changed", "open"}, about : SUBSET Project, to : Place,
         step : {"asked", "member", "rows", "ready", "failed"}, copies : [Project -> Copy \cup {NoCopy}]]

\* A transaction has sent its messages, but for the Unsent: "addUser" and
\* "removeUser" have checked the user, who, "users" has read the users and will
\* write them with or without who, "deleting" has read the users to send to.
\* users: those of the project, where the transaction knows them.
Unsent == {"addUser", "removeUser", "users", "deleting"}
Tx == [op : Unsent \cup {"add", "row", "work", "delete"}, project : Project,
       users : SUBSET User, who : SUBSET User]

\* What stands for no value is none.
ASSUME NothingAssumption ==
    /\ NoTx \notin Tx /\ NoCall \notin Call /\ NoCopy \notin Copy
    /\ NoPage \notin [project : Project, copy : Copy] /\ Manager \notin Project

TypeOK ==
    /\ members \in [Project -> Seq(SUBSET User)]
    /\ work \in [Project -> Nat]
    /\ gone \subseteq Project
    /\ changes \in 0 .. MaxChanges
    /\ tx \in [Session -> Tx \cup {NoTx}]
    /\ mail \in [Tab -> Seq(Message)]
    /\ online \in [Tab -> BOOLEAN]
    /\ cuts \in [Tab -> 0 .. MaxCuts]
    /\ call \in [Tab -> [Slot -> Call \cup {NoCall}]]
    /\ place \in [Tab -> Place]
    /\ shown \in [Tab -> [Project -> Seq(Copy)]]
    /\ page \in [Tab -> [project : Project, copy : Copy] \cup {NoPage}]
    /\ misled \in [Tab -> SUBSET Project]

Exists(p) == members[p] # <<>> /\ p \notin gone
Users(p) == members[p][Len(members[p])]
Sees(u, p) == Exists(p) /\ u \in Users(p)
Current(p) == [row |-> Len(members[p]), work |-> work[p]]

Nothing == [p \in Project |-> <<>>]

\* Every tab has just loaded its list.
Init ==
    /\ members \in InitMembers
    /\ work = [p \in Project |-> 0]
    /\ gone = {}
    /\ changes = 0
    /\ tx = [s \in Session |-> NoTx]
    /\ mail = [t \in Tab |-> <<>>]
    /\ online = [t \in Tab |-> TRUE]
    /\ cuts = [t \in Tab |-> 0]
    /\ call = [t \in Tab |-> [k \in Slot |-> NoCall]]
    /\ place = [t \in Tab |-> Manager]
    /\ shown = [t \in Tab |-> [p \in Project |->
                    IF Sees(UserOf[t], p) THEN <<Current(p)>> ELSE <<>>]]
    /\ page = [t \in Tab |-> NoPage]
    /\ misled = [t \in Tab |-> {}]

(***************************************************************************)
(* misled[t] records the events that can make the tab wrong about a        *)
(* project until it opens a page again.  Each is named where it happens:   *)
(* TooEarly, Overtaken, Missed, Undone, Twice, Failed, Strayed.            *)
(***************************************************************************)
Mislead(t, projects) == misled' = [misled EXCEPT ![t] = @ \cup projects]

-----------------------------------------------------------------------------
(* The server: handlers that change a project.                             *)

\* The rows and tasks a transaction has written are locked until it ends.
Writes(s, ops, p) == tx[s] # NoTx /\ tx[s].op \in ops /\ tx[s].project = p
Free(ops, p) == \A s \in Session : ~Writes(s, ops, p)

\* Send: each open connection of the users gets the messages.  Missed: the tab
\* is not connected, or its user was not among those the handler sends to.
Told(news) ==
    [t \in Tab |-> IF online[t] THEN mail[t] \o news[UserOf[t]] ELSE mail[t]]

Send(p, news, users) ==
    /\ mail' = Told(news)
    /\ misled' = [t \in Tab |->
                     IF UserOf[t] \in users /\ (~online[t] \/ news[UserOf[t]] = <<>>)
                     THEN misled[t] \cup {p} ELSE misled[t]]
    /\ UNCHANGED <<online, cuts, call, view>>

News(type, p, users) ==
    [u \in User |-> IF u \in users THEN <<[type |-> type, project |-> p]>> ELSE <<>>]

Begin(s, op, p, users, who) ==
    /\ tx[s] = NoTx
    /\ changes < MaxChanges
    /\ changes' = changes + 1
    /\ tx' = [tx EXCEPT ![s] = [op |-> op, project |-> p, users |-> users, who |-> who]]
    /\ UNCHANGED <<members, work, gone>>

\* A step of an open transaction.
Continue(s, op, users) ==
    /\ tx' = [tx EXCEPT ![s].op = op, ![s].users = users]
    /\ UNCHANGED <<members, work, gone, changes>>

\* AddProject, ImportProject: sendAdd
AddProject(s, p, users) ==
    /\ members[p] = <<>>
    /\ Free({"add"}, p)
    /\ OwnerOf[p] \in users
    /\ Begin(s, "add", p, users, {})
    /\ Send(p, News("project_added", p, users), users)

\* UpdateName, UpdateDescription: sendUpdate
UpdateProject(s, p) ==
    /\ Exists(p)
    /\ Free({"row", "delete"}, p)
    /\ Begin(s, "row", p, Users(p), {})
    /\ Send(p, News("project_updated", p, Users(p)), Users(p))

\* ProjectService.AddUser, RemoveUser: the checks of the user
CheckUser(s, p, u) ==
    /\ Exists(p)
    /\ u # OwnerOf[p]
    /\ Begin(s, IF u \in Users(p) THEN "removeUser" ELSE "addUser", p, {}, {u})
    /\ UNCHANGED <<link, call, view, misled>>

\* storePg.addUser, removeUser: getProject
GetUsers(s) ==
    LET p == tx[s].project
    IN  /\ tx[s] # NoTx
        /\ tx[s].op \in {"addUser", "removeUser"}
        /\ Exists(p)
        /\ Continue(s, "users", IF tx[s].op = "addUser" THEN Users(p) \cup tx[s].who
                                                       ELSE Users(p) \ tx[s].who)
        /\ UNCHANGED <<link, call, view, misled>>

\* Then their UPDATE, which writes all users, whatever they are by now: with
\* one added in between dropped, who gets no message (Missed), and one removed
\* in between back.  The tasks a removal unassigns count as part of its row.
\* sendUpdate or, of a removal, sendUserRemoved
UpdateUsers(s) ==
    LET p == tx[s].project
        users == tx[s].users
        removed == tx[s].who \ users
        news == [v \in User |-> News("project_updated", p, users)[v]
                                \o News("project_user_removed", p, removed)[v]]
    IN  /\ tx[s] # NoTx
        /\ tx[s].op = "users"
        /\ Exists(p)
        /\ Free({"row", "delete"}, p)
        /\ Continue(s, "row", users)
        /\ Send(p, news, Users(p) \cup users \cup removed)

\* AssignUser, UnassignUser, SetProcessPoints: sendTaskUpdate, to the users in
\* the committed row
UpdateTask(s, p) ==
    /\ Exists(p)
    /\ Free({"work", "delete"}, p)
    /\ Begin(s, "work", p, Users(p), {})
    /\ Send(p, News("project_updated", p, Users(p)), Users(p))

\* DeleteProject reads the project, waits for its row and tasks, and sends to
\* the users it read: sendDelete
GetProjectToDelete(s, p) ==
    /\ Exists(p)
    /\ Begin(s, "deleting", p, Users(p), {})
    /\ UNCHANGED <<link, call, view, misled>>

DeleteProject(s) ==
    LET p == tx[s].project
    IN  /\ tx[s] # NoTx
        /\ tx[s].op = "deleting"
        /\ Exists(p)
        /\ Free({"row", "work", "delete"}, p)
        /\ Continue(s, "delete", tx[s].users)
        /\ Send(p, News("project_deleted", p, tx[s].users), Users(p))

Commit(s) ==
    LET p == tx[s].project
    IN  /\ tx[s] # NoTx
        /\ tx[s].op \notin Unsent
        /\ tx' = [tx EXCEPT ![s] = NoTx]
        /\ members' = IF tx[s].op \in {"add", "row"}
                      THEN [members EXCEPT ![p] = Append(@, tx[s].users)] ELSE members
        /\ work' = IF tx[s].op = "work" THEN [work EXCEPT ![p] = @ + 1] ELSE work
        /\ gone' = IF tx[s].op = "delete" THEN gone \cup {p} ELSE gone
        /\ UNCHANGED <<changes, link, call, view, misled>>

\* A statement finds no row, the commit fails, or the server crashes.  Undone:
\* the messages are out.
Rollback(s) ==
    /\ tx[s] # NoTx
    /\ tx' = [tx EXCEPT ![s] = NoTx]
    /\ misled' = [t \in Tab |-> IF tx[s].op \in Unsent THEN misled[t]
                                ELSE misled[t] \cup {tx[s].project}]
    /\ UNCHANGED <<members, work, gone, changes, link, call, view>>

-----------------------------------------------------------------------------
(* The server: handlers that read.                                         *)

\* TooEarly: a transaction that has sent its messages has not committed.
Pending(p) == \E s \in Session : Writes(s, {"add", "row", "work", "delete"}, p)

\* GetProject: VerifyMembershipProject
Verify(t, k) ==
    LET c == call[t][k]
    IN  /\ c # NoCall
        /\ c.step = "asked" /\ c.to # Manager
        /\ call' = [call EXCEPT ![t][k].step = IF Sees(UserOf[t], c.to) THEN "member" ELSE "failed"]
        /\ Mislead(t, {p \in c.about : Pending(p)})
        /\ UNCHANGED <<server, link, view>>

\* getProject: whether the user is still a member is not asked again.
GetRow(t, k) ==
    LET c == call[t][k]
    IN  /\ c # NoCall
        /\ c.step = "member"
        /\ call' = [call EXCEPT
                       ![t][k].step = IF Exists(c.to) THEN "rows" ELSE "failed",
                       ![t][k].copies[c.to] = IF Exists(c.to) THEN Current(c.to) ELSE NoCopy]
        /\ Mislead(t, {p \in c.about : Pending(p)})
        /\ UNCHANGED <<server, link, view>>

\* getProjects
GetRows(t, k) ==
    LET c == call[t][k]
    IN  /\ c # NoCall
        /\ c.step = "asked" /\ c.to = Manager
        /\ call' = [call EXCEPT
                       ![t][k].step = "rows",
                       ![t][k].copies = [p \in Project |-> IF Sees(UserOf[t], p) THEN Current(p)
                                                           ELSE NoCopy]]
        /\ Mislead(t, {p \in c.about : Pending(p)})
        /\ UNCHANGED <<server, link, view>>

\* addTasksToProject: a project that was deleted in between has no tasks, which
\* fails the request.
GetTasks(t, k) ==
    LET c == call[t][k]
        found == {p \in Project : c.copies[p] # NoCopy}
    IN  /\ c # NoCall
        /\ c.step = "rows"
        /\ call' = [call EXCEPT ![t][k].step = IF found \cap gone = {} THEN "ready" ELSE "failed",
                                ![t][k].copies = [p \in Project |->
                                    IF p \in found THEN [c.copies[p] EXCEPT !.work = work[p]]
                                                   ELSE NoCopy]]
        /\ Mislead(t, {p \in c.about : Pending(p)})
        /\ UNCHANGED <<server, link, view>>

\* The request or its answer is lost, or the users' names cannot be loaded.  That
\* the server reads for nothing makes no difference.
Fail(t, k) ==
    /\ call[t][k] # NoCall
    /\ call[t][k].step = "asked"
    /\ call' = [call EXCEPT ![t][k].step = "failed"]
    /\ Mislead(t, call[t][k].about)
    /\ UNCHANGED <<server, link, view>>

-----------------------------------------------------------------------------
(* The tab: requests.                                                      *)

Ask(why, about, to) ==
    [why |-> why, about |-> about, to |-> to, step |-> "asked",
     copies |-> [p \in Project |-> NoCopy]]

Calls(t) == {k \in Slot : call[t][k] # NoCall}
Opening(t) == {k \in Calls(t) : call[t][k].why = "open"}
About(t, p) == {k \in Calls(t) : p \in call[t][k].about}

\* Mutant: a navigation under way goes on.
OpenWith_Both(t, to) ==
    \E k \in Slot \ Calls(t) :
        /\ call' = [call EXCEPT ![t][k] = Ask("open", IF to = Manager THEN Project ELSE {to}, to)]
        /\ misled' = [misled EXCEPT ![t] =
                {p \in Project : About(t, p) \ Opening(t) # {}}]

Heard(t, p) == \E i \in DOMAIN mail[t] : mail[t][i].project = p

\* The router runs the resolver of the page; a navigation under way is given
\* up.  What the tab is wrong about is forgotten, unless it still has a message
\* about it or (Overtaken) an answer about it is still to come.
OpenWith(t, to) ==
    LET about == IF to = Manager THEN Project ELSE {to}
        others == [k \in Slot |-> IF k \in Opening(t) THEN NoCall ELSE call[t][k]]
    IN  \E k \in Slot :
            /\ others[k] = NoCall
            /\ call' = [call EXCEPT ![t] = [others EXCEPT ![k] = Ask("open", about, to)]]
            /\ misled' = [misled EXCEPT ![t] =
                    {p \in @ : p \notin about \/ Heard(t, p)} \cup
                    {p \in Project : About(t, p) \ Opening(t) # {}}]

\* The list links to the pages of projects, a page to the list.
Open(t, to) ==
    /\ to # place[t] /\ Manager \in {to, place[t]}
    /\ OpenWith(t, to)
    /\ UNCHANGED <<server, link, view>>

\* The component of the page is created with the answer.
OpenList(t, k) ==
    LET c == call[t][k]
    IN  /\ c # NoCall
        /\ c.step = "ready" /\ c.why = "open" /\ c.to = Manager
        /\ place' = [place EXCEPT ![t] = Manager]
        /\ page' = [page EXCEPT ![t] = NoPage]
        /\ shown' = [shown EXCEPT ![t] = [p \in Project |->
                        IF c.copies[p] = NoCopy THEN <<>> ELSE <<c.copies[p]>>]]
        /\ call' = [call EXCEPT ![t][k] = NoCall]
        /\ UNCHANGED <<server, link, misled>>

OpenProject(t, k) ==
    LET c == call[t][k]
    IN  /\ c # NoCall
        /\ c.step = "ready" /\ c.why = "open" /\ c.to # Manager
        /\ place' = [place EXCEPT ![t] = c.to]
        /\ page' = [page EXCEPT ![t] = [project |-> c.to, copy |-> c.copies[c.to]]]
        /\ shown' = [shown EXCEPT ![t] = Nothing]
        /\ call' = [call EXCEPT ![t][k] = NoCall]
        /\ UNCHANGED <<server, link, misled>>

\* An answer that is an error: the event is not emitted, the navigation ends
\* where it began.  Failed: then the old page stays.
Error(t, k) ==
    LET c == call[t][k]
    IN  /\ c # NoCall
        /\ c.step = "failed"
        /\ call' = [call EXCEPT ![t][k] = NoCall]
        /\ Mislead(t, IF c.why = "open" THEN Project ELSE {})
        /\ UNCHANGED <<server, link, view>>

\* projectAdded: only the list listens.
ProjectAdded(t, k) ==
    LET c == call[t][k]
    IN  /\ c # NoCall
        /\ c.step = "ready" /\ c.why = "added"
        /\ \E p \in c.about :
             shown' = IF place[t] = Manager
                      THEN [shown EXCEPT ![t][p] = Append(@, c.copies[p])] ELSE shown
        /\ call' = [call EXCEPT ![t][k] = NoCall]
        /\ UNCHANGED <<server, link, place, page, misled>>

\* Mutant: the changed project is added once more.
Replaced_Adds(entries, copy) == Append(entries, copy)

\* projectChanged: the list replaces the first entry or adds one; the project
\* page takes whatever project the event brings.  Strayed: it is another one.
Replaced(entries, copy) ==
    IF entries = <<>> THEN <<copy>> ELSE [entries EXCEPT ![1] = copy]

ProjectChangedList(t, k) ==
    LET c == call[t][k]
    IN  /\ c # NoCall
        /\ c.step = "ready" /\ c.why = "changed"
        /\ place[t] = Manager
        /\ \E p \in c.about : shown' = [shown EXCEPT ![t][p] = Replaced(@, c.copies[p])]
        /\ call' = [call EXCEPT ![t][k] = NoCall]
        /\ UNCHANGED <<server, link, place, page, misled>>

ProjectChangedPage(t, k) ==
    LET c == call[t][k]
    IN  /\ c # NoCall
        /\ c.step = "ready" /\ c.why = "changed"
        /\ place[t] # Manager
        /\ \E p \in c.about :
             /\ page' = [page EXCEPT ![t] = [project |-> p, copy |-> c.copies[p]]]
             /\ Mislead(t, IF p # place[t] THEN Project ELSE {})
        /\ call' = [call EXCEPT ![t][k] = NoCall]
        /\ UNCHANGED <<server, link, place, shown>>

-----------------------------------------------------------------------------
(* The tab: messages.                                                      *)

Receives(t, types) == mail[t] # <<>> /\ Head(mail[t]).type \in types
Taken(t) ==
    /\ mail' = [mail EXCEPT ![t] = Tail(@)]
    /\ UNCHANGED <<online, cuts>>

\* handleReceivedMessage: getProject(m.id).  Overtaken: another answer about
\* the project is on its way.  Twice: the list has the project already.
Fetch(t) ==
    LET m == Head(mail[t])
        p == m.project
        why == IF m.type = "project_added" THEN "added" ELSE "changed"
    IN  /\ Receives(t, {"project_added", "project_updated"})
        /\ Taken(t)
        /\ \E k \in Slot \ Calls(t) : call' = [call EXCEPT ![t][k] = Ask(why, {p}, p)]
        /\ Mislead(t, IF About(t, p) # {} \/ (why = "added" /\ shown[t][p] # <<>>)
                      THEN {p} ELSE {})
        /\ UNCHANGED <<server, view>>

\* projectDeleted and projectUserRemoved: the list drops the project, the page
\* of the project goes to the list.
RemoveFromList(t) ==
    LET p == Head(mail[t]).project
    IN  /\ Receives(t, {"project_deleted", "project_user_removed"})
        /\ place[t] = Manager
        /\ Taken(t)
        /\ shown' = [shown EXCEPT ![t][p] = <<>>]
        /\ Mislead(t, IF About(t, p) # {} THEN {p} ELSE {})
        /\ UNCHANGED <<server, call, place, page>>

LeavePage(t) ==
    LET p == Head(mail[t]).project
    IN  /\ Receives(t, {"project_deleted", "project_user_removed"})
        /\ place[t] # Manager
        /\ page[t].project = p
        /\ Taken(t)
        /\ OpenWith(t, Manager)
        /\ UNCHANGED <<server, view>>

IgnoreRemoval(t) ==
    LET p == Head(mail[t]).project
    IN  /\ Receives(t, {"project_deleted", "project_user_removed"})
        /\ place[t] # Manager
        /\ page[t].project # p
        /\ Taken(t)
        /\ Mislead(t, IF About(t, p) # {} THEN {p} ELSE {})
        /\ UNCHANGED <<server, call, view>>

\* The connection is lost, with the messages on their way (Missed), and made
\* again a second later.
Disconnect(t) ==
    /\ online[t]
    /\ cuts[t] < MaxCuts
    /\ online' = [online EXCEPT ![t] = FALSE]
    /\ cuts' = [cuts EXCEPT ![t] = @ + 1]
    /\ mail' = [mail EXCEPT ![t] = <<>>]
    /\ Mislead(t, {mail[t][i].project : i \in DOMAIN mail[t]})
    /\ UNCHANGED <<server, call, view>>

Connect(t) ==
    /\ ~online[t]
    /\ online' = [online EXCEPT ![t] = TRUE]
    /\ UNCHANGED <<server, mail, cuts, call, view, misled>>

-----------------------------------------------------------------------------
ServerStep(s) ==
    \/ \E p \in Project, users \in SUBSET User : AddProject(s, p, users)
    \/ \E p \in Project, u \in User : CheckUser(s, p, u)
    \/ \E p \in Project : UpdateProject(s, p) \/ UpdateTask(s, p) \/ GetProjectToDelete(s, p)
    \/ GetUsers(s) \/ UpdateUsers(s) \/ DeleteProject(s) \/ Commit(s) \/ Rollback(s)

TabStep(t) ==
    \/ \E to \in Place : Open(t, to)
    \/ Fetch(t) \/ RemoveFromList(t) \/ LeavePage(t) \/ IgnoreRemoval(t)
    \/ Disconnect(t) \/ Connect(t)
    \/ \E k \in Slot :
          \/ Verify(t, k) \/ GetRow(t, k) \/ GetRows(t, k) \/ GetTasks(t, k) \/ Fail(t, k) \/ Error(t, k)
          \/ OpenList(t, k) \/ OpenProject(t, k)
          \/ ProjectAdded(t, k) \/ ProjectChangedList(t, k) \/ ProjectChangedPage(t, k)

Next ==
    \/ \E s \in Session : ServerStep(s)
    \/ \E t \in Tab : TabStep(t)

Spec == Init /\ [][Next]_vars

-----------------------------------------------------------------------------
(* Properties.                                                             *)

Quiet(t) ==
    /\ online[t] /\ mail[t] = <<>> /\ Calls(t) = {}
    /\ tx = [s \in Session |-> NoTx]

\* Once nothing is on its way, a tab shows each of its user's projects once and
\* as it is, and no other project: only the races named at misled prevent it
\* (ProjectService, ProjectListComponent, ProjectComponent, the order of
\* message and commit).
Informed ==
    \A t \in Tab : Quiet(t) => \A p \in Project \ misled[t] :
        /\ place[t] = Manager =>
               shown[t][p] = IF Sees(UserOf[t], p) THEN <<Current(p)>> ELSE <<>>
        /\ place[t] = p =>
               Sees(UserOf[t], p) /\ page[t] = [project |-> p, copy |-> Current(p)]

UpToDate == TypeOK /\ Informed

\* Short of those races neither the list nor the project page of a tab goes
\* back to an older state of a project they show.
Older(a, b) == a.row < b.row \/ a.work < b.work

StepsForward ==
    \A t \in Tab : \A p \in Project \ misled'[t] :
        /\ shown[t][p] # <<>> /\ shown'[t][p] # <<>> => ~Older(shown'[t][p][1], shown[t][p][1])
        /\ page[t] # NoPage /\ page'[t] # NoPage /\ page[t].project = p /\ page'[t].project = p
             => ~Older(page'[t].copy, page[t].copy)

NoStepBack == [][StepsForward]_vars
=============================================================================
