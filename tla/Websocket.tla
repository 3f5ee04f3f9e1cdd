----------------------------- MODULE Websocket ------------------------------
(***************************************************************************)
(* The server's registry of websocket connections: a global map from users *)
(* to slices of connections, which the goroutine of every request reads    *)
(* and writes without a lock.                                              *)
(*                                                                         *)
(* A slice is a reference to an array and a length, as in Go, so that the  *)
(* arrays two goroutines hold at the same time are the same array.  One    *)
(* step is one access of the map, of the array or of a connection.  What   *)
(* the language and the library leave undefined is a choice: overlapping   *)
(* accesses of the map may end the process (the runtime's detection of     *)
(* concurrent map access), and overlapping writes to one connection may    *)
(* work, fail or panic.                                                    *)
(***************************************************************************)
EXTENDS Integers, Sequences, FiniteSets

CONSTANTS
    User,
    Conn,       \* connections, each opened once
    UserOf,     \* the user whose token opened the connection
    Worker,     \* goroutines that use the registry at the same time
    NoConn,     \* nil in an array of connections
    MaxArrays,  \* bound: arrays allocated between two starts of the server
    Recipients, \* the lists of users SendAll is called with
    MaxSends    \* bound: calls of SendAll

ASSUME WebsocketAssumption ==
    /\ UserOf \in [Conn -> User]
    /\ NoConn \notin Conn /\ IsFiniteSet(Conn)
    /\ Recipients \subseteq (SUBSET User) \ {{}}
    /\ MaxArrays \in Nat /\ MaxSends \in Nat

VARIABLES
    connections,  \* the map: a slice for each user
    arrays,       \* the arrays behind the slices
    state,        \* of each connection
    job,          \* what each goroutine does: see Job
    sends,        \* calls of SendAll so far
    failures,     \* how many writes to each connection failed
    disturbed     \* users whose slice two goroutines have used at once

vars == <<connections, arrays, state, job, sends, failures, disturbed>>
registry == <<connections, arrays>>

-----------------------------------------------------------------------------
(* Slices.                                                                 *)

ArrayId == 0 .. MaxArrays
Size == 2 * Cardinality(Conn)

\* The nil slice of a missing key, and the slice make(.., 0) returns, whose
\* array holds nothing.
Slice == [array : ArrayId \cup {-1}, len : 0 .. Cardinality(Conn)]
Nil == [array |-> -1, len |-> 0]
Empty == [array |-> 0, len |-> 0]

Unused == {a \in 1 .. MaxArrays : arrays[a] = <<>>}
NewArray == CHOOSE a \in Unused : TRUE

\* append works in place while the array has room, and else in an array of
\* twice the size that holds a copy.
HasRoom(s) == s.len < Len(arrays[s.array])
Grown(s, c) ==
    [k \in 1 .. IF s.len = 0 THEN 1 ELSE 2 * s.len |->
        CASE k <= s.len -> arrays[s.array][k]
          [] k = s.len + 1 -> c
          [] OTHER -> NoConn]

Elements(s) == {arrays[s.array][k] : k \in 1 .. s.len}
Registered(u) == Elements(connections[u])

\* The variables of a goroutine: the statement it runs next, the connection
\* it registers or writes to, the users SendAll was called with, those it has
\* still to serve and the one it serves, userConnections or the result of
\* append, and i.  got is no variable of the program: the connections that
\* have the messages.
Statement == {"make", "append", "store",
              "user", "next", "writing", "close", "update"}
NoJob == [pc |-> "idle"]
Job == [pc : Statement, conn : Conn \cup {NoConn}, uids : SUBSET User, todo : SUBSET User, uid : User,
        slice : Slice, index : 0 .. Cardinality(Conn) + 1, got : SUBSET Conn]

TypeOK ==
    /\ connections \in [User -> Slice]
    /\ DOMAIN arrays = ArrayId
    /\ \A a \in ArrayId : \E n \in 0 .. Size : arrays[a] \in [1 .. n -> Conn \cup {NoConn}]
    /\ state \in [Conn -> {"new", "open", "broken", "closed", "lost"}]
    /\ job \in [Worker -> Job \cup {NoJob}]
    /\ sends \in 0 .. MaxSends
    /\ failures \in [Conn -> Nat]
    /\ disturbed \in SUBSET User

Init ==
    /\ connections = [u \in User |-> Nil]
    /\ arrays = [a \in ArrayId |-> <<>>]
    /\ state = [c \in Conn |-> "new"]
    /\ job = [w \in Worker |-> NoJob]
    /\ sends = 0
    /\ failures = [c \in Conn |-> 0]
    /\ disturbed = {}

At(w, pc) == job[w].pc = pc
Goto(w, pc) == job' = [job EXCEPT ![w].pc = pc]
End(w) == job' = [job EXCEPT ![w] = NoJob]

\* The goroutine is between its first and its last use of u's slice.
Uses(w, u) == job[w].pc \notin {"idle", "user"} /\ job[w].uid = u

\* w starts to use u's slice.
Meet(w, u) ==
    disturbed' = IF \E v \in Worker \ {w} : Uses(v, u) THEN disturbed \cup {u} ELSE disturbed

-----------------------------------------------------------------------------
(* GetWebsocketConnection.                                                 *)

\* upgrader.Upgrade, then connections[uid] == nil
Upgrade(w, c) ==
    LET u == UserOf[c]
    IN  /\ At(w, "idle")
        /\ state[c] = "new"
        /\ state' = [state EXCEPT ![c] = "open"]
        /\ job' = [job EXCEPT ![w] = [pc |-> IF connections[u] = Nil THEN "make" ELSE "append",
                                     conn |-> c, uids |-> {}, todo |-> {}, uid |-> u,
                                     slice |-> Nil, index |-> 0, got |-> {}]]
        /\ Meet(w, u)
        /\ UNCHANGED <<registry, sends, failures>>

Make(w) ==
    /\ At(w, "make")
    /\ connections' = [connections EXCEPT ![job[w].uid] = Empty]
    /\ Goto(w, "append")
    /\ UNCHANGED <<arrays, state, sends, failures, disturbed>>

\* connections[uid] = append(connections[uid], ws): the map is read, the array
\* written, then the map written.
AppendInPlace(w) ==
    LET s == connections[job[w].uid]
    IN  /\ At(w, "append")
        /\ HasRoom(s)
        /\ arrays' = [arrays EXCEPT ![s.array][s.len + 1] = job[w].conn]
        /\ job' = [job EXCEPT ![w].slice = [s EXCEPT !.len = @ + 1], ![w].pc = "store"]
        /\ UNCHANGED <<connections, state, sends, failures, disturbed>>

AppendCopy(w) ==
    LET s == connections[job[w].uid]
    IN  /\ At(w, "append")
        /\ ~HasRoom(s)
        /\ Unused # {}
        /\ arrays' = [arrays EXCEPT ![NewArray] = Grown(s, job[w].conn)]
        /\ job' = [job EXCEPT ![w].slice = [array |-> NewArray, len |-> s.len + 1],
                              ![w].pc = "store"]
        /\ UNCHANGED <<connections, state, sends, failures, disturbed>>

Store(w) ==
    /\ At(w, "store")
    /\ connections' = [connections EXCEPT ![job[w].uid] = job[w].slice]
    /\ End(w)
    /\ UNCHANGED <<arrays, state, sends, failures, disturbed>>

-----------------------------------------------------------------------------
(* SendAll.                                                                *)

SendAll(w, users) ==
    /\ At(w, "idle")
    /\ sends < MaxSends
    /\ sends' = sends + 1
    /\ job' = [job EXCEPT ![w] = [pc |-> "user", conn |-> NoConn, uids |-> users, todo |-> users,
                                 uid |-> CHOOSE u \in users : TRUE,
                                 slice |-> Nil, index |-> 0, got |-> {}]]
    /\ UNCHANGED <<registry, state, failures, disturbed>>

\* Mutant: every user of the map is served.
RangeOverUsers_All(w, u) ==
    /\ At(w, "user")
    /\ job' = [job EXCEPT ![w].uid = u, ![w].todo = @ \ {u}, ![w].slice = connections[u],
                          ![w].index = 1, ![w].pc = "next"]
    /\ Meet(w, u)
    /\ UNCHANGED <<registry, state, sends, failures>>

\* The next of uids, in the order of the users column, and
\* userConnections := connections[uid]
RangeOverUsers(w, u) ==
    /\ At(w, "user")
    /\ u \in job[w].todo
    /\ job' = [job EXCEPT ![w].uid = u, ![w].todo = @ \ {u}, ![w].slice = connections[u],
                          ![w].index = 1, ![w].pc = "next"]
    /\ Meet(w, u)
    /\ UNCHANGED <<registry, state, sends, failures>>

\* conn := userConnections[i] while i < len(userConnections); WriteJSON starts.
StartWrite(w) ==
    LET s == job[w].slice
        i == job[w].index
    IN  /\ At(w, "next")
        /\ i <= s.len
        /\ arrays[s.array][i] # NoConn
        /\ job' = [job EXCEPT ![w].conn = arrays[s.array][i], ![w].pc = "writing"]
        /\ UNCHANGED <<registry, state, sends, failures, disturbed>>

UserDone(w) ==
    /\ At(w, "next")
    /\ job[w].index > job[w].slice.len
    /\ IF job[w].todo = {} THEN End(w)
       ELSE job' = [job EXCEPT ![w].conn = NoConn, ![w].slice = Nil, ![w].index = 0,
                              ![w].pc = "user"]
    /\ UNCHANGED <<registry, state, sends, failures, disturbed>>

\* A panic, at a nil connection or because of two writers of one connection,
\* ends the request.
Alone(w) == \A v \in Worker \ {w} : At(v, "writing") => job[v].conn # job[w].conn

Panic(w) ==
    /\ \/ /\ At(w, "next")
          /\ job[w].index <= job[w].slice.len
          /\ arrays[job[w].slice.array][job[w].index] = NoConn
       \/ At(w, "writing") /\ ~Alone(w)
    /\ End(w)
    /\ UNCHANGED <<registry, state, sends, failures, disturbed>>

Written(w) ==
    LET c == job[w].conn
    IN  /\ At(w, "writing")
        /\ state[c] = "open"
        /\ job' = [job EXCEPT ![w].got = @ \cup {c}, ![w].pc = "update"]
        /\ UNCHANGED <<registry, state, sends, failures, disturbed>>

\* The peer is gone, but the server's system has not noticed.
WrittenInVain(w) ==
    /\ At(w, "writing")
    /\ state[job[w].conn] = "broken"
    /\ Goto(w, "update")
    /\ UNCHANGED <<registry, state, sends, failures, disturbed>>

WriteFails(w) ==
    LET c == job[w].conn
    IN  /\ At(w, "writing")
        /\ state[c] = "open" => ~Alone(w)
        /\ failures' = [failures EXCEPT ![c] = @ + 1]
        /\ Goto(w, "close")
        /\ UNCHANGED <<registry, state, sends, disturbed>>

Close(w) ==
    LET c == job[w].conn
    IN  /\ At(w, "close")
        /\ state[c] # "closed"
        /\ state' = [state EXCEPT ![c] = "closed"]
        /\ Goto(w, "update")
        /\ UNCHANGED <<registry, sends, failures, disturbed>>

\* Mutants: the connection stays; the last one is dropped; the copied one is
\* skipped.
Drop_Never(w) ==
    /\ At(w, "close")
    /\ state[job[w].conn] = "closed"
    /\ Goto(w, "update")
    /\ UNCHANGED <<registry, state, sends, failures, disturbed>>

Drop_Last(w) ==
    LET s == job[w].slice
    IN  /\ At(w, "close")
        /\ state[job[w].conn] = "closed"
        /\ arrays' = [arrays EXCEPT ![s.array][s.len] = NoConn]
        /\ job' = [job EXCEPT ![w].slice.len = s.len - 1, ![w].index = @ - 1, ![w].pc = "update"]
        /\ UNCHANGED <<connections, state, sends, failures, disturbed>>

Drop_Skip(w) ==
    LET s == job[w].slice
        i == job[w].index
        last == arrays[s.array][s.len]
    IN  /\ At(w, "close")
        /\ state[job[w].conn] = "closed"
        /\ arrays' = [arrays EXCEPT ![s.array] = [[@ EXCEPT ![i] = last] EXCEPT ![s.len] = NoConn]]
        /\ job' = [job EXCEPT ![w].slice.len = s.len - 1, ![w].pc = "update"]
        /\ UNCHANGED <<connections, state, sends, failures, disturbed>>

\* To close a connection that is closed already is an error, and only after
\* this error the connection leaves the slice: the last one takes its place,
\* and is the next.
Drop(w) ==
    LET s == job[w].slice
        i == job[w].index
        last == arrays[s.array][s.len]
    IN  /\ At(w, "close")
        /\ state[job[w].conn] = "closed"
        /\ arrays' = [arrays EXCEPT ![s.array] = [[@ EXCEPT ![i] = last] EXCEPT ![s.len] = NoConn]]
        /\ job' = [job EXCEPT ![w].slice.len = s.len - 1, ![w].index = i - 1, ![w].pc = "update"]
        /\ UNCHANGED <<connections, state, sends, failures, disturbed>>

\* connections[uid] = userConnections, and i++
Update(w) ==
    /\ At(w, "update")
    /\ connections' = [connections EXCEPT ![job[w].uid] = job[w].slice]
    /\ job' = [job EXCEPT ![w].index = @ + 1, ![w].pc = "next"]
    /\ UNCHANGED <<arrays, state, sends, failures, disturbed>>

-----------------------------------------------------------------------------
(* The environment.                                                        *)

\* The tab is closed or reloaded, or the network fails.
Break(c) ==
    /\ state[c] = "open"
    /\ state' = [state EXCEPT ![c] = "broken"]
    /\ UNCHANGED <<registry, job, sends, failures, disturbed>>

\* The runtime ends the process when it sees two accesses of the map at once,
\* one of them a write.  The server starts again, with an empty map.
Writes(w) == job[w].pc \in {"make", "store", "update"}
Accesses(w) == Writes(w) \/ job[w].pc \in {"append", "user"}

FatalError ==
    /\ \E v, w \in Worker : v # w /\ Writes(v) /\ Accesses(w)
    /\ connections' = [u \in User |-> Nil]
    /\ arrays' = [a \in ArrayId |-> <<>>]
    /\ state' = [c \in Conn |-> IF state[c] = "new" THEN "new" ELSE "lost"]
    /\ job' = [w \in Worker |-> NoJob]
    /\ failures' = [c \in Conn |-> 0]
    /\ disturbed' = {}
    /\ UNCHANGED sends

Step(w) ==
    \/ \E c \in Conn : Upgrade(w, c)
    \/ Make(w) \/ AppendInPlace(w) \/ AppendCopy(w) \/ Store(w)
    \/ \E users \in Recipients : SendAll(w, users)
    \/ \E u \in User : RangeOverUsers(w, u)
    \/ StartWrite(w) \/ UserDone(w) \/ Panic(w)
    \/ Written(w) \/ WrittenInVain(w) \/ WriteFails(w)
    \/ Close(w) \/ Drop(w) \/ Update(w)

\* The bounds are reached, and no goroutine has work left.
AllServed ==
    /\ \A w \in Worker : At(w, "idle")
    /\ sends = MaxSends
    /\ \A c \in Conn : state[c] \in {"broken", "closed", "lost"}
    /\ UNCHANGED vars

Next ==
    \/ \E w \in Worker : Step(w)
    \/ \E c \in Conn : Break(c)
    \/ FatalError
    \/ AllServed

Spec == Init /\ [][Next]_vars

-----------------------------------------------------------------------------
(* Properties.                                                             *)

Calm(u) == u \notin disturbed /\ \A w \in Worker : ~Uses(w, u)

\* While no two goroutines use a user's slice at once (whatever they do for
\* other users), the registry knows each open connection of his, and no
\* connection of another user, twice, or nil (GetWebsocketConnection, and the
\* removal from the slice in SendAll).
Kept ==
    \A u \in User : Calm(u) =>
        /\ \A c \in Conn : UserOf[c] = u /\ state[c] = "open" => c \in Registered(u)
        /\ Registered(u) \subseteq {c \in Conn : UserOf[c] = u}
        /\ Cardinality(Registered(u)) = connections[u].len

RegistryOK == TypeOK /\ Kept

\* A connection nobody reads is not written to forever: the second write that
\* fails removes it, unless goroutines met at the slice (SendAll).
BrokenGoes ==
    \A u \in User : Calm(u) => \A c \in Registered(u) : failures[c] < 2

\* A message reaches no connection of a user it is not for, however the
\* goroutines interleave (SendAll).
OnlyForUsers ==
    \A w \in Worker : job[w] # NoJob => \A c \in job[w].got : UserOf[c] \in job[w].uids

\* When SendAll is done with a user, each of his connections that was open has
\* the message, unless goroutines met at the slice.
EachHears ==
    \A w \in Worker : At(w, "next") /\ job[w].index > job[w].slice.len /\ job'[w] # job[w] =>
        LET u == job[w].uid
        IN  u \notin disturbed =>
                \A c \in Conn : UserOf[c] = u /\ state[c] = "open" => c \in job[w].got

SendReachesAll == [][EachHears]_vars
=============================================================================
