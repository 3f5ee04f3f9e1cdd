-------------------------- MODULE Websocket_proofs --------------------------
(***************************************************************************)
(* Proofs about Websocket.tla, for any users, connections, goroutines,     *)
(* messages and arrays.                                                    *)
(*                                                                         *)
(* Two things hold whatever the goroutines do to each other: arrays belong *)
(* to one user, and a slice is never longer than there are connections     *)
(* that were appended.  Everything else is about a user whose slice one    *)
(* goroutine at a time uses: the slice that goroutine holds is then a list *)
(* of all his open connections, and what others do does not touch it.      *)
(***************************************************************************)
EXTENDS Websocket, FiniteSetTheorems, FunctionTheorems, TLAPS

-----------------------------------------------------------------------------
(* What always holds.                                                      *)

\* Connections that have been in an array: no goroutine has them still to append.
Registering(w) == job[w].pc \in {"make", "append"}
Appended == {c \in Conn : state[c] # "new" /\ \A w \in Worker : Registering(w) => job[w].conn # c}

\* An array of the user, in use.
ArrayOK(u, array, D) ==
    /\ array # <<>>
    /\ \A k \in DOMAIN array : array[k] = NoConn \/ (array[k] \in D /\ UserOf[array[k]] = u)

\* A slice of the user, of what has been appended.
RefOK(u, s, A, D) ==
    /\ s \in Slice
    /\ s.len <= Cardinality(D)
    /\ IF s.array > 0 THEN s.len <= Len(A[s.array]) /\ ArrayOK(u, A[s.array], D)
                      ELSE s.len = 0

\* What a goroutine knows by itself at each statement.
JobOK(w) == job[w] # NoJob =>
    LET j == job[w] IN
    /\ RefOK(j.uid, j.slice, arrays, Appended)
    /\ Registering(w) => /\ j.conn \in Conn /\ UserOf[j.conn] = j.uid /\ state[j.conn] # "new"
                         /\ j.slice = Nil
    /\ j.pc = "append" => connections[j.uid].array # -1
    /\ j.pc \in {"store", "writing", "close", "update"} => j.slice.array > 0
    /\ j.pc \in {"writing", "close"} => j.conn \in Appended /\ UserOf[j.conn] = j.uid
    /\ j.pc = "user" => j.slice = Nil
    /\ j.pc = "next" => j.index \in 1 .. j.slice.len + 1
    /\ j.pc \in {"writing", "close"} => j.index \in 1 .. j.slice.len
    /\ j.pc = "update" => j.index \in 0 .. j.slice.len
    /\ j.todo \subseteq j.uids
    /\ j.pc \in {"next", "writing", "close", "update"} => j.uid \in j.uids
    /\ \A c \in j.got : UserOf[c] \in j.uids

\* The user or a goroutine that works for him has a slice of the array.
Holds(u, a) ==
    \/ connections[u].array = a
    \/ \E w \in Worker : job[w] # NoJob /\ job[w].uid = u /\ job[w].slice.array = a

Common ==
    /\ TypeOK
    /\ arrays[0] = <<>>
    /\ \A u \in User : RefOK(u, connections[u], arrays, Appended)
    /\ \A w \in Worker : JobOK(w)
    /\ \A u, v \in User : \A a \in 1 .. MaxArrays : Holds(u, a) /\ Holds(v, a) => u = v
    /\ \A v, w \in Worker : Registering(v) /\ Registering(w) /\ job[v].conn = job[w].conn => v = w
    /\ \A c \in Conn \ Appended : failures[c] = 0

-----------------------------------------------------------------------------
(* What holds of a user whose slice one goroutine at a time uses.          *)

\* The slots of a slice in arrays A.
Slots(A, s) == [k \in 1 .. s.len |-> A[s.array][k]]

\* A list of the user's open connections, except some, in which no connection
\* has failed often, but for one.
Listed(l, S, F, u, except, but) ==
    /\ \A k \in DOMAIN l : l[k] \in Conn /\ UserOf[l[k]] = u
    /\ \A j, k \in DOMAIN l : l[j] = l[k] => j = k
    /\ \A c \in Conn : UserOf[c] = u /\ S[c] = "open" /\ c \notin except =>
         \E k \in DOMAIN l : l[k] = c
    /\ \A k \in DOMAIN l : l[k] # but => F[l[k]] = 0 \/ (F[l[k]] = 1 /\ S[l[k]] = "closed")

\* The open connections up to i have the message.
HeardTo(l, S, got, i) == \A k \in DOMAIN l : k <= i /\ S[l[k]] = "open" => l[k] \in got

\* A goroutine's step in the list it holds.
JobInv(w, u, A, S, F, slice) ==
    LET j == job[w]
        l == Slots(A, j.slice)
    IN  /\ Registering(w) => Listed(Slots(A, slice), S, F, u, {j.conn}, NoConn)
        /\ j.pc = "make" => slice = Nil
        /\ j.pc = "store" => Listed(l, S, F, u, {}, NoConn)
        /\ j.pc \in {"next", "writing", "update"} => Listed(l, S, F, u, {}, NoConn)
        /\ j.pc \in {"next", "writing", "close"} => j.slice = slice /\ HeardTo(l, S, j.got, j.index - 1)
        /\ j.pc = "update" => HeardTo(l, S, j.got, j.index)
        /\ j.pc \in {"writing", "close"} => l[j.index] = j.conn
        /\ j.pc = "close" => /\ Listed(l, S, F, u, {}, j.conn)
                             /\ S[j.conn] # "open"
                             /\ F[j.conn] = 1 \/ (F[j.conn] = 2 /\ S[j.conn] = "closed")

UserInv(u) == u \notin disturbed =>
    /\ \A v, w \in Worker : Uses(v, u) /\ Uses(w, u) => v = w
    /\ (\A w \in Worker : ~Uses(w, u)) =>
         Listed(Slots(arrays, connections[u]), state, failures, u, {}, NoConn)
    /\ \A w \in Worker : Uses(w, u) => JobInv(w, u, arrays, state, failures, connections[u])

IInv == Common /\ \A u \in User : UserInv(u)

-----------------------------------------------------------------------------
(* Sizes.                                                                  *)

Entry == Conn \cup {NoConn}

\* Sets of connections.
LEMMA Sizes ==
    ASSUME NEW D, NEW E, D \subseteq E, E \subseteq Conn
    PROVE  /\ Cardinality(D) \in Nat /\ Cardinality(E) \in Nat /\ Cardinality(Conn) \in Nat
           /\ Cardinality(D) <= Cardinality(E) /\ Cardinality(E) <= Cardinality(Conn)
           /\ \A c \in E \ D : Cardinality(D) + 1 <= Cardinality(E)
  <1>1. IsFiniteSet(Conn)
    BY WebsocketAssumption
  <1>2. IsFiniteSet(E) /\ Cardinality(E) <= Cardinality(Conn)
    BY <1>1, FS_Subset
  <1>3. IsFiniteSet(D) /\ Cardinality(D) <= Cardinality(E)
    BY <1>2, FS_Subset
  <1>4. ASSUME NEW c \in E \ D
        PROVE  Cardinality(D) + 1 <= Cardinality(E)
    <2>1. Cardinality(D \cup {c}) = Cardinality(D) + 1
      BY <1>3, FS_AddElement
    <2>2. D \cup {c} \subseteq E
      OBVIOUS
    <2> QED
      BY <1>2, <2>1, <2>2, FS_Subset
  <1> QED
    BY <1>1, <1>2, <1>3, <1>4, FS_CardinalityType

\* An array is a sequence that is not too long.
LEMMA ArraySeq ==
    ASSUME TypeOK, NEW a \in ArrayId
    PROVE  /\ arrays[a] \in Seq(Entry) /\ Len(arrays[a]) \in 0 .. Size
           /\ DOMAIN arrays[a] = 1 .. Len(arrays[a])
  <1>1. PICK n \in 0 .. Size : arrays[a] \in [1 .. n -> Conn \cup {NoConn}]
    BY DEF TypeOK
  <1>2. n \in Nat
    BY Sizes DEF Size
  <1> QED
    BY <1>1, <1>2 DEF Entry

\* A sequence that is not too long may be an array.
LEMMA SeqArray ==
    ASSUME NEW A \in Seq(Entry), Len(A) <= Size
    PROVE  \E n \in 0 .. Size : A \in [1 .. n -> Conn \cup {NoConn}]
  <1>1. Size \in Nat
    BY Sizes DEF Size
  <1>2. Len(A) \in 0 .. Size /\ A \in [1 .. Len(A) -> Conn \cup {NoConn}]
    BY <1>1 DEF Entry
  <1> QED
    BY <1>2

\* A slice stays good when its array only changes within, and more connections
\* are appended.
LEMMA RefKeeps ==
    ASSUME NEW u, NEW s, NEW A, NEW A2, NEW D, NEW E, RefOK(u, s, A, D), D \subseteq E, E \subseteq Conn,
           s.array > 0 => \/ A2[s.array] = A[s.array]
                          \/ Len(A2[s.array]) = Len(A[s.array]) /\ ArrayOK(u, A2[s.array], E)
    PROVE  RefOK(u, s, A2, E)
  <1>1. s.len \in Nat /\ s.len <= Cardinality(E)
    BY Sizes DEF RefOK, Slice
  <1> QED
    BY <1>1 DEF RefOK, ArrayOK

\* A goroutine at work.
LEMMA Working ==
    ASSUME TypeOK, NEW w \in Worker, job[w].pc # "idle"
    PROVE  job[w] \in Job /\ job[w] # NoJob
  BY DEF TypeOK, NoJob

\* An idle one.
LEMMA Idle ==
    ASSUME TypeOK, NEW w \in Worker
    PROVE  /\ job[w] = NoJob <=> job[w].pc = "idle"
           /\ job[w] \in Job => job[w] # NoJob
  BY DEF TypeOK, NoJob, Job, Statement

-----------------------------------------------------------------------------
(* A step of one goroutine, w, that works for user v: what it may do to    *)
(* the others.                                                             *)

Local(w, v) ==
    /\ \A x \in Worker \ {w} : job'[x] = job[x]
    /\ \A u \in User \ {v} : connections'[u] = connections[u] /\ ~Uses(w, u) /\ ~Uses(w, u)'
    /\ \A u \in User : connections[u].array # -1 => connections'[u].array # -1
    /\ \A c \in Conn : UserOf[c] # v => state'[c] = state[c] /\ failures'[c] = failures[c]
    /\ \A c \in Conn : state[c] # "new" => state'[c] # "new"
    /\ \A c \in Conn \ Appended : failures'[c] = failures[c]
    /\ disturbed \subseteq disturbed' /\ disturbed' \subseteq disturbed \cup {v}
    /\ \A a \in ArrayId :
         \/ arrays'[a] = arrays[a]
         \/ a > 0 /\ arrays[a] = <<>>
         \/ /\ a > 0 /\ Holds(v, a) /\ Len(arrays'[a]) = Len(arrays[a])
            /\ ArrayOK(v, arrays'[a], Appended')
    /\ connections'[v].array > 0 => Holds(v, connections'[v].array)
    /\ job'[w] # NoJob /\ job'[w].slice.array > 0 =>
         /\ job'[w].uid = v
         /\ Holds(v, job'[w].slice.array) \/ arrays[job'[w].slice.array] = <<>>
    /\ Registering(w)' => \/ Registering(w) /\ job'[w].conn = job[w].conn
                          \/ state[job'[w].conn] = "new"

\* What was appended stays appended.
LEMMA AppendedStay ==
    ASSUME Common, NEW w \in Worker, NEW v \in User, Local(w, v)
    PROVE  Appended \subseteq Appended' /\ Appended' \subseteq Conn
  <1>1. ASSUME NEW c \in Appended, NEW x \in Worker, Registering(x)'
        PROVE  job'[x].conn # c
    <2>1. CASE x = w
      BY <1>1, <2>1 DEF Local, Appended
    <2>2. CASE x # w
      BY <1>1, <2>2 DEF Local, Appended, Registering
    <2> QED
      BY <2>1, <2>2
  <1>2. \A c \in Appended : c \in Conn /\ state'[c] # "new"
    BY DEF Local, Appended
  <1> QED
    BY <1>1, <1>2 DEF Appended

\* Arrays of others are left alone, and those of v keep their length.
LEMMA RefStays ==
    ASSUME Common, NEW w \in Worker, NEW v \in User, Local(w, v),
           NEW u \in User, NEW s, RefOK(u, s, arrays, Appended), s.array > 0 => Holds(u, s.array)
    PROVE  /\ RefOK(u, s, arrays', Appended')
           /\ u # v /\ s.array > 0 => arrays'[s.array] = arrays[s.array]
  <1>1. Appended \subseteq Appended' /\ Appended' \subseteq Conn
    BY AppendedStay
  <1>2. ASSUME s.array > 0
        PROVE  /\ s.array \in 1 .. MaxArrays /\ s.array \in ArrayId /\ arrays[s.array] # <<>>
               /\ Holds(u, s.array)
    BY <1>2, WebsocketAssumption DEF RefOK, ArrayOK, Slice, ArrayId
  <1>3. ASSUME s.array > 0, u # v
        PROVE  arrays'[s.array] = arrays[s.array]
    <2>1. ~Holds(v, s.array)
      BY <1>2, <1>3 DEF Common
    <2> QED
      BY <1>2, <1>3, <2>1 DEF Local
  <1>4. s.array > 0 => \/ arrays'[s.array] = arrays[s.array]
                       \/ /\ Len(arrays'[s.array]) = Len(arrays[s.array])
                          /\ ArrayOK(u, arrays'[s.array], Appended')
    BY <1>2, <1>3 DEF Local
  <1> QED
    BY <1>1, <1>3, <1>4, RefKeeps

\* So the jobs of the others go on.
LEMMA OthersKeep ==
    ASSUME Common, NEW w \in Worker, NEW v \in User, Local(w, v), NEW x \in Worker \ {w}
    PROVE  JobOK(x)'
  <1> SUFFICES ASSUME job[x] # NoJob
               PROVE  JobOK(x)'
    BY DEF Local, JobOK
  <1>1. job'[x] = job[x]
    BY DEF Local
  <1>2. job[x] \in Job /\ JobOK(x)
    BY DEF Common, TypeOK
  <1>3. job[x].uid \in User
    BY <1>2 DEF Job
  <1>4. RefOK(job[x].uid, job[x].slice, arrays', Appended')
    <2>1. RefOK(job[x].uid, job[x].slice, arrays, Appended)
      BY <1>2 DEF JobOK
    <2>2. job[x].slice.array > 0 => Holds(job[x].uid, job[x].slice.array)
      BY DEF Holds
    <2> QED
      BY <1>3, <2>1, <2>2, RefStays
  <1>5. Registering(x) => state'[job[x].conn] # "new"
    BY <1>2 DEF JobOK, Local
  <1>6. connections[job[x].uid].array # -1 => connections'[job[x].uid].array # -1
    BY <1>3 DEF Local
  <1>7. job[x].conn \in Appended => job[x].conn \in Appended'
    BY AppendedStay
  <1> QED
    BY <1>1, <1>2, <1>4, <1>5, <1>6, <1>7 DEF JobOK, Registering

\* The same slots.
LEMMA SlotsSame ==
    ASSUME NEW A, NEW B, NEW s \in Slice, s.array > 0 => A[s.array] = B[s.array],
           ~(s.array > 0) => s.len = 0
    PROVE  Slots(A, s) = Slots(B, s)
  <1>1. CASE s.array > 0
    BY <1>1 DEF Slots
  <1>2. CASE ~(s.array > 0)
    <2>1. 1 .. s.len = {}
      BY <1>2
    <2> QED
      BY <2>1 DEF Slots
  <1> QED
    BY <1>1, <1>2

\* A list only depends on the connections of its user.
LEMMA ListedSame ==
    ASSUME NEW l, NEW S, NEW F, NEW S2, NEW F2, NEW u, NEW except, NEW but,
           Listed(l, S, F, u, except, but),
           \A c \in Conn : UserOf[c] = u => S2[c] = S[c] /\ F2[c] = F[c]
    PROVE  Listed(l, S2, F2, u, except, but)
  BY DEF Listed

\* Another user, and the goroutine that works for him, do not notice.
LEMMA UsersKeep ==
    ASSUME Common, NEW w \in Worker, NEW v \in User, Local(w, v),
           NEW u \in User \ {v}, UserInv(u)
    PROVE  UserInv(u)'
  <1> SUFFICES ASSUME u \notin disturbed'
               PROVE  UserInv(u)'
    BY DEF UserInv
  <1>1. u \notin disturbed
    BY DEF Local
  <1>2. \A x \in Worker : /\ Uses(x, u)' <=> Uses(x, u)
                          /\ Uses(x, u) => x # w /\ job'[x] = job[x]
    BY DEF Local, Uses
  <1>3. \A c \in Conn : UserOf[c] = u => state'[c] = state[c] /\ failures'[c] = failures[c]
    BY DEF Local
  <1>4. connections'[u] = connections[u] /\ RefOK(u, connections[u], arrays, Appended)
    BY DEF Local, Common
  <1>5. Slots(arrays', connections'[u]) = Slots(arrays, connections[u])
    <2>1. connections[u].array > 0 => arrays'[connections[u].array] = arrays[connections[u].array]
      BY <1>4, RefStays DEF Holds
    <2> QED
      BY <1>4, <2>1, SlotsSame DEF RefOK
  <1>6. (\A x \in Worker : ~Uses(x, u)') =>
          Listed(Slots(arrays', connections'[u]), state', failures', u, {}, NoConn)
    BY <1>1, <1>2, <1>3, <1>5, ListedSame DEF UserInv
  <1>7. ASSUME NEW x \in Worker, Uses(x, u)
        PROVE  JobInv(x, u, arrays, state, failures, connections[u])'
    <2> DEFINE l == Slots(arrays, job[x].slice)
               m == Slots(arrays, connections[u])
    <2>1. JobInv(x, u, arrays, state, failures, connections[u])
      BY <1>1, <1>7 DEF UserInv
    <2>2. job'[x] = job[x] /\ job[x].uid = u /\ job[x] # NoJob /\ JobOK(x)
      BY <1>2, <1>7 DEF Uses, NoJob, Common
    <2>3. Slots(arrays', job[x].slice) = l
      <3>1. RefOK(u, job[x].slice, arrays, Appended)
        BY <2>2 DEF JobOK
      <3>2. job[x].slice.array > 0 => arrays'[job[x].slice.array] = arrays[job[x].slice.array]
        BY <2>2, <3>1, RefStays DEF Holds
      <3> QED
        BY <3>1, <3>2, SlotsSame DEF RefOK
    <2>4. job[x].pc \in {"close"} => job[x].conn \in Conn /\ UserOf[job[x].conn] = u
      BY <2>2 DEF JobOK, Appended
    <2> HIDE DEF l, m
    <2>5. \A except, but : /\ Listed(l, state, failures, u, except, but) =>
                                Listed(l, state', failures', u, except, but)
                           /\ Listed(m, state, failures, u, except, but) =>
                                Listed(m, state', failures', u, except, but)
      BY <1>3, ListedSame
    <2>6. ASSUME NEW but, NEW i, Listed(l, state, failures, u, {}, but),
                 HeardTo(l, state, job[x].got, i)
          PROVE  HeardTo(l, state', job[x].got, i)
      BY <1>3, <2>6 DEF Listed, HeardTo
    <2> QED
      BY <1>3, <1>4, <1>5, <2>1, <2>2, <2>3, <2>4, <2>5, <2>6 DEF JobInv, Registering, l, m
  <1> QED
    BY <1>1, <1>2, <1>6, <1>7 DEF UserInv

\* Arrays stay with their users.
LEMMA HoldsKeep ==
    ASSUME Common, NEW w \in Worker, NEW v \in User, Local(w, v)
    PROVE  \A u, t \in User : \A a \in 1 .. MaxArrays : Holds(u, a)' /\ Holds(t, a)' => u = t
  <1>1. ASSUME NEW u \in User, NEW a \in 1 .. MaxArrays, Holds(u, a)'
        PROVE  Holds(u, a) \/ (u = v /\ arrays[a] = <<>>)
    <2>1. CASE connections'[u].array = a
      <3>1. CASE u = v
        BY <2>1, <3>1 DEF Local
      <3>2. CASE u # v
        BY <2>1, <3>2 DEF Local, Holds
      <3> QED
        BY <3>1, <3>2
    <2>2. ASSUME NEW x \in Worker, job'[x] # NoJob, job'[x].uid = u, job'[x].slice.array = a
          PROVE  Holds(u, a) \/ (u = v /\ arrays[a] = <<>>)
      <3>1. CASE x = w
        BY <2>2, <3>1 DEF Local
      <3>2. CASE x # w
        BY <2>2, <3>2 DEF Local, Holds
      <3> QED
        BY <3>1, <3>2
    <2> QED
      BY <1>1, <2>1, <2>2 DEF Holds
  <1>2. ASSUME NEW u \in User, NEW a \in 1 .. MaxArrays, Holds(u, a)
        PROVE  arrays[a] # <<>>
    <2>1. a > 0
      OBVIOUS
    <2>2. CASE connections[u].array = a
      BY <2>1, <2>2 DEF Common, RefOK, ArrayOK
    <2>3. ASSUME NEW x \in Worker, job[x] # NoJob, job[x].uid = u, job[x].slice.array = a
          PROVE  arrays[a] # <<>>
      BY <2>1, <2>3 DEF Common, JobOK, RefOK, ArrayOK
    <2> QED
      BY <1>2, <2>2, <2>3 DEF Holds
  <1>3. \A u, t \in User : \A a \in 1 .. MaxArrays : Holds(u, a) /\ Holds(t, a) => u = t
    BY DEF Common
  <1> QED
    BY <1>1, <1>2, <1>3

\* What is left to show of a step.
LEMMA StepKeeps ==
    ASSUME IInv, NEW w \in Worker, NEW v \in User, Local(w, v),
           TypeOK', arrays'[0] = <<>>, RefOK(v, connections'[v], arrays', Appended'),
           JobOK(w)', UserInv(v)'
    PROVE  IInv'
  <1>1. Common /\ Appended \subseteq Appended'
    BY AppendedStay DEF IInv
  <1>2. \A u \in User : RefOK(u, connections'[u], arrays', Appended')
    <2>1. ASSUME NEW u \in User, u # v
          PROVE  RefOK(u, connections'[u], arrays', Appended')
      <3>1. connections'[u] = connections[u] /\ RefOK(u, connections[u], arrays, Appended)
        BY <1>1, <2>1 DEF Local, Common
      <3> QED
        BY <1>1, <3>1, RefStays DEF Holds
    <2> QED
      BY <2>1
  <1>3. \A x \in Worker : JobOK(x)'
    BY <1>1, OthersKeep
  <1>4. \A u \in User : UserInv(u)'
    BY <1>1, UsersKeep DEF IInv
  <1>5. ASSUME NEW x \in Worker, NEW y \in Worker, Registering(x)', Registering(y)',
               job'[x].conn = job'[y].conn
        PROVE  x = y
    <2>1. ASSUME NEW z \in Worker \ {w}, Registering(z)'
          PROVE  /\ Registering(z) /\ job'[z].conn = job[z].conn /\ state[job[z].conn] # "new"
      <3>1. Registering(z) /\ job'[z] = job[z] /\ job[z] # NoJob
        BY <2>1 DEF Local, Registering, NoJob
      <3> QED
        BY <1>1, <3>1 DEF Common, JobOK
    <2> QED
      BY <1>1, <1>5, <2>1 DEF Local, Common
  <1>6. \A c \in Conn \ Appended' : failures'[c] = 0
    BY <1>1 DEF Local, Common
  <1>7. \A u, t \in User : \A a \in 1 .. MaxArrays : Holds(u, a)' /\ Holds(t, a)' => u = t
    BY <1>1, HoldsKeep
  <1>8. Common'
    BY <1>2, <1>3, <1>5, <1>6, <1>7 DEF Common
  <1> QED
    BY <1>4, <1>8 DEF IInv

-----------------------------------------------------------------------------
(* The steps.                                                              *)

\* What is known of a goroutine at work.
LEMMA AtWork ==
    ASSUME IInv, NEW w \in Worker, job[w].pc # "idle"
    PROVE  /\ job[w] \in Job /\ job[w] # NoJob /\ job[w].uid \in User
           /\ JobOK(w) /\ UserInv(job[w].uid)
           /\ RefOK(job[w].uid, job[w].slice, arrays, Appended)
           /\ RefOK(job[w].uid, connections[job[w].uid], arrays, Appended)
           /\ Holds(job[w].uid, job[w].slice.array)
           /\ Holds(job[w].uid, connections[job[w].uid].array)
  <1>1. job[w] \in Job /\ job[w] # NoJob
    BY Working DEF IInv, Common
  <1>2. job[w].uid \in User
    BY <1>1 DEF Job
  <1>3. JobOK(w) /\ RefOK(job[w].uid, connections[job[w].uid], arrays, Appended)
    BY <1>2 DEF IInv, Common
  <1> QED
    BY <1>1, <1>2, <1>3 DEF JobOK, Holds, IInv

\* An undisturbed user has no other goroutine at his slice.
LEMMA OnlyUser ==
    ASSUME NEW w \in Worker, NEW v, UserInv(v), v \notin disturbed, Uses(w, v)
    PROVE  /\ \A x \in Worker \ {w} : ~Uses(x, v)
           /\ JobInv(w, v, arrays, state, failures, connections[v])
  BY DEF UserInv

\* So only what his goroutine knows is to be shown.
LEMMA UserStep ==
    ASSUME NEW w \in Worker, NEW v, \A x \in Worker \ {w} : job'[x] = job[x],
           disturbed \subseteq disturbed',
           v \notin disturbed' => \A x \in Worker \ {w} : ~Uses(x, v),
           v \notin disturbed' => IF Uses(w, v)' THEN JobInv(w, v, arrays, state, failures, connections[v])'
                                  ELSE Listed(Slots(arrays', connections'[v]), state', failures', v,
                                              {}, NoConn)
    PROVE  UserInv(v)'
  <1> SUFFICES ASSUME v \notin disturbed'
               PROVE  UserInv(v)'
    BY DEF UserInv
  <1>1. \A x \in Worker \ {w} : ~Uses(x, v)'
    BY DEF Uses
  <1> QED
    BY <1>1 DEF UserInv

\* A goroutine that does not use the slice before or after a step that changes
\* nothing else.
LEMMA UserIdle ==
    ASSUME NEW w \in Worker, NEW v, \A x \in Worker \ {w} : job'[x] = job[x],
           UNCHANGED <<registry, state, failures, disturbed>>,
           ~Uses(w, v), ~Uses(w, v)', UserInv(v)
    PROVE  UserInv(v)'
  <1> SUFFICES ASSUME v \notin disturbed
               PROVE  UserInv(v)'
    BY DEF UserInv
  <1>1. \A x \in Worker : /\ Uses(x, v)' <=> Uses(x, v)
                          /\ Uses(x, v) => job'[x] = job[x]
    BY DEF Uses
  <1>2. ASSUME NEW x \in Worker, Uses(x, v)
        PROVE  JobInv(x, v, arrays, state, failures, connections[v])'
    <2>1. JobInv(x, v, arrays, state, failures, connections[v])
      BY <1>2 DEF UserInv
    <2> QED
      BY <1>1, <1>2, <2>1 DEF JobInv, Registering, registry
  <1> QED
    BY <1>1, <1>2 DEF UserInv, registry

\* One job changes.
LEMMA JobStep ==
    ASSUME TypeOK, NEW w \in Worker, NEW j, job' = [job EXCEPT ![w] = j]
    PROVE  /\ job'[w] = j /\ \A x \in Worker \ {w} : job'[x] = job[x]
           /\ j \in Job \cup {NoJob} => job' \in [Worker -> Job \cup {NoJob}]
  BY DEF TypeOK

\* The slots of a good slice.
LEMMA SlotsOf ==
    ASSUME NEW u, NEW s, NEW A, NEW D, RefOK(u, s, A, D)
    PROVE  /\ DOMAIN Slots(A, s) = 1 .. s.len /\ s.len \in Nat
           /\ \A k \in 1 .. s.len : Slots(A, s)[k] = A[s.array][k]
           /\ s.len > 0 => s.array > 0
           /\ ~(s.array > 0) => s.len = 0
  <1>1. s.len \in Nat
    BY Sizes DEF RefOK, Slice
  <1> QED
    BY <1>1 DEF RefOK, Slots

\* What a slot may hold.
LEMMA SlotContent ==
    ASSUME Common, NEW u \in User, NEW s, RefOK(u, s, arrays, Appended), NEW k \in 1 .. s.len
    PROVE  /\ arrays[s.array][k] = NoConn \/ (/\ arrays[s.array][k] \in Appended
                                             /\ UserOf[arrays[s.array][k]] = u)
           /\ s.array > 0 /\ s.array \in ArrayId /\ k \in DOMAIN arrays[s.array]
  <1>1. s.len \in Nat /\ s.array > 0 /\ s.array \in ArrayId
    BY SlotsOf, WebsocketAssumption DEF RefOK, Slice, ArrayId
  <1>2. k \in DOMAIN arrays[s.array]
    BY <1>1, ArraySeq DEF Common, RefOK
  <1> QED
    BY <1>1, <1>2 DEF RefOK, ArrayOK

\* Nil and the empty slice.
LEMMA NoSlots ==
    ASSUME NEW u, NEW A, NEW D, D \subseteq Conn
    PROVE  /\ RefOK(u, Nil, A, D) /\ RefOK(u, Empty, A, D)
           /\ Slots(A, Nil) = Slots(A, Empty)
  <1>1. Cardinality(D) \in Nat /\ Cardinality(Conn) \in Nat
    BY Sizes
  <1>2. Nil \in Slice /\ Empty \in Slice
    BY <1>1, WebsocketAssumption DEF Nil, Empty, Slice, ArrayId
  <1>3. 1 .. Nil.len = {} /\ 1 .. Empty.len = {}
    BY DEF Nil, Empty
  <1> QED
    BY <1>1, <1>2, <1>3 DEF RefOK, Slots, Nil, Empty

\* The variables of a goroutine at first.
LEMMA Zero ==
    /\ 0 \in 0 .. Cardinality(Conn) + 1 /\ 1 \in 0 .. Cardinality(Conn) + 1
    /\ Nil \in Slice /\ Empty \in Slice /\ Cardinality(Conn) \in Nat
  <1>1. Cardinality(Conn) \in Nat
    BY WebsocketAssumption, FS_CardinalityType
  <1> QED
    BY <1>1, WebsocketAssumption DEF Nil, Empty, Slice, ArrayId

\* SendAll starts.
LEMMA SendAllKeeps ==
    ASSUME IInv, NEW w \in Worker, NEW users \in Recipients, SendAll(w, users)
    PROVE  IInv'
  <1> DEFINE v == CHOOSE u \in users : TRUE
             j == [pc |-> "user", conn |-> NoConn, uids |-> users, todo |-> users,
                   uid |-> v, slice |-> Nil, index |-> 0, got |-> {}]
  <1>1. v \in User /\ users \subseteq User
    BY WebsocketAssumption
  <1> HIDE DEF v
  <1>2. /\ job[w].pc = "idle" /\ job' = [job EXCEPT ![w] = j]
        /\ UNCHANGED <<connections, arrays, state, failures, disturbed>>
        /\ sends' = sends + 1 /\ sends < MaxSends
    BY DEF SendAll, At, registry, v
  <1>3. 0 \in 0 .. Cardinality(Conn) + 1 /\ Nil \in Slice
    BY Zero
  <1>4. j \in Job
    BY <1>1, <1>3 DEF Job, Statement
  <1>5. /\ j.pc = "user" /\ j.uids = users /\ j.todo = users /\ j.uid = v /\ j.slice = Nil
        /\ j.got = {}
    OBVIOUS
  <1> HIDE DEF j
  <1>6. Common /\ TypeOK /\ job'[w] = j /\ \A x \in Worker \ {w} : job'[x] = job[x]
    BY <1>2, JobStep DEF IInv, Common
  <1>7. sends' \in 0 .. MaxSends
    BY <1>2, <1>6, WebsocketAssumption DEF TypeOK
  <1>8. TypeOK'
    BY <1>2, <1>4, <1>6, <1>7, JobStep DEF TypeOK
  <1>9. \A u : ~Uses(w, u) /\ ~Uses(w, u)'
    BY <1>2, <1>5, <1>6 DEF Uses
  <1>10. Local(w, v)
    BY <1>2, <1>5, <1>6, <1>9 DEF Local, Registering, Holds, Nil
  <1>11. Appended' \subseteq Conn
    BY DEF Appended
  <1>12. RefOK(v, connections'[v], arrays', Appended')
    BY <1>1, <1>2, <1>6, <1>10, RefStays DEF Common, Holds
  <1>13. JobOK(w)'
    BY <1>5, <1>6, <1>11, NoSlots DEF JobOK, Registering
  <1>14. UserInv(v)'
    BY <1>1, <1>2, <1>6, <1>9, UserIdle DEF IInv, registry
  <1> QED
    BY <1>1, <1>2, <1>6, <1>8, <1>10, <1>12, <1>13, <1>14, StepKeeps DEF Common

\* A connection is opened: if another goroutine uses the user's slice, he is
\* disturbed from now on.
LEMMA UpgradeKeeps ==
    ASSUME IInv, NEW w \in Worker, NEW c \in Conn, Upgrade(w, c)
    PROVE  IInv'
  <1> DEFINE v == UserOf[c]
             pc == IF connections[v] = Nil THEN "make" ELSE "append"
             j == [pc |-> pc, conn |-> c, uids |-> {}, todo |-> {}, uid |-> v,
                   slice |-> Nil, index |-> 0, got |-> {}]
  <1>1. v \in User
    BY WebsocketAssumption
  <1>2. /\ job[w].pc = "idle" /\ job' = [job EXCEPT ![w] = j] /\ Meet(w, v)
        /\ state[c] = "new" /\ state' = [state EXCEPT ![c] = "open"]
        /\ UNCHANGED <<connections, arrays, failures, sends>>
    BY DEF Upgrade, At, registry
  <1>3. 0 \in 0 .. Cardinality(Conn) + 1 /\ Nil \in Slice
    BY Zero
  <1>4. j \in Job
    BY <1>1, <1>3 DEF Job, Statement
  <1>5. /\ j.pc = pc /\ j.conn = c /\ j.uids = {} /\ j.todo = {} /\ j.uid = v
        /\ j.slice = Nil /\ j.got = {} /\ pc \in {"make", "append"}
    OBVIOUS
  <1>6. pc = "make" => connections[v] = Nil
    OBVIOUS
  <1>7. Common /\ TypeOK /\ RefOK(v, connections[v], arrays, Appended) /\ UserInv(v)
    BY <1>1 DEF IInv, Common
  <1>8. pc = "append" => connections[v].array # -1
    <2> SUFFICES ASSUME connections[v] # Nil
                 PROVE  connections[v].array # -1
      OBVIOUS
    <2>1. connections[v] = [array |-> connections[v].array, len |-> connections[v].len]
      BY <1>7 DEF RefOK, Slice
    <2>2. connections[v].array = -1 => connections[v].len = 0
      BY <1>7 DEF RefOK
    <2> QED
      BY <2>1, <2>2 DEF Nil
  <1> HIDE DEF pc, j, v
  <1>9. job'[w] = j /\ \A x \in Worker \ {w} : job'[x] = job[x]
    BY <1>2, <1>7, JobStep
  <1>10. /\ disturbed \subseteq disturbed' /\ disturbed' \subseteq disturbed \cup {v}
         /\ v \notin disturbed' => \A x \in Worker \ {w} : ~Uses(x, v)
    BY <1>2 DEF Meet
  <1>11. TypeOK'
    <2>1. disturbed' \in SUBSET User
      BY <1>1, <1>7, <1>10 DEF TypeOK
    <2>2. job' \in [Worker -> Job \cup {NoJob}]
      BY <1>2, <1>4, <1>7, JobStep
    <2> QED
      BY <1>2, <1>7, <2>1, <2>2 DEF TypeOK
  <1>12. \A d \in Conn : state'[d] = IF d = c THEN "open" ELSE state[d]
    BY <1>2, <1>7 DEF TypeOK
  <1>13. ~Registering(w) /\ ~\E u : Uses(w, u)
    BY <1>2 DEF Registering, Uses
  <1>14. Local(w, v)
    <2>1. \A u \in User \ {v} : ~Uses(w, u)'
      BY <1>5, <1>9 DEF Uses
    <2>2. connections'[v].array > 0 => Holds(v, connections'[v].array)
      BY <1>2 DEF Holds
    <2>3. ~(job'[w].slice.array > 0)
      BY <1>5, <1>9 DEF Nil
    <2>4. \A d \in Conn : UserOf[d] # v => state'[d] = state[d]
      BY <1>12 DEF v
    <2> QED
      BY <1>2, <1>5, <1>9, <1>10, <1>12, <1>13, <2>1, <2>2, <2>3, <2>4 DEF Local
  <1>15. RefOK(v, connections'[v], arrays', Appended')
    BY <1>1, <1>2, <1>7, <1>14, RefStays DEF Holds
  <1>16. JobOK(w)'
    <2>1. Appended' \subseteq Conn
      BY DEF Appended
    <2>2. UserOf[c] = v /\ state'[c] # "new"
      BY <1>12 DEF v
    <2> QED
      BY <1>2, <1>5, <1>8, <1>9, <2>1, <2>2, NoSlots DEF JobOK, Registering
  <1>17. UserInv(v)'
    <2> DEFINE l == Slots(arrays, connections[v])
    <2>1. ASSUME v \notin disturbed'
          PROVE  JobInv(w, v, arrays, state, failures, connections[v])'
      <3>1. Listed(l, state, failures, v, {}, NoConn)
        BY <1>7, <1>10, <1>13, <2>1 DEF UserInv
      <3>2. \A k \in DOMAIN l : l[k] # c
        <4>1. c \notin Appended /\ c # NoConn
          BY <1>2, WebsocketAssumption DEF Appended
        <4> QED
          BY <1>1, <1>7, <4>1, SlotsOf, SlotContent
      <3> HIDE DEF l
      <3>3. Listed(l, state', failures, v, {c}, NoConn)
        BY <1>12, <3>1, <3>2 DEF Listed
      <3> QED
        BY <1>2, <1>5, <1>6, <1>9, <3>3 DEF JobInv, Registering, l
    <2>2. Uses(w, v)'
      BY <1>5, <1>9 DEF Uses
    <2> QED
      BY <1>9, <1>10, <2>1, <2>2, UserStep
  <1> QED
    BY <1>1, <1>2, <1>7, <1>11, <1>14, <1>15, <1>16, <1>17, StepKeeps DEF Common

\* The slice of a user without connections is made.
LEMMA MakeKeeps ==
    ASSUME IInv, NEW w \in Worker, Make(w), NEW v \in User, v = job[w].uid
    PROVE  IInv'
  <1> DEFINE j == [job[w] EXCEPT !.pc = "append"]
  <1>1. /\ job[w].pc = "make" /\ connections' = [connections EXCEPT ![v] = Empty]
        /\ job' = [job EXCEPT ![w] = j]
        /\ UNCHANGED <<arrays, state, sends, failures, disturbed>>
    BY DEF Make, At, Goto
  <1>2. /\ job[w] \in Job /\ job[w] # NoJob /\ JobOK(w) /\ UserInv(v)
        /\ Common /\ TypeOK
    BY <1>1, AtWork DEF IInv, Common
  <1>3. /\ j \in Job /\ j.pc = "append" /\ j.conn = job[w].conn /\ j.uids = job[w].uids
        /\ j.todo = job[w].todo /\ j.uid = v /\ j.slice = job[w].slice /\ j.got = job[w].got
    BY <1>2 DEF Job, Statement
  <1> HIDE DEF j
  <1>4. job'[w] = j /\ \A x \in Worker \ {w} : job'[x] = job[x]
    BY <1>1, <1>2, JobStep
  <1>5. TypeOK'
    <2>1. job' \in [Worker -> Job \cup {NoJob}]
      BY <1>1, <1>2, <1>3, JobStep
    <2>2. connections' \in [User -> Slice]
      BY <1>1, <1>2, Zero DEF TypeOK
    <2> QED
      BY <1>1, <1>2, <2>1, <2>2 DEF TypeOK
  <1>6. connections'[v] = Empty /\ \A u \in User \ {v} : connections'[u] = connections[u]
    BY <1>1, <1>2 DEF TypeOK
  <1>7. j.slice = Nil /\ Registering(w)
    BY <1>1, <1>2, <1>3 DEF JobOK, Registering
  <1>8. Uses(w, v) /\ Uses(w, v)'
    BY <1>1, <1>3, <1>4 DEF Uses
  <1>9. Local(w, v)
    <2>1. \A u \in User \ {v} : ~Uses(w, u) /\ ~Uses(w, u)'
      BY <1>3, <1>4 DEF Uses
    <2>2. \A u \in User : connections[u].array # -1 => connections'[u].array # -1
      BY <1>1, <1>2 DEF TypeOK, Empty
    <2>3. ~(connections'[v].array > 0) /\ ~(job'[w].slice.array > 0)
      BY <1>4, <1>6, <1>7 DEF Empty, Nil
    <2> QED
      BY <1>1, <1>3, <1>4, <1>6, <1>7, <2>1, <2>2, <2>3 DEF Local
  <1>10. Appended' \subseteq Conn
    BY DEF Appended
  <1>11. RefOK(v, connections'[v], arrays', Appended')
    BY <1>6, <1>10, NoSlots
  <1>12. JobOK(w)'
    <2>1. connections'[v].array # -1
      BY <1>6 DEF Empty
    <2> QED
      BY <1>1, <1>2, <1>3, <1>4, <1>7, <1>10, <2>1, NoSlots DEF JobOK, Registering
  <1>13. UserInv(v)'
    <2>1. ASSUME v \notin disturbed'
          PROVE  /\ \A x \in Worker \ {w} : ~Uses(x, v)
                 /\ JobInv(w, v, arrays, state, failures, connections[v])'
      <3>1. /\ \A x \in Worker \ {w} : ~Uses(x, v)
            /\ JobInv(w, v, arrays, state, failures, connections[v])
        BY <1>1, <1>2, <1>8, <2>1, OnlyUser
      <3>2. /\ connections[v] = Nil
            /\ Listed(Slots(arrays, Nil), state, failures, v, {j.conn}, NoConn)
        BY <1>1, <1>3, <3>1 DEF JobInv, Registering
      <3>3. Slots(arrays, Nil) = Slots(arrays, Empty)
        BY <1>10, NoSlots
      <3>4. Listed(Slots(arrays', connections'[v]), state', failures', v, {j.conn}, NoConn)
        BY <1>1, <1>6, <3>2, <3>3
      <3> QED
        BY <1>3, <1>4, <3>1, <3>4 DEF JobInv, Registering
    <2> QED
      BY <1>1, <1>4, <1>8, <2>1, UserStep
  <1> QED
    BY <1>1, <1>2, <1>5, <1>9, <1>11, <1>12, <1>13, StepKeeps DEF Common

\* The registration ends: the list with the new connection is the user's.
LEMMA StoreKeeps ==
    ASSUME IInv, NEW w \in Worker, Store(w), NEW v \in User, v = job[w].uid
    PROVE  IInv'
  <1> DEFINE s == job[w].slice
  <1>1. /\ job[w].pc = "store" /\ connections' = [connections EXCEPT ![v] = s]
        /\ job' = [job EXCEPT ![w] = NoJob]
        /\ UNCHANGED <<arrays, state, sends, failures, disturbed>>
    BY DEF Store, At, End
  <1>2. /\ job[w] \in Job /\ job[w] # NoJob /\ JobOK(w) /\ UserInv(v)
        /\ Common /\ TypeOK /\ RefOK(v, s, arrays, Appended) /\ Holds(v, s.array)
    BY <1>1, AtWork DEF IInv, Common
  <1>3. s \in Slice /\ s.array > 0
    BY <1>1, <1>2 DEF RefOK, JobOK
  <1>4. Uses(w, v)
    BY <1>1 DEF Uses
  <1>5. \A u : u # v => ~Uses(w, u)
    BY DEF Uses
  <1> HIDE DEF s
  <1>6. job'[w] = NoJob /\ \A x \in Worker \ {w} : job'[x] = job[x]
    BY <1>1, <1>2, JobStep
  <1>7. TypeOK'
    <2>1. job' \in [Worker -> Job \cup {NoJob}]
      BY <1>1, <1>2, JobStep
    <2>2. connections' \in [User -> Slice]
      BY <1>1, <1>2, <1>3 DEF TypeOK
    <2> QED
      BY <1>1, <1>2, <2>1, <2>2 DEF TypeOK
  <1>8. connections'[v] = s /\ \A u \in User \ {v} : connections'[u] = connections[u]
    BY <1>1, <1>2 DEF TypeOK
  <1>9. ~Registering(w)' /\ \A u : ~Uses(w, u)'
    BY <1>6 DEF Registering, Uses, NoJob
  <1>10. Local(w, v)
    <2>1. s.array # -1
      BY <1>3
    <2>2. \A u \in User : connections[u].array # -1 => connections'[u].array # -1
      BY <1>8, <2>1
    <2> QED
      BY <1>1, <1>2, <1>5, <1>6, <1>8, <1>9, <2>2 DEF Local
  <1>11. RefOK(v, connections'[v], arrays', Appended')
    BY <1>2, <1>8, <1>10, RefStays
  <1>12. JobOK(w)'
    BY <1>6 DEF JobOK
  <1>13. UserInv(v)'
    <2>1. ASSUME v \notin disturbed'
          PROVE  /\ \A x \in Worker \ {w} : ~Uses(x, v)
                 /\ Listed(Slots(arrays', connections'[v]), state', failures', v, {}, NoConn)
      <3>1. /\ \A x \in Worker \ {w} : ~Uses(x, v)
            /\ JobInv(w, v, arrays, state, failures, connections[v])
        BY <1>1, <1>2, <1>4, <2>1, OnlyUser
      <3> QED
        BY <1>1, <1>8, <3>1 DEF JobInv, s
    <2> QED
      BY <1>1, <1>6, <1>9, <2>1, UserStep
  <1> QED
    BY <1>1, <1>2, <1>7, <1>10, <1>11, <1>12, <1>13, StepKeeps DEF Common

\* A step that changes one goroutine's variables and no more, when it has no
\* connection to register.
LEMMA WorkKeeps ==
    ASSUME IInv, NEW w \in Worker, NEW v \in User, NEW j \in Job \cup {NoJob},
           job' = [job EXCEPT ![w] = j], UNCHANGED <<registry, state, sends, failures>>,
           disturbed \subseteq disturbed', disturbed' \subseteq disturbed \cup {v},
           \A u \in User \ {v} : ~Uses(w, u),
           j # NoJob => j.uid = v /\ (j.slice.array > 0 => Holds(v, j.slice.array)),
           j.pc \notin {"make", "append"}, JobOK(w)', UserInv(v)'
    PROVE  IInv'
  <1>1. Common /\ TypeOK
    BY DEF IInv, Common
  <1>2. job'[w] = j /\ \A x \in Worker \ {w} : job'[x] = job[x]
    BY <1>1, JobStep
  <1>3. TypeOK'
    <2>1. job' \in [Worker -> Job \cup {NoJob}] /\ disturbed' \in SUBSET User
      BY <1>1, JobStep DEF TypeOK
    <2> QED
      BY <1>1, <2>1 DEF TypeOK, registry
  <1>4. \A u \in User \ {v} : ~Uses(w, u)'
    BY <1>2 DEF Uses, NoJob
  <1>5. ~Registering(w)'
    BY <1>2 DEF Registering
  <1>6. Local(w, v)
    BY <1>2, <1>4, <1>5 DEF Local, registry, Holds
  <1>7. RefOK(v, connections'[v], arrays', Appended')
    <2>1. RefOK(v, connections[v], arrays, Appended)
      BY <1>1 DEF Common
    <2> QED
      BY <1>1, <1>6, <2>1, RefStays DEF Holds, registry
  <1>8. arrays'[0] = <<>>
    BY <1>1 DEF Common, registry
  <1> QED
    BY <1>3, <1>6, <1>7, <1>8, StepKeeps

\* The same when it works with the slice of a user: only what it knows of an
\* undisturbed user is to be shown.
LEMMA WorkStep ==
    ASSUME IInv, NEW w \in Worker, NEW v \in User, v = job[w].uid,
           job[w].pc \in {"next", "writing", "close", "update"},
           NEW j \in Job \cup {NoJob}, job' = [job EXCEPT ![w] = j],
           UNCHANGED <<registry, state, sends, failures, disturbed>>,
           j # NoJob => j.uid = v /\ j.slice \in {job[w].slice, Nil},
           j.pc \notin {"make", "append"}, JobOK(w)',
           JobInv(w, v, arrays, state, failures, connections[v]) =>
             IF j.pc \in {"idle", "user"}
             THEN Listed(Slots(arrays, connections[v]), state, failures, v, {}, NoConn)
             ELSE JobInv(w, v, arrays, state, failures, connections[v])'
    PROVE  IInv'
  <1>1. Common /\ TypeOK /\ UserInv(v)
    BY DEF IInv, Common
  <1>2. job'[w] = j /\ \A x \in Worker \ {w} : job'[x] = job[x]
    BY <1>1, JobStep
  <1>3. Uses(w, v) /\ \A u : u # v => ~Uses(w, u)
    BY DEF Uses
  <1>4. j \in Job => j # NoJob
    BY DEF Job, NoJob, Statement
  <1>5. Uses(w, v)' <=> j.pc \notin {"idle", "user"}
    BY <1>2, <1>4 DEF Uses, NoJob
  <1>6. UserInv(v)'
    <2>1. ASSUME v \notin disturbed'
          PROVE  /\ \A x \in Worker \ {w} : ~Uses(x, v)
                 /\ JobInv(w, v, arrays, state, failures, connections[v])
      BY <1>1, <1>3, <2>1, OnlyUser
    <2>2. disturbed' = disturbed
      OBVIOUS
    <2>3. v \notin disturbed' =>
            IF Uses(w, v)' THEN JobInv(w, v, arrays, state, failures, connections[v])'
            ELSE Listed(Slots(arrays', connections'[v]), state', failures', v, {}, NoConn)
      BY <1>5, <2>1 DEF registry
    <2> QED
      BY <1>2, <2>1, <2>2, <2>3, UserStep
  <1>7. j # NoJob => j.uid = v /\ (j.slice.array > 0 => Holds(v, j.slice.array))
    BY AtWork DEF Nil
  <1> QED
    BY <1>1, <1>3, <1>6, <1>7, WorkKeeps

\* SendAll goes on to the next user: if another goroutine uses his slice, he is
\* disturbed from now on.
LEMMA RangeKeeps ==
    ASSUME IInv, NEW w \in Worker, NEW v \in User, RangeOverUsers(w, v)
    PROVE  IInv'
  <1> DEFINE s == connections[v]
             j == [job[w] EXCEPT !.uid = v, !.todo = @ \ {v}, !.slice = s, !.index = 1,
                                 !.pc = "next"]
  <1>1. /\ job[w].pc = "user" /\ v \in job[w].todo /\ Meet(w, v)
        /\ UNCHANGED <<registry, state, sends, failures>>
        /\ job' = [job EXCEPT ![w] = j]
    BY DEF RangeOverUsers, At
  <1>2. /\ job[w] \in Job /\ job[w] # NoJob /\ JobOK(w) /\ UserInv(v) /\ Common /\ TypeOK
        /\ RefOK(v, s, arrays, Appended)
    BY <1>1, AtWork DEF IInv, Common
  <1>3. s \in Slice /\ 1 \in 0 .. Cardinality(Conn) + 1 /\ job[w].todo \ {v} \in SUBSET User
    BY <1>2, Zero DEF RefOK, Job
  <1>4. /\ j \in Job /\ j.pc = "next" /\ j.conn = job[w].conn /\ j.uids = job[w].uids
        /\ j.todo = job[w].todo \ {v} /\ j.uid = v /\ j.slice = s /\ j.index = 1
        /\ j.got = job[w].got
    BY <1>2, <1>3 DEF Job, Statement
  <1>5. s.len \in Nat
    BY <1>2, SlotsOf
  <1> HIDE DEF j, s
  <1>6. job'[w] = j /\ \A x \in Worker \ {w} : job'[x] = job[x]
    BY <1>1, <1>2, JobStep
  <1>7. /\ disturbed \subseteq disturbed' /\ disturbed' \subseteq disturbed \cup {v}
        /\ v \notin disturbed' => \A x \in Worker \ {w} : ~Uses(x, v)
    BY <1>1 DEF Meet
  <1>8. \A u : ~Uses(w, u)
    BY <1>1 DEF Uses
  <1>9. j # NoJob /\ Uses(w, v)'
    BY <1>4, <1>6 DEF Uses, NoJob
  <1>10. JobOK(w)'
    <2>1. Appended' = Appended
      BY <1>1, <1>4, <1>6 DEF Appended, Registering
    <2>2. j.index \in 1 .. j.slice.len + 1
      BY <1>4, <1>5
    <2>3. j.todo \subseteq j.uids /\ j.uid \in j.uids /\ \A c \in j.got : UserOf[c] \in j.uids
      BY <1>1, <1>2, <1>4 DEF JobOK
    <2>4. RefOK(j.uid, j.slice, arrays', Appended')
      BY <1>1, <1>2, <1>4, <2>1 DEF registry
    <2> QED
      BY <1>4, <1>6, <2>2, <2>3, <2>4 DEF JobOK, Registering
  <1>11. UserInv(v)'
    <2>1. ASSUME v \notin disturbed'
          PROVE  JobInv(w, v, arrays, state, failures, connections[v])'
      <3>1. Listed(Slots(arrays, s), state, failures, v, {}, NoConn)
        BY <1>2, <1>7, <1>8, <2>1 DEF UserInv, s
      <3>2. HeardTo(Slots(arrays, s), state, j.got, 0)
        BY <1>2, SlotsOf DEF HeardTo
      <3>3. j.index - 1 = 0 /\ connections' = connections /\ arrays' = arrays
        BY <1>1, <1>4 DEF registry
      <3> QED
        BY <1>1, <1>4, <1>6, <3>1, <3>2, <3>3 DEF JobInv, Registering, s
    <2> QED
      BY <1>6, <1>7, <1>9, <2>1, UserStep
  <1>12. j.slice.array > 0 => Holds(v, j.slice.array)
    BY <1>4 DEF Holds, s
  <1> QED
    BY <1>1, <1>4, <1>7, <1>8, <1>10, <1>11, <1>12, WorkKeeps

\* What was appended only changes with the connections and the registrations.
LEMMA SameAppended ==
    ASSUME NEW w \in Worker, \A x \in Worker \ {w} : job'[x] = job[x],
           ~Registering(w), ~Registering(w)', \A c \in Conn : state'[c] = "new" <=> state[c] = "new"
    PROVE  Appended' = Appended
  <1>1. \A x \in Worker : /\ Registering(x)' <=> Registering(x)
                          /\ Registering(x) => job'[x] = job[x]
    BY DEF Registering
  <1> QED
    BY <1>1 DEF Appended

\* A write starts.
LEMMA StartWriteKeeps ==
    ASSUME IInv, NEW w \in Worker, StartWrite(w), NEW v \in User, v = job[w].uid
    PROVE  IInv'
  <1> DEFINE s == job[w].slice
             i == job[w].index
             c == arrays[s.array][i]
             j == [job[w] EXCEPT !.conn = c, !.pc = "writing"]
  <1>1. /\ job[w].pc = "next" /\ i <= s.len /\ c # NoConn
        /\ UNCHANGED <<registry, state, sends, failures, disturbed>>
        /\ job' = [job EXCEPT ![w] = j]
    BY DEF StartWrite, At
  <1>2. /\ job[w] \in Job /\ job[w] # NoJob /\ JobOK(w) /\ Common /\ TypeOK
        /\ RefOK(v, s, arrays, Appended)
    BY <1>1, AtWork DEF IInv, Common
  <1>3. i \in 1 .. s.len + 1 /\ s.len \in Nat
    BY <1>1, <1>2, SlotsOf DEF JobOK
  <1>4. i \in 1 .. s.len
    BY <1>1, <1>3
  <1>5. c \in Appended /\ UserOf[c] = v /\ Slots(arrays, s)[i] = c /\ s.array > 0
    BY <1>1, <1>2, <1>4, SlotContent, SlotsOf
  <1>6. c \in Conn
    BY <1>5 DEF Appended
  <1> HIDE DEF c
  <1>7. /\ j \in Job /\ j.pc = "writing" /\ j.conn = c /\ j.uids = job[w].uids
        /\ j.todo = job[w].todo /\ j.uid = v /\ j.slice = s /\ j.index = i
        /\ j.got = job[w].got
    BY <1>2, <1>6 DEF Job, Statement
  <1> HIDE DEF j
  <1>8. job'[w] = j /\ \A x \in Worker \ {w} : job'[x] = job[x]
    BY <1>1, <1>2, JobStep
  <1>9. JobOK(w)'
    <2>1. Appended' = Appended
      BY <1>1, <1>7, <1>8, SameAppended DEF Registering
    <2>2. RefOK(j.uid, j.slice, arrays', Appended')
      BY <1>1, <1>2, <1>7, <2>1 DEF registry
    <2> HIDE DEF s, i
    <2> QED
      BY <1>1, <1>2, <1>4, <1>5, <1>7, <1>8, <2>1, <2>2 DEF JobOK, Registering
  <1>10. ASSUME JobInv(w, v, arrays, state, failures, connections[v])
         PROVE  JobInv(w, v, arrays, state, failures, connections[v])'
    <2>1. connections' = connections /\ arrays' = arrays /\ state' = state /\ failures' = failures
      BY <1>1 DEF registry
    <2> QED
      BY <1>1, <1>5, <1>7, <1>8, <1>10, <2>1 DEF JobInv, Registering
  <1> QED
    BY <1>1, <1>7, <1>9, <1>10, WorkStep

\* SendAll has served a user.
LEMMA UserDoneKeeps ==
    ASSUME IInv, NEW w \in Worker, UserDone(w), NEW v \in User, v = job[w].uid
    PROVE  IInv'
  <1> DEFINE j == [job[w] EXCEPT !.conn = NoConn, !.slice = Nil, !.index = 0, !.pc = "user"]
             k == IF job[w].todo = {} THEN NoJob ELSE j
  <1>1. /\ job[w].pc = "next"
        /\ UNCHANGED <<registry, state, sends, failures, disturbed>>
        /\ job' = [job EXCEPT ![w] = k]
    BY DEF UserDone, At, End
  <1>2. /\ job[w] \in Job /\ job[w] # NoJob /\ JobOK(w) /\ Common /\ TypeOK
    BY <1>1, AtWork DEF IInv, Common
  <1>3. /\ j \in Job /\ j.pc = "user" /\ j.uids = job[w].uids
        /\ j.todo = job[w].todo /\ j.uid = v /\ j.slice = Nil
        /\ j.got = job[w].got
    BY <1>2, Zero DEF Job, Statement
  <1>4. k \in Job \cup {NoJob} /\ k \in {j, NoJob} /\ NoJob.pc = "idle"
    BY <1>3 DEF NoJob
  <1> HIDE DEF j, k
  <1>5. job'[w] = k /\ \A x \in Worker \ {w} : job'[x] = job[x]
    BY <1>1, <1>2, <1>4, JobStep
  <1>6. JobOK(w)'
    <2>1. Appended' \subseteq Conn
      BY DEF Appended
    <2>2. RefOK(v, Nil, arrays', Appended')
      BY <2>1, NoSlots
    <2> QED
      BY <1>2, <1>3, <1>4, <1>5, <2>2 DEF JobOK, Registering
  <1>7. JobInv(w, v, arrays, state, failures, connections[v]) =>
          Listed(Slots(arrays, connections[v]), state, failures, v, {}, NoConn)
    BY <1>1 DEF JobInv
  <1>8. k.pc \in {"idle", "user"} /\ (k # NoJob => k.uid = v /\ k.slice = Nil)
    BY <1>3, <1>4
  <1> QED
    BY <1>1, <1>4, <1>6, <1>7, <1>8, WorkStep

\* A panic ends the goroutine.
LEMMA PanicKeeps ==
    ASSUME IInv, NEW w \in Worker, Panic(w), NEW v \in User, v = job[w].uid
    PROVE  IInv'
  <1>1. /\ job[w].pc \in {"next", "writing"}
        /\ UNCHANGED <<registry, state, sends, failures, disturbed>>
        /\ job' = [job EXCEPT ![w] = NoJob]
    BY DEF Panic, At, End
  <1>2. NoJob.pc = "idle" /\ NoJob \in Job \cup {NoJob}
    BY DEF NoJob
  <1>3. JobOK(w)'
    BY <1>1, <1>2, JobStep DEF IInv, Common, JobOK
  <1>4. JobInv(w, v, arrays, state, failures, connections[v]) =>
          Listed(Slots(arrays, connections[v]), state, failures, v, {}, NoConn)
    BY <1>1 DEF JobInv
  <1> QED
    BY <1>1, <1>2, <1>3, <1>4, WorkStep

\* A write has worked.
LEMMA WrittenKeeps ==
    ASSUME IInv, NEW w \in Worker, NEW v \in User, v = job[w].uid, Written(w) \/ WrittenInVain(w)
    PROVE  IInv'
  <1> DEFINE c == job[w].conn
             i == job[w].index
             l == Slots(arrays, job[w].slice)
             got == IF state[c] = "open" THEN job[w].got \cup {c} ELSE job[w].got
             j == [job[w] EXCEPT !.got = got, !.pc = "update"]
  <1>1. job[w].pc = "writing" /\ UNCHANGED <<registry, state, sends, failures, disturbed>>
    BY DEF Written, WrittenInVain, At
  <1>2. /\ job[w] \in Job /\ job[w] # NoJob /\ JobOK(w) /\ Common /\ TypeOK
        /\ RefOK(v, job[w].slice, arrays, Appended)
    BY <1>1, AtWork DEF IInv, Common
  <1>3. /\ c \in Conn /\ UserOf[c] = v /\ i \in 1 .. job[w].slice.len /\ job[w].slice.array > 0
        /\ v \in job[w].uids
    BY <1>1, <1>2 DEF JobOK, Appended
  <1>4. job' = [job EXCEPT ![w] = j]
    <2>1. CASE state[c] = "open"
      <3>1. Written(w)
        BY <2>1 DEF WrittenInVain
      <3> QED
        BY <2>1, <3>1 DEF Written
    <2>2. CASE state[c] # "open"
      <3>1. WrittenInVain(w)
        BY <2>2 DEF Written
      <3>2. j = [job[w] EXCEPT !.pc = "update"]
        BY <1>2, <2>2 DEF Job
      <3> QED
        BY <3>1, <3>2 DEF WrittenInVain, Goto
    <2> QED
      BY <2>1, <2>2
  <1>5. /\ got \in SUBSET Conn /\ (state[c] = "open" => c \in got) /\ job[w].got \subseteq got
        /\ \A d \in got : UserOf[d] \in job[w].uids
    BY <1>2, <1>3 DEF Job, JobOK
  <1> HIDE DEF got
  <1>6. /\ j \in Job /\ j.pc = "update" /\ j.conn = c /\ j.uids = job[w].uids
        /\ j.todo = job[w].todo /\ j.uid = v /\ j.slice = job[w].slice /\ j.index = i
        /\ j.got = got
    BY <1>2, <1>5 DEF Job, Statement
  <1> HIDE DEF j
  <1>7. job'[w] = j /\ \A x \in Worker \ {w} : job'[x] = job[x]
    BY <1>1, <1>2, <1>4, JobStep
  <1>8. JobOK(w)'
    <2>1. Appended' = Appended
      BY <1>1, <1>6, <1>7, SameAppended DEF Registering
    <2>2. RefOK(j.uid, j.slice, arrays', Appended')
      BY <1>1, <1>2, <1>6, <2>1 DEF registry
    <2>3. i \in 0 .. job[w].slice.len
      BY <1>3
    <2> HIDE DEF c, i
    <2> QED
      BY <1>1, <1>2, <1>3, <1>5, <1>6, <1>7, <2>1, <2>2, <2>3 DEF JobOK, Registering
  <1>9. ASSUME JobInv(w, v, arrays, state, failures, connections[v])
        PROVE  JobInv(w, v, arrays, state, failures, connections[v])'
    <2>1. connections' = connections /\ arrays' = arrays /\ state' = state /\ failures' = failures
      BY <1>1 DEF registry
    <2>2. Listed(l, state, failures, v, {}, NoConn) /\ HeardTo(l, state, job[w].got, i - 1) /\ l[i] = c
      BY <1>1, <1>9 DEF JobInv
    <2>3. HeardTo(l, state, got, i)
      <3>1. DOMAIN l = 1 .. job[w].slice.len /\ job[w].slice.len \in Nat
        BY <1>2, SlotsOf
      <3> HIDE DEF l
      <3>2. ASSUME NEW k \in DOMAIN l, k <= i, state[l[k]] = "open"
            PROVE  l[k] \in got
        <4>1. CASE k = i
          BY <1>5, <2>2, <3>2, <4>1
        <4>2. CASE k # i
          <5>1. k <= i - 1
            BY <1>3, <3>1, <3>2, <4>2
          <5> QED
            BY <1>5, <2>2, <3>2, <5>1 DEF HeardTo
        <4> QED
          BY <4>1, <4>2
      <3> QED
        BY <3>2 DEF HeardTo
    <2> QED
      BY <1>6, <1>7, <2>1, <2>2, <2>3 DEF JobInv, Registering
  <1> QED
    BY <1>1, <1>4, <1>6, <1>8, <1>9, WorkStep

\* A write has failed: for the first time, or, of a closed connection, for the
\* second; an open one only fails two goroutines that meet at it.
LEMMA WriteFailsKeeps ==
    ASSUME IInv, NEW w \in Worker, WriteFails(w), NEW v \in User, v = job[w].uid,
           NEW c, c = job[w].conn
    PROVE  IInv'
  <1> DEFINE i == job[w].index
             l == Slots(arrays, job[w].slice)
             j == [job[w] EXCEPT !.pc = "close"]
  <1>1. /\ job[w].pc = "writing" /\ UNCHANGED <<connections, arrays, state, sends, disturbed>>
        /\ state[c] = "open" => ~Alone(w)
        /\ failures' = [failures EXCEPT ![c] = @ + 1]
        /\ job' = [job EXCEPT ![w] = j]
    BY DEF WriteFails, At, Goto, registry
  <1>2. /\ job[w] \in Job /\ job[w] # NoJob /\ JobOK(w) /\ UserInv(v) /\ Common /\ TypeOK
        /\ RefOK(v, job[w].slice, arrays, Appended) /\ RefOK(v, connections[v], arrays, Appended)
        /\ Holds(v, job[w].slice.array) /\ Holds(v, connections[v].array)
    BY <1>1, AtWork DEF IInv, Common
  <1>3. /\ c \in Appended /\ c \in Conn /\ UserOf[c] = v /\ i \in 1 .. job[w].slice.len
        /\ c # NoConn
    BY <1>1, <1>2, WebsocketAssumption DEF JobOK, Appended
  <1>4. /\ j \in Job /\ j.pc = "close" /\ j.conn = c /\ j.uids = job[w].uids
        /\ j.todo = job[w].todo /\ j.uid = v /\ j.slice = job[w].slice /\ j.index = i
        /\ j.got = job[w].got
    BY <1>2 DEF Job, Statement
  <1> HIDE DEF j
  <1>5. job'[w] = j /\ \A x \in Worker \ {w} : job'[x] = job[x]
    BY <1>1, <1>2, JobStep
  <1>6. failures[c] \in Nat /\ \A d \in Conn : failures'[d] = IF d = c THEN failures[d] + 1 ELSE failures[d]
    BY <1>1, <1>2, <1>3 DEF TypeOK
  <1>7. TypeOK'
    <2>1. job' \in [Worker -> Job \cup {NoJob}]
      BY <1>1, <1>2, <1>4, JobStep
    <2>2. failures' \in [Conn -> Nat]
      <3>1. failures[c] + 1 \in Nat
        BY <1>6
      <3> QED
        BY <1>1, <1>2, <3>1 DEF TypeOK
    <2> QED
      BY <1>1, <1>2, <2>1, <2>2 DEF TypeOK
  <1>8. /\ Uses(w, v) /\ Uses(w, v)' /\ ~Registering(w)'
        /\ \A u \in User \ {v} : ~Uses(w, u) /\ ~Uses(w, u)'
    BY <1>1, <1>4, <1>5 DEF Uses, Registering
  <1>9. Appended' = Appended
    BY <1>1, <1>5, <1>8, SameAppended DEF Registering
  <1>10. Local(w, v)
    BY <1>1, <1>2, <1>3, <1>4, <1>5, <1>6, <1>8 DEF Local
  <1>11. RefOK(v, connections'[v], arrays', Appended')
    BY <1>1, <1>2, <1>9
  <1>12. JobOK(w)'
    <2> HIDE DEF i
    <2> QED
      BY <1>1, <1>2, <1>3, <1>4, <1>5, <1>9 DEF JobOK, Registering
  <1>13. ASSUME v \notin disturbed'
         PROVE  /\ \A x \in Worker \ {w} : ~Uses(x, v)
                /\ JobInv(w, v, arrays, state, failures, connections[v])'
    <2>1. /\ \A x \in Worker \ {w} : ~Uses(x, v)
          /\ JobInv(w, v, arrays, state, failures, connections[v])
      BY <1>1, <1>2, <1>8, <1>13, OnlyUser
    <2>2. state[c] # "open"
      <3>1. ASSUME NEW x \in Worker \ {w}, At(x, "writing"), job[x].conn = c
            PROVE  FALSE
        <4>1. JobOK(x) /\ job[x] # NoJob
          BY <1>2, <3>1 DEF Common, At, NoJob
        <4>2. job[x].uid = v
          BY <1>3, <3>1, <4>1 DEF JobOK, At
        <4> QED
          BY <2>1, <3>1, <4>2 DEF Uses, At
      <3> QED
        BY <1>1, <3>1 DEF Alone
    <2>3. /\ Listed(l, state, failures, v, {}, NoConn) /\ l[i] = c
          /\ HeardTo(l, state, job[w].got, i - 1) /\ job[w].slice = connections[v]
      BY <1>1, <2>1 DEF JobInv
    <2>4. DOMAIN l = 1 .. job[w].slice.len
      BY <1>2, SlotsOf
    <2> HIDE DEF l
    <2>5. failures[c] = 0 \/ (failures[c] = 1 /\ state[c] = "closed")
      BY <1>3, <2>3, <2>4 DEF Listed
    <2>6. failures'[c] = 1 \/ (failures'[c] = 2 /\ state[c] = "closed")
      BY <1>3, <1>6, <2>5
    <2>7. Listed(l, state, failures', v, {}, c)
      <3>1. \A k \in DOMAIN l : l[k] \in Conn /\ l[k] # NoConn
        BY <2>3, WebsocketAssumption DEF Listed
      <3>2. \A k \in DOMAIN l : l[k] # c => failures'[l[k]] = failures[l[k]]
        BY <1>6, <3>1
      <3> QED
        BY <2>3, <3>1, <3>2 DEF Listed
    <2> QED
      BY <1>1, <1>4, <1>5, <2>1, <2>2, <2>3, <2>6, <2>7 DEF JobInv, Registering, l
  <1>14. UserInv(v)'
    BY <1>1, <1>5, <1>8, <1>13, UserStep
  <1>15. arrays'[0] = <<>>
    BY <1>1, <1>2 DEF Common
  <1> QED
    BY <1>7, <1>10, <1>11, <1>12, <1>14, <1>15, StepKeeps

\* The connection is closed.
LEMMA CloseKeeps ==
    ASSUME IInv, NEW w \in Worker, Close(w), NEW v \in User, v = job[w].uid,
           NEW c, c = job[w].conn
    PROVE  IInv'
  <1> DEFINE i == job[w].index
             l == Slots(arrays, job[w].slice)
             j == [job[w] EXCEPT !.pc = "update"]
  <1>1. /\ job[w].pc = "close" /\ UNCHANGED <<connections, arrays, sends, failures, disturbed>>
        /\ state[c] # "closed" /\ state' = [state EXCEPT ![c] = "closed"]
        /\ job' = [job EXCEPT ![w] = j]
    BY DEF Close, At, Goto, registry
  <1>2. /\ job[w] \in Job /\ job[w] # NoJob /\ JobOK(w) /\ UserInv(v) /\ Common /\ TypeOK
        /\ RefOK(v, job[w].slice, arrays, Appended) /\ RefOK(v, connections[v], arrays, Appended)
        /\ Holds(v, job[w].slice.array) /\ Holds(v, connections[v].array)
    BY <1>1, AtWork DEF IInv, Common
  <1>3. /\ c \in Appended /\ c \in Conn /\ UserOf[c] = v /\ i \in 1 .. job[w].slice.len
        /\ c # NoConn /\ state[c] # "new"
    BY <1>1, <1>2, WebsocketAssumption DEF JobOK, Appended
  <1>4. /\ j \in Job /\ j.pc = "update" /\ j.conn = c /\ j.uids = job[w].uids
        /\ j.todo = job[w].todo /\ j.uid = v /\ j.slice = job[w].slice /\ j.index = i
        /\ j.got = job[w].got
    BY <1>2 DEF Job, Statement
  <1> HIDE DEF j
  <1>5. job'[w] = j /\ \A x \in Worker \ {w} : job'[x] = job[x]
    BY <1>1, <1>2, JobStep
  <1>6. \A d \in Conn : state'[d] = IF d = c THEN "closed" ELSE state[d]
    BY <1>1, <1>2 DEF TypeOK
  <1>7. TypeOK'
    <2>1. job' \in [Worker -> Job \cup {NoJob}]
      BY <1>1, <1>2, <1>4, JobStep
    <2> QED
      BY <1>1, <1>2, <2>1 DEF TypeOK
  <1>8. /\ Uses(w, v) /\ Uses(w, v)' /\ ~Registering(w)'
        /\ \A u \in User \ {v} : ~Uses(w, u) /\ ~Uses(w, u)'
    BY <1>1, <1>4, <1>5 DEF Uses, Registering
  <1>9. Appended' = Appended
    BY <1>1, <1>3, <1>5, <1>6, <1>8, SameAppended DEF Registering
  <1>10. Local(w, v)
    BY <1>1, <1>2, <1>3, <1>4, <1>5, <1>6, <1>8 DEF Local
  <1>11. RefOK(v, connections'[v], arrays', Appended')
    BY <1>1, <1>2, <1>9
  <1>12. JobOK(w)'
    <2>1. i \in 0 .. job[w].slice.len
      BY <1>3
    <2> HIDE DEF i
    <2> QED
      BY <1>1, <1>2, <1>3, <1>4, <1>5, <1>9, <2>1 DEF JobOK, Registering
  <1>13. ASSUME v \notin disturbed'
         PROVE  /\ \A x \in Worker \ {w} : ~Uses(x, v)
                /\ JobInv(w, v, arrays, state, failures, connections[v])'
    <2>1. /\ \A x \in Worker \ {w} : ~Uses(x, v)
          /\ JobInv(w, v, arrays, state, failures, connections[v])
      BY <1>1, <1>2, <1>8, <1>13, OnlyUser
    <2>2. /\ Listed(l, state, failures, v, {}, c) /\ l[i] = c /\ failures[c] = 1
          /\ HeardTo(l, state, job[w].got, i - 1)
      BY <1>1, <2>1 DEF JobInv
    <2>3. DOMAIN l = 1 .. job[w].slice.len /\ job[w].slice.len \in Nat
      BY <1>2, SlotsOf
    <2> HIDE DEF l
    <2>4. Listed(l, state', failures, v, {}, NoConn)
      BY <1>6, <2>2 DEF Listed
    <2>5. HeardTo(l, state', job[w].got, i)
      <3>1. ASSUME NEW k \in DOMAIN l, k <= i, state'[l[k]] = "open"
            PROVE  l[k] \in job[w].got
        <4>1. l[k] \in Conn
          BY <2>2 DEF Listed
        <4>2. k # i /\ state[l[k]] = "open"
          BY <1>6, <2>2, <3>1, <4>1
        <4>3. k <= i - 1
          BY <1>3, <2>3, <3>1, <4>2
        <4> QED
          BY <2>2, <4>2, <4>3 DEF HeardTo
      <3> QED
        BY <3>1 DEF HeardTo
    <2> QED
      BY <1>1, <1>4, <1>5, <2>1, <2>4, <2>5 DEF JobInv, Registering, l
  <1>14. UserInv(v)'
    BY <1>1, <1>5, <1>8, <1>13, UserStep
  <1>15. arrays'[0] = <<>>
    BY <1>1, <1>2 DEF Common
  <1> QED
    BY <1>7, <1>10, <1>11, <1>12, <1>14, <1>15, StepKeeps

\* The slice the goroutine holds becomes the user's.
LEMMA UpdateKeeps ==
    ASSUME IInv, NEW w \in Worker, Update(w), NEW v \in User, v = job[w].uid,
           NEW s, s = job[w].slice
    PROVE  IInv'
  <1> DEFINE i == job[w].index
             l == Slots(arrays, s)
             j == [job[w] EXCEPT !.index = i + 1, !.pc = "next"]
  <1>1. /\ job[w].pc = "update" /\ UNCHANGED <<arrays, state, sends, failures, disturbed>>
        /\ connections' = [connections EXCEPT ![v] = s]
        /\ job' = [job EXCEPT ![w] = j]
    BY DEF Update, At
  <1>2. /\ job[w] \in Job /\ job[w] # NoJob /\ JobOK(w) /\ UserInv(v) /\ Common /\ TypeOK
        /\ RefOK(v, s, arrays, Appended) /\ Holds(v, s.array)
    BY <1>1, AtWork DEF IInv, Common
  <1>3. /\ i \in 0 .. s.len /\ s \in Slice /\ s.array > 0 /\ s.len \in Nat
        /\ v \in job[w].uids
    BY <1>1, <1>2, SlotsOf DEF JobOK, RefOK
  <1>4. i + 1 \in 0 .. Cardinality(Conn) + 1 /\ i + 1 \in 1 .. s.len + 1 /\ i + 1 - 1 = i
    BY <1>3, Zero DEF Slice
  <1>5. /\ j \in Job /\ j.pc = "next" /\ j.conn = job[w].conn /\ j.uids = job[w].uids
        /\ j.todo = job[w].todo /\ j.uid = v /\ j.slice = s /\ j.index = i + 1
        /\ j.got = job[w].got
    BY <1>2, <1>4 DEF Job, Statement
  <1> HIDE DEF j
  <1>6. job'[w] = j /\ \A x \in Worker \ {w} : job'[x] = job[x]
    BY <1>1, <1>2, JobStep
  <1>7. TypeOK'
    <2>1. job' \in [Worker -> Job \cup {NoJob}]
      BY <1>1, <1>2, <1>5, JobStep
    <2>2. connections' \in [User -> Slice]
      BY <1>1, <1>2, <1>3 DEF TypeOK
    <2> QED
      BY <1>1, <1>2, <2>1, <2>2 DEF TypeOK
  <1>8. /\ Uses(w, v) /\ Uses(w, v)' /\ ~Registering(w)'
        /\ \A u \in User \ {v} : ~Uses(w, u) /\ ~Uses(w, u)'
    BY <1>1, <1>5, <1>6 DEF Uses, Registering
  <1>9. Appended' = Appended
    BY <1>1, <1>6, <1>8, SameAppended DEF Registering
  <1>10. connections'[v] = s /\ \A u \in User \ {v} : connections'[u] = connections[u]
    BY <1>1, <1>2 DEF TypeOK
  <1>11. Local(w, v)
    <2>1. \A u \in User : connections[u].array # -1 => connections'[u].array # -1
      BY <1>3, <1>10
    <2> QED
      BY <1>1, <1>2, <1>5, <1>6, <1>8, <1>10, <2>1 DEF Local
  <1>12. RefOK(v, connections'[v], arrays', Appended')
    BY <1>1, <1>2, <1>9, <1>10
  <1>13. JobOK(w)'
    <2> HIDE DEF i
    <2> QED
      BY <1>1, <1>2, <1>3, <1>4, <1>5, <1>6, <1>9 DEF JobOK, Registering
  <1>14. ASSUME v \notin disturbed'
         PROVE  /\ \A x \in Worker \ {w} : ~Uses(x, v)
                /\ JobInv(w, v, arrays, state, failures, connections[v])'
    <2>1. /\ \A x \in Worker \ {w} : ~Uses(x, v)
          /\ JobInv(w, v, arrays, state, failures, connections[v])
      BY <1>1, <1>2, <1>8, <1>14, OnlyUser
    <2>2. Listed(l, state, failures, v, {}, NoConn) /\ HeardTo(l, state, job[w].got, i)
      BY <1>1, <2>1 DEF JobInv
    <2>3. /\ job'[w].pc = "next" /\ job'[w].slice = s /\ job'[w].got = job[w].got
          /\ job'[w].index - 1 = i /\ Slots(arrays', s) = l
      <3>1. arrays' = arrays
        BY <1>1
      <3>2. i \in Int
        BY <1>3
      <3> HIDE DEF i
      <3>4. job'[w].index = i + 1
        BY <1>5, <1>6
      <3>5. job'[w].index - 1 = i
        BY <3>2, <3>4
      <3>6. Slots(arrays', s) = l
        BY <3>1
      <3>7. job'[w].pc = "next" /\ job'[w].slice = s /\ job'[w].got = job[w].got
        BY <1>5, <1>6
      <3> HIDE DEF l
      <3> QED
        BY <3>5, <3>6, <3>7
    <2> HIDE DEF l, i
    <2>4. JobInv(w, v, arrays, state, failures, connections[v])'
      BY <1>1, <1>10, <2>2, <2>3 DEF JobInv, Registering
    <2> QED
      BY <2>1, <2>4
  <1>15. UserInv(v)'
    BY <1>1, <1>6, <1>8, <1>14, UserStep
  <1>16. arrays'[0] = <<>>
    BY <1>1, <1>2 DEF Common
  <1> QED
    BY <1>7, <1>11, <1>12, <1>13, <1>15, <1>16, StepKeeps

\* m is the list l, of length n, without the entry at i: the last one takes its
\* place.
Without(m, l, n, i) ==
    /\ n \in Nat /\ i \in 1 .. n
    /\ DOMAIN l = 1 .. n /\ DOMAIN m = 1 .. n - 1
    /\ \A k \in 1 .. n - 1 : m[k] = IF k = i THEN l[n] ELSE l[k]

\* A list goes on without a closed connection.
LEMMA ListedWithout ==
    ASSUME NEW m, NEW l, NEW n, NEW i, Without(m, l, n, i),
           NEW S, NEW F, NEW u, S[l[i]] # "open", Listed(l, S, F, u, {}, l[i])
    PROVE  Listed(m, S, F, u, {}, NoConn)
  <1> DEFINE c == l[i]
  <1>1. /\ n \in Nat /\ i \in 1 .. n /\ DOMAIN l = 1 .. n /\ DOMAIN m = 1 .. n - 1 /\ n \in 1 .. n
        /\ \A k \in 1 .. n - 1 : m[k] = IF k = i THEN l[n] ELSE l[k]
    BY DEF Without
  <1>2. ASSUME NEW k \in 1 .. n - 1
        PROVE  \E h \in 1 .. n : h # i /\ m[k] = l[h] /\ (k = i => h = n) /\ (k # i => h = k)
    <2>1. CASE k = i
      BY <1>1, <1>2, <2>1
    <2>2. CASE k # i
      BY <1>1, <1>2, <2>2
    <2> QED
      BY <2>1, <2>2
  <1>3. \A k \in DOMAIN m : m[k] \in Conn /\ UserOf[m[k]] = u
    BY <1>1, <1>2 DEF Listed
  <1>4. ASSUME NEW j \in 1 .. n - 1, NEW k \in 1 .. n - 1, m[j] = m[k]
        PROVE  j = k
    <2>1. PICK g \in 1 .. n : m[j] = l[g] /\ (j = i => g = n) /\ (j # i => g = j)
      BY <1>2
    <2>2. PICK h \in 1 .. n : m[k] = l[h] /\ (k = i => h = n) /\ (k # i => h = k)
      BY <1>2
    <2>3. \A a, b \in 1 .. n : l[a] = l[b] => a = b
      BY <1>1 DEF Listed
    <2>4. g = h
      BY <1>4, <2>1, <2>2, <2>3
    <2> QED
      BY <1>1, <2>1, <2>2, <2>4
  <1>5. ASSUME NEW d \in Conn, UserOf[d] = u, S[d] = "open"
        PROVE  \E k \in 1 .. n - 1 : m[k] = d
    <2>1. PICK h \in 1 .. n : l[h] = d
      BY <1>1, <1>5 DEF Listed
    <2>2. h # i
      BY <1>5, <2>1
    <2>3. CASE h = n
      <3>1. i \in 1 .. n - 1
        BY <1>1, <2>2, <2>3
      <3> QED
        BY <1>1, <2>1, <2>3, <3>1
    <2>4. CASE h # n
      <3>1. h \in 1 .. n - 1
        BY <1>1, <2>1, <2>4
      <3> QED
        BY <1>1, <2>1, <2>2, <3>1
    <2> QED
      BY <2>3, <2>4
  <1>6. ASSUME NEW k \in 1 .. n - 1
        PROVE  F[m[k]] = 0 \/ (F[m[k]] = 1 /\ S[m[k]] = "closed")
    <2>1. PICK h \in 1 .. n : h # i /\ m[k] = l[h]
      BY <1>2
    <2>2. l[h] # c
      BY <1>1, <2>1 DEF Listed
    <2> QED
      BY <1>1, <2>1, <2>2 DEF Listed
  <1> QED
    BY <1>1, <1>3, <1>4, <1>5, <1>6 DEF Listed

\* A connection that failed again leaves the slice.
LEMMA DropKeeps ==
    ASSUME IInv, NEW w \in Worker, Drop(w), NEW v \in User, v = job[w].uid,
           NEW c, c = job[w].conn, NEW s, s = job[w].slice, NEW i, i = job[w].index
    PROVE  IInv'
  <1> DEFINE A == arrays[s.array]
             last == A[s.len]
             B == [[A EXCEPT ![i] = last] EXCEPT ![s.len] = NoConn]
             t == [s EXCEPT !.len = s.len - 1]
             j == [job[w] EXCEPT !.slice = t, !.index = i - 1, !.pc = "update"]
  <1>1. /\ job[w].pc = "close" /\ state[c] = "closed"
        /\ UNCHANGED <<connections, state, sends, failures, disturbed>>
        /\ arrays' = [arrays EXCEPT ![s.array] = B]
    BY DEF Drop, At
  <1>2. /\ job[w] \in Job /\ job[w] # NoJob /\ JobOK(w) /\ UserInv(v) /\ Common /\ TypeOK
        /\ RefOK(v, s, arrays, Appended) /\ RefOK(v, connections[v], arrays, Appended)
        /\ Holds(v, s.array) /\ Holds(v, connections[v].array)
    BY <1>1, AtWork DEF IInv, Common
  <1>3. /\ c \in Conn /\ UserOf[c] = v /\ i \in 1 .. s.len /\ s.array > 0 /\ s \in Slice
        /\ v \in job[w].uids /\ s.len <= Len(A) /\ ArrayOK(v, A, Appended) /\ s.len \in Nat
    BY <1>1, <1>2, SlotsOf DEF JobOK, Appended, RefOK
  <1>4. /\ s.array \in ArrayId /\ A \in Seq(Entry) /\ Len(A) <= Size /\ Len(A) \in Nat
        /\ DOMAIN A = 1 .. Len(A)
    <2>1. s.array \in ArrayId
      BY <1>3, WebsocketAssumption DEF Slice, ArrayId
    <2>2. Size \in Nat
      BY Zero DEF Size
    <2> QED
      BY <1>2, <2>1, <2>2, ArraySeq
  <1>5. i \in 1 .. Len(A) /\ s.len \in 1 .. Len(A) /\ s.len - 1 \in Nat /\ i - 1 \in 0 .. s.len - 1
    BY <1>3, <1>4
  <1>6. job' = [job EXCEPT ![w] = j]
    <2>1. job' = [job EXCEPT ![w].slice.len = s.len - 1, ![w].index = i - 1, ![w].pc = "update"]
      BY DEF Drop
    <2> QED
      BY <1>2, <2>1 DEF Job, Slice
  <1>7. t \in Slice /\ t.array = s.array /\ t.len = s.len - 1
    <2>1. s.len - 1 \in 0 .. Cardinality(Conn)
      BY <1>3, <1>5, Zero DEF Slice
    <2> QED
      BY <1>3, <2>1 DEF Slice
  <1>8. /\ B \in Seq(Entry) /\ Len(B) = Len(A) /\ DOMAIN B = 1 .. Len(A)
        /\ \A k \in 1 .. Len(A) : B[k] = IF k = s.len THEN NoConn ELSE IF k = i THEN last ELSE A[k]
    <2>1. last \in Entry /\ NoConn \in Entry
      BY <1>4, <1>5 DEF Entry
    <2> HIDE DEF last, A
    <2> QED
      BY <1>4, <1>5, <2>1
  <1> HIDE DEF A, B, t, last
  <1>9. /\ j \in Job /\ j.pc = "update" /\ j.conn = c /\ j.uids = job[w].uids
        /\ j.todo = job[w].todo /\ j.uid = v /\ j.slice = t /\ j.index = i - 1
        /\ j.got = job[w].got
    <2>1. i - 1 \in 0 .. Cardinality(Conn) + 1
      BY <1>3, <1>5, Zero DEF Slice
    <2> QED
      BY <1>2, <1>7, <2>1 DEF Job, Statement
  <1> HIDE DEF j
  <1>10. job'[w] = j /\ \A x \in Worker \ {w} : job'[x] = job[x]
    BY <1>2, <1>6, JobStep
  <1>11. arrays'[s.array] = B /\ \A a \in ArrayId \ {s.array} : arrays'[a] = arrays[a]
    BY <1>1, <1>4, <1>2 DEF TypeOK
  <1>12. TypeOK'
    <2>1. job' \in [Worker -> Job \cup {NoJob}]
      BY <1>2, <1>6, <1>9, JobStep
    <2>2. \E n \in 0 .. Size : B \in [1 .. n -> Conn \cup {NoConn}]
      BY <1>4, <1>8, SeqArray
    <2>3. \A a \in ArrayId : \E n \in 0 .. Size : arrays'[a] \in [1 .. n -> Conn \cup {NoConn}]
      BY <1>2, <1>11, <2>2 DEF TypeOK
    <2>4. DOMAIN arrays' = ArrayId
      BY <1>1, <1>2 DEF TypeOK
    <2> QED
      BY <1>1, <1>2, <2>1, <2>3, <2>4 DEF TypeOK
  <1>13. /\ Uses(w, v) /\ Uses(w, v)' /\ ~Registering(w)'
         /\ \A u \in User \ {v} : ~Uses(w, u) /\ ~Uses(w, u)'
    BY <1>1, <1>9, <1>10 DEF Uses, Registering
  <1>14. Appended' = Appended
    BY <1>1, <1>10, <1>13, SameAppended DEF Registering
  <1>15. ArrayOK(v, B, Appended)
    <2>1. B # <<>>
      BY <1>5, <1>8
    <2>2. \A k \in 1 .. Len(A) : A[k] = NoConn \/ (A[k] \in Appended /\ UserOf[A[k]] = v)
      BY <1>3, <1>4 DEF ArrayOK
    <2>3. last = NoConn \/ (last \in Appended /\ UserOf[last] = v)
      BY <1>5, <2>2 DEF last
    <2> QED
      BY <1>8, <2>1, <2>2, <2>3 DEF ArrayOK
  <1>16. Local(w, v)
    <2>1. Len(arrays'[s.array]) = Len(arrays[s.array])
      BY <1>8, <1>11 DEF A
    <2>2. \A a \in ArrayId :
            \/ arrays'[a] = arrays[a]
            \/ /\ a > 0 /\ Holds(v, a) /\ Len(arrays'[a]) = Len(arrays[a])
               /\ ArrayOK(v, arrays'[a], Appended')
      BY <1>2, <1>3, <1>11, <1>14, <1>15, <2>1
    <2> QED
      BY <1>1, <1>2, <1>7, <1>9, <1>10, <1>13, <2>2 DEF Local
  <1>17. RefOK(v, connections'[v], arrays', Appended')
    BY <1>1, <1>2, <1>16, RefStays
  <1>18. JobOK(w)'
    <2>1. t.len <= Cardinality(Appended) /\ t.len <= Len(B)
      <3>1. Cardinality(Appended) \in Nat
        BY Sizes DEF Appended
      <3> QED
        BY <1>2, <1>3, <1>4, <1>7, <1>8, <3>1 DEF RefOK
    <2>2. RefOK(v, t, arrays', Appended')
      BY <1>3, <1>7, <1>11, <1>14, <1>15, <2>1 DEF RefOK
    <2> QED
      BY <1>2, <1>3, <1>5, <1>7, <1>9, <1>10, <2>2 DEF JobOK, Registering
  <1>19. ASSUME v \notin disturbed'
         PROVE  /\ \A x \in Worker \ {w} : ~Uses(x, v)
                /\ JobInv(w, v, arrays, state, failures, connections[v])'
    <2> DEFINE l == Slots(arrays, s)
               m == Slots(arrays', t)
    <2>1. /\ \A x \in Worker \ {w} : ~Uses(x, v)
          /\ JobInv(w, v, arrays, state, failures, connections[v])
      BY <1>1, <1>2, <1>13, <1>19, OnlyUser
    <2>2. /\ Listed(l, state, failures, v, {}, c) /\ HeardTo(l, state, job[w].got, i - 1)
          /\ l[i] = c
      BY <1>1, <2>1 DEF JobInv
    <2>3. /\ DOMAIN l = 1 .. s.len /\ \A k \in 1 .. s.len : l[k] = A[k]
      BY <1>2, SlotsOf DEF A
    <2>4. DOMAIN m = 1 .. s.len - 1 /\ \A k \in 1 .. s.len - 1 : m[k] = B[k]
      BY <1>7, <1>11 DEF Slots
    <2> HIDE DEF l, m
    <2>5. \A k \in 1 .. s.len - 1 : m[k] = IF k = i THEN l[s.len] ELSE l[k]
      <3>1. \A k \in 1 .. s.len - 1 : k \in 1 .. s.len /\ k \in 1 .. Len(A) /\ k # s.len
        BY <1>3, <1>5
      <3>2. last = l[s.len]
        BY <1>3, <1>5, <2>3 DEF last
      <3> QED
        BY <1>8, <2>3, <2>4, <3>1, <3>2
    <2>6. Listed(m, state, failures, v, {}, NoConn)
      <3>1. state[l[i]] # "open" /\ Listed(l, state, failures, v, {}, l[i])
        BY <1>1, <2>2
      <3>2. Without(m, l, s.len, i)
        BY <1>3, <2>3, <2>4, <2>5 DEF Without
      <3> QED
        BY <3>1, <3>2, ListedWithout
    <2>7. HeardTo(m, state, job[w].got, i - 1)
      <3>1. \A k \in DOMAIN m : k <= i - 1 => k \in DOMAIN l /\ m[k] = l[k]
        BY <1>3, <2>3, <2>4, <2>5
      <3> QED
        BY <2>2, <3>1 DEF HeardTo
    <2>8. state' = state /\ failures' = failures
      BY <1>1
    <2> QED
      BY <1>9, <1>10, <2>1, <2>6, <2>7, <2>8 DEF JobInv, Registering, m
  <1>20. UserInv(v)'
    BY <1>1, <1>10, <1>13, <1>19, UserStep
  <1>21. arrays'[0] = <<>>
    <2>1. 0 \in ArrayId \ {s.array}
      BY <1>3, WebsocketAssumption DEF ArrayId
    <2> QED
      BY <1>2, <1>11, <2>1 DEF Common
  <1> QED
    BY <1>12, <1>16, <1>17, <1>18, <1>20, <1>21, StepKeeps

\* m is the list l, of length n, with c behind it, which was not in it.
With(m, l, n, c) ==
    /\ n \in Nat /\ DOMAIN l = 1 .. n /\ DOMAIN m = 1 .. n + 1
    /\ \A k \in 1 .. n : m[k] = l[k] /\ l[k] # c
    /\ m[n + 1] = c

\* A list takes in a connection that is not in it.
LEMMA ListedWith ==
    ASSUME NEW m, NEW l, NEW n, NEW c, With(m, l, n, c),
           NEW S, NEW F, NEW u, c \in Conn, UserOf[c] = u, F[c] = 0,
           Listed(l, S, F, u, {c}, NoConn)
    PROVE  Listed(m, S, F, u, {}, NoConn)
  <1>1. /\ n \in Nat /\ DOMAIN l = 1 .. n /\ DOMAIN m = 1 .. n + 1 /\ n + 1 \in 1 .. n + 1
        /\ \A k \in 1 .. n : m[k] = l[k] /\ l[k] # c /\ k \in 1 .. n + 1
        /\ m[n + 1] = c
        /\ \A k \in 1 .. n + 1 : k \in 1 .. n \/ k = n + 1
    BY DEF With
  <1>2. \A k \in 1 .. n + 1 : /\ m[k] \in Conn /\ UserOf[m[k]] = u
                              /\ F[m[k]] = 0 \/ (F[m[k]] = 1 /\ S[m[k]] = "closed")
    <2>1. \A k \in 1 .. n : l[k] \in Conn /\ UserOf[l[k]] = u /\ l[k] # NoConn
      BY <1>1, WebsocketAssumption DEF Listed
    <2> QED
      BY <1>1, <2>1 DEF Listed
  <1>3. ASSUME NEW j \in 1 .. n + 1, NEW k \in 1 .. n + 1, m[j] = m[k]
        PROVE  j = k
    <2>1. \A a, b \in 1 .. n : l[a] = l[b] => a = b
      BY <1>1 DEF Listed
    <2>2. \A a \in 1 .. n : l[a] # c
      BY <1>1
    <2> QED
      BY <1>1, <1>3, <2>1, <2>2
  <1>4. ASSUME NEW d \in Conn, UserOf[d] = u, S[d] = "open"
        PROVE  \E k \in 1 .. n + 1 : m[k] = d
    <2>1. CASE d = c
      BY <1>1, <2>1
    <2>2. CASE d # c
      <3>1. PICK k \in 1 .. n : l[k] = d
        BY <1>1, <1>4, <2>2 DEF Listed
      <3> QED
        BY <1>1, <3>1
    <2> QED
      BY <2>1, <2>2
  <1> QED
    BY <1>1, <1>2, <1>3, <1>4 DEF Listed

\* B is the array of slice s, or a copy, with c behind the slots.
Extends(B, s, c) ==
    /\ B \in Seq(Entry) /\ s.len + 1 <= Len(B) /\ Len(B) <= Size
    /\ \A k \in 1 .. s.len : B[k] = arrays[s.array][k]
    /\ B[s.len + 1] = c
    /\ \A k \in 1 .. Len(B) : \/ k = s.len + 1
                              \/ B[k] = NoConn
                              \/ /\ s.array > 0 /\ k \in DOMAIN arrays[s.array]
                                 /\ B[k] = arrays[s.array][k]

\* A connection is appended, in place or in another array.
LEMMA RegisterKeeps ==
    ASSUME IInv, NEW w \in Worker, NEW v \in User, v = job[w].uid, job[w].pc = "append",
           NEW c, c = job[w].conn, NEW s, s = connections[v],
           NEW a \in 1 .. MaxArrays, NEW B, Extends(B, s, c),
           arrays[a] = <<>> \/ (a = s.array /\ Len(B) = Len(arrays[a])),
           arrays' = [arrays EXCEPT ![a] = B],
           job' = [job EXCEPT ![w] = [job[w] EXCEPT !.slice = [array |-> a, len |-> s.len + 1],
                                                    !.pc = "store"]],
           UNCHANGED <<connections, state, sends, failures, disturbed>>
    PROVE  IInv'
  <1> DEFINE t == [array |-> a, len |-> s.len + 1]
             j == [job[w] EXCEPT !.slice = t, !.pc = "store"]
  <1>1. job' = [job EXCEPT ![w] = j]
    OBVIOUS
  <1>2. /\ job[w] \in Job /\ job[w] # NoJob /\ JobOK(w) /\ UserInv(v) /\ Common /\ TypeOK
        /\ RefOK(v, s, arrays, Appended) /\ Holds(v, s.array)
    BY AtWork DEF IInv, Common
  <1>3. /\ c \in Conn /\ UserOf[c] = v /\ state[c] # "new" /\ Registering(w) /\ c \notin Appended
    <2>1. Registering(w)
      BY DEF Registering
    <2> QED
      BY <1>2, <2>1 DEF JobOK, Appended
  <1>4. a \in ArrayId /\ a > 0
    BY DEF ArrayId
  <1>5. s.len \in Nat /\ s \in Slice /\ (s.len > 0 => s.array > 0)
    BY <1>2, SlotsOf DEF RefOK
  <1>6. /\ t.array = a /\ t.len = s.len + 1
        /\ j \in [pc : {"store"}, conn : Conn \cup {NoConn}, uids : SUBSET User, todo : SUBSET User,
                  uid : User, slice : {t}, index : 0 .. Cardinality(Conn) + 1, got : SUBSET Conn]
        /\ j.pc = "store" /\ j.conn = c /\ j.uids = job[w].uids
        /\ j.todo = job[w].todo /\ j.uid = v /\ j.slice = t
        /\ j.got = job[w].got
    BY <1>2 DEF Job
  <1> HIDE DEF t, j
  <1>7. \A x \in Worker \ {w} : job'[x] = job[x]
    BY <1>1, <1>2 DEF TypeOK
  <1>8. job'[w] = j
    BY <1>1, <1>2 DEF TypeOK
  <1>9. ~Registering(w)' /\ Uses(w, v) /\ Uses(w, v)'
    BY <1>6, <1>8 DEF Registering, Uses
  <1>10. Appended \subseteq Appended' /\ Appended' \subseteq Conn /\ c \in Appended'
    <2>1. ASSUME NEW x \in Worker, Registering(x)'
          PROVE  x # w /\ Registering(x) /\ job'[x].conn = job[x].conn /\ job[x].conn # c
      <3>1. x # w
        BY <1>9, <2>1
      <3>2. Registering(x) /\ job'[x] = job[x]
        BY <1>7, <2>1, <3>1 DEF Registering
      <3>3. job[x].conn # c
        BY <1>2, <1>3, <3>1, <3>2 DEF Common
      <3> QED
        BY <3>1, <3>2, <3>3
    <2> QED
      BY <1>3, <2>1 DEF Appended
  <1>11. t.len <= Cardinality(Appended') /\ t.len \in 0 .. Cardinality(Conn)
    <2>1. /\ Cardinality(Appended) + 1 <= Cardinality(Appended')
          /\ Cardinality(Appended') <= Cardinality(Conn)
          /\ Cardinality(Appended) \in Nat /\ Cardinality(Appended') \in Nat
          /\ Cardinality(Conn) \in Nat
      BY <1>3, <1>10, Sizes
    <2>2. s.len <= Cardinality(Appended)
      BY <1>2 DEF RefOK
    <2>3. s.len \in Nat /\ t.len = s.len + 1
      BY <1>5, <1>6
    <2> QED
      BY <2>1, <2>2, <2>3
  <1>12. t \in Slice
    BY <1>4, <1>11 DEF t, Slice
  <1>13. j \in Job
    BY <1>6, <1>12 DEF Job, Statement
  <1>14. arrays'[a] = B /\ \A b \in ArrayId \ {a} : arrays'[b] = arrays[b]
    BY <1>2, <1>4 DEF TypeOK
  <1>15. TypeOK'
    <2>1. job' \in [Worker -> Job \cup {NoJob}]
      BY <1>1, <1>2, <1>13, JobStep
    <2>2. \E n \in 0 .. Size : B \in [1 .. n -> Conn \cup {NoConn}]
      BY SeqArray DEF Extends
    <2>3. \A b \in ArrayId : \E n \in 0 .. Size : arrays'[b] \in [1 .. n -> Conn \cup {NoConn}]
      BY <1>2, <1>14, <2>2 DEF TypeOK
    <2>4. DOMAIN arrays' = ArrayId
      BY <1>2 DEF TypeOK
    <2> QED
      BY <1>2, <2>1, <2>3, <2>4 DEF TypeOK
  <1>16. ArrayOK(v, B, Appended')
    <2>1. B \in Seq(Entry) /\ Len(B) \in Nat /\ DOMAIN B = 1 .. Len(B) /\ 1 <= Len(B)
      BY <1>5 DEF Extends
    <2>2. B # <<>>
      BY <2>1
    <2>3. ASSUME NEW k \in 1 .. Len(B)
          PROVE  B[k] = NoConn \/ (B[k] \in Appended' /\ UserOf[B[k]] = v)
      <3>1. CASE k = s.len + 1
        BY <1>3, <1>10, <3>1 DEF Extends
      <3>2. CASE s.array > 0 /\ k \in DOMAIN arrays[s.array] /\ B[k] = arrays[s.array][k]
        <4>1. ArrayOK(v, arrays[s.array], Appended)
          BY <1>2, <3>2 DEF RefOK
        <4> QED
          BY <1>10, <3>2, <4>1 DEF ArrayOK
      <3> QED
        BY <3>1, <3>2 DEF Extends
    <2> QED
      BY <2>1, <2>2, <2>3 DEF ArrayOK
  <1>17. Local(w, v)
    <2>1. \A b \in ArrayId :
            \/ arrays'[b] = arrays[b]
            \/ b > 0 /\ arrays[b] = <<>>
            \/ /\ b > 0 /\ Holds(v, b) /\ Len(arrays'[b]) = Len(arrays[b])
               /\ ArrayOK(v, arrays'[b], Appended')
      BY <1>2, <1>4, <1>14, <1>16
    <2>2. \A u \in User \ {v} : ~Uses(w, u) /\ ~Uses(w, u)'
      BY <1>6, <1>8 DEF Uses
    <2>3. Holds(v, a) \/ arrays[a] = <<>>
      BY <1>2
    <2>4. connections'[v].array > 0 => Holds(v, connections'[v].array)
      BY <1>2
    <2> QED
      BY <1>6, <1>7, <1>8, <1>9, <2>1, <2>2, <2>3, <2>4 DEF Local
  <1>18. RefOK(v, connections'[v], arrays', Appended')
    BY <1>2, <1>17, RefStays
  <1>19. JobOK(w)'
    <2>1. RefOK(v, t, arrays', Appended')
      BY <1>4, <1>6, <1>11, <1>12, <1>14, <1>16 DEF RefOK, Extends
    <2> QED
      BY <1>2, <1>4, <1>6, <1>8, <2>1 DEF JobOK, Registering
  <1>20. ASSUME v \notin disturbed'
         PROVE  /\ \A x \in Worker \ {w} : ~Uses(x, v)
                /\ JobInv(w, v, arrays, state, failures, connections[v])'
    <2> DEFINE l == Slots(arrays, s)
               m == Slots(arrays', t)
    <2>1. /\ \A x \in Worker \ {w} : ~Uses(x, v)
          /\ JobInv(w, v, arrays, state, failures, connections[v])
      BY <1>2, <1>9, <1>20, OnlyUser
    <2>2. Listed(l, state, failures, v, {c}, NoConn)
      BY <1>3, <2>1 DEF JobInv
    <2>3. /\ DOMAIN l = 1 .. s.len /\ \A k \in 1 .. s.len : l[k] = arrays[s.array][k]
      BY <1>2, SlotsOf
    <2>4. DOMAIN m = 1 .. s.len + 1 /\ \A k \in 1 .. s.len + 1 : m[k] = B[k]
      BY <1>6, <1>14 DEF Slots
    <2>5. \A k \in DOMAIN l : l[k] # c
      <3>1. \A k \in 1 .. s.len : arrays[s.array][k] = NoConn \/ arrays[s.array][k] \in Appended
        BY <1>2, SlotContent
      <3> QED
        BY <1>3, <2>3, <3>1, WebsocketAssumption
    <2> HIDE DEF l, m
    <2>6. With(m, l, s.len, c)
      <3>1. /\ B[s.len + 1] = c /\ \A k \in 1 .. s.len : B[k] = arrays[s.array][k]
        BY DEF Extends
      <3>2. s.len + 1 \in 1 .. s.len + 1 /\ \A k \in 1 .. s.len : k \in 1 .. s.len + 1
        BY <1>5
      <3>3. \A k \in 1 .. s.len : m[k] = l[k] /\ l[k] # c
        BY <2>3, <2>4, <2>5, <3>1, <3>2
      <3>4. m[s.len + 1] = c
        BY <2>4, <3>1, <3>2
      <3> QED
        BY <1>5, <2>3, <2>4, <3>3, <3>4 DEF With
    <2>7. failures[c] = 0
      BY <1>2, <1>3 DEF Common
    <2>8. Listed(m, state, failures, v, {}, NoConn)
      BY <1>3, <2>2, <2>6, <2>7, ListedWith
    <2>9. state' = state /\ failures' = failures
      OBVIOUS
    <2> QED
      BY <1>6, <1>8, <2>1, <2>8, <2>9 DEF JobInv, Registering, m
  <1>21. disturbed \subseteq disturbed'
    OBVIOUS
  <1>22. UserInv(v)'
    BY <1>7, <1>9, <1>20, <1>21, UserStep
  <1>23. arrays'[0] = <<>>
    <2>1. 0 \in ArrayId \ {a}
      BY <1>4, WebsocketAssumption DEF ArrayId
    <2> QED
      BY <1>2, <1>14, <2>1 DEF Common
  <1> QED
    BY <1>15, <1>17, <1>18, <1>19, <1>22, <1>23, StepKeeps

\* The array has room for the connection.
LEMMA AppendInPlaceKeeps ==
    ASSUME IInv, NEW w \in Worker, AppendInPlace(w), NEW v \in User, v = job[w].uid,
           NEW c, c = job[w].conn, NEW s, s = connections[v]
    PROVE  IInv'
  <1> DEFINE A == arrays[s.array]
             B == [A EXCEPT ![s.len + 1] = c]
             t == [array |-> s.array, len |-> s.len + 1]
  <1>1. /\ job[w].pc = "append" /\ s.len < Len(A)
        /\ UNCHANGED <<connections, state, sends, failures, disturbed>>
        /\ arrays' = [arrays EXCEPT ![s.array] = B]
        /\ job' = [job EXCEPT ![w].slice = [s EXCEPT !.len = s.len + 1], ![w].pc = "store"]
    BY DEF AppendInPlace, At, HasRoom
  <1>2. /\ job[w] \in Job /\ job[w] # NoJob /\ JobOK(w) /\ Common /\ TypeOK
        /\ RefOK(v, s, arrays, Appended)
    BY <1>1, AtWork DEF IInv, Common
  <1>3. s.len \in Nat /\ s \in Slice /\ (s.len > 0 => s.array > 0) /\ s.array # -1 /\ c \in Conn
    BY <1>1, <1>2, SlotsOf DEF RefOK, JobOK, Registering
  <1>4. s.array \in 1 .. MaxArrays /\ s.array \in ArrayId
    <2>1. s.array \in ArrayId
      BY <1>3, WebsocketAssumption DEF Slice, ArrayId
    <2>2. s.array # 0
      <3>1. Len(<<>>) = 0
        OBVIOUS
      <3> QED
        BY <1>1, <1>2, <1>3, <3>1 DEF Common
    <2> QED
      BY <2>1, <2>2, WebsocketAssumption DEF ArrayId
  <1>5. /\ A \in Seq(Entry) /\ Len(A) <= Size /\ Len(A) \in Nat /\ DOMAIN A = 1 .. Len(A)
    <2>1. Size \in Nat
      BY Zero DEF Size
    <2> QED
      BY <1>2, <1>4, <2>1, ArraySeq
  <1>6. s.len + 1 \in 1 .. Len(A) /\ \A k \in 1 .. s.len : k \in 1 .. Len(A) /\ k # s.len + 1
    <2>1. s.len < Len(A) /\ s.len \in Nat /\ Len(A) \in Nat
      BY <1>1, <1>3, <1>5
    <2> HIDE DEF A
    <2> QED
      BY <2>1
  <1>7. [s EXCEPT !.len = s.len + 1] = t
    BY <1>3 DEF Slice
  <1>8. job' = [job EXCEPT ![w] = [job[w] EXCEPT !.slice = t, !.pc = "store"]]
    BY <1>1, <1>2, <1>7
  <1>9. Extends(B, s, c) /\ Len(B) = Len(A)
    <2>1. c \in Entry
      BY <1>3 DEF Entry
    <2> HIDE DEF A
    <2>2. /\ B \in Seq(Entry) /\ Len(B) = Len(A) /\ DOMAIN B = 1 .. Len(A)
          /\ \A k \in 1 .. Len(A) : B[k] = IF k = s.len + 1 THEN c ELSE A[k]
      BY <1>5, <1>6, <2>1
    <2> HIDE DEF B
    <2>3. \A k \in 1 .. s.len : B[k] = A[k]
      BY <1>6, <2>2
    <2>4. B[s.len + 1] = c
      BY <1>6, <2>2
    <2>5. s.array > 0 /\ \A k \in 1 .. Len(B) : k = s.len + 1 \/ (k \in DOMAIN A /\ B[k] = A[k])
      BY <1>4, <1>5, <2>2
    <2>6. s.len + 1 <= Len(B) /\ Len(B) <= Size
      BY <1>5, <1>6, <2>2
    <2> QED
      BY <2>2, <2>3, <2>4, <2>5, <2>6 DEF Extends, A
  <1> HIDE DEF B, A
  <1>10. Len(B) = Len(arrays[s.array])
    BY <1>9 DEF A
  <1> QED
    BY <1>1, <1>4, <1>8, <1>9, <1>10, RegisterKeeps

\* The slots are copied to an unused array.
LEMMA AppendCopyKeeps ==
    ASSUME IInv, NEW w \in Worker, AppendCopy(w), NEW v \in User, v = job[w].uid,
           NEW c, c = job[w].conn, NEW s, s = connections[v]
    PROVE  IInv'
  <1> DEFINE n == IF s.len = 0 THEN 1 ELSE 2 * s.len
             B == Grown(s, c)
             a == NewArray
             t == [array |-> a, len |-> s.len + 1]
  <1>1. /\ job[w].pc = "append" /\ Unused # {}
        /\ UNCHANGED <<connections, state, sends, failures, disturbed>>
        /\ arrays' = [arrays EXCEPT ![a] = B]
        /\ job' = [job EXCEPT ![w].slice = t, ![w].pc = "store"]
    BY DEF AppendCopy, At
  <1>2. /\ job[w] \in Job /\ job[w] # NoJob /\ JobOK(w) /\ Common /\ TypeOK
        /\ RefOK(v, s, arrays, Appended)
    BY <1>1, AtWork DEF IInv, Common
  <1>3. s.len \in Nat /\ s \in Slice /\ (s.len > 0 => s.array > 0) /\ c \in Conn
    BY <1>1, <1>2, SlotsOf DEF RefOK, JobOK, Registering
  <1>4. a \in 1 .. MaxArrays /\ arrays[a] = <<>>
    <2>1. a \in Unused
      BY <1>1 DEF NewArray
    <2> QED
      BY <2>1 DEF Unused
  <1> HIDE DEF a
  <1>5. job' = [job EXCEPT ![w] = [job[w] EXCEPT !.slice = t, !.pc = "store"]]
    BY <1>1, <1>2
  <1>6. n \in Nat /\ s.len + 1 \in 1 .. n /\ n <= Size
    <2>1. s.len <= Cardinality(Conn) /\ Cardinality(Conn) \in Nat
      BY <1>3, Zero DEF Slice
    <2>2. Cardinality(Conn) # 0
      <3>1. Cardinality({}) = 0 /\ Cardinality({}) + 1 <= Cardinality(Conn)
        BY <1>3, Sizes, FS_EmptySet
      <3> QED
        BY <2>1, <3>1
    <2> QED
      BY <1>3, <2>1, <2>2 DEF Size
  <1> HIDE DEF n
  <1>7. \A k \in 1 .. s.len : /\ arrays[s.array][k] \in Entry
                              /\ s.array > 0 /\ k \in DOMAIN arrays[s.array]
    BY <1>2, SlotContent DEF Entry, Appended
  <1>8. /\ B \in Seq(Entry) /\ Len(B) = n
        /\ \A k \in 1 .. n : B[k] = IF k <= s.len THEN arrays[s.array][k]
                                    ELSE IF k = s.len + 1 THEN c ELSE NoConn
    <2>1. B = [k \in 1 .. n |-> IF k <= s.len THEN arrays[s.array][k]
                                ELSE IF k = s.len + 1 THEN c ELSE NoConn]
      BY <1>3 DEF Grown, n
    <2>2. \A k \in 1 .. n : k <= s.len => k \in 1 .. s.len
      BY <1>3, <1>6
    <2>3. c \in Entry /\ NoConn \in Entry
      BY <1>3 DEF Entry
    <2> HIDE DEF B
    <2>4. \A k \in 1 .. n : B[k] \in Entry
      BY <1>7, <2>1, <2>2, <2>3
    <2> QED
      BY <1>6, <2>1, <2>4
  <1> HIDE DEF B
  <1>9. Extends(B, s, c)
    <2>1. \A k \in 1 .. s.len : k \in 1 .. n /\ k <= s.len
      BY <1>3, <1>6
    <2>2. \A k \in 1 .. s.len : B[k] = arrays[s.array][k]
      BY <1>8, <2>1
    <2>3. B[s.len + 1] = c
      BY <1>3, <1>6, <1>8
    <2>4. \A k \in 1 .. Len(B) : \/ k = s.len + 1
                                 \/ B[k] = NoConn
                                 \/ /\ s.array > 0 /\ k \in DOMAIN arrays[s.array]
                                    /\ B[k] = arrays[s.array][k]
      <3>1. \A k \in 1 .. n : k <= s.len => k \in 1 .. s.len
        BY <1>3, <1>6
      <3> QED
        BY <1>7, <1>8, <3>1
    <2>5. B \in Seq(Entry) /\ s.len + 1 <= Len(B) /\ Len(B) <= Size
      BY <1>6, <1>8
    <2> QED
      BY <2>2, <2>3, <2>4, <2>5 DEF Extends
  <1> QED
    BY <1>1, <1>4, <1>5, <1>9, RegisterKeeps

-----------------------------------------------------------------------------
(* The environment, and the start.                                         *)

\* A list stays one when connections break.
LEMMA ListedBreaks ==
    ASSUME NEW l, NEW S, NEW S2, NEW F, NEW u, NEW except, NEW but, Listed(l, S, F, u, except, but),
           \A d \in Conn : (S2[d] = "open" => S[d] = "open") /\ (S[d] = "closed" => S2[d] = "closed")
    PROVE  /\ Listed(l, S2, F, u, except, but)
           /\ \A got, i : HeardTo(l, S, got, i) => HeardTo(l, S2, got, i)
  BY DEF Listed, HeardTo

\* A connection breaks.
LEMMA BreakKeeps ==
    ASSUME IInv, NEW c \in Conn, Break(c)
    PROVE  IInv'
  <1>1. /\ state[c] = "open" /\ state' = [state EXCEPT ![c] = "broken"]
        /\ UNCHANGED <<connections, arrays, job, sends, failures, disturbed>>
    BY DEF Break, registry
  <1>2. Common /\ TypeOK
    BY DEF IInv, Common
  <1>3. \A d \in Conn : state'[d] = IF d = c THEN "broken" ELSE state[d]
    BY <1>1, <1>2 DEF TypeOK
  <1>4. TypeOK'
    BY <1>1, <1>2 DEF TypeOK
  <1>5. Appended' = Appended
    BY <1>1, <1>3 DEF Appended, Registering
  <1>6. ASSUME NEW w \in Worker
        PROVE  JobOK(w)'
    <2>1. JobOK(w)
      BY <1>2 DEF Common
    <2>2. \A d \in Conn : state[d] # "new" => state'[d] # "new"
      BY <1>3
    <2> QED
      BY <1>1, <1>5, <2>1, <2>2 DEF JobOK, Registering
  <1>7. Common'
    <2>1. \A u, a : Holds(u, a)' <=> Holds(u, a)
      BY <1>1 DEF Holds
    <2> QED
      BY <1>1, <1>2, <1>4, <1>5, <1>6, <2>1 DEF Common, Registering
  <1>8. \A d \in Conn : (state'[d] = "open" => state[d] = "open") /\ (state[d] = "closed" => state'[d] = "closed")
    BY <1>1, <1>3
  <1>9. ASSUME NEW u \in User, u \notin disturbed
        PROVE  UserInv(u)'
    <2>1. UserInv(u)
      BY DEF IInv
    <2>2. \A w \in Worker : Uses(w, u)' <=> Uses(w, u)
      BY <1>1 DEF Uses
    <2>3. (\A w \in Worker : ~Uses(w, u)') =>
            Listed(Slots(arrays', connections'[u]), state', failures', u, {}, NoConn)
      BY <1>1, <1>8, <1>9, <2>1, <2>2, ListedBreaks DEF UserInv
    <2>4. ASSUME NEW w \in Worker, Uses(w, u)
          PROVE  JobInv(w, u, arrays, state, failures, connections[u])'
      <3> DEFINE l == Slots(arrays, job[w].slice)
                 m == Slots(arrays, connections[u])
      <3>1. JobInv(w, u, arrays, state, failures, connections[u])
        BY <1>9, <2>1, <2>4 DEF UserInv
      <3>2. JobOK(w) /\ job[w] # NoJob
        BY <1>2, <2>4 DEF Common, Uses, NoJob
      <3>3. job[w].pc = "close" => job[w].conn \in Conn
        BY <3>2 DEF JobOK, Appended
      <3> HIDE DEF l, m
      <3>4. \A except, but : /\ Listed(l, state, failures, u, except, but) =>
                                  Listed(l, state', failures, u, except, but)
                             /\ Listed(m, state, failures, u, except, but) =>
                                  Listed(m, state', failures, u, except, but)
        BY <1>8, ListedBreaks
      <3>5. \A but, got, i : Listed(l, state, failures, u, {}, but) /\ HeardTo(l, state, got, i) =>
                               HeardTo(l, state', got, i)
        BY <1>8, ListedBreaks
      <3>6. connections' = connections /\ arrays' = arrays /\ job' = job /\ failures' = failures
        BY <1>1
      <3> QED
        BY <1>8, <3>1, <3>3, <3>4, <3>5, <3>6 DEF JobInv, Registering, l, m
    <2> QED
      BY <1>9, <2>1, <2>2, <2>3, <2>4 DEF UserInv
  <1>10. \A u \in User : UserInv(u)'
    <2>1. \A u \in User : u \in disturbed => UserInv(u)'
      BY <1>1 DEF UserInv
    <2> QED
      BY <1>9, <2>1
  <1> QED
    BY <1>7, <1>10 DEF IInv

\* The server has started, and no connection is open.
Fresh ==
    /\ connections = [u \in User |-> Nil]
    /\ arrays = [a \in ArrayId |-> <<>>]
    /\ state \in [Conn -> {"new", "lost"}]
    /\ job = [w \in Worker |-> NoJob]
    /\ sends \in 0 .. MaxSends
    /\ failures = [c \in Conn |-> 0]
    /\ disturbed = {}

\* All is well with an empty registry.
LEMMA FreshOK == Fresh => IInv
  <1> SUFFICES ASSUME Fresh
               PROVE  IInv
    OBVIOUS
  <1>1. NoJob.pc = "idle"
    BY DEF NoJob
  <1>2. \A w \in Worker : ~Registering(w) /\ ~\E u : Uses(w, u)
    BY <1>1 DEF Fresh, Registering, Uses
  <1>3. 0 \in ArrayId /\ arrays[0] = <<>>
    BY WebsocketAssumption DEF Fresh, ArrayId
  <1>4. TypeOK
    <2>1. Size \in Nat
      BY Zero DEF Size
    <2>2. 0 \in 0 .. Size /\ <<>> \in [1 .. 0 -> Conn \cup {NoConn}]
      BY <2>1
    <2>3. \A a \in ArrayId : arrays[a] = <<>>
      BY DEF Fresh
    <2>4. \A a \in ArrayId : \E n \in 0 .. Size : arrays[a] \in [1 .. n -> Conn \cup {NoConn}]
      BY <2>2, <2>3
    <2> QED
      BY <2>4, Zero DEF TypeOK, Fresh
  <1>5. \A u \in User : RefOK(u, connections[u], arrays, Appended)
    <2>1. Appended \subseteq Conn
      BY DEF Appended
    <2> QED
      BY <2>1, NoSlots DEF Fresh
  <1>6. \A w \in Worker : JobOK(w)
    BY DEF Fresh, JobOK
  <1>7. \A u \in User : \A a \in 1 .. MaxArrays : ~Holds(u, a)
    BY DEF Fresh, Holds, Nil
  <1>8. Common
    BY <1>2, <1>3, <1>4, <1>5, <1>6, <1>7 DEF Common, Fresh
  <1>9. ASSUME NEW u \in User
        PROVE  Listed(Slots(arrays, connections[u]), state, failures, u, {}, NoConn)
    <2>1. 1 .. 0 = {} /\ connections[u].len = 0
      BY DEF Fresh, Nil
    <2>2. DOMAIN Slots(arrays, connections[u]) = {}
      BY <2>1 DEF Slots
    <2>3. \A d \in Conn : state[d] # "open"
      BY DEF Fresh
    <2> QED
      BY <2>2, <2>3 DEF Listed
  <1> QED
    BY <1>2, <1>8, <1>9 DEF IInv, UserInv

\* The same after a step.
LEMMA FreshAgain == Fresh' => IInv'
  BY FreshOK, PTL

\* The invariant holds at first.
LEMMA InitIInv == Init => IInv
  <1>1. Init => Fresh
    BY WebsocketAssumption DEF Init, Fresh
  <1> QED
    BY <1>1, FreshOK

\* Each step keeps it.
LEMMA StepIInv == IInv /\ [Next]_vars => IInv'
  <1> SUFFICES ASSUME IInv, [Next]_vars
               PROVE  IInv'
    OBVIOUS
  <1>1. ASSUME NEW w \in Worker, Step(w)
        PROVE  IInv'
    <2> DEFINE Goes == \/ Make(w) \/ AppendInPlace(w) \/ AppendCopy(w) \/ Store(w)
                       \/ StartWrite(w) \/ UserDone(w) \/ Panic(w)
                       \/ Written(w) \/ WrittenInVain(w) \/ WriteFails(w)
                       \/ Close(w) \/ Drop(w) \/ Update(w)
    <2>1. ASSUME NEW c \in Conn, Upgrade(w, c)
          PROVE  IInv'
      BY <2>1, UpgradeKeeps
    <2>2. ASSUME NEW users \in Recipients, SendAll(w, users)
          PROVE  IInv'
      BY <2>2, SendAllKeeps
    <2>3. ASSUME NEW u \in User, RangeOverUsers(w, u)
          PROVE  IInv'
      BY <2>3, RangeKeeps
    <2>4. ASSUME job[w].pc # "idle", Goes
          PROVE  IInv'
      <3>1. PICK v \in User : v = job[w].uid
        BY <2>4, AtWork
      <3>2. PICK c : c = job[w].conn
        OBVIOUS
      <3>3. PICK s : s = job[w].slice
        OBVIOUS
      <3>4. PICK i : i = job[w].index
        OBVIOUS
      <3>5. PICK t : t = connections[v]
        OBVIOUS
      <3>6. CASE Make(w)
        BY <3>1, <3>6, MakeKeeps
      <3>7. CASE AppendInPlace(w)
        BY <3>1, <3>2, <3>5, <3>7, AppendInPlaceKeeps
      <3>8. CASE AppendCopy(w)
        BY <3>1, <3>2, <3>5, <3>8, AppendCopyKeeps
      <3>9. CASE Store(w)
        BY <3>1, <3>9, StoreKeeps
      <3>10. CASE StartWrite(w)
        BY <3>1, <3>10, StartWriteKeeps
      <3>11. CASE UserDone(w)
        BY <3>1, <3>11, UserDoneKeeps
      <3>12. CASE Panic(w)
        BY <3>1, <3>12, PanicKeeps
      <3>13. CASE Written(w) \/ WrittenInVain(w)
        BY <3>1, <3>13, WrittenKeeps
      <3>14. CASE WriteFails(w)
        BY <3>1, <3>2, <3>14, WriteFailsKeeps
      <3>15. CASE Close(w)
        BY <3>1, <3>2, <3>15, CloseKeeps
      <3>16. CASE Drop(w)
        BY <3>1, <3>2, <3>3, <3>4, <3>16, DropKeeps
      <3>17. CASE Update(w)
        BY <3>1, <3>3, <3>17, UpdateKeeps
      <3> QED
        BY <2>4, <3>6, <3>7, <3>8, <3>9, <3>10, <3>11, <3>12, <3>13, <3>14, <3>15, <3>16, <3>17
    <2>5. Goes => job[w].pc # "idle"
      BY DEF Make, AppendInPlace, AppendCopy, Store, StartWrite, UserDone, Panic, Written,
             WrittenInVain, WriteFails, Close, Drop, Update, At
    <2> QED
      BY <1>1, <2>1, <2>2, <2>3, <2>4, <2>5 DEF Step
  <1>2. ASSUME FatalError
        PROVE  IInv'
    <2>1. sends \in 0 .. MaxSends
      BY DEF IInv, Common, TypeOK
    <2>2. Fresh'
      BY <1>2, <2>1 DEF FatalError, Fresh
    <2> QED
      BY <2>2, FreshAgain
  <1>3. ASSUME UNCHANGED vars
        PROVE  IInv'
    <2>1. Appended' = Appended
      BY <1>3 DEF vars, Appended, Registering
    <2>2. \A w \in Worker : JobOK(w) => JobOK(w)'
      BY <1>3, <2>1 DEF vars, JobOK, Registering
    <2>3. Common'
      BY <1>3, <2>1, <2>2 DEF vars, IInv, Common, TypeOK, Registering, Holds
    <2>4. \A u \in User : UserInv(u) => UserInv(u)'
      BY <1>3 DEF vars, UserInv, Uses, JobInv, Registering
    <2> QED
      BY <2>3, <2>4 DEF IInv
  <1> QED
    BY <1>1, <1>2, <1>3, BreakKeeps DEF Next, AllServed

-----------------------------------------------------------------------------
(* The theorems.                                                           *)

\* The inductive invariant holds in every reachable state.
THEOREM Inductive == Spec => []IInv
  BY InitIInv, StepIInv, PTL DEF Spec

\* The registered connections of a user are the slots of his slice.
LEMMA RegisteredSlots ==
    ASSUME Common, NEW u \in User
    PROVE  LET l == Slots(arrays, connections[u])
           IN  /\ DOMAIN l = 1 .. connections[u].len /\ connections[u].len \in Nat
               /\ \A c : c \in Registered(u) <=> \E k \in DOMAIN l : l[k] = c
  <1>1. RefOK(u, connections[u], arrays, Appended)
    BY DEF Common
  <1> QED
    BY <1>1, SlotsOf DEF Registered, Elements

\* A list has as many connections as slots.
LEMMA ListSize ==
    ASSUME NEW l, NEW n \in Nat, DOMAIN l = 1 .. n, NEW R, \A c : c \in R <=> \E k \in DOMAIN l : l[k] = c,
           \A j, k \in DOMAIN l : l[j] = l[k] => j = k
    PROVE  Cardinality(R) = n
  <1> DEFINE f == [k \in 1 .. n |-> l[k]]
  <1>1. f \in Bijection(1 .. n, R)
    <2>1. f \in [1 .. n -> R]
      OBVIOUS
    <2>2. IsInjective(f)
      BY DEF IsInjective
    <2>3. \A c \in R : \E k \in 1 .. n : f[k] = c
      OBVIOUS
    <2> HIDE DEF f
    <2> QED
      BY <2>1, <2>2, <2>3 DEF Bijection, Injection, Surjection
  <1>2. ExistsBijection(1 .. n, R)
    BY <1>1 DEF ExistsBijection
  <1> QED
    BY <1>2, FS_CountingElements

\* While one goroutine at a time uses a user's slice, the registry has each of
\* his open connections, and none twice, nil, or another user's
\* (GetWebsocketConnection, and the removal in SendAll).
THEOREM RegistryTrue == Spec => []RegistryOK
  <1>1. ASSUME IInv
        PROVE  RegistryOK
    <2>1. Common
      BY <1>1 DEF IInv
    <2>2. ASSUME NEW u \in User, Calm(u)
          PROVE  /\ \A c \in Conn : UserOf[c] = u /\ state[c] = "open" => c \in Registered(u)
                 /\ Registered(u) \subseteq {c \in Conn : UserOf[c] = u}
                 /\ Cardinality(Registered(u)) = connections[u].len
      <3> DEFINE l == Slots(arrays, connections[u])
      <3>1. Listed(l, state, failures, u, {}, NoConn)
        BY <1>1, <2>2 DEF IInv, UserInv, Calm
      <3>2. /\ DOMAIN l = 1 .. connections[u].len /\ connections[u].len \in Nat
            /\ \A c : c \in Registered(u) <=> \E k \in DOMAIN l : l[k] = c
        BY <2>1, RegisteredSlots
      <3> HIDE DEF l
      <3>3. \A j, k \in DOMAIN l : l[j] = l[k] => j = k
        BY <3>1 DEF Listed
      <3>4. Cardinality(Registered(u)) = connections[u].len
        BY <3>2, <3>3, ListSize
      <3>5. \A c \in Registered(u) : c \in Conn /\ UserOf[c] = u
        BY <3>1, <3>2 DEF Listed
      <3>6. \A c \in Conn : UserOf[c] = u /\ state[c] = "open" => c \in Registered(u)
        BY <3>1, <3>2 DEF Listed
      <3> QED
        BY <3>4, <3>5, <3>6
    <2> QED
      BY <2>1, <2>2 DEF RegistryOK, Kept, Common
  <1> QED
    BY <1>1, Inductive, PTL

\* The second failed write to a connection removes it, while one goroutine at a
\* time uses the slice (SendAll).
THEOREM BrokenLeave == Spec => []BrokenGoes
  <1>1. ASSUME IInv
        PROVE  BrokenGoes
    <2>1. ASSUME NEW u \in User, Calm(u), NEW c \in Registered(u)
          PROVE  failures[c] < 2
      <3> DEFINE l == Slots(arrays, connections[u])
      <3>1. Listed(l, state, failures, u, {}, NoConn)
        BY <1>1, <2>1 DEF IInv, UserInv, Calm
      <3>2. PICK k \in DOMAIN l : l[k] = c
        BY <1>1, <2>1, RegisteredSlots DEF IInv
      <3> HIDE DEF l
      <3>3. c # NoConn
        BY <3>1, <3>2, WebsocketAssumption DEF Listed
      <3>4. failures[c] = 0 \/ failures[c] = 1
        BY <3>1, <3>2, <3>3 DEF Listed
      <3> QED
        BY <3>4
    <2> QED
      BY <2>1 DEF BrokenGoes
  <1> QED
    BY <1>1, Inductive, PTL

\* No message reaches a connection of a user it is not for, however goroutines
\* meet: an array never has connections of two users (SendAll).
THEOREM NoLeak == Spec => []OnlyForUsers
  <1>1. IInv => OnlyForUsers
    BY DEF IInv, Common, JobOK, OnlyForUsers
  <1> QED
    BY <1>1, Inductive, PTL

\* When SendAll is done with a user, each of his open connections has the
\* message, while one goroutine at a time uses his slice.
THEOREM AllHear == Spec => SendReachesAll
  <1>1. ASSUME IInv
        PROVE  EachHears
    <2>1. ASSUME NEW w \in Worker, At(w, "next"), job[w].index > job[w].slice.len,
                 NEW u, u = job[w].uid, u \notin disturbed,
                 NEW c \in Conn, UserOf[c] = u, state[c] = "open"
          PROVE  c \in job[w].got
      <3> DEFINE l == Slots(arrays, job[w].slice)
      <3>1. /\ job[w] \in Job /\ u \in User /\ UserInv(u)
            /\ RefOK(u, job[w].slice, arrays, Appended) /\ JobOK(w) /\ job[w] # NoJob
        BY <1>1, <2>1, AtWork DEF At
      <3>2. JobInv(w, u, arrays, state, failures, connections[u])
        BY <2>1, <3>1 DEF UserInv, Uses, At
      <3>3. Listed(l, state, failures, u, {}, NoConn) /\ HeardTo(l, state, job[w].got, job[w].index - 1)
        BY <2>1, <3>2 DEF JobInv, At
      <3>4. DOMAIN l = 1 .. job[w].slice.len /\ job[w].slice.len \in Nat
        BY <3>1, SlotsOf
      <3>5. job[w].index \in 1 .. job[w].slice.len + 1
        BY <2>1, <3>1 DEF JobOK, At
      <3> HIDE DEF l
      <3>6. PICK k \in DOMAIN l : l[k] = c
        BY <2>1, <3>3 DEF Listed
      <3>7. k <= job[w].index - 1
        BY <2>1, <3>4, <3>5
      <3> QED
        BY <2>1, <3>3, <3>6, <3>7 DEF HeardTo
    <2> QED
      BY <2>1 DEF EachHears
  <1> QED
    BY <1>1, Inductive, PTL DEF SendReachesAll
=============================================================================
