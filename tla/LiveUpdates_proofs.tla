------------------------- MODULE LiveUpdates_proofs -------------------------
(***************************************************************************)
(* Proofs about LiveUpdates.tla, for any users, projects, tabs, sessions   *)
(* and requests, any number of changes and of lost connections.  The       *)
(* invariant says of every project that none of the races at misled        *)
(* touched: what the tab shows, or an answer on its way to it holds, is as *)
(* the server will have it, or a message that will tell is on its way.     *)
(***************************************************************************)
EXTENDS LiveUpdates, SequenceTheorems, TLAPS

Rows == {"add", "row"}
Sent == {"add", "row", "work", "delete"}

\* The locks: what the transactions that have sent their messages may rely on.
TxOK ==
    /\ \A s \in Session : tx[s] # NoTx =>
         (tx[s].op = "add" <=> members[tx[s].project] = <<>>)
    /\ \A p \in gone : members[p] # <<>>
    /\ \A p \in Project : \A r, s \in Session :
         /\ Writes(r, Rows, p) /\ Writes(s, Rows, p) => r = s
         /\ Writes(r, {"work"}, p) /\ Writes(s, {"work"}, p) => r = s
         /\ Writes(r, {"delete"}, p) /\ Writes(s, Sent, p) => r = s

\* The tab's user will see the project once all transactions have committed.
WillSee(t, p) ==
    /\ p \notin gone /\ Free({"delete"}, p)
    /\ \A s \in Session : Writes(s, Rows, p) => UserOf[t] \in tx[s].users
    /\ Free(Rows, p) => members[p] # <<>> /\ UserOf[t] \in Users(p)

\* The project is there, or will be.
Born(p) == members[p] # <<>> \/ ~Free({"add"}, p)

Updates == {"project_added", "project_updated"}
Removals == {"project_deleted", "project_user_removed"}
Changing == MessageType \ {"project_added"}

\* Messages about a project among those on their way.
Has(messages, types, p) ==
    \E i \in DOMAIN messages : messages[i].project = p /\ messages[i].type \in types

\* Each removal is followed by an update.
Revived(messages, p) ==
    \A i \in DOMAIN messages : messages[i].project = p /\ messages[i].type \in Removals =>
        \E j \in DOMAIN messages :
            j > i /\ messages[j].project = p /\ messages[j].type \in Updates

MailOK(t, p) ==
    /\ WillSee(t, p) => Revived(mail[t], p)
    /\ Has(mail[t], MessageType, p) => Born(p)

\* The project is the user's, or a message that it is not is on its way.
Kept(t, p) == WillSee(t, p) \/ Has(mail[t], Removals, p)
Changes(t, p) == Has(mail[t], Changing, p)
Hears(t, p) == Has(mail[t], MessageType, p)

-----------------------------------------------------------------------------
(* The invariant.                                                          *)

\* The parts of a request and of its answer fit together, and the answer is no
\* newer than the server.
CallShape(c, at) ==
    /\ c.about = IF c.to = Manager THEN Project ELSE {c.to}
    /\ c.why = "open" => (c.to = Manager <=> at # Manager)
    /\ c.why # "open" => c.to # Manager
    /\ c.step = "member" => c.to # Manager /\ members[c.to] # <<>>
    /\ c.step \in {"asked", "member"} => \A p \in Project : c.copies[p] = NoCopy
    /\ \A p \in Project : c.copies[p] # NoCopy =>
          /\ c.copies[p].row <= Len(members[p]) /\ c.copies[p].work <= work[p]
          /\ p \in c.about
    /\ c.step \in {"rows", "ready"} /\ c.to # Manager => c.copies[c.to] # NoCopy

CallsShape(t) ==
    /\ \A k \in Calls(t) : CallShape(call[t][k], place[t])
    /\ \A j, k \in Opening(t) : j = k

PageShape(t) == place[t] # Manager =>
    /\ members[place[t]] # <<>> /\ page[t] # NoPage
    /\ page[t].project # place[t] => Opening(t) # {} \/ misled[t] = Project

ListShape(t) ==
    \A p \in Project : shown[t][p] # <<>> =>
        shown[t][p][1].row <= Len(members[p]) /\ shown[t][p][1].work <= work[p]

\* What the project page has is no newer than the server either.
PageAge(t) == page[t] # NoPage =>
    /\ page[t].copy.row <= Len(members[page[t].project])
    /\ page[t].copy.work <= work[page[t].project]

TabShape(t) == CallsShape(t) /\ PageShape(t) /\ ListShape(t) /\ PageAge(t)
Pages(t, p) == page[t] # NoPage /\ page[t].project = p

\* The answer has the project, as far as it is read.
Holds(c, p) == c.step \in {"rows", "ready"} /\ c.copies[p] # NoCopy
Lacks(c, p) == c.step \in {"rows", "ready"} /\ c.copies[p] = NoCopy

\* A request about the project: what it has read is not overtaken without a
\* message, and not older than what the list or the page shows.
CallOK(t, c, p) ==
    /\ c.why # "open" => Born(p)
    /\ c.step = "member" \/ Holds(c, p) => Kept(t, p) /\ (Changes(t, p) \/ ~Pending(p))
    /\ Holds(c, p) /\ ~Changes(t, p) =>
         /\ c.copies[p].row = Len(members[p])
         /\ c.step = "ready" => c.copies[p].work = work[p]
    /\ Lacks(c, p) => Hears(t, p) \/ ~WillSee(t, p)
    /\ c.step = "failed" /\ c.why # "open" => Changes(t, p) \/ ~WillSee(t, p)
    /\ c.why = "added" => shown[t][p] = <<>>
    /\ Holds(c, p) /\ shown[t][p] # <<>> =>
         /\ c.copies[p].row >= shown[t][p][1].row
         /\ c.step = "ready" => c.copies[p].work >= shown[t][p][1].work
    /\ Holds(c, p) /\ Pages(t, p) =>
         /\ c.copies[p].row >= page[t].copy.row
         /\ c.step = "ready" => c.copies[p].work >= page[t].copy.work

CallsOK(t, p) ==
    /\ \A j, k \in About(t, p) : j = k
    /\ \A k \in About(t, p) : CallOK(t, call[t][k], p)

ListOK(t, p) == place[t] = Manager /\ Opening(t) = {} =>
    /\ Len(shown[t][p]) <= 1
    /\ shown[t][p] # <<>> => Kept(t, p)
    /\ ~Hears(t, p) /\ About(t, p) = {} /\ WillSee(t, p) =>
         ~Pending(p) /\ shown[t][p] = <<Current(p)>>

PageOK(t, p) == place[t] = p /\ Opening(t) = {} =>
    /\ Kept(t, p)
    /\ ~Changes(t, p) /\ (\A k \in About(t, p) : call[t][k].why # "changed") =>
         ~Pending(p) /\ page[t].copy = Current(p)

PairOK(t, p) == MailOK(t, p) /\ CallsOK(t, p) /\ ListOK(t, p) /\ PageOK(t, p)
TabOK(t) == \A p \in Project \ misled[t] : PairOK(t, p)

IInv == TypeOK /\ TxOK /\ \A t \in Tab : TabShape(t) /\ TabOK(t)

-----------------------------------------------------------------------------
(* Messages.                                                               *)

\* One more message.
LEMMA OneMore ==
    ASSUME NEW q \in Seq(Message), NEW m \in Message
    PROVE  /\ \A types, p : Has(Append(q, m), types, p) <=>
                 Has(q, types, p) \/ (m.project = p /\ m.type \in types)
           /\ \A p : Revived(q, p) /\ m.type \notin Removals => Revived(Append(q, m), p)
           /\ \A p : Revived(q, p) /\ m.project # p => Revived(Append(q, m), p)
           /\ m.type \in Updates => Revived(Append(q, m), m.project)
  <1> DEFINE r == Append(q, m)
  <1>1. /\ DOMAIN q = 1 .. Len(q) /\ Len(q) \in Nat
        /\ DOMAIN r = 1 .. Len(q) + 1
        /\ \A i \in 1 .. Len(q) : r[i] = q[i]
        /\ r[Len(q) + 1] = m
    OBVIOUS
  <1> HIDE DEF r
  <1>2. DOMAIN r = DOMAIN q \cup {Len(q) + 1} /\ \A i \in DOMAIN q : r[i] = q[i] /\ Len(q) + 1 > i
    BY <1>1
  <1>3. \A types, p : Has(r, types, p) <=> Has(q, types, p) \/ (m.project = p /\ m.type \in types)
    BY <1>1, <1>2 DEF Has
  <1>4. ASSUME NEW p, Revived(q, p), m.type \notin Removals \/ m.project # p
        PROVE  Revived(r, p)
    BY <1>1, <1>2, <1>4 DEF Revived
  <1>5. ASSUME m.type \in Updates
        PROVE  Revived(r, m.project)
    <2>1. m.type \notin Removals
      BY <1>5 DEF Updates, Removals
    <2> SUFFICES ASSUME NEW i \in DOMAIN r, r[i].project = m.project, r[i].type \in Removals
                 PROVE  \E j \in DOMAIN r : j > i /\ r[j].project = m.project /\ r[j].type \in Updates
      BY DEF Revived
    <2>2. i \in DOMAIN q
      BY <1>1, <1>2, <2>1
    <2> QED
      BY <1>1, <1>2, <1>5, <2>2
  <1> QED
    BY <1>3, <1>4, <1>5 DEF r

\* The first message is taken.
LEMMA OneLess ==
    ASSUME NEW q \in Seq(Message), q # <<>>
    PROVE  /\ Tail(q) \in Seq(Message) /\ Head(q) \in Message
           /\ \A types, p : Has(q, types, p) <=>
                 Has(Tail(q), types, p) \/ (Head(q).project = p /\ Head(q).type \in types)
           /\ \A p : Revived(q, p) => Revived(Tail(q), p)
           /\ \A p : Revived(q, p) /\ Head(q).project = p /\ Head(q).type \in Removals =>
                 Has(Tail(q), Updates, p)
  <1> DEFINE r == Tail(q)
             h == Head(q)
  <1>1. /\ r \in Seq(Message) /\ h \in Message
        /\ DOMAIN q = 1 .. Len(q) /\ Len(q) \in Nat /\ Len(q) > 0
        /\ DOMAIN r = 1 .. Len(q) - 1
        /\ \A i \in 1 .. Len(q) - 1 : r[i] = q[i + 1]
        /\ q[1] = h
    OBVIOUS
  <1> HIDE DEF r, h
  <1>2. /\ \A i \in DOMAIN r : i + 1 \in DOMAIN q /\ q[i + 1] = r[i]
        /\ \A i \in DOMAIN q : i > 1 => i - 1 \in DOMAIN r /\ r[i - 1] = q[i]
        /\ 1 \in DOMAIN q
        /\ \A i \in DOMAIN q : i \in Int /\ (i = 1 \/ i > 1)
        /\ \A i \in DOMAIN r : i \in Int
    BY <1>1
  <1>3. \A types, p : Has(q, types, p) <=> Has(r, types, p) \/ (h.project = p /\ h.type \in types)
    <2> SUFFICES ASSUME NEW types, NEW p
                 PROVE  Has(q, types, p) <=> Has(r, types, p) \/ (h.project = p /\ h.type \in types)
      OBVIOUS
    <2>1. ASSUME Has(q, types, p)
          PROVE  Has(r, types, p) \/ (h.project = p /\ h.type \in types)
      <3>1. PICK i \in DOMAIN q : q[i].project = p /\ q[i].type \in types
        BY <2>1 DEF Has
      <3>2. CASE i = 1
        BY <1>1, <3>1, <3>2
      <3>3. CASE i > 1
        BY <1>2, <3>1, <3>3 DEF Has
      <3> QED
        BY <1>2, <3>2, <3>3
    <2>2. ASSUME Has(r, types, p) \/ (h.project = p /\ h.type \in types)
          PROVE  Has(q, types, p)
      BY <1>1, <1>2, <2>2 DEF Has
    <2> QED
      BY <2>1, <2>2
  <1>4. ASSUME NEW p, Revived(q, p)
        PROVE  Revived(r, p)
    <2> SUFFICES ASSUME NEW i \in DOMAIN r, r[i].project = p, r[i].type \in Removals
                 PROVE  \E j \in DOMAIN r : j > i /\ r[j].project = p /\ r[j].type \in Updates
      BY DEF Revived
    <2>1. PICK j \in DOMAIN q : j > i + 1 /\ q[j].project = p /\ q[j].type \in Updates
      BY <1>2, <1>4 DEF Revived
    <2>2. j > 1 /\ j - 1 > i
      BY <1>1, <2>1
    <2> QED
      BY <1>2, <2>1, <2>2
  <1>5. ASSUME NEW p, Revived(q, p), h.project = p, h.type \in Removals
        PROVE  Has(r, Updates, p)
    <2>1. PICK j \in DOMAIN q : j > 1 /\ q[j].project = p /\ q[j].type \in Updates
      BY <1>1, <1>2, <1>5 DEF Revived
    <2> QED
      BY <1>2, <2>1 DEF Has
  <1> QED
    BY <1>1, <1>3, <1>4, <1>5 DEF r, h

\* No message.
LEMMA NoMail == /\ \A types, p : ~Has(<<>>, types, p)
                /\ \A p : Revived(<<>>, p)
  BY DEF Has, Revived

\* A message about the project is one of some type.
LEMMA HasWider ==
    ASSUME NEW q, NEW p, NEW types, NEW wider, types \subseteq wider, Has(q, types, p)
    PROVE  Has(q, wider, p)
  BY DEF Has

\* The kinds of messages.
LEMMA Kinds ==
    /\ Removals \subseteq Changing /\ Changing \subseteq MessageType
    /\ Removals \subseteq MessageType /\ Updates \subseteq MessageType
    /\ Updates \cap Removals = {}
    /\ \A m \in Message : m.type \in Updates \/ m.type \in Removals
    /\ \A m \in Message : m.type \in Changing \/ m.type = "project_added"
  BY DEF Removals, Updates, Changing, MessageType, Message

\* Each message is about a project.
LEMMA HeardIsHas ==
    ASSUME TypeOK, NEW t \in Tab, NEW p
    PROVE  Heard(t, p) <=> Hears(t, p)
  <1>1. mail[t] \in Seq(Message)
    BY DEF TypeOK
  <1>2. \A i \in DOMAIN mail[t] : mail[t][i] \in Message
    BY <1>1
  <1>3. \A i \in DOMAIN mail[t] : mail[t][i].type \in MessageType
    BY <1>2 DEF Message
  <1> QED
    BY <1>3 DEF Heard, Hears, Has

-----------------------------------------------------------------------------
(* What a step leaves alone.                                               *)

\* The step does not touch the project at the server,
ServerSame(p) ==
    /\ \A t \in Tab : WillSee(t, p)' <=> WillSee(t, p)
    /\ Pending(p)' <=> Pending(p)
    /\ Born(p) => Born(p)'
    /\ members'[p] = members[p] /\ work'[p] = work[p]

\* takes and sends no message about it that changes what the tab knows,
MailSame(t, p) ==
    /\ Has(mail'[t], Removals, p) <=> Has(mail[t], Removals, p)
    /\ Has(mail'[t], Changing, p) <=> Has(mail[t], Changing, p)
    /\ Has(mail'[t], MessageType, p) => Has(mail[t], MessageType, p)
    /\ Has(mail[t], MessageType, p) => Has(mail'[t], MessageType, p)
    /\ Revived(mail[t], p) => Revived(mail'[t], p)

\* and leaves what the tab has of it as it was.
TabSame(t, p) ==
    /\ place'[t] = place[t] /\ shown'[t][p] = shown[t][p]
    /\ place[t] = p \/ Pages(t, p)' => page'[t] = page[t]
    /\ Opening(t)' = {} => Opening(t) = {}
    /\ About(t, p)' = About(t, p)
    /\ \A k \in About(t, p) : call'[t][k] = call[t][k]

\* Then what the invariant says of the tab and the project stays.
LEMMA Untouched ==
    ASSUME NEW t \in Tab, NEW p \in Project, PairOK(t, p),
           ServerSame(p), MailSame(t, p), TabSame(t, p)
    PROVE  PairOK(t, p)'
  <1>1. /\ WillSee(t, p)' <=> WillSee(t, p)
        /\ Pending(p)' <=> Pending(p)
        /\ Born(p) => Born(p)'
        /\ Kept(t, p)' <=> Kept(t, p)
        /\ Changes(t, p)' <=> Changes(t, p)
        /\ Hears(t, p)' <=> Hears(t, p)
    BY DEF ServerSame, MailSame, Kept, Changes, Hears
  <1>2. MailOK(t, p)'
    BY <1>1 DEF PairOK, MailOK, MailSame, Hears
  <1>3. CallsOK(t, p)'
    <2>1. ASSUME NEW k \in About(t, p)
          PROVE  CallOK(t, call[t][k], p)'
      BY <1>1, <2>1 DEF PairOK, CallsOK, CallOK, Holds, Lacks, Pages, ServerSame, TabSame
    <2> QED
      BY <2>1 DEF PairOK, CallsOK, TabSame
  <1>4. Current(p)' = Current(p)
    BY DEF Current, ServerSame
  <1>5. ListOK(t, p)'
    BY <1>1, <1>4 DEF PairOK, ListOK, TabSame
  <1>6. PageOK(t, p)'
    BY <1>1, <1>4 DEF PairOK, PageOK, TabSame
  <1> QED
    BY <1>2, <1>3, <1>5, <1>6 DEF PairOK

\* The tab's own parts.
Own(t) == <<mail[t], call[t], place[t], shown[t], page[t], misled[t]>>

\* The server does nothing.
LEMMA ServerIdle ==
    ASSUME UNCHANGED server
    PROVE  \A p \in Project : ServerSame(p)
  BY DEF server, ServerSame, WillSee, Pending, Born, Free, Writes, Users

\* Nothing happens at the server or in the tab.
LEMMA TabIdle ==
    ASSUME NEW t \in Tab, UNCHANGED server, UNCHANGED Own(t), TabShape(t), TabOK(t)
    PROVE  TabShape(t)' /\ TabOK(t)'
  <1>1. /\ mail'[t] = mail[t] /\ call'[t] = call[t] /\ place'[t] = place[t]
        /\ shown'[t] = shown[t] /\ page'[t] = page[t] /\ misled'[t] = misled[t]
        /\ members' = members /\ work' = work
    BY DEF Own, server
  <1>2. Calls(t)' = Calls(t) /\ Opening(t)' = Opening(t)
    BY <1>1 DEF Calls, Opening
  <1>3. TabShape(t)'
    <2>1. CallsShape(t)'
      BY <1>1, <1>2 DEF TabShape, CallsShape, CallShape
    <2>2. PageShape(t)' /\ ListShape(t)' /\ PageAge(t)'
      BY <1>1, <1>2 DEF TabShape, PageShape, ListShape, PageAge
    <2> QED
      BY <2>1, <2>2 DEF TabShape
  <1>4. ASSUME NEW p \in Project \ misled'[t]
        PROVE  PairOK(t, p)'
    <2>1. About(t, p)' = About(t, p)
      BY <1>1, <1>2 DEF About
    <2>2. TabSame(t, p) /\ MailSame(t, p)
      BY <1>1, <1>2, <2>1 DEF TabSame, MailSame
    <2> QED
      BY <1>1, <2>2, ServerIdle, Untouched DEF TabOK
  <1> QED
    BY <1>3, <1>4 DEF TabOK

-----------------------------------------------------------------------------
(* The server: what a step of a session does.                              *)

\* What a session does about a project leaves the other projects alone.
LEMMA OtherProjects ==
    ASSUME NEW s \in Session, NEW p \in Project,
           \A r \in Session \ {s} : tx'[r] = tx[r],
           tx[s] = NoTx \/ tx[s].project = p, tx'[s] = NoTx \/ tx'[s].project = p,
           \A q \in Project \ {p} :
               members'[q] = members[q] /\ work'[q] = work[q] /\ (q \in gone' <=> q \in gone)
    PROVE  \A q \in Project \ {p} : ServerSame(q)
  <1> SUFFICES ASSUME NEW q \in Project \ {p}
               PROVE  ServerSame(q)
    OBVIOUS
  <1>1. \A r \in Session : \A ops : Writes(r, ops, q)' <=> Writes(r, ops, q)
    BY DEF Writes
  <1>2. \A r \in Session : Writes(r, Rows, q) => tx'[r] = tx[r]
    BY DEF Writes
  <1>3. \A ops : Free(ops, q)' <=> Free(ops, q)
    BY <1>1 DEF Free
  <1> QED
    BY <1>1, <1>2, <1>3 DEF ServerSame, WillSee, Pending, Born, Users

\* The history of the projects gets longer.
Grows == \A p \in Project :
    /\ members'[p] \in Seq(SUBSET User) /\ work'[p] \in Nat
    /\ Len(members[p]) <= Len(members'[p]) /\ (members[p] # <<>> => members'[p] # <<>>)
    /\ work[p] <= work'[p]

\* The parts of requests, pages and lists fit together as before.
LEMMA ShapeStays ==
    ASSUME TypeOK, NEW t \in Tab, TabShape(t), Grows,
           UNCHANGED <<call, place, shown, page>>,
           misled[t] \subseteq misled'[t], misled'[t] \subseteq Project
    PROVE  TabShape(t)'
  <1>1. Calls(t)' = Calls(t) /\ Opening(t)' = Opening(t)
    BY DEF Calls, Opening
  <1>2. \A p \in Project : /\ Len(members[p]) \in Int /\ Len(members'[p]) \in Int
                           /\ work[p] \in Int /\ work'[p] \in Int
    BY DEF TypeOK, Grows
  <1>3. ASSUME NEW k \in Calls(t)
        PROVE  CallShape(call[t][k], place[t])'
    <2>1. call[t][k] \in Call
      BY DEF Calls, TypeOK
    <2>2. ASSUME NEW p \in Project, call[t][k].copies[p] # NoCopy
          PROVE  call[t][k].copies[p].row \in Int /\ call[t][k].copies[p].work \in Int
      BY <2>1, <2>2, LiveUpdatesAssumption DEF Call, Copy, Row
    <2>3. CallShape(call[t][k], place[t])
      BY DEF TabShape, CallsShape
    <2>4. \A p \in Project : call[t][k].copies[p] # NoCopy =>
             /\ call[t][k].copies[p].row <= Len(members'[p]) /\ call[t][k].copies[p].work <= work'[p]
             /\ p \in call[t][k].about
      BY <1>2, <2>2, <2>3 DEF CallShape, Grows
    <2>5. call[t][k].to # Manager => call[t][k].to \in Project
      BY <2>1 DEF Call, Place
    <2> QED
      BY <2>3, <2>4, <2>5 DEF CallShape, Grows
  <1>6. PageAge(t)'
    <2>1. ASSUME page[t] # NoPage
          PROVE  /\ page[t].project \in Project
                 /\ page[t].copy.row \in Int /\ page[t].copy.work \in Int
      <3>1. page[t] \in [project : Project, copy : Copy]
        BY <2>1 DEF TypeOK
      <3> QED
        BY <3>1 DEF Copy, Row
    <2> QED
      BY <1>2, <2>1 DEF TabShape, PageAge, Grows
  <1>4. PageShape(t)'
    <2>1. place[t] # Manager => place[t] \in Project
      BY DEF TypeOK, Place
    <2>2. misled[t] = Project => misled'[t] = Project
      OBVIOUS
    <2> QED
      BY <1>1, <2>1, <2>2 DEF TabShape, PageShape, Grows
  <1>5. ListShape(t)'
    <2>1. ASSUME NEW p \in Project, shown[t][p] # <<>>
          PROVE  shown[t][p][1].row \in Int /\ shown[t][p][1].work \in Int
      <3>1. shown[t][p][1] \in Copy
        BY <2>1 DEF TypeOK
      <3> QED
        BY <3>1, LiveUpdatesAssumption DEF Copy, Row
    <2> QED
      BY <1>2, <2>1 DEF TabShape, ListShape, Grows
  <1> QED
    BY <1>1, <1>3, <1>4, <1>5, <1>6 DEF TabShape, CallsShape

\* A step about one project: what is to be shown of each tab.
LEMMA AboutOne ==
    ASSUME TypeOK, NEW p \in Project, Grows, UNCHANGED <<call, place, shown, page>>,
           \A q \in Project \ {p} : ServerSame(q),
           \A t \in Tab : TabShape(t) /\ TabOK(t),
           \A t \in Tab : misled[t] \subseteq misled'[t] /\ misled'[t] \subseteq Project,
           \A t \in Tab : \A q \in Project \ {p} : MailSame(t, q),
           \A t \in Tab : p \notin misled'[t] /\ PairOK(t, p) => PairOK(t, p)'
    PROVE  \A t \in Tab : TabShape(t)' /\ TabOK(t)'
  <1> SUFFICES ASSUME NEW t \in Tab
               PROVE  TabShape(t)' /\ TabOK(t)'
    OBVIOUS
  <1>1. TabShape(t)'
    BY ShapeStays
  <1>2. ASSUME NEW q \in Project \ {p}
        PROVE  TabSame(t, q)
    BY DEF TabSame, Opening, About, Calls
  <1>3. ASSUME NEW q \in Project \ misled'[t], q # p
        PROVE  PairOK(t, q)'
    <2>1. PairOK(t, q)
      BY DEF TabOK
    <2>2. ServerSame(q) /\ MailSame(t, q) /\ TabSame(t, q)
      BY <1>2, <1>3
    <2> QED
      BY <2>1, <2>2, Untouched
  <1>4. ASSUME p \notin misled'[t]
        PROVE  PairOK(t, p)'
    BY <1>4 DEF TabOK
  <1> QED
    BY <1>1, <1>3, <1>4 DEF TabOK

\* A tab that will learn nothing of the step need not.
Unaware(t, p) ==
    /\ WillSee(t, p)' <=> WillSee(t, p)
    /\ WillSee(t, p) => Pending(p)
    /\ Born(p) => Born(p)'

\* What holds of the tab and the project stays, when the tab gets no message.
LEMMA UnawareOK ==
    ASSUME NEW t \in Tab, NEW p \in Project, PairOK(t, p), Unaware(t, p),
           mail'[t] = mail[t], UNCHANGED <<call, place, shown, page>>
    PROVE  PairOK(t, p)'
  <1>1. /\ Kept(t, p)' <=> Kept(t, p)
        /\ Changes(t, p)' <=> Changes(t, p)
        /\ Hears(t, p)' <=> Hears(t, p)
        /\ About(t, p)' = About(t, p) /\ Opening(t)' = Opening(t)
    BY DEF Kept, Changes, Hears, About, Opening, Calls, Unaware
  <1>2. Kept(t, p) /\ ~WillSee(t, p) => Changes(t, p)
    BY HasWider, Kinds DEF Kept, Changes
  <1>3. MailOK(t, p)'
    BY DEF PairOK, MailOK, Unaware
  <1>4. CallsOK(t, p)'
    <2>1. ASSUME NEW k \in About(t, p)
          PROVE  CallOK(t, call[t][k], p)'
      BY <1>1, <1>2, <2>1 DEF PairOK, CallsOK, CallOK, Holds, Lacks, Pages, Unaware
    <2> QED
      BY <1>1, <2>1 DEF PairOK, CallsOK
  <1>5. ListOK(t, p)' /\ PageOK(t, p)'
    BY <1>1, <1>2 DEF PairOK, ListOK, PageOK, Unaware
  <1> QED
    BY <1>3, <1>4, <1>5 DEF PairOK

\* A tab that gets a message about the step will ask, or drop the project.
Announced(t, p, type) ==
    /\ IF type \in Updates THEN WillSee(t, p) => WillSee(t, p)' ELSE ~WillSee(t, p)'
    /\ type \in Changing \/ (members[p] = <<>> /\ ~Born(p))
    /\ Born(p)'

\* The message makes up for what the step changed.
LEMMA AnnouncedOK ==
    ASSUME TypeOK, NEW t \in Tab, NEW p \in Project, TabShape(t), PairOK(t, p),
           NEW m \in Message, m.project = p, Announced(t, p, m.type),
           mail'[t] = Append(mail[t], m), UNCHANGED <<members, work, call, place, shown, page>>
    PROVE  PairOK(t, p)'
  <1>1. /\ About(t, p)' = About(t, p) /\ Opening(t)' = Opening(t) /\ Calls(t)' = Calls(t)
    BY DEF About, Opening, Calls
  <1>2. mail[t] \in Seq(Message)
    BY DEF TypeOK
  <1>3. /\ \A types : Has(mail'[t], types, p) <=> Has(mail[t], types, p) \/ m.type \in types
        /\ m.type \notin Removals /\ Revived(mail[t], p) => Revived(mail'[t], p)
        /\ m.type \in Updates => Revived(mail'[t], p)
    BY <1>2, OneMore
  <1>4. m.type \in MessageType /\ (m.type \in Updates \/ m.type \in Removals)
    BY Kinds DEF Message
  <1>5. /\ Hears(t, p)'
        /\ Changes(t, p) => Changes(t, p)'
        /\ m.type \in Changing => Changes(t, p)'
        /\ Kept(t, p) => Kept(t, p)'
    BY <1>3, <1>4 DEF Hears, Changes, Kept, Announced
  <1>6. MailOK(t, p)'
    BY <1>3, <1>4 DEF MailOK, Announced
  <1>7. CASE m.type \in Changing
    <2>1. ASSUME NEW k \in About(t, p)
          PROVE  CallOK(t, call[t][k], p)'
      BY <1>5, <1>7, <2>1 DEF PairOK, CallsOK, CallOK, Holds, Lacks, Pages, Announced
    <2>2. CallsOK(t, p)'
      BY <1>1, <2>1 DEF PairOK, CallsOK
    <2>3. ListOK(t, p)' /\ PageOK(t, p)'
      BY <1>1, <1>5, <1>7 DEF PairOK, ListOK, PageOK
    <2> QED
      BY <1>6, <2>2, <2>3 DEF PairOK
  <1>8. CASE members[p] = <<>> /\ ~Born(p)
    <2>1. \A k \in Calls(t) : call[t][k].step # "member" \/ call[t][k].to # p
      BY <1>8 DEF TabShape, CallsShape, CallShape
    <2>2. ASSUME NEW c \in Copy
          PROVE  ~ c.row <= Len(members[p])
      BY <1>8, <2>2, LiveUpdatesAssumption DEF Copy, Row
    <2>3. \A k \in Calls(t) : call[t][k].copies[p] = NoCopy
      <3> SUFFICES ASSUME NEW k \in Calls(t), call[t][k].copies[p] # NoCopy
                   PROVE  FALSE
        OBVIOUS
      <3>1. call[t][k].copies[p] \in Copy
        BY DEF Calls, TypeOK, Call
      <3> QED
        BY <2>2, <3>1 DEF TabShape, CallsShape, CallShape
    <2>4. shown[t][p] = <<>>
      <3> SUFFICES ASSUME shown[t][p] # <<>>
                   PROVE  FALSE
        OBVIOUS
      <3>1. shown[t][p][1] \in Copy
        BY DEF TypeOK
      <3> QED
        BY <2>2, <3>1 DEF TabShape, ListShape
    <2>5. place[t] # p
      BY <1>8, NothingAssumption DEF TabShape, PageShape
    <2>6. ASSUME NEW k \in About(t, p)
          PROVE  CallOK(t, call[t][k], p)'
      <3>1. k \in Calls(t) /\ call[t][k].why = "open" /\ call[t][k].copies[p] = NoCopy
        BY <1>8, <2>3 DEF About, PairOK, CallsOK, CallOK
      <3>2. call[t][k].step = "member" => call[t][k].to = p
        BY <3>1 DEF About, TabShape, CallsShape, CallShape
      <3> QED
        BY <1>5, <2>1, <2>4, <3>1, <3>2 DEF CallOK, Holds, Lacks
    <2>7. CallsOK(t, p)'
      BY <1>1, <2>6 DEF PairOK, CallsOK
    <2>8. ListOK(t, p)' /\ PageOK(t, p)'
      BY <1>1, <1>5, <2>4, <2>5 DEF ListOK, PageOK
    <2> QED
      BY <1>6, <2>7, <2>8 DEF PairOK
  <1> QED
    BY <1>7, <1>8 DEF Announced

\* Messages, each alone, about one project.
NewsAbout(p, news) ==
    \A u \in User : news[u] = <<>> \/
        \E type \in MessageType : news[u] = <<[type |-> type, project |-> p]>>

\* Messages about a project, when each tab they do not reach need not know.
LEMMA SendOK ==
    ASSUME TypeOK, NEW p \in Project, NEW news, NEW users,
           NewsAbout(p, news), Send(p, news, users), UNCHANGED <<members, work>>,
           \A q \in Project \ {p} : ServerSame(q),
           \A t \in Tab : TabShape(t) /\ TabOK(t),
           \A t \in Tab, type \in MessageType :
               news[UserOf[t]] = <<[type |-> type, project |-> p]>> => Announced(t, p, type),
           \A t \in Tab : UserOf[t] \notin users => Unaware(t, p)
    PROVE  /\ mail' \in [Tab -> Seq(Message)] /\ misled' \in [Tab -> SUBSET Project]
           /\ \A t \in Tab : TabShape(t)' /\ TabOK(t)'
  <1>1. UNCHANGED <<online, cuts, call, place, shown, page>>
    BY DEF Send, view
  <1>2. ASSUME NEW t \in Tab
        PROVE  \/ mail'[t] = mail[t] /\ (p \in misled'[t] \/ UserOf[t] \notin users)
               \/ \E type \in MessageType :
                     /\ mail'[t] = Append(mail[t], [type |-> type, project |-> p])
                     /\ news[UserOf[t]] = <<[type |-> type, project |-> p]>>
    <2>1. UserOf[t] \in User /\ mail[t] \in Seq(Message)
      BY LiveUpdatesAssumption DEF TypeOK
    <2>2. /\ mail'[t] = IF online[t] THEN mail[t] \o news[UserOf[t]] ELSE mail[t]
          /\ UserOf[t] \in users /\ (~online[t] \/ news[UserOf[t]] = <<>>) => p \in misled'[t]
      BY DEF Send, Told
    <2>3. CASE ~online[t] \/ news[UserOf[t]] = <<>>
      <3>1. news[UserOf[t]] = <<>> => mail[t] \o news[UserOf[t]] = mail[t]
        BY <2>1, ConcatEmptySeq
      <3>2. mail'[t] = mail[t]
        BY <2>2, <2>3, <3>1
      <3>3. p \in misled'[t] \/ UserOf[t] \notin users
        BY <2>2, <2>3
      <3> QED
        BY <3>2, <3>3
    <2>4. CASE online[t] /\ news[UserOf[t]] # <<>>
      <3>1. PICK type \in MessageType : news[UserOf[t]] = <<[type |-> type, project |-> p]>>
        BY <2>1, <2>4 DEF NewsAbout
      <3>2. [type |-> type, project |-> p] \in Message
        BY DEF Message
      <3>3. mail[t] \o <<[type |-> type, project |-> p]>> = Append(mail[t], [type |-> type, project |-> p])
        BY <2>1, <3>2
      <3> QED
        BY <2>2, <2>4, <3>1, <3>3
    <2> QED
      BY <2>3, <2>4
  <1>3. ASSUME NEW t \in Tab, NEW q \in Project \ {p}
        PROVE  MailSame(t, q)
    <2>1. CASE mail'[t] = mail[t]
      BY <2>1 DEF MailSame
    <2>2. ASSUME NEW type \in MessageType,
                 mail'[t] = Append(mail[t], [type |-> type, project |-> p])
          PROVE  MailSame(t, q)
      <3>1. mail[t] \in Seq(Message) /\ [type |-> type, project |-> p] \in Message
        BY DEF TypeOK, Message
      <3> QED
        BY <2>2, <3>1, OneMore DEF MailSame
    <2> QED
      BY <1>2, <2>1, <2>2
  <1>4. ASSUME NEW t \in Tab, p \notin misled'[t], PairOK(t, p)
        PROVE  PairOK(t, p)'
    <2>1. CASE mail'[t] = mail[t] /\ UserOf[t] \notin users
      BY <1>1, <1>4, <2>1, UnawareOK
    <2>2. ASSUME NEW type \in MessageType,
                 mail'[t] = Append(mail[t], [type |-> type, project |-> p]),
                 news[UserOf[t]] = <<[type |-> type, project |-> p]>>
          PROVE  PairOK(t, p)'
      <3> DEFINE m == [type |-> type, project |-> p]
      <3>1. m \in Message /\ m.project = p /\ m.type = type
        BY DEF Message
      <3>2. Announced(t, p, m.type)
        BY <2>2, <3>1
      <3>3. mail'[t] = Append(mail[t], m)
        BY <2>2
      <3> HIDE DEF m
      <3> QED
        BY <1>1, <1>4, <3>1, <3>2, <3>3, AnnouncedOK
    <2> QED
      BY <1>2, <1>4, <2>1, <2>2
  <1>5. ASSUME NEW t \in Tab
        PROVE  mail'[t] \in Seq(Message)
    <2>1. mail[t] \in Seq(Message)
      BY DEF TypeOK
    <2>2. CASE mail'[t] = mail[t]
      BY <2>1, <2>2
    <2>3. ASSUME NEW m \in Message, mail'[t] = Append(mail[t], m)
          PROVE  mail'[t] \in Seq(Message)
      BY <2>1, <2>3
    <2>4. \A type \in MessageType : [type |-> type, project |-> p] \in Message
      BY DEF Message
    <2> QED
      BY <1>2, <2>2, <2>3, <2>4
  <1>6. mail' \in [Tab -> Seq(Message)]
    <2>1. mail' = [t \in Tab |-> mail'[t]]
      BY DEF Send, Told
    <2> QED
      BY <1>5, <2>1
  <1>7. misled' \in [Tab -> SUBSET Project] /\ \A t \in Tab : misled[t] \subseteq misled'[t]
    BY DEF Send, TypeOK
  <1>8. Grows
    BY DEF Grows, TypeOK
  <1>9. \A t \in Tab : TabShape(t)' /\ TabOK(t)'
    BY <1>1, <1>3, <1>4, <1>7, <1>8, AboutOne
  <1> QED
    BY <1>6, <1>7, <1>9

\* What a handler makes sure of before it sends its messages.
MayBegin(op, p) ==
    /\ op = "add" <=> members[p] = <<>>
    /\ op \in Rows => Free(Rows \cup {"delete"}, p)
    /\ op = "work" => Free({"work", "delete"}, p)
    /\ op = "delete" => Free(Sent, p)

\* A session begins a transaction about a project, or goes on with one that has
\* not sent its messages.
Turns(s, p, x) ==
    /\ tx[s] = NoTx \/ (tx[s].op \in Unsent /\ tx[s].project = p)
    /\ MayBegin(x.op, p) /\ x.project = p
    /\ tx' = [tx EXCEPT ![s] = x]
    /\ UNCHANGED <<members, work, gone>>
    /\ changes' \in 0 .. MaxChanges

LEMMA BeginTurns ==
    ASSUME TypeOK, NEW s \in Session, NEW p \in Project, NEW users \in SUBSET User,
           NEW who \in SUBSET User, NEW op \in Unsent \cup Sent, MayBegin(op, p),
           Begin(s, op, p, users, who)
    PROVE  \E x \in Tx : Turns(s, p, x) /\ x # NoTx /\ x.op = op /\ x.users = users
  <1> DEFINE x == [op |-> op, project |-> p, users |-> users, who |-> who]
  <1>1. /\ x \in Tx /\ x # NoTx /\ x.op = op /\ x.project = p /\ x.users = users
    BY NothingAssumption DEF Tx, Sent
  <1>2. /\ tx[s] = NoTx /\ tx' = [tx EXCEPT ![s] = x] /\ UNCHANGED <<members, work, gone>>
    BY DEF Begin
  <1>3. changes' \in 0 .. MaxChanges
    BY LiveUpdatesAssumption DEF Begin, TypeOK
  <1> HIDE DEF x
  <1> QED
    BY <1>1, <1>2, <1>3 DEF Turns

LEMMA ContinueTurns ==
    ASSUME TypeOK, NEW s \in Session, tx[s] # NoTx, tx[s].op \in Unsent, NEW p, p = tx[s].project,
           NEW users \in SUBSET User, NEW op \in Unsent \cup Sent, MayBegin(op, p),
           Continue(s, op, users)
    PROVE  \E x \in Tx : Turns(s, p, x) /\ x # NoTx /\ x.op = op /\ x.users = users
  <1>1. PICK y \in Tx : y = tx[s]
    BY DEF TypeOK
  <1> DEFINE x == [y EXCEPT !.op = op, !.users = users]
  <1>2. x \in Tx /\ x.op = op /\ x.project = y.project /\ x.users = users
    BY DEF Tx, Sent
  <1>3. x # NoTx /\ x.project = p
    BY <1>1, <1>2, NothingAssumption
  <1>4. tx' = [tx EXCEPT ![s] = x]
    BY <1>1 DEF Continue, TypeOK
  <1>5. UNCHANGED <<members, work, gone>> /\ changes' \in 0 .. MaxChanges
    BY DEF Continue, TypeOK
  <1> HIDE DEF x
  <1> QED
    BY <1>1, <1>2, <1>3, <1>4, <1>5 DEF Turns

\* What the locks are then.
LEMMA TurnsOK ==
    ASSUME TypeOK, TxOK, NEW s \in Session, NEW p \in Project, NEW x \in Tx, x # NoTx,
           Turns(s, p, x)
    PROVE  /\ TxOK' /\ tx' \in [Session -> Tx \cup {NoTx}]
           /\ \A q \in Project \ {p} : ServerSame(q)
           /\ \A ops, q : Writes(s, ops, q)' <=> x.op \in ops /\ p = q
           /\ \A r \in Session \ {s} : \A ops, q : Writes(r, ops, q)' <=> Writes(r, ops, q)
           /\ \A ops \in SUBSET Sent : \A q : ~Writes(s, ops, q)
           /\ tx'[s] = x /\ \A r \in Session \ {s} : tx'[r] = tx[r]
  <1>1. /\ tx[s] = NoTx \/ (tx[s].op \in Unsent /\ tx[s].project = p)
        /\ MayBegin(x.op, p) /\ x.project = p
        /\ tx' = [tx EXCEPT ![s] = x] /\ UNCHANGED <<members, work, gone>>
    BY DEF Turns
  <1>2. tx' \in [Session -> Tx \cup {NoTx}] /\ tx'[s] = x /\ \A r \in Session \ {s} : tx'[r] = tx[r]
    BY <1>1 DEF TypeOK
  <1>3. /\ \A ops, q : Writes(s, ops, q)' <=> x.op \in ops /\ p = q
        /\ \A r \in Session \ {s} : \A ops, q : Writes(r, ops, q)' <=> Writes(r, ops, q)
    BY <1>1, <1>2 DEF Writes
  <1>4. \A ops \in SUBSET Sent : \A q : ~Writes(s, ops, q)
    BY <1>1 DEF Writes, Sent, Unsent
  <1>5. \A q \in Project \ {p} : ServerSame(q)
    BY <1>1, <1>2, OtherProjects
  <1>6. TxOK'
    <2>1. \A r \in Session : tx'[r] # NoTx => (tx'[r].op = "add" <=> members'[tx'[r].project] = <<>>)
      BY <1>1, <1>2 DEF TxOK, MayBegin
    <2>2. ASSUME NEW q \in Project, NEW r \in Session, NEW z \in Session
          PROVE  /\ Writes(r, Rows, q)' /\ Writes(z, Rows, q)' => r = z
                 /\ Writes(r, {"work"}, q)' /\ Writes(z, {"work"}, q)' => r = z
                 /\ Writes(r, {"delete"}, q)' /\ Writes(z, Sent, q)' => r = z
      <3>1. \A v \in Session : /\ x.op \in Rows => ~Writes(v, Rows, p) /\ ~Writes(v, {"delete"}, p)
                               /\ x.op = "work" => ~Writes(v, {"work"}, p) /\ ~Writes(v, {"delete"}, p)
        BY <1>1 DEF Free, Writes, MayBegin
      <3>2. \A v \in Session : x.op = "delete" => ~Writes(v, Sent, p) /\ ~Writes(v, {"delete"}, p)
        BY <1>1 DEF Free, Writes, MayBegin, Sent
      <3>3. x.op \in Sent <=> x.op \in Rows \/ x.op = "work" \/ x.op = "delete"
        BY DEF Sent, Rows
      <3>4. /\ x.op = "delete" => x.op \notin Rows /\ x.op # "work"
            /\ x.op = "work" => x.op \notin Rows
        BY DEF Rows
      <3>5. /\ Writes(r, Rows, q) /\ Writes(z, Rows, q) => r = z
            /\ Writes(r, {"work"}, q) /\ Writes(z, {"work"}, q) => r = z
            /\ Writes(r, {"delete"}, q) /\ Writes(z, Sent, q) => r = z
        BY DEF TxOK
      <3> QED
        BY <1>3, <3>1, <3>2, <3>3, <3>4, <3>5
    <2>3. \A q \in gone' : members'[q] # <<>>
      BY <1>1 DEF TxOK
    <2> QED
      BY <2>1, <2>2, <2>3 DEF TxOK
  <1> QED
    BY <1>2, <1>3, <1>4, <1>5, <1>6

\* A handler that sends its messages.
LEMMA TurnAndSend ==
    ASSUME IInv, NEW s \in Session, NEW p \in Project, NEW x \in Tx, x # NoTx, Turns(s, p, x),
           NEW news, NEW told, NewsAbout(p, news), Send(p, news, told),
           \A t \in Tab, type \in MessageType :
               news[UserOf[t]] = <<[type |-> type, project |-> p]>> => Announced(t, p, type),
           \A t \in Tab : UserOf[t] \notin told => Unaware(t, p)
    PROVE  IInv'
  <1>1. /\ TxOK' /\ tx' \in [Session -> Tx \cup {NoTx}]
        /\ \A q \in Project \ {p} : ServerSame(q)
    BY TurnsOK DEF IInv
  <1>2. UNCHANGED <<members, work, gone>> /\ changes' \in 0 .. MaxChanges
    BY DEF Turns
  <1>3. /\ mail' \in [Tab -> Seq(Message)] /\ misled' \in [Tab -> SUBSET Project]
        /\ \A t \in Tab : TabShape(t)' /\ TabOK(t)'
    BY <1>1, <1>2, SendOK DEF IInv
  <1>4. UNCHANGED <<online, cuts, call, place, shown, page>>
    BY DEF Send, view
  <1>5. TypeOK'
    BY <1>1, <1>2, <1>3, <1>4 DEF IInv, TypeOK
  <1> QED
    BY <1>1, <1>3, <1>5 DEF IInv

\* A step of a session that neither sends nor changes a project.
LEMMA NothingToTell ==
    ASSUME IInv, UNCHANGED <<members, work, mail, online, cuts, call, place, shown, page, misled>>,
           \A q \in Project : ServerSame(q)
    PROVE  \A t \in Tab : TabShape(t)' /\ TabOK(t)'
  <1> SUFFICES ASSUME NEW t \in Tab
               PROVE  TabShape(t)' /\ TabOK(t)'
    OBVIOUS
  <1>1. Grows
    BY DEF Grows, IInv, TypeOK
  <1>2. misled[t] \subseteq misled'[t] /\ misled'[t] \subseteq Project
    BY DEF IInv, TypeOK
  <1>3. TabShape(t)'
    BY <1>1, <1>2, ShapeStays DEF IInv
  <1>4. ASSUME NEW q \in Project \ misled'[t]
        PROVE  PairOK(t, q)'
    <2>1. PairOK(t, q)
      BY DEF IInv, TabOK
    <2>2. MailSame(t, q) /\ TabSame(t, q)
      BY DEF MailSame, TabSame, Opening, About, Calls
    <2> QED
      BY <2>1, <2>2, Untouched
  <1> QED
    BY <1>3, <1>4 DEF TabOK

\* A handler that only checks and reads.
LEMMA TurnOnly ==
    ASSUME IInv, NEW s \in Session, NEW p \in Project, NEW x \in Tx, x # NoTx, x.op \in Unsent,
           Turns(s, p, x), UNCHANGED <<mail, online, cuts, call, place, shown, page, misled>>
    PROVE  IInv'
  <1>1. /\ TxOK' /\ tx' \in [Session -> Tx \cup {NoTx}]
        /\ \A q \in Project \ {p} : ServerSame(q)
        /\ \A ops, q : Writes(s, ops, q)' <=> x.op \in ops /\ p = q
        /\ \A r \in Session \ {s} : \A ops, q : Writes(r, ops, q)' <=> Writes(r, ops, q)
        /\ \A ops \in SUBSET Sent : \A q : ~Writes(s, ops, q)
        /\ \A r \in Session \ {s} : tx'[r] = tx[r]
    BY TurnsOK DEF IInv
  <1>2. UNCHANGED <<members, work, gone>> /\ changes' \in 0 .. MaxChanges
    BY DEF Turns
  <1>3. ServerSame(p)
    <2>1. \A r \in Session : \A ops \in SUBSET Sent : Writes(r, ops, p)' <=> Writes(r, ops, p)
      BY <1>1 DEF Sent, Unsent
    <2>2. Rows \in SUBSET Sent /\ {"delete"} \in SUBSET Sent /\ {"add"} \in SUBSET Sent
      BY DEF Rows, Sent
    <2>3. \A r \in Session : Writes(r, Rows, p) => tx'[r].users = tx[r].users
      BY <1>1, <2>2
    <2>4. \A ops \in SUBSET Sent : Free(ops, p)' <=> Free(ops, p)
      BY <2>1 DEF Free
    <2>5. \A t \in Tab : WillSee(t, p)' <=> WillSee(t, p)
      BY <1>2, <2>1, <2>2, <2>3, <2>4 DEF WillSee, Users
    <2>6. Pending(p)' <=> Pending(p)
      BY <2>1 DEF Pending, Sent
    <2> QED
      BY <1>2, <2>2, <2>4, <2>5, <2>6 DEF ServerSame, Born
  <1>4. TypeOK'
    BY <1>1, <1>2 DEF IInv, TypeOK
  <1>5. \A q \in Project : ServerSame(q)
    BY <1>1, <1>3
  <1> QED
    BY <1>1, <1>2, <1>4, <1>5, NothingToTell DEF IInv

\* News of one type.
LEMMA NewsType ==
    ASSUME NEW p, NEW users, NEW type \in MessageType
    PROVE  /\ NewsAbout(p, News(type, p, users))
           /\ \A u \in User, ty \in MessageType :
                 News(type, p, users)[u] = <<[type |-> ty, project |-> p]>> => u \in users /\ ty = type
  <1>1. \A u \in User : News(type, p, users)[u] =
              IF u \in users THEN <<[type |-> type, project |-> p]>> ELSE <<>>
    BY DEF News
  <1>2. ASSUME NEW ty, <<[type |-> type, project |-> p]>> = <<[type |-> ty, project |-> p]>>
        PROVE  ty = type
    <2>1. [type |-> type, project |-> p] = [type |-> ty, project |-> p]
      BY <1>2
    <2> QED
      BY <2>1
  <1>3. \A ty : <<>> # <<[type |-> ty, project |-> p]>>
    OBVIOUS
  <1> QED
    BY <1>1, <1>2, <1>3 DEF NewsAbout

\* A project is added.
LEMMA AddProjectOK ==
    ASSUME IInv, NEW s \in Session, NEW p \in Project, NEW users \in SUBSET User,
           AddProject(s, p, users)
    PROVE  IInv'
  <1> DEFINE news == News("project_added", p, users)
  <1>1. /\ members[p] = <<>> /\ Free({"add"}, p) /\ Begin(s, "add", p, users, {})
        /\ Send(p, news, users)
    BY DEF AddProject
  <1>2. \A r \in Session : ~Writes(r, Sent, p) /\ p \notin gone
    BY <1>1 DEF IInv, TxOK, Writes, Free, Sent
  <1>3. Free(Rows, p) /\ Free({"delete"}, p) /\ Free(Rows \cup {"delete"}, p)
    BY <1>2 DEF Free, Writes, Sent, Rows
  <1>4. PICK x \in Tx : Turns(s, p, x) /\ x # NoTx /\ x.op = "add" /\ x.users = users
    <2>1. MayBegin("add", p) /\ "add" \in Unsent \cup Sent /\ {} \in SUBSET User
      BY <1>1, <1>3 DEF MayBegin, Sent
    <2> QED
      BY <1>1, <2>1, BeginTurns DEF IInv
  <1>5. /\ \A ops, q : Writes(s, ops, q)' <=> "add" \in ops /\ p = q
        /\ \A r \in Session \ {s} : \A ops, q : Writes(r, ops, q)' <=> Writes(r, ops, q)
        /\ tx'[s] = x
    BY <1>4, TurnsOK DEF IInv
  <1>6. Writes(s, Rows, p)' /\ Writes(s, {"add"}, p)' /\ Free({"delete"}, p)'
        /\ (\A r \in Session \ {s} : ~Writes(r, Rows, p)') /\ UNCHANGED <<members, work, gone>>
    BY <1>3, <1>4, <1>5 DEF Free, Rows, Turns
  <1>7. ASSUME NEW t \in Tab
        PROVE  /\ WillSee(t, p)' <=> UserOf[t] \in users
               /\ ~WillSee(t, p) /\ ~Born(p) /\ Born(p)'
    BY <1>1, <1>2, <1>3, <1>4, <1>5, <1>6 DEF WillSee, Born, Free
  <1>8. /\ NewsAbout(p, news)
        /\ \A t \in Tab, ty \in MessageType :
              news[UserOf[t]] = <<[type |-> ty, project |-> p]>> =>
                  UserOf[t] \in users /\ ty = "project_added"
    BY NewsType, LiveUpdatesAssumption DEF MessageType
  <1> HIDE DEF news
  <1>9. ASSUME NEW t \in Tab, NEW ty \in MessageType,
               news[UserOf[t]] = <<[type |-> ty, project |-> p]>>
        PROVE  Announced(t, p, ty)
    BY <1>1, <1>7, <1>8, <1>9 DEF Announced, Updates
  <1>10. \A t \in Tab : UserOf[t] \notin users => Unaware(t, p)
    BY <1>7 DEF Unaware
  <1> QED
    BY <1>1, <1>4, <1>8, <1>9, <1>10, TurnAndSend

\* The users of a project that exists are users.
LEMMA UsersType ==
    ASSUME TypeOK, NEW p \in Project, Exists(p)
    PROVE  Users(p) \in SUBSET User
  <1>1. members[p] \in Seq(SUBSET User) /\ members[p] # <<>>
    BY DEF TypeOK, Exists
  <1> QED
    BY <1>1 DEF Users

\* The row of a project that exists and that nobody writes is there to write.
LEMMA MayWriteRow ==
    ASSUME IInv, NEW p \in Project, Exists(p), Free({"row", "delete"}, p)
    PROVE  MayBegin("row", p) /\ Free(Rows, p) /\ Free({"delete"}, p)
  <1>1. members[p] # <<>> /\ p \notin gone
    BY DEF Exists
  <1>2. \A r \in Session : ~Writes(r, {"add"}, p)
    BY <1>1 DEF IInv, TxOK, Writes
  <1> QED
    BY <1>1, <1>2 DEF Free, Writes, Rows, MayBegin

\* Who will see the project then.
LEMMA RowBegun ==
    ASSUME IInv, NEW s \in Session, NEW p \in Project, NEW x \in Tx, x # NoTx, x.op = "row",
           Exists(p), Free({"row", "delete"}, p), Turns(s, p, x)
    PROVE  /\ UNCHANGED <<members, work, gone>> /\ members[p] # <<>>
           /\ \A t \in Tab : /\ WillSee(t, p) <=> UserOf[t] \in Users(p)
                             /\ WillSee(t, p)' <=> UserOf[t] \in x.users
                             /\ Born(p) /\ Born(p)'
  <1>1. members[p] # <<>> /\ p \notin gone
    BY DEF Exists
  <1>2. Free(Rows, p) /\ Free({"delete"}, p)
    BY MayWriteRow
  <1>3. /\ \A ops, q : Writes(s, ops, q)' <=> "row" \in ops /\ p = q
        /\ \A r \in Session \ {s} : \A ops, q : Writes(r, ops, q)' <=> Writes(r, ops, q)
        /\ tx'[s] = x
    BY TurnsOK DEF IInv
  <1>4. UNCHANGED <<members, work, gone>>
    BY DEF Turns
  <1>5. Writes(s, Rows, p)' /\ Free({"delete"}, p)'
        /\ \A r \in Session \ {s} : ~Writes(r, Rows, p)'
    BY <1>2, <1>3 DEF Free, Rows
  <1>6. ASSUME NEW t \in Tab
        PROVE  /\ WillSee(t, p) <=> UserOf[t] \in Users(p)
               /\ WillSee(t, p)' <=> UserOf[t] \in x.users
               /\ Born(p) /\ Born(p)'
    BY <1>1, <1>2, <1>3, <1>4, <1>5 DEF WillSee, Born, Free
  <1> QED
    BY <1>1, <1>4, <1>6

\* A project gets another name or description.
LEMMA UpdateProjectOK ==
    ASSUME IInv, NEW s \in Session, NEW p \in Project, UpdateProject(s, p)
    PROVE  IInv'
  <1>1. Exists(p) /\ Free({"row", "delete"}, p)
    BY DEF UpdateProject
  <1>2. PICK users \in SUBSET User : users = Users(p)
    BY <1>1, UsersType DEF IInv
  <1> DEFINE news == News("project_updated", p, users)
  <1>3. Begin(s, "row", p, users, {}) /\ Send(p, news, users)
    BY <1>2 DEF UpdateProject
  <1>4. PICK x \in Tx : Turns(s, p, x) /\ x # NoTx /\ x.op = "row" /\ x.users = users
    BY <1>1, <1>3, MayWriteRow, BeginTurns DEF IInv, Sent
  <1>5. /\ NewsAbout(p, news)
        /\ \A t \in Tab, ty \in MessageType :
              news[UserOf[t]] = <<[type |-> ty, project |-> p]>> =>
                  UserOf[t] \in users /\ ty = "project_updated"
    BY NewsType, LiveUpdatesAssumption DEF MessageType
  <1> HIDE DEF news
  <1>6. ASSUME NEW t \in Tab, NEW ty \in MessageType,
               news[UserOf[t]] = <<[type |-> ty, project |-> p]>>
        PROVE  Announced(t, p, ty)
    BY <1>1, <1>4, <1>5, <1>6, RowBegun DEF Announced, Updates, Changing, MessageType
  <1>7. \A t \in Tab : UserOf[t] \notin users => Unaware(t, p)
    BY <1>1, <1>2, <1>4, RowBegun DEF Unaware
  <1> QED
    BY <1>3, <1>4, <1>5, <1>6, <1>7, TurnAndSend

\* A handler that writes the users checks the user first.
LEMMA CheckUserOK ==
    ASSUME IInv, NEW s \in Session, NEW p \in Project, NEW u \in User, CheckUser(s, p, u)
    PROVE  IInv'
  <1>1. Exists(p) /\ UNCHANGED <<mail, online, cuts, call, place, shown, page, misled>>
    BY DEF CheckUser, link, view
  <1>2. PICK op \in {"addUser", "removeUser"} : Begin(s, op, p, {}, {u})
    BY DEF CheckUser
  <1>3. MayBegin(op, p) /\ op \in Unsent
    BY <1>1 DEF MayBegin, Exists, Rows, Unsent
  <1>4. PICK x \in Tx : Turns(s, p, x) /\ x # NoTx /\ x.op = op
    BY <1>2, <1>3, BeginTurns DEF IInv
  <1> QED
    BY <1>1, <1>3, <1>4, TurnOnly

\* Then it reads the users,
LEMMA GetUsersOK ==
    ASSUME IInv, NEW s \in Session, GetUsers(s)
    PROVE  IInv'
  <1>1. PICK y \in Tx : y = tx[s] /\ y # NoTx /\ y.op \in {"addUser", "removeUser"}
    BY DEF GetUsers, IInv, TypeOK
  <1>2. PICK p \in Project, who \in SUBSET User : p = y.project /\ who = y.who
    BY DEF Tx
  <1>3. Exists(p) /\ UNCHANGED <<mail, online, cuts, call, place, shown, page, misled>>
    BY <1>1, <1>2 DEF GetUsers, link, view
  <1>4. PICK all \in SUBSET User : all = Users(p)
    BY <1>3, UsersType DEF IInv
  <1>5. PICK users \in SUBSET User : Continue(s, "users", users)
    <2>1. Continue(s, "users", IF y.op = "addUser" THEN all \cup who ELSE all \ who)
      BY <1>1, <1>2, <1>4 DEF GetUsers
    <2>2. (IF y.op = "addUser" THEN all \cup who ELSE all \ who) \in SUBSET User
      OBVIOUS
    <2> QED
      BY <2>1, <2>2
  <1>6. MayBegin("users", p) /\ tx[s].op \in Unsent /\ "users" \in Unsent
    BY <1>1, <1>3 DEF MayBegin, Exists, Rows, Unsent
  <1>7. PICK x \in Tx : Turns(s, p, x) /\ x # NoTx /\ x.op = "users"
    BY <1>1, <1>2, <1>5, <1>6, ContinueTurns DEF IInv
  <1> QED
    BY <1>3, <1>6, <1>7, TurnOnly

\* and writes them, whoever they are by now.
LEMMA UpdateUsersOK ==
    ASSUME IInv, NEW s \in Session, UpdateUsers(s)
    PROVE  IInv'
  <1>1. PICK y \in Tx : y = tx[s] /\ y # NoTx /\ y.op = "users"
    BY DEF UpdateUsers, IInv, TypeOK
  <1>2. PICK p \in Project, users \in SUBSET User, removed \in SUBSET User :
            p = y.project /\ users = y.users /\ removed = y.who \ y.users
    BY DEF Tx
  <1> DEFINE updates == News("project_updated", p, users)
             removals == News("project_user_removed", p, removed)
             news == [v \in User |-> updates[v] \o removals[v]]
             told == Users(p) \cup users \cup removed
  <1>3. /\ Exists(p) /\ Free({"row", "delete"}, p) /\ Continue(s, "row", users)
        /\ Send(p, news, told)
    BY <1>1, <1>2 DEF UpdateUsers
  <1>4. PICK x \in Tx : Turns(s, p, x) /\ x # NoTx /\ x.op = "row" /\ x.users = users
    BY <1>1, <1>2, <1>3, MayWriteRow, ContinueTurns DEF IInv, Sent, Unsent
  <1>5. ASSUME NEW v \in User
        PROVE  news[v] = IF v \in removed THEN <<[type |-> "project_user_removed", project |-> p]>>
                         ELSE IF v \in users THEN <<[type |-> "project_updated", project |-> p]>> ELSE <<>>
    <2> DEFINE a == <<[type |-> "project_updated", project |-> p]>>
               b == <<[type |-> "project_user_removed", project |-> p]>>
    <2>1. a \in Seq(Message) /\ b \in Seq(Message) /\ <<>> \in Seq(Message)
      BY DEF Message, MessageType
    <2>2. /\ updates[v] = IF v \in users THEN a ELSE <<>>
          /\ removals[v] = IF v \in removed THEN b ELSE <<>>
          /\ news[v] = updates[v] \o removals[v]
          /\ v \in removed => v \notin users
      BY <1>2 DEF News
    <2> HIDE DEF a, b, updates, removals, news
    <2>3. a \o <<>> = a /\ <<>> \o b = b /\ <<>> \o <<>> = <<>>
      BY <2>1, ConcatEmptySeq
    <2>4. news[v] = IF v \in removed THEN b ELSE IF v \in users THEN a ELSE <<>>
      BY <2>2, <2>3
    <2> QED
      BY <2>4 DEF a, b
  <1> HIDE DEF news
  <1>6. /\ NewsAbout(p, news)
        /\ \A t \in Tab, ty \in MessageType :
              news[UserOf[t]] = <<[type |-> ty, project |-> p]>> =>
                  \/ UserOf[t] \in removed /\ ty = "project_user_removed"
                  \/ UserOf[t] \in users /\ ty = "project_updated"
    <2>1. NewsAbout(p, news)
      BY <1>5 DEF NewsAbout, MessageType
    <2>2. ASSUME NEW a, NEW b, <<[type |-> a, project |-> p]>> = <<[type |-> b, project |-> p]>>
          PROVE  a = b
      <3>1. [type |-> a, project |-> p] = [type |-> b, project |-> p]
        BY <2>2
      <3> QED
        BY <3>1
    <2>3. \A a : <<>> # <<[type |-> a, project |-> p]>>
      OBVIOUS
    <2> QED
      BY <1>5, <2>1, <2>2, <2>3, LiveUpdatesAssumption
  <1>7. removed \cap users = {}
    BY <1>2
  <1>8. ASSUME NEW t \in Tab, NEW ty \in MessageType,
               news[UserOf[t]] = <<[type |-> ty, project |-> p]>>
        PROVE  Announced(t, p, ty)
    BY <1>3, <1>4, <1>6, <1>7, <1>8, RowBegun DEF Announced, Updates, Changing, MessageType
  <1>9. \A t \in Tab : UserOf[t] \notin told => Unaware(t, p)
    BY <1>3, <1>4, RowBegun DEF Unaware
  <1> HIDE DEF told
  <1> QED
    BY <1>3, <1>4, <1>6, <1>8, <1>9, TurnAndSend

\* A task of the project is changed.
LEMMA UpdateTaskOK ==
    ASSUME IInv, NEW s \in Session, NEW p \in Project, UpdateTask(s, p)
    PROVE  IInv'
  <1>1. Exists(p) /\ Free({"work", "delete"}, p)
    BY DEF UpdateTask
  <1>2. PICK users \in SUBSET User : users = Users(p)
    BY <1>1, UsersType DEF IInv
  <1> DEFINE news == News("project_updated", p, users)
  <1>3. Begin(s, "work", p, users, {}) /\ Send(p, news, users)
    BY <1>2 DEF UpdateTask
  <1>4. members[p] # <<>> /\ p \notin gone /\ MayBegin("work", p)
    BY <1>1 DEF Exists, MayBegin, Rows
  <1>5. PICK x \in Tx : Turns(s, p, x) /\ x # NoTx /\ x.op = "work"
    BY <1>3, <1>4, BeginTurns DEF IInv, Sent
  <1>6. /\ \A ops, q : Writes(s, ops, q)' <=> "work" \in ops /\ p = q
        /\ \A r \in Session \ {s} : \A ops, q : Writes(r, ops, q)' <=> Writes(r, ops, q)
        /\ \A ops \in SUBSET Sent : \A q : ~Writes(s, ops, q)
        /\ \A r \in Session \ {s} : tx'[r] = tx[r]
        /\ UNCHANGED <<members, work, gone>>
    <2>1. UNCHANGED <<members, work, gone>>
      BY <1>5 DEF Turns
    <2> QED
      BY <1>5, <2>1, TurnsOK DEF IInv
  <1>7. \A r \in Session : Writes(r, Rows, p)' <=> Writes(r, Rows, p)
    BY <1>6 DEF Rows, Sent
  <1>8. Free({"delete"}, p) /\ Free({"delete"}, p)' /\ (Free(Rows, p)' <=> Free(Rows, p))
    <2>1. Free({"delete"}, p)
      BY <1>1 DEF Free, Writes
    <2> QED
      BY <1>6, <1>7, <2>1 DEF Free
  <1>9. ASSUME NEW t \in Tab
        PROVE  /\ WillSee(t, p)' <=> WillSee(t, p)
               /\ WillSee(t, p) /\ UserOf[t] \notin users => Pending(p)
               /\ Born(p) /\ Born(p)'
    <2>1. \A r \in Session : Writes(r, Rows, p) => tx'[r].users = tx[r].users
      BY <1>6, <1>7 DEF Rows
    <2>2. WillSee(t, p)' <=> WillSee(t, p)
      BY <1>6, <1>7, <1>8, <2>1 DEF WillSee, Users
    <2>3. ~Free(Rows, p) => Pending(p)
      BY DEF Free, Pending, Writes, Rows
    <2>4. WillSee(t, p) /\ UserOf[t] \notin users => ~Free(Rows, p)
      BY <1>2 DEF WillSee
    <2> QED
      BY <1>4, <1>6, <2>2, <2>3, <2>4 DEF Born
  <1>10. /\ NewsAbout(p, news)
         /\ \A t \in Tab, ty \in MessageType :
              news[UserOf[t]] = <<[type |-> ty, project |-> p]>> => ty = "project_updated"
    BY NewsType, LiveUpdatesAssumption DEF MessageType
  <1> HIDE DEF news
  <1>11. ASSUME NEW t \in Tab, NEW ty \in MessageType,
                news[UserOf[t]] = <<[type |-> ty, project |-> p]>>
         PROVE  Announced(t, p, ty)
    BY <1>9, <1>10, <1>11 DEF Announced, Updates, Changing, MessageType
  <1>12. \A t \in Tab : UserOf[t] \notin users => Unaware(t, p)
    BY <1>9 DEF Unaware
  <1> QED
    BY <1>3, <1>5, <1>10, <1>11, <1>12, TurnAndSend

\* DeleteProject reads the project.
LEMMA GetProjectToDeleteOK ==
    ASSUME IInv, NEW s \in Session, NEW p \in Project, GetProjectToDelete(s, p)
    PROVE  IInv'
  <1>1. Exists(p) /\ UNCHANGED <<mail, online, cuts, call, place, shown, page, misled>>
    BY DEF GetProjectToDelete, link, view
  <1>2. PICK users \in SUBSET User : users = Users(p)
    BY <1>1, UsersType DEF IInv
  <1>3. Begin(s, "deleting", p, users, {}) /\ MayBegin("deleting", p) /\ "deleting" \in Unsent
    BY <1>1, <1>2 DEF GetProjectToDelete, MayBegin, Exists, Rows, Unsent
  <1>4. PICK x \in Tx : Turns(s, p, x) /\ x # NoTx /\ x.op = "deleting"
    BY <1>3, BeginTurns DEF IInv
  <1> QED
    BY <1>1, <1>3, <1>4, TurnOnly

\* DeleteProject deletes it.
LEMMA DeleteProjectOK ==
    ASSUME IInv, NEW s \in Session, DeleteProject(s)
    PROVE  IInv'
  <1>1. PICK y \in Tx : y = tx[s] /\ y # NoTx /\ y.op = "deleting"
    BY DEF DeleteProject, IInv, TypeOK
  <1>2. PICK p \in Project, users \in SUBSET User : p = y.project /\ users = y.users
    BY DEF Tx
  <1> DEFINE news == News("project_deleted", p, users)
  <1>3. /\ Exists(p) /\ Free({"row", "work", "delete"}, p) /\ Continue(s, "delete", users)
        /\ Send(p, news, Users(p))
    BY <1>1, <1>2 DEF DeleteProject
  <1>4. members[p] # <<>> /\ p \notin gone
    BY <1>3 DEF Exists
  <1>5. Free(Sent, p) /\ Free(Rows, p) /\ MayBegin("delete", p)
    <2>1. \A r \in Session : ~Writes(r, {"add"}, p)
      BY <1>4 DEF IInv, TxOK, Writes
    <2> QED
      BY <1>3, <1>4, <2>1 DEF Free, Writes, Sent, Rows, MayBegin
  <1>6. PICK x \in Tx : Turns(s, p, x) /\ x # NoTx /\ x.op = "delete"
    BY <1>1, <1>2, <1>3, <1>5, ContinueTurns DEF IInv, Sent, Unsent
  <1>7. (\A ops, q : Writes(s, ops, q)' <=> "delete" \in ops /\ p = q) /\ UNCHANGED <<members, work, gone>>
    <2>1. UNCHANGED <<members, work, gone>>
      BY <1>6 DEF Turns
    <2> QED
      BY <1>6, <2>1, TurnsOK DEF IInv
  <1>8. ASSUME NEW t \in Tab
        PROVE  /\ ~WillSee(t, p)'
               /\ WillSee(t, p) => UserOf[t] \in Users(p)
               /\ Born(p) /\ Born(p)'
    <2>1. ~Free({"delete"}, p)'
      BY <1>7 DEF Free
    <2> QED
      BY <1>4, <1>5, <1>7, <2>1 DEF WillSee, Born
  <1>9. /\ NewsAbout(p, news)
        /\ \A t \in Tab, ty \in MessageType :
              news[UserOf[t]] = <<[type |-> ty, project |-> p]>> => ty = "project_deleted"
    BY NewsType, LiveUpdatesAssumption DEF MessageType
  <1> HIDE DEF news
  <1>10. ASSUME NEW t \in Tab, NEW ty \in MessageType,
                news[UserOf[t]] = <<[type |-> ty, project |-> p]>>
         PROVE  Announced(t, p, ty)
    BY <1>8, <1>9, <1>10 DEF Announced, Updates, Changing, MessageType
  <1>11. \A t \in Tab : UserOf[t] \notin Users(p) => Unaware(t, p)
    BY <1>8 DEF Unaware
  <1> QED
    BY <1>3, <1>6, <1>9, <1>10, <1>11, TurnAndSend

\* A transaction that has sent its messages ends.
LEMMA Ends ==
    ASSUME TypeOK, NEW s \in Session, tx[s] # NoTx, tx' = [tx EXCEPT ![s] = NoTx]
    PROVE  /\ tx' \in [Session -> Tx \cup {NoTx}]
           /\ tx'[s] = NoTx /\ \A r \in Session \ {s} : tx'[r] = tx[r]
           /\ \A ops, q : ~Writes(s, ops, q)'
           /\ \A r \in Session \ {s} : \A ops, q : Writes(r, ops, q)' <=> Writes(r, ops, q)
           /\ \A r \in Session : \A ops, q : Writes(r, ops, q)' => Writes(r, ops, q)
           /\ \A ops, q : Free(ops, q) => Free(ops, q)'
  <1>1. /\ tx' \in [Session -> Tx \cup {NoTx}]
        /\ tx'[s] = NoTx /\ \A r \in Session \ {s} : tx'[r] = tx[r]
    BY DEF TypeOK
  <1>2. /\ \A ops, q : ~Writes(s, ops, q)'
        /\ \A r \in Session \ {s} : \A ops, q : Writes(r, ops, q)' <=> Writes(r, ops, q)
    BY <1>1 DEF Writes
  <1>3. \A r \in Session : \A ops, q : Writes(r, ops, q)' => Writes(r, ops, q)
    BY <1>2
  <1> QED
    BY <1>1, <1>2, <1>3 DEF Free

\* A transaction commits: everybody was told before.
LEMMA CommitOK ==
    ASSUME IInv, NEW s \in Session, Commit(s)
    PROVE  IInv'
  <1>1. PICK x \in Tx : x = tx[s] /\ x # NoTx /\ x.op \notin Unsent
    BY DEF Commit, IInv, TypeOK
  <1>2. PICK p \in Project, users \in SUBSET User, op \in Sent :
            p = x.project /\ users = x.users /\ op = x.op
    BY <1>1 DEF Tx, Sent
  <1>3. /\ tx[s] # NoTx /\ tx[s].project = p /\ tx[s].users = users /\ tx[s].op = op
        /\ tx' = [tx EXCEPT ![s] = NoTx]
        /\ members' = IF op \in Rows THEN [members EXCEPT ![p] = Append(@, users)] ELSE members
        /\ work' = IF op = "work" THEN [work EXCEPT ![p] = @ + 1] ELSE work
        /\ gone' = IF op = "delete" THEN gone \cup {p} ELSE gone
        /\ UNCHANGED <<changes, mail, online, cuts, call, place, shown, page, misled>>
    BY <1>1, <1>2 DEF Commit, link, view, Rows
  <1>4. /\ tx' \in [Session -> Tx \cup {NoTx}]
        /\ tx'[s] = NoTx /\ \A r \in Session \ {s} : tx'[r] = tx[r]
        /\ \A ops, q : ~Writes(s, ops, q)'
        /\ \A r \in Session \ {s} : \A ops, q : Writes(r, ops, q)' <=> Writes(r, ops, q)
        /\ \A r \in Session : \A ops, q : Writes(r, ops, q)' => Writes(r, ops, q)
        /\ \A ops, q : Free(ops, q) => Free(ops, q)'
    BY <1>3, Ends DEF IInv
  <1>5. \A ops, q : Writes(s, ops, q) <=> op \in ops /\ p = q
    BY <1>3 DEF Writes
  <1>6. /\ members \in [Project -> Seq(SUBSET User)] /\ members[p] \in Seq(SUBSET User)
        /\ work \in [Project -> Nat] /\ work[p] \in Nat /\ changes \in 0 .. MaxChanges
        /\ MaxChanges \in Nat /\ \A q \in Project : Len(members[q]) \in Nat
    BY LiveUpdatesAssumption DEF IInv, TypeOK
  <1>7. op \in Rows =>
          /\ members'[p] = Append(members[p], users) /\ members'[p] \in Seq(SUBSET User)
          /\ Len(members'[p]) = Len(members[p]) + 1 /\ members'[p] # <<>>
          /\ members'[p][Len(members'[p])] = users
    <2>1. ASSUME op \in Rows
          PROVE  members'[p] = Append(members[p], users)
      BY <1>3, <1>6, <2>1
    <2>2. /\ Append(members[p], users) \in Seq(SUBSET User)
          /\ Len(Append(members[p], users)) = Len(members[p]) + 1
          /\ Append(members[p], users) # <<>>
          /\ Append(members[p], users)[Len(members[p]) + 1] = users
      <3>1. members[p] \in Seq(SUBSET User) /\ users \in SUBSET User
        BY <1>6
      <3> QED
        BY ONLY <3>1
    <2> QED
      BY <2>1, <2>2
  <1>8. op = "work" => work'[p] = work[p] + 1
    BY <1>3, <1>6
  <1>9. /\ op \notin Rows => members' = members
        /\ op # "work" => work' = work
        /\ \A q \in Project \ {p} : members'[q] = members[q] /\ work'[q] = work[q]
        /\ \A q \in Project \ {p} : q \in gone' <=> q \in gone
    BY <1>3, <1>6
  <1>10. \A q \in Project :
            /\ members'[q] \in Seq(SUBSET User) /\ Len(members'[q]) \in Nat /\ work'[q] \in Nat
            /\ Len(members[q]) <= Len(members'[q])
            /\ members[q] # <<>> => members'[q] # <<>>
            /\ work[q] <= work'[q]
    <2> SUFFICES ASSUME NEW q \in Project
                 PROVE  /\ members'[q] \in Seq(SUBSET User) /\ Len(members'[q]) \in Nat /\ work'[q] \in Nat
                        /\ Len(members[q]) <= Len(members'[q])
                        /\ members[q] # <<>> => members'[q] # <<>>
                        /\ work[q] <= work'[q]
      OBVIOUS
    <2>1. /\ members[q] \in Seq(SUBSET User) /\ Len(members[q]) \in Nat /\ work[q] \in Nat
      BY <1>6
    <2>2. CASE q # p
      BY <1>9, <2>1, <2>2
    <2>3. CASE q = p
      BY <1>7, <1>8, <1>9, <2>1, <2>3
    <2> QED
      BY <2>2, <2>3
  <1>11. Grows
    BY <1>10 DEF Grows
  <1>12. TxOK'
    <2>1. \A r \in Session : tx'[r] # NoTx => (tx'[r].op = "add" <=> members'[tx'[r].project] = <<>>)
      <3> SUFFICES ASSUME NEW r \in Session, tx'[r] # NoTx
                   PROVE  tx'[r].op = "add" <=> members'[tx'[r].project] = <<>>
        OBVIOUS
      <3>1. r # s /\ tx'[r] = tx[r] /\ tx[r] # NoTx
        BY <1>4
      <3>2. tx[r].op = "add" <=> members[tx[r].project] = <<>>
        BY <3>1 DEF IInv, TxOK
      <3>3. tx[r].project \in Project
        BY <3>1 DEF IInv, TypeOK, Tx
      <3>4. CASE tx[r].project = p /\ op \in Rows
        <4>1. Writes(s, Rows, p)
          BY <1>5, <3>4
        <4>2. ~Writes(r, Rows, p)
          BY <3>1, <4>1 DEF IInv, TxOK
        <4>3. tx[r].op # "add"
          BY <3>1, <3>4, <4>2 DEF Writes, Rows
        <4> QED
          BY <1>7, <3>1, <3>4, <4>3
      <3>5. CASE ~(tx[r].project = p /\ op \in Rows)
        BY <1>9, <3>1, <3>2, <3>3, <3>5
      <3> QED
        BY <3>4, <3>5
    <2>2. \A q \in gone' : members'[q] # <<>>
      <3>1. \A q \in gone : q \in Project /\ members[q] # <<>>
        BY DEF IInv, TypeOK, TxOK
      <3>2. op = "delete" => members[p] # <<>>
        BY <1>3 DEF IInv, TxOK
      <3> QED
        BY <1>3, <1>10, <3>1, <3>2
    <2>3. ASSUME NEW q \in Project, NEW r \in Session, NEW z \in Session
          PROVE  /\ Writes(r, Rows, q)' /\ Writes(z, Rows, q)' => r = z
                 /\ Writes(r, {"work"}, q)' /\ Writes(z, {"work"}, q)' => r = z
                 /\ Writes(r, {"delete"}, q)' /\ Writes(z, Sent, q)' => r = z
      BY <1>4 DEF IInv, TxOK
    <2> QED
      BY <2>1, <2>2, <2>3 DEF TxOK
  <1>13. \A q \in Project \ {p} : ServerSame(q)
    BY <1>3, <1>4, <1>9, OtherProjects
  <1>14. ASSUME NEW t \in Tab
         PROVE  Unaware(t, p)
    <2>1. Pending(p)
      BY <1>5 DEF Pending, Sent
    <2>2. CASE op \in Rows
      <3>1. \A r \in Session : Writes(r, Rows, p) <=> r = s
        BY <1>5, <2>2 DEF IInv, TxOK
      <3>2. ~Free(Rows, p) /\ Free(Rows, p)'
        BY <1>4, <3>1 DEF Free
      <3>3. WillSee(t, p) <=> p \notin gone /\ Free({"delete"}, p) /\ UserOf[t] \in users
        BY <1>3, <3>1, <3>2 DEF WillSee
      <3>4. WillSee(t, p)' <=> p \notin gone /\ Free({"delete"}, p)' /\ UserOf[t] \in users
        BY <1>3, <1>4, <1>7, <2>2, <3>1, <3>2 DEF WillSee, Users, Rows
      <3>5. Free({"delete"}, p)' <=> Free({"delete"}, p)
        BY <1>4, <1>5, <2>2 DEF Free, Rows
      <3>6. Born(p)'
        BY <1>7, <2>2 DEF Born
      <3> QED
        BY <2>1, <3>3, <3>4, <3>5, <3>6 DEF Unaware
    <2>3. CASE op = "work"
      <3>1. \A r \in Session : \A ops : "work" \notin ops => (Writes(r, ops, p)' <=> Writes(r, ops, p))
        BY <1>4, <1>5, <2>3
      <3>2. "work" \notin Rows /\ "work" \notin {"delete"} /\ "work" \notin {"add"}
        BY DEF Rows
      <3>3. \A ops : "work" \notin ops => (Free(ops, p)' <=> Free(ops, p))
        BY <3>1 DEF Free
      <3>4. \A r \in Session : Writes(r, Rows, p) => tx'[r] = tx[r]
        BY <1>4, <1>5, <2>3, <3>2
      <3>5. WillSee(t, p)' <=> WillSee(t, p)
        BY <1>3, <1>9, <2>3, <3>1, <3>2, <3>3, <3>4 DEF WillSee, Users
      <3>6. Born(p) => Born(p)'
        BY <1>9, <2>3, <3>2, <3>3 DEF Born
      <3> QED
        BY <2>1, <3>5, <3>6 DEF Unaware
    <2>4. CASE op = "delete"
      <3>1. ~Free({"delete"}, p) /\ p \in gone' /\ members[p] # <<>>
        BY <1>3, <1>5, <2>4 DEF Free, IInv, TxOK
      <3>2. Born(p)'
        BY <1>10, <3>1 DEF Born
      <3> QED
        BY <2>1, <3>1, <3>2 DEF Unaware, WillSee
    <2> QED
      BY <2>2, <2>3, <2>4 DEF Sent, Rows
  <1>15. ASSUME NEW t \in Tab, PairOK(t, p)
         PROVE  PairOK(t, p)'
    BY <1>3, <1>14, <1>15, UnawareOK
  <1>16. \A t \in Tab : misled[t] \subseteq misled'[t] /\ misled'[t] \subseteq Project
    BY <1>3 DEF IInv, TypeOK
  <1>17. \A t \in Tab : \A q \in Project \ {p} : MailSame(t, q)
    BY <1>3 DEF MailSame
  <1>18. \A t \in Tab : TabShape(t)' /\ TabOK(t)'
    BY <1>3, <1>11, <1>13, <1>15, <1>16, <1>17, AboutOne DEF IInv
  <1>19. TypeOK'
    <2>1. members' \in [Project -> Seq(SUBSET User)]
      BY <1>3, <1>6, <1>7
    <2>2. work' \in [Project -> Nat]
      BY <1>3, <1>6
    <2>3. gone' \subseteq Project
      BY <1>3 DEF IInv, TypeOK
    <2> QED
      BY <1>3, <1>4, <2>1, <2>2, <2>3 DEF IInv, TypeOK
  <1> QED
    BY <1>12, <1>18, <1>19 DEF IInv

\* A transaction does not commit: every tab may be wrong about its project.
LEMMA RollbackOK ==
    ASSUME IInv, NEW s \in Session, Rollback(s)
    PROVE  IInv'
  <1>1. PICK x \in Tx : x = tx[s] /\ x # NoTx
    BY DEF Rollback, IInv, TypeOK
  <1>2. PICK p \in Project : p = x.project
    BY <1>1 DEF Tx
  <1>3. /\ tx[s] # NoTx /\ tx[s].project = p
        /\ tx' = [tx EXCEPT ![s] = NoTx]
        /\ misled' = [t \in Tab |-> IF tx[s].op \in Unsent THEN misled[t] ELSE misled[t] \cup {p}]
        /\ UNCHANGED <<members, work, gone, changes, mail, online, cuts, call, place, shown, page>>
    BY <1>1, <1>2 DEF Rollback, link, view
  <1>4. /\ tx' \in [Session -> Tx \cup {NoTx}]
        /\ tx'[s] = NoTx /\ \A r \in Session \ {s} : tx'[r] = tx[r]
        /\ \A ops, q : ~Writes(s, ops, q)'
        /\ \A r \in Session \ {s} : \A ops, q : Writes(r, ops, q)' <=> Writes(r, ops, q)
        /\ \A r \in Session : \A ops, q : Writes(r, ops, q)' => Writes(r, ops, q)
        /\ \A ops, q : Free(ops, q) => Free(ops, q)'
    BY <1>3, Ends DEF IInv
  <1>5. TxOK'
    <2>1. \A r \in Session : tx'[r] # NoTx => (tx'[r].op = "add" <=> members'[tx'[r].project] = <<>>)
      BY <1>3, <1>4 DEF IInv, TxOK
    <2>2. \A q \in gone' : members'[q] # <<>>
      BY <1>3 DEF IInv, TxOK
    <2>3. ASSUME NEW q \in Project, NEW r \in Session, NEW z \in Session
          PROVE  /\ Writes(r, Rows, q)' /\ Writes(z, Rows, q)' => r = z
                 /\ Writes(r, {"work"}, q)' /\ Writes(z, {"work"}, q)' => r = z
                 /\ Writes(r, {"delete"}, q)' /\ Writes(z, Sent, q)' => r = z
      BY <1>4 DEF IInv, TxOK
    <2> QED
      BY <2>1, <2>2, <2>3 DEF TxOK
  <1>6. \A q \in Project \ {p} : ServerSame(q)
    BY <1>3, <1>4, OtherProjects
  <1>7. ASSUME NEW t \in Tab, p \notin misled'[t], PairOK(t, p)
        PROVE  PairOK(t, p)'
    <2>1. tx[s].op \in Unsent
      BY <1>3, <1>7
    <2>2. \A r \in Session : \A ops \in SUBSET Sent : Writes(r, ops, p)' <=> Writes(r, ops, p)
      BY <1>4, <2>1 DEF Writes, Sent, Unsent
    <2>3. Rows \in SUBSET Sent /\ {"delete"} \in SUBSET Sent /\ {"add"} \in SUBSET Sent
      BY DEF Rows, Sent
    <2>4. \A ops \in SUBSET Sent : Free(ops, p)' <=> Free(ops, p)
      BY <2>2 DEF Free
    <2>5. \A r \in Session : Writes(r, Rows, p) => tx'[r] = tx[r]
      BY <1>4, <2>1 DEF Writes, Rows, Unsent
    <2>6. (\A v \in Tab : WillSee(v, p)' <=> WillSee(v, p)) /\ (Pending(p)' <=> Pending(p))
      <3>1. Pending(p)' <=> Pending(p)
        BY <2>2 DEF Pending, Sent
      <3> QED
        BY <1>3, <2>2, <2>3, <2>4, <2>5, <3>1 DEF WillSee, Users
    <2>7. ServerSame(p)
      BY <1>3, <2>3, <2>4, <2>6 DEF ServerSame, Born
    <2>8. MailSame(t, p) /\ TabSame(t, p)
      BY <1>3 DEF MailSame, TabSame, Opening, About, Calls
    <2> QED
      BY <1>7, <2>7, <2>8, Untouched
  <1>8. /\ misled' \in [Tab -> SUBSET Project]
        /\ \A t \in Tab : misled[t] \subseteq misled'[t]
    BY <1>3 DEF IInv, TypeOK
  <1>9. Grows
    BY <1>3 DEF Grows, IInv, TypeOK
  <1>10. \A t \in Tab : \A q \in Project \ {p} : MailSame(t, q)
    BY <1>3 DEF MailSame
  <1>11. \A t \in Tab : TabShape(t)' /\ TabOK(t)'
    BY <1>3, <1>6, <1>7, <1>8, <1>9, <1>10, AboutOne DEF IInv
  <1>12. TypeOK'
    BY <1>3, <1>4, <1>8 DEF IInv, TypeOK
  <1> QED
    BY <1>5, <1>11, <1>12 DEF IInv

\* A step of a session.
LEMMA ServerStepOK ==
    ASSUME IInv, NEW s \in Session, ServerStep(s)
    PROVE  IInv'
  BY AddProjectOK, UpdateProjectOK, CheckUserOK, GetUsersOK, UpdateUsersOK, UpdateTaskOK,
     GetProjectToDeleteOK, DeleteProjectOK, CommitOK, RollbackOK DEF ServerStep

-----------------------------------------------------------------------------
(* A tab: what its steps have in common.                                   *)

\* A step of a tab, as the other tabs and the server see it.
LEMMA OwnStep ==
    ASSUME IInv, NEW t \in Tab, UNCHANGED server, \A v \in Tab \ {t} : UNCHANGED Own(v),
           TypeOK', TabShape(t)', TabOK(t)'
    PROVE  IInv'
  <1>1. TxOK'
    BY DEF IInv, TxOK, server, Writes, Free
  <1>2. ASSUME NEW v \in Tab \ {t}
        PROVE  TabShape(v)' /\ TabOK(v)'
    <2>1. TabShape(v) /\ TabOK(v)
      BY DEF IInv
    <2>2. UNCHANGED Own(v)
      OBVIOUS
    <2> QED
      BY <2>1, <2>2, TabIdle
  <1> QED
    BY <1>1, <1>2 DEF IInv

\* The k-th request of a tab becomes d, no other request changes.
Replaces(t, k, d) ==
    /\ call' \in [Tab -> [Slot -> Call \cup {NoCall}]]
    /\ call'[t][k] = d
    /\ \A j \in Slot \ {k} : call'[t][j] = call[t][j]
    /\ \A v \in Tab \ {t} : call'[v] = call[v]

\* As an assignment to it does.
LEMMA CallSet ==
    ASSUME TypeOK, NEW t \in Tab, NEW k \in Slot, NEW d \in Call \cup {NoCall},
           call' = [call EXCEPT ![t][k] = d]
    PROVE  Replaces(t, k, d)
  <1>1. call \in [Tab -> [Slot -> Call \cup {NoCall}]]
    BY DEF TypeOK
  <1> QED
    BY <1>1 DEF Replaces

\* A tab may become wrong about more projects.
LEMMA MisledMore ==
    ASSUME TypeOK, NEW t \in Tab, NEW projects \in SUBSET Project, Mislead(t, projects)
    PROVE  /\ misled' \in [Tab -> SUBSET Project]
           /\ misled'[t] = misled[t] \cup projects
           /\ \A v \in Tab \ {t} : misled'[v] = misled[v]
  BY DEF TypeOK, Mislead

\* The requests of a tab, when one of them has been answered.
LEMMA Answered ==
    ASSUME NEW t \in Tab, NEW k \in Calls(t), Replaces(t, k, NoCall)
    PROVE  /\ Calls(t)' = Calls(t) \ {k} /\ Opening(t)' = Opening(t) \ {k}
           /\ \A p : About(t, p)' = About(t, p) \ {k}
           /\ k \notin Opening(t) => Opening(t)' = Opening(t)
           /\ \A p : k \notin About(t, p) => About(t, p)' = About(t, p)
           /\ \A j \in Calls(t)' : j \in Calls(t) /\ call'[t][j] = call[t][j]
  <1>1. Calls(t)' = Calls(t) \ {k}
    BY DEF Calls, Replaces
  <1>2. \A j \in Calls(t)' : j \in Calls(t) /\ call'[t][j] = call[t][j]
    BY <1>1 DEF Calls, Replaces
  <1>3. Opening(t)' = Opening(t) \ {k}
    BY <1>1, <1>2 DEF Opening
  <1>4. ASSUME NEW p
        PROVE  About(t, p)' = About(t, p) \ {k}
    BY <1>1, <1>2 DEF About
  <1>5. k \notin Opening(t) => Opening(t)' = Opening(t)
    BY <1>3
  <1>6. \A p : k \notin About(t, p) => About(t, p)' = About(t, p)
    BY <1>4
  <1> QED
    BY <1>1, <1>2, <1>3, <1>4, <1>5, <1>6

\* When one more is sent.
LEMMA Asked ==
    ASSUME NEW t \in Tab, NEW k \in Slot \ Calls(t), NEW c \in Call, Replaces(t, k, c)
    PROVE  /\ Calls(t)' = Calls(t) \cup {k}
           /\ Opening(t)' = IF c.why = "open" THEN Opening(t) \cup {k} ELSE Opening(t)
           /\ \A p : About(t, p)' = IF p \in c.about THEN About(t, p) \cup {k} ELSE About(t, p)
           /\ \A j \in Calls(t) : call'[t][j] = call[t][j]
  <1>1. c # NoCall
    BY NothingAssumption
  <1>2. Calls(t)' = Calls(t) \cup {k}
    BY <1>1 DEF Calls, Replaces
  <1>3. \A j \in Calls(t) : call'[t][j] = call[t][j]
    BY DEF Calls, Replaces
  <1>4. call'[t][k] = c
    BY DEF Replaces
  <1>5. Opening(t)' = IF c.why = "open" THEN Opening(t) \cup {k} ELSE Opening(t)
    BY <1>2, <1>3, <1>4 DEF Opening
  <1>6. ASSUME NEW p
        PROVE  About(t, p)' = IF p \in c.about THEN About(t, p) \cup {k} ELSE About(t, p)
    BY <1>2, <1>3, <1>4 DEF About
  <1> QED
    BY <1>2, <1>3, <1>5, <1>6

\* A request of the tab, and the parts of it that fit together.
LEMMA OneCall ==
    ASSUME IInv, NEW t \in Tab, NEW k \in Slot, call[t][k] # NoCall
    PROVE  /\ k \in Calls(t) /\ call[t][k] \in Call /\ CallShape(call[t][k], place[t])
           /\ call[t][k].about \in SUBSET Project
           /\ \A p \in call[t][k].about : k \in About(t, p)
           /\ \A p : k \in About(t, p) => p \in call[t][k].about
           /\ call[t][k].why = "open" => Opening(t) = {k}
           /\ call[t][k].why # "open" => k \notin Opening(t)
           /\ call[t][k].to # Manager => call[t][k].to \in Project /\ call[t][k].about = {call[t][k].to}
           /\ call[t][k].to = Manager => call[t][k].about = Project
           /\ \A p \in call[t][k].about \ misled[t] : About(t, p) = {k} /\ CallOK(t, call[t][k], p)
  <1>1. k \in Calls(t) /\ call[t][k] \in Call
    BY DEF IInv, TypeOK, Calls
  <1>2. CallShape(call[t][k], place[t]) /\ \A i, j \in Opening(t) : i = j
    BY <1>1 DEF IInv, TabShape, CallsShape
  <1>3. /\ call[t][k].about \in SUBSET Project
        /\ call[t][k].to # Manager => call[t][k].to \in Project
    BY <1>1 DEF Call, Place
  <1>4. \A p : k \in About(t, p) <=> p \in call[t][k].about
    BY <1>1 DEF About
  <1>5. /\ call[t][k].why = "open" => Opening(t) = {k}
        /\ call[t][k].why # "open" => k \notin Opening(t)
    BY <1>1, <1>2 DEF Opening
  <1>6. ASSUME NEW p \in call[t][k].about \ misled[t]
        PROVE  About(t, p) = {k} /\ CallOK(t, call[t][k], p)
    BY <1>3, <1>4 DEF IInv, TabOK, PairOK, CallsOK
  <1> QED
    BY <1>1, <1>2, <1>3, <1>4, <1>5, <1>6 DEF CallShape

\* Numbers in copies and at the server.
LEMMA Numbers ==
    ASSUME TypeOK
    PROVE  /\ \A p \in Project : Len(members[p]) \in Nat /\ work[p] \in Nat
           /\ \A c \in Copy : c.row \in Nat /\ c.row > 0 /\ c.work \in Nat /\ c # NoCopy
           /\ \A p \in Project : members[p] # <<>> => Current(p) \in Copy
           /\ \A p \in Project, c \in Copy :
                 c.row = Len(members[p]) /\ c.work = work[p] => c = Current(p)
  <1>1. \A p \in Project : Len(members[p]) \in Nat /\ work[p] \in Nat
    BY DEF TypeOK
  <1>2. \A c \in Copy : c.row \in Nat /\ c.row > 0 /\ c.work \in Nat /\ c # NoCopy
    BY LiveUpdatesAssumption, NothingAssumption DEF Copy, Row
  <1>3. \A p \in Project : members[p] # <<>> => Current(p) \in Copy
    <2> SUFFICES ASSUME NEW p \in Project, members[p] # <<>>
                 PROVE  Current(p) \in Copy
      OBVIOUS
    <2>1. Len(members[p]) # 0
      BY DEF TypeOK
    <2>2. Len(members[p]) \in Row
      BY <1>1, <2>1 DEF Row
    <2> QED
      BY <1>1, <2>2 DEF Current, Copy
  <1>4. \A p \in Project, c \in Copy :
            c.row = Len(members[p]) /\ c.work = work[p] => c = Current(p)
    BY DEF Copy, Current
  <1> QED
    BY <1>1, <1>2, <1>3, <1>4

\* What the project page shows is not newer than the server.
LEMMA PageNotNewer ==
    ASSUME IInv, NEW t \in Tab, NEW p \in Project, Pages(t, p)
    PROVE  /\ page[t].copy \in Copy /\ page[t].copy.row \in Nat /\ page[t].copy.work \in Nat
           /\ Len(members[p]) >= page[t].copy.row /\ work[p] >= page[t].copy.work
  <1>1. page[t] \in [project : Project, copy : Copy] /\ page[t].project = p
    BY DEF IInv, TypeOK, Pages
  <1>2. page[t].copy \in Copy /\ page[t].copy.row \in Nat /\ page[t].copy.work \in Nat
    BY <1>1, Numbers DEF IInv
  <1>3. Len(members[p]) \in Nat /\ work[p] \in Nat
    BY Numbers DEF IInv
  <1>4. page[t].copy.row <= Len(members[p]) /\ page[t].copy.work <= work[p]
    BY <1>1 DEF IInv, TabShape, PageAge, Pages
  <1> QED
    BY <1>2, <1>3, <1>4

-----------------------------------------------------------------------------
(* A tab: the handlers that read for it.                                   *)

\* A request goes on: what must hold of it then.
LEMMA ReadOK ==
    ASSUME IInv, NEW t \in Tab, NEW k \in Slot, NEW c \in Call, c = call[t][k], c # NoCall,
           NEW d \in Call, Replaces(t, k, d), UNCHANGED <<server, link, view>>,
           d.why = c.why, d.about = c.about, d.to = c.to, CallShape(d, place[t]),
           NEW projects \in SUBSET Project, Mislead(t, projects),
           \A p \in c.about \ (misled[t] \cup projects) : CallOK(t, d, p)
    PROVE  IInv'
  <1>1. /\ UNCHANGED <<mail, online, cuts, place, shown, page, members, work>>
        /\ call'[t][k] = d /\ d # NoCall
        /\ \A j \in Slot \ {k} : call'[t][j] = call[t][j]
    BY NothingAssumption DEF server, link, view, Replaces
  <1>2. /\ misled' \in [Tab -> SUBSET Project]
        /\ misled'[t] = misled[t] \cup projects
        /\ \A v \in Tab \ {t} : misled'[v] = misled[v]
    BY MisledMore DEF IInv
  <1>3. TypeOK'
    BY <1>1, <1>2 DEF IInv, TypeOK, server, Replaces
  <1>4. /\ Calls(t)' = Calls(t) /\ \A j \in Calls(t) : /\ call'[t][j].why = call[t][j].why
                                                       /\ call'[t][j].about = call[t][j].about
    BY <1>1 DEF Calls
  <1>5. Opening(t)' = Opening(t) /\ \A p : About(t, p)' = About(t, p)
    BY <1>4 DEF Opening, About
  <1>6. TabShape(t) /\ TabOK(t) /\ k \in Calls(t)
    BY OneCall DEF IInv
  <1>7. TabShape(t)'
    <2>1. ASSUME NEW j \in Calls(t)
          PROVE  CallShape(call[t][j], place[t])'
      <3>1. CASE j = k
        BY <1>1, <3>1 DEF CallShape
      <3>2. CASE j # k
        <4>1. CallShape(call[t][j], place[t]) /\ call'[t][j] = call[t][j]
          BY <1>1, <1>6, <3>2 DEF TabShape, CallsShape, Calls
        <4> QED
          BY <1>1, <4>1 DEF CallShape
      <3> QED
        BY <3>1, <3>2
    <2>2. CallsShape(t)'
      BY <1>4, <1>5, <1>6, <2>1 DEF TabShape, CallsShape
    <2>3. misled[t] = Project => misled'[t] = Project
      BY <1>2
    <2> QED
      BY <1>1, <1>5, <1>6, <2>2, <2>3 DEF TabShape, PageShape, ListShape, PageAge
  <1>8. ASSUME NEW p \in Project \ misled'[t]
        PROVE  PairOK(t, p)'
    <2>1. PairOK(t, p) /\ ServerSame(p)
      BY <1>2, <1>6, ServerIdle DEF TabOK
    <2>2. MailSame(t, p)
      BY <1>1 DEF MailSame
    <2>3. CASE p \notin c.about
      <3>1. \A j \in About(t, p) : call'[t][j] = call[t][j]
        BY <1>1, <2>3 DEF About, Calls
      <3>2. TabSame(t, p)
        BY <1>1, <1>5, <3>1 DEF TabSame
      <3> QED
        BY <2>1, <2>2, <3>2, Untouched
    <2>4. CASE p \in c.about
      <3>1. About(t, p) = {k} /\ CallOK(t, d, p)
        BY <1>2, <2>4, OneCall
      <3>2. /\ WillSee(t, p)' <=> WillSee(t, p)
            /\ Pending(p)' <=> Pending(p)
            /\ Born(p) => Born(p)'
            /\ Kept(t, p)' <=> Kept(t, p)
            /\ Changes(t, p)' <=> Changes(t, p)
            /\ Hears(t, p)' <=> Hears(t, p)
            /\ Current(p)' = Current(p)
        BY <1>1, <2>1 DEF ServerSame, Kept, Changes, Hears, Current
      <3>3. MailOK(t, p)'
        BY <1>1, <2>1, <3>2 DEF PairOK, MailOK
      <3>4. CallOK(t, call[t][k], p)'
        BY <1>1, <3>1, <3>2 DEF CallOK, Holds, Lacks, Pages
      <3>5. CallsOK(t, p)'
        BY <1>5, <3>1, <3>4 DEF CallsOK
      <3>6. ListOK(t, p)'
        BY <1>1, <1>5, <2>1, <3>2 DEF PairOK, ListOK
      <3>7. PageOK(t, p)'
        <4>1. call'[t][k].why = call[t][k].why
          BY <1>4, <1>6
        <4> QED
          BY <1>1, <1>5, <2>1, <3>1, <3>2, <4>1 DEF PairOK, PageOK
      <3> QED
        BY <3>3, <3>5, <3>6, <3>7 DEF PairOK
    <2> QED
      BY <2>3, <2>4
  <1>9. ASSUME NEW v \in Tab \ {t}
        PROVE  UNCHANGED Own(v)
    BY <1>1, <1>2 DEF Own, Replaces
  <1> QED
    BY <1>3, <1>7, <1>8, <1>9, OwnStep DEF TabOK

\* While nothing is pending, the user sees what he will see.
LEMMA SeesNow ==
    ASSUME NEW t \in Tab, NEW p \in Project, ~Pending(p)
    PROVE  Sees(UserOf[t], p) <=> WillSee(t, p)
  <1>1. \A r \in Session : ~Writes(r, Rows, p) /\ ~Writes(r, {"delete"}, p)
    BY DEF Pending, Writes, Rows
  <1> QED
    BY <1>1 DEF WillSee, Sees, Exists, Free

\* What pends about the projects of a request.
Pendings(c) == {p \in c.about : Pending(p)}

\* VerifyMembershipProject
LEMMA VerifyOK ==
    ASSUME IInv, NEW t \in Tab, NEW k \in Slot, Verify(t, k)
    PROVE  IInv'
  <1>1. PICK c \in Call : c = call[t][k] /\ c # NoCall /\ c.step = "asked" /\ c.to # Manager
    BY DEF Verify, IInv, TypeOK
  <1>2. PICK projects \in SUBSET Project : projects = Pendings(c)
    BY <1>1, OneCall DEF Pendings
  <1>3. PICK step \in {"member", "failed"} :
            step = IF Sees(UserOf[t], c.to) THEN "member" ELSE "failed"
    OBVIOUS
  <1> DEFINE d == [c EXCEPT !.step = step]
  <1>4. /\ call' = [call EXCEPT ![t][k] = d] /\ Mislead(t, projects)
        /\ UNCHANGED <<server, link, view>>
    BY <1>1, <1>2, <1>3 DEF Verify, Pendings
  <1>5. /\ d \in Call /\ d.why = c.why /\ d.about = c.about /\ d.to = c.to /\ d.step = step
        /\ d.copies = c.copies
    BY DEF Call
  <1> HIDE DEF d
  <1>6. Replaces(t, k, d)
    BY <1>4, <1>5, CallSet DEF IInv
  <1>7. /\ CallShape(c, place[t]) /\ c.to \in Project /\ c.about = {c.to}
        /\ \A p \in c.about \ misled[t] : CallOK(t, c, p)
    BY <1>1, OneCall
  <1>8. CallShape(d, place[t])
    <2>1. step = "member" => members[c.to] # <<>>
      BY <1>3 DEF Sees, Exists
    <2>2. \A p \in Project : d.copies[p] = NoCopy
      BY <1>1, <1>5, <1>7 DEF CallShape
    <2> QED
      BY <1>1, <1>5, <1>7, <2>1, <2>2 DEF CallShape
  <1>9. ASSUME NEW p \in c.about \ (misled[t] \cup projects)
        PROVE  CallOK(t, d, p)
    <2>1. p = c.to /\ ~Pending(p) /\ CallOK(t, c, p)
      BY <1>2, <1>7 DEF Pendings
    <2>2. IF step = "member" THEN WillSee(t, p) ELSE ~WillSee(t, p)
      BY <1>3, <1>7, <2>1, SeesNow
    <2>3. step = "member" => Kept(t, p)
      BY <2>2 DEF Kept
    <2> QED
      BY <1>5, <2>1, <2>2, <2>3 DEF CallOK, Holds, Lacks
  <1> QED
    BY <1>1, <1>4, <1>5, <1>6, <1>8, <1>9, ReadOK

\* getProject
LEMMA GetRowOK ==
    ASSUME IInv, NEW t \in Tab, NEW k \in Slot, GetRow(t, k)
    PROVE  IInv'
  <1>1. PICK c \in Call : c = call[t][k] /\ c # NoCall /\ c.step = "member"
    BY DEF GetRow, IInv, TypeOK
  <1>2. PICK projects \in SUBSET Project : projects = Pendings(c)
    BY <1>1, OneCall DEF Pendings
  <1>3. /\ CallShape(c, place[t])
        /\ \A p \in c.about \ misled[t] : CallOK(t, c, p)
    BY <1>1, OneCall
  <1>4. PICK to \in Project : to = c.to /\ to # Manager /\ members[to] # <<>> /\ c.about = {to}
    BY <1>1, <1>3, OneCall DEF CallShape
  <1>5. PICK step \in {"rows", "failed"} : step = IF Exists(to) THEN "rows" ELSE "failed"
    OBVIOUS
  <1>6. PICK copy \in Copy \cup {NoCopy} : copy = IF Exists(to) THEN Current(to) ELSE NoCopy
    BY <1>4, Numbers DEF IInv
  <1> DEFINE d == [c EXCEPT !.step = step, !.copies = [c.copies EXCEPT ![to] = copy]]
  <1>7. Mislead(t, projects) /\ UNCHANGED <<server, link, view>>
    BY <1>1, <1>2, <1>4, <1>5, <1>6 DEF GetRow, Pendings
  <1>8. call' = [call EXCEPT ![t][k] = d]
    BY <1>1, <1>4, <1>5, <1>6 DEF GetRow, IInv, TypeOK, Call
  <1>9. /\ d \in Call /\ d.why = c.why /\ d.about = c.about /\ d.to = to /\ d.step = step
        /\ d.copies = [c.copies EXCEPT ![to] = copy] /\ c.copies \in [Project -> Copy \cup {NoCopy}]
    BY <1>4 DEF Call
  <1> HIDE DEF d
  <1>10. Replaces(t, k, d)
    BY <1>8, <1>9, CallSet DEF IInv
  <1>11. /\ d.copies[to] = copy /\ \A p \in Project \ {to} : d.copies[p] = NoCopy
         /\ copy # NoCopy <=> Exists(to)
         /\ copy # NoCopy => copy.row = Len(members[to]) /\ copy.work = work[to]
         /\ Len(members[to]) \in Nat /\ work[to] \in Nat
    BY <1>1, <1>3, <1>4, <1>6, <1>9, Numbers DEF CallShape, Current, IInv
  <1>12. CallShape(d, place[t])
    BY <1>3, <1>4, <1>5, <1>9, <1>11 DEF CallShape
  <1>13. ASSUME NEW p \in c.about \ (misled[t] \cup projects)
         PROVE  CallOK(t, d, p)
    <2>1. p = to /\ ~Pending(p) /\ CallOK(t, c, p)
      BY <1>2, <1>3, <1>4 DEF Pendings
    <2>2. Kept(t, p)
      BY <1>1, <2>1 DEF CallOK
    <2>3. ~Exists(p) => ~WillSee(t, p)
      BY <1>4, <2>1 DEF Exists, WillSee
    <2>4. shown[t][p] # <<>> => /\ Len(members[p]) >= shown[t][p][1].row
      <3> SUFFICES ASSUME shown[t][p] # <<>>
                   PROVE  Len(members[p]) >= shown[t][p][1].row
        OBVIOUS
      <3>1. shown[t][p][1] \in Copy
        BY <2>1 DEF IInv, TypeOK
      <3>2. shown[t][p][1].row \in Nat
        BY <3>1, Numbers DEF IInv
      <3>3. shown[t][p][1].row <= Len(members[p])
        BY <2>1 DEF IInv, TabShape, ListShape
      <3> QED
        BY <1>11, <2>1, <3>2, <3>3
    <2>5. c.why = "added" => shown[t][p] = <<>>
      BY <2>1 DEF CallOK
    <2>6. c.why # "open" => Born(p)
      BY <2>1 DEF CallOK
    <2>7. Pages(t, p) => Len(members[p]) >= page[t].copy.row
      BY <2>1, PageNotNewer
    <2> QED
      BY <1>5, <1>9, <1>11, <2>1, <2>2, <2>3, <2>4, <2>5, <2>6, <2>7 DEF CallOK, Holds, Lacks
  <1> QED
    BY <1>1, <1>4, <1>7, <1>9, <1>10, <1>12, <1>13, ReadOK

\* What the list shows of a project is not newer than the server.
LEMMA ListNotNewer ==
    ASSUME IInv, NEW t \in Tab, NEW p \in Project, shown[t][p] # <<>>
    PROVE  /\ shown[t][p][1] \in Copy /\ shown[t][p][1].row \in Nat /\ shown[t][p][1].work \in Nat
           /\ Len(members[p]) >= shown[t][p][1].row /\ work[p] >= shown[t][p][1].work
  <1>1. shown[t][p][1] \in Copy
    BY DEF IInv, TypeOK
  <1>2. shown[t][p][1].row \in Nat /\ shown[t][p][1].work \in Nat
    BY <1>1, Numbers DEF IInv
  <1>3. Len(members[p]) \in Nat /\ work[p] \in Nat
    BY Numbers DEF IInv
  <1>4. shown[t][p][1].row <= Len(members[p]) /\ shown[t][p][1].work <= work[p]
    BY DEF IInv, TabShape, ListShape
  <1> QED
    BY <1>1, <1>2, <1>3, <1>4

\* getProjects
LEMMA GetRowsOK ==
    ASSUME IInv, NEW t \in Tab, NEW k \in Slot, GetRows(t, k)
    PROVE  IInv'
  <1>1. PICK c \in Call : c = call[t][k] /\ c # NoCall /\ c.step = "asked" /\ c.to = Manager
    BY DEF GetRows, IInv, TypeOK
  <1>2. PICK projects \in SUBSET Project : projects = Pendings(c)
    BY <1>1, OneCall DEF Pendings
  <1>3. /\ CallShape(c, place[t]) /\ c.about = Project /\ c.why = "open"
        /\ \A p \in c.about \ misled[t] : CallOK(t, c, p)
    <2>1. /\ CallShape(c, place[t]) /\ c.about = Project
          /\ \A p \in c.about \ misled[t] : CallOK(t, c, p)
      BY <1>1, OneCall
    <2> QED
      BY <1>1, <2>1 DEF CallShape
  <1>4. \A p \in Project : Sees(UserOf[t], p) => members[p] # <<>> /\ Current(p) \in Copy
    BY Numbers DEF IInv, Sees, Exists
  <1>5. PICK copies \in [Project -> Copy \cup {NoCopy}] :
            copies = [p \in Project |-> IF Sees(UserOf[t], p) THEN Current(p) ELSE NoCopy]
    BY <1>4
  <1> DEFINE d == [c EXCEPT !.step = "rows", !.copies = copies]
  <1>6. Mislead(t, projects) /\ UNCHANGED <<server, link, view>>
    BY <1>1, <1>2 DEF GetRows, Pendings
  <1>7. call' = [call EXCEPT ![t][k] = d]
    BY <1>1, <1>5 DEF GetRows, IInv, TypeOK, Call
  <1>8. /\ d \in Call /\ d.why = c.why /\ d.about = c.about /\ d.to = c.to /\ d.step = "rows"
        /\ d.copies = copies
    BY DEF Call
  <1> HIDE DEF d
  <1>9. Replaces(t, k, d)
    BY <1>7, <1>8, CallSet DEF IInv
  <1>10. ASSUME NEW p \in Project
         PROVE  /\ Sees(UserOf[t], p) =>
                      /\ copies[p] = Current(p) /\ copies[p] # NoCopy
                      /\ copies[p].row = Len(members[p]) /\ copies[p].work = work[p]
                /\ ~Sees(UserOf[t], p) => copies[p] = NoCopy
                /\ Len(members[p]) \in Nat /\ work[p] \in Nat
    BY <1>4, <1>5, Numbers DEF IInv, Current
  <1>11. CallShape(d, place[t])
    BY <1>1, <1>3, <1>8, <1>10 DEF CallShape
  <1>12. ASSUME NEW p \in c.about \ (misled[t] \cup projects)
         PROVE  CallOK(t, d, p)
    <2>1. p \in Project /\ ~Pending(p)
      BY <1>2, <1>3 DEF Pendings
    <2>2. WillSee(t, p) <=> Sees(UserOf[t], p)
      BY <2>1, SeesNow
    <2>3. WillSee(t, p) => Kept(t, p)
      BY DEF Kept
    <2>4. shown[t][p] # <<>> => Len(members[p]) >= shown[t][p][1].row
      BY <2>1, ListNotNewer
    <2>5. Pages(t, p) => Len(members[p]) >= page[t].copy.row
      BY <2>1, PageNotNewer
    <2> QED
      BY <1>3, <1>8, <1>10, <2>1, <2>2, <2>3, <2>4, <2>5 DEF CallOK, Holds, Lacks
  <1> QED
    BY <1>1, <1>6, <1>8, <1>9, <1>11, <1>12, ReadOK

\* addTasksToProject
LEMMA GetTasksOK ==
    ASSUME IInv, NEW t \in Tab, NEW k \in Slot, GetTasks(t, k)
    PROVE  IInv'
  <1>1. PICK c \in Call : c = call[t][k] /\ c # NoCall /\ c.step = "rows"
    BY DEF GetTasks, IInv, TypeOK
  <1>2. PICK projects \in SUBSET Project : projects = Pendings(c)
    BY <1>1, OneCall DEF Pendings
  <1>3. /\ CallShape(c, place[t]) /\ c.about \in SUBSET Project
        /\ \A p \in c.about \ misled[t] : CallOK(t, c, p)
    BY <1>1, OneCall
  <1>4. PICK found \in SUBSET Project : found = {p \in Project : c.copies[p] # NoCopy}
    OBVIOUS
  <1>5. PICK step \in {"ready", "failed"} :
            step = IF found \cap gone = {} THEN "ready" ELSE "failed"
    OBVIOUS
  <1>6. ASSUME NEW p \in Project, c.copies[p] # NoCopy
        PROVE  /\ c.copies[p] \in Copy /\ c.copies[p].row \in Nat
               /\ [c.copies[p] EXCEPT !.work = work[p]] \in Copy
               /\ [c.copies[p] EXCEPT !.work = work[p]].row = c.copies[p].row
               /\ [c.copies[p] EXCEPT !.work = work[p]].work = work[p]
               /\ [c.copies[p] EXCEPT !.work = work[p]] # NoCopy
    <2>1. c.copies[p] \in Copy /\ work[p] \in Nat
      BY <1>6 DEF Call, IInv, TypeOK
    <2>2. [c.copies[p] EXCEPT !.work = work[p]] \in Copy
      BY <2>1 DEF Copy
    <2>3. /\ [c.copies[p] EXCEPT !.work = work[p]].row = c.copies[p].row
          /\ [c.copies[p] EXCEPT !.work = work[p]].work = work[p]
      BY <2>1 DEF Copy
    <2> QED
      BY <2>1, <2>2, <2>3, Numbers DEF IInv
  <1> DEFINE read == [p \in Project |-> IF p \in found THEN [c.copies[p] EXCEPT !.work = work[p]]
                                                       ELSE NoCopy]
  <1>7. read \in [Project -> Copy \cup {NoCopy}]
    BY <1>4, <1>6
  <1>8. PICK copies \in [Project -> Copy \cup {NoCopy}] : copies = read
    BY <1>7
  <1>9. \A p \in Project : /\ copies[p] = NoCopy <=> c.copies[p] = NoCopy
                           /\ copies[p] # NoCopy => /\ copies[p].row = c.copies[p].row
                                                    /\ copies[p].work = work[p]
    BY <1>4, <1>6, <1>8
  <1> DEFINE d == [c EXCEPT !.step = step, !.copies = copies]
  <1>10. Mislead(t, projects) /\ UNCHANGED <<server, link, view>>
    BY <1>1, <1>2 DEF GetTasks, Pendings
  <1>11. call' = [call EXCEPT ![t][k].step = step, ![t][k].copies = read]
    BY <1>1, <1>4, <1>5 DEF GetTasks
  <1> HIDE DEF read
  <1>12. call' = [call EXCEPT ![t][k] = d]
    BY <1>1, <1>8, <1>11 DEF IInv, TypeOK, Call
  <1>13. /\ d \in Call /\ d.why = c.why /\ d.about = c.about /\ d.to = c.to /\ d.step = step
         /\ d.copies = copies
    BY DEF Call
  <1> HIDE DEF d
  <1>14. Replaces(t, k, d)
    BY <1>12, <1>13, CallSet DEF IInv
  <1>15. \A p \in Project : Len(members[p]) \in Nat /\ work[p] \in Nat
    BY Numbers DEF IInv
  <1>16. CallShape(d, place[t])
    <2>1. c.to # Manager => c.to \in Project
      BY DEF Call, Place
    <2> QED
      BY <1>1, <1>3, <1>5, <1>9, <1>13, <1>15, <2>1 DEF CallShape
  <1>17. ASSUME NEW p \in c.about \ (misled[t] \cup projects)
         PROVE  CallOK(t, d, p)
    <2>1. p \in Project /\ ~Pending(p) /\ CallOK(t, c, p)
      BY <1>2, <1>3 DEF Pendings
    <2>2. Holds(d, p) => Holds(c, p)
      BY <1>1, <1>5, <1>9, <1>13, <2>1 DEF Holds
    <2>3. Lacks(d, p) => Lacks(c, p)
      BY <1>1, <1>5, <1>9, <1>13, <2>1 DEF Lacks
    <2>4. step = "failed" /\ c.why # "open" => ~WillSee(t, p)
      <3>1. c.why # "open" => c.about = {p}
        BY <1>3 DEF CallShape
      <3>2. found \subseteq c.about
        BY <1>3, <1>4 DEF CallShape
      <3>3. step = "failed" /\ c.why # "open" => p \in gone
        BY <1>5, <3>1, <3>2
      <3> QED
        BY <3>3 DEF WillSee
    <2>5. shown[t][p] # <<>> => work[p] >= shown[t][p][1].work
      BY <2>1, ListNotNewer
    <2>6. Holds(d, p) => d.copies[p].row = c.copies[p].row /\ d.copies[p].work = work[p]
      BY <1>9, <1>13, <2>1 DEF Holds
    <2>7. Pages(t, p) => work[p] >= page[t].copy.work
      BY <2>1, PageNotNewer
    <2> QED
      BY <1>1, <1>5, <1>13, <2>1, <2>2, <2>3, <2>4, <2>5, <2>6, <2>7 DEF CallOK
  <1> QED
    BY <1>1, <1>10, <1>13, <1>14, <1>16, <1>17, ReadOK

\* A request fails.
LEMMA FailOK ==
    ASSUME IInv, NEW t \in Tab, NEW k \in Slot, Fail(t, k)
    PROVE  IInv'
  <1>1. PICK c \in Call : c = call[t][k] /\ c # NoCall /\ c.step = "asked"
    BY DEF Fail, IInv, TypeOK
  <1>2. CallShape(c, place[t]) /\ c.about \in SUBSET Project
    BY <1>1, OneCall
  <1> DEFINE d == [c EXCEPT !.step = "failed"]
  <1>3. /\ call' = [call EXCEPT ![t][k] = d] /\ Mislead(t, c.about)
        /\ UNCHANGED <<server, link, view>>
    BY <1>1 DEF Fail
  <1>4. /\ d \in Call /\ d.why = c.why /\ d.about = c.about /\ d.to = c.to /\ d.step = "failed"
        /\ d.copies = c.copies
    BY DEF Call
  <1> HIDE DEF d
  <1>5. Replaces(t, k, d)
    BY <1>3, <1>4, CallSet DEF IInv
  <1>6. CallShape(d, place[t])
    BY <1>1, <1>2, <1>4 DEF CallShape
  <1>7. \A p \in c.about \ (misled[t] \cup c.about) : CallOK(t, d, p)
    OBVIOUS
  <1> QED
    BY <1>1, <1>2, <1>3, <1>4, <1>5, <1>6, <1>7, ReadOK

-----------------------------------------------------------------------------
(* A tab: the answers.                                                     *)

\* An answer is taken: the other requests are as they were.
LEMMA AnswerShape ==
    ASSUME IInv, NEW t \in Tab, NEW k \in Slot, call[t][k] # NoCall, Replaces(t, k, NoCall),
           UNCHANGED server, place'[t] = place[t] \/ call[t][k].why = "open"
    PROVE  CallsShape(t)' /\ (call[t][k].why = "open" => Opening(t)' = {})
  <1>1. k \in Calls(t) /\ (call[t][k].why = "open" => Opening(t) = {k})
    BY OneCall
  <1>2. /\ Opening(t)' = Opening(t) \ {k}
        /\ \A j \in Calls(t)' : j \in Calls(t) /\ j # k /\ call'[t][j] = call[t][j]
    BY <1>1, Answered DEF Calls, Replaces
  <1>3. \A i, j \in Opening(t) : i = j
    BY DEF IInv, TabShape, CallsShape
  <1>4. ASSUME NEW j \in Calls(t)'
        PROVE  CallShape(call[t][j], place[t])'
    <2>1. CallShape(call[t][j], place[t]) /\ call'[t][j] = call[t][j]
      BY <1>2 DEF IInv, TabShape, CallsShape
    <2>2. place'[t] = place[t] \/ call[t][j].why # "open"
      BY <1>1, <1>2 DEF Opening
    <2> QED
      BY <2>1, <2>2 DEF CallShape, server
  <1> QED
    BY <1>1, <1>2, <1>3, <1>4 DEF CallsShape

\* A project the request was about: no other request is.
LEMMA AnswerAbout ==
    ASSUME IInv, NEW t \in Tab, NEW k \in Slot, call[t][k] # NoCall, Replaces(t, k, NoCall),
           UNCHANGED server, mail'[t] = mail[t], NEW p \in call[t][k].about \ misled[t]
    PROVE  /\ p \in Project /\ PairOK(t, p) /\ ServerSame(p)
           /\ MailOK(t, p)' /\ CallsOK(t, p)' /\ About(t, p) = {k} /\ About(t, p)' = {}
           /\ WillSee(t, p)' <=> WillSee(t, p)
           /\ Pending(p)' <=> Pending(p)
           /\ Kept(t, p)' <=> Kept(t, p)
           /\ Changes(t, p)' <=> Changes(t, p)
           /\ Hears(t, p)' <=> Hears(t, p)
           /\ Current(p)' = Current(p)
  <1>1. k \in Calls(t) /\ About(t, p) = {k} /\ p \in Project /\ PairOK(t, p)
    BY OneCall DEF IInv, TabOK
  <1>2. About(t, p)' = {}
    BY <1>1, Answered
  <1>3. ServerSame(p)
    BY <1>1, ServerIdle
  <1>4. /\ WillSee(t, p)' <=> WillSee(t, p)
        /\ Pending(p)' <=> Pending(p)
        /\ Born(p) => Born(p)'
        /\ Kept(t, p)' <=> Kept(t, p)
        /\ Changes(t, p)' <=> Changes(t, p)
        /\ Hears(t, p)' <=> Hears(t, p)
        /\ Current(p)' = Current(p)
    BY <1>3 DEF ServerSame, Kept, Changes, Hears, Current
  <1>5. MailOK(t, p)' /\ CallsOK(t, p)'
    BY <1>1, <1>2, <1>4 DEF PairOK, MailOK, CallsOK
  <1> QED
    BY <1>1, <1>2, <1>3, <1>4, <1>5

\* A project the request was not about.
LEMMA AnswerElsewhere ==
    ASSUME IInv, NEW t \in Tab, NEW k \in Slot, call[t][k] # NoCall, Replaces(t, k, NoCall),
           UNCHANGED server, mail'[t] = mail[t], place'[t] = place[t],
           NEW p \in Project \ misled[t], p \notin call[t][k].about, call[t][k].why # "open",
           shown'[t][p] = shown[t][p], place[t] = p \/ Pages(t, p)' => page'[t] = page[t]
    PROVE  PairOK(t, p)'
  <1>1. k \in Calls(t) /\ k \notin About(t, p) /\ k \notin Opening(t)
    BY OneCall
  <1>2. About(t, p)' = About(t, p) /\ Opening(t)' = Opening(t)
    BY <1>1, Answered
  <1>3. \A j \in About(t, p) : call'[t][j] = call[t][j]
    BY <1>1 DEF About, Calls, Replaces
  <1>4. TabSame(t, p) /\ MailSame(t, p)
    BY <1>2, <1>3 DEF TabSame, MailSame
  <1>5. PairOK(t, p) /\ ServerSame(p)
    BY ServerIdle DEF IInv, TabOK
  <1> QED
    BY <1>4, <1>5, Untouched

\* A copy that no message will change is the project as it is.
LEMMA TrueCopy ==
    ASSUME IInv, NEW t \in Tab, NEW p \in Project, NEW c \in Call, CallOK(t, c, p),
           c.step = "ready", c.copies[p] # NoCopy
    PROVE  /\ Kept(t, p) /\ c.copies[p] \in Copy
           /\ ~Changes(t, p) => ~Pending(p) /\ c.copies[p] = Current(p)
  <1>1. Holds(c, p) /\ c.copies[p] \in Copy
    BY DEF Holds, Call
  <1> QED
    BY <1>1, Numbers DEF CallOK, IInv

\* An answer that is an error.
LEMMA ErrorOK ==
    ASSUME IInv, NEW t \in Tab, NEW k \in Slot, Error(t, k)
    PROVE  IInv'
  <1>1. PICK c \in Call : c = call[t][k] /\ c # NoCall /\ c.step = "failed"
    BY DEF Error, IInv, TypeOK
  <1> DEFINE projects == IF c.why = "open" THEN Project ELSE {}
  <1>2. Mislead(t, projects) /\ UNCHANGED <<server, link, view>> /\ Replaces(t, k, NoCall)
    BY <1>1, CallSet DEF Error, IInv
  <1>3. UNCHANGED <<mail, online, cuts, place, shown, page, members, work>>
    BY <1>2 DEF server, link, view
  <1>4. projects \in SUBSET Project
    OBVIOUS
  <1>5. /\ misled' \in [Tab -> SUBSET Project] /\ misled'[t] = misled[t] \cup projects
        /\ \A v \in Tab \ {t} : misled'[v] = misled[v]
    BY <1>2, <1>4, MisledMore DEF IInv
  <1>6. TypeOK'
    BY <1>2, <1>3, <1>5 DEF IInv, TypeOK, server, Replaces
  <1>7. k \in Calls(t) /\ (c.why # "open" => k \notin Opening(t))
        /\ \A p \in c.about \ misled[t] : CallOK(t, c, p)
    BY <1>1, OneCall
  <1>8. c.why # "open" => Opening(t)' = Opening(t)
    BY <1>2, <1>7, Answered
  <1>9. TabShape(t)'
    <2>1. CallsShape(t)'
      BY <1>1, <1>2, <1>3, AnswerShape
    <2>2. PageShape(t)'
      <3>1. PageShape(t)
        BY DEF IInv, TabShape
      <3>2. c.why = "open" => misled'[t] = Project
        BY <1>5 DEF IInv, TypeOK
      <3>3. misled[t] = Project => misled'[t] = Project
        BY <1>5
      <3> QED
        BY <1>3, <1>8, <3>1, <3>2, <3>3 DEF PageShape
    <2>3. ListShape(t)' /\ PageAge(t)'
      BY <1>3 DEF IInv, TabShape, ListShape, PageAge
    <2> QED
      BY <2>1, <2>2, <2>3 DEF TabShape
  <1>10. ASSUME NEW p \in Project \ misled'[t]
         PROVE  PairOK(t, p)'
    <2>1. c.why # "open" /\ p \notin misled[t]
      BY <1>5
    <2>2. CASE p \notin c.about
      BY <1>1, <1>2, <1>3, <2>1, <2>2, AnswerElsewhere
    <2>3. CASE p \in c.about
      <3>1. Changes(t, p) \/ ~WillSee(t, p)
        BY <1>1, <1>7, <2>1, <2>3 DEF CallOK
      <3>2. /\ Changes(t, p) => Hears(t, p)
            /\ Kept(t, p) => Changes(t, p)
        BY <3>1, HasWider, Kinds DEF Changes, Hears, Kept
      <3>3. /\ PairOK(t, p) /\ MailOK(t, p)' /\ CallsOK(t, p)'
            /\ WillSee(t, p)' <=> WillSee(t, p)
            /\ Kept(t, p)' <=> Kept(t, p)
            /\ Changes(t, p)' <=> Changes(t, p)
            /\ Hears(t, p)' <=> Hears(t, p)
        BY <1>1, <1>2, <1>3, <2>1, <2>3, AnswerAbout
      <3>4. ListOK(t, p)'
        BY <1>3, <1>8, <2>1, <3>1, <3>2, <3>3 DEF PairOK, ListOK
      <3>5. PageOK(t, p)'
        BY <1>3, <1>8, <2>1, <3>2, <3>3 DEF PairOK, PageOK
      <3> QED
        BY <3>3, <3>4, <3>5 DEF PairOK
    <2> QED
      BY <2>2, <2>3
  <1>11. ASSUME NEW v \in Tab \ {t}
         PROVE  UNCHANGED Own(v)
    BY <1>2, <1>3, <1>5 DEF Own, Replaces
  <1> QED
    BY <1>2, <1>6, <1>9, <1>10, <1>11, OwnStep DEF TabOK

\* The list opens with the answer.
LEMMA OpenListOK ==
    ASSUME IInv, NEW t \in Tab, NEW k \in Slot, OpenList(t, k)
    PROVE  IInv'
  <1>1. PICK c \in Call : /\ c = call[t][k] /\ c # NoCall /\ c.step = "ready" /\ c.why = "open"
                          /\ c.to = Manager
    BY DEF OpenList, IInv, TypeOK
  <1> DEFINE list == [p \in Project |-> IF c.copies[p] = NoCopy THEN <<>> ELSE <<c.copies[p]>>]
  <1>2. /\ place' = [place EXCEPT ![t] = Manager] /\ page' = [page EXCEPT ![t] = NoPage]
        /\ shown' = [shown EXCEPT ![t] = list]
        /\ Replaces(t, k, NoCall) /\ UNCHANGED <<server, mail, online, cuts, misled>>
    BY <1>1, CallSet DEF OpenList, IInv, link
  <1>3. list \in [Project -> Seq(Copy)]
    <2>1. \A p \in Project : c.copies[p] \in Copy \cup {NoCopy}
      BY DEF Call
    <2> QED
      BY <2>1
  <1>4. /\ place' \in [Tab -> Place] /\ page' \in [Tab -> [project : Project, copy : Copy] \cup {NoPage}]
        /\ shown' \in [Tab -> [Project -> Seq(Copy)]]
        /\ place'[t] = Manager /\ page'[t] = NoPage /\ shown'[t] = list
        /\ \A v \in Tab \ {t} : place'[v] = place[v] /\ page'[v] = page[v] /\ shown'[v] = shown[v]
    BY <1>2, <1>3 DEF IInv, TypeOK, Place
  <1>5. TypeOK'
    BY <1>2, <1>4 DEF IInv, TypeOK, server, Replaces
  <1>6. /\ CallShape(c, place[t]) /\ c.about = Project
        /\ \A p \in c.about \ misled[t] : CallOK(t, c, p)
    BY <1>1, OneCall
  <1>7. TabShape(t)'
    <2>1. CallsShape(t)'
      BY <1>1, <1>2, AnswerShape
    <2>2. PageShape(t)' /\ PageAge(t)'
      BY <1>4 DEF PageShape, PageAge
    <2>3. ASSUME NEW p \in Project, list[p] # <<>>
          PROVE  list[p][1].row <= Len(members[p]) /\ list[p][1].work <= work[p]
      BY <1>6, <2>3 DEF CallShape
    <2> HIDE DEF list
    <2>4. ListShape(t)'
      BY <1>2, <1>4, <2>3 DEF ListShape, server
    <2> QED
      BY <2>1, <2>2, <2>4 DEF TabShape
  <1>8. ASSUME NEW p \in Project \ misled'[t]
        PROVE  PairOK(t, p)'
    <2>1. p \in c.about \ misled[t] /\ CallOK(t, c, p)
      BY <1>2, <1>6
    <2>2. /\ MailOK(t, p)' /\ CallsOK(t, p)'
          /\ WillSee(t, p)' <=> WillSee(t, p)
          /\ Pending(p)' <=> Pending(p)
          /\ Kept(t, p)' <=> Kept(t, p)
          /\ Hears(t, p)' <=> Hears(t, p)
          /\ Current(p)' = Current(p)
      BY <1>1, <1>2, <2>1, AnswerAbout
    <2>3. /\ list[p] = <<>> \/ (list[p] = <<c.copies[p]>> /\ c.copies[p] # NoCopy)
          /\ Len(list[p]) <= 1
          /\ list[p] = <<>> => c.copies[p] = NoCopy
      OBVIOUS
    <2> HIDE DEF list
    <2>4. Changes(t, p) => Hears(t, p)
      BY HasWider, Kinds DEF Changes, Hears
    <2>5. list[p] # <<>> => Kept(t, p)
                            /\ (~Changes(t, p) => ~Pending(p) /\ list[p] = <<Current(p)>>)
      BY <1>1, <2>1, <2>3, TrueCopy
    <2>6. list[p] = <<>> => Hears(t, p) \/ ~WillSee(t, p)
      BY <1>1, <2>1, <2>3 DEF CallOK, Lacks
    <2>7. ListOK(t, p)'
      BY <1>4, <2>2, <2>3, <2>4, <2>5, <2>6 DEF ListOK
    <2>8. PageOK(t, p)'
      BY <1>4, NothingAssumption DEF PageOK
    <2> QED
      BY <2>2, <2>7, <2>8 DEF PairOK
  <1>9. ASSUME NEW v \in Tab \ {t}
        PROVE  UNCHANGED Own(v)
    BY <1>2, <1>4 DEF Own, Replaces
  <1> QED
    BY <1>2, <1>5, <1>7, <1>8, <1>9, OwnStep DEF TabOK

\* The page of a project opens with the answer.
LEMMA OpenProjectOK ==
    ASSUME IInv, NEW t \in Tab, NEW k \in Slot, OpenProject(t, k)
    PROVE  IInv'
  <1>1. PICK c \in Call : /\ c = call[t][k] /\ c # NoCall /\ c.step = "ready" /\ c.why = "open"
                          /\ c.to # Manager
    BY DEF OpenProject, IInv, TypeOK
  <1>2. PICK to \in Project : to = c.to
    BY <1>1, OneCall
  <1>3. /\ CallShape(c, place[t]) /\ c.about = {to}
        /\ \A p \in c.about \ misled[t] : CallOK(t, c, p)
    BY <1>1, <1>2, OneCall
  <1>4. c.copies[to] # NoCopy /\ c.copies[to] \in Copy
    BY <1>1, <1>2, <1>3 DEF CallShape, Call
  <1>5. PICK copy \in Copy : copy = c.copies[to]
    BY <1>4
  <1> DEFINE pg == [project |-> to, copy |-> copy]
  <1>6. /\ place' = [place EXCEPT ![t] = to] /\ page' = [page EXCEPT ![t] = pg]
        /\ shown' = [shown EXCEPT ![t] = Nothing]
        /\ Replaces(t, k, NoCall) /\ UNCHANGED <<server, mail, online, cuts, misled>>
    BY <1>1, <1>2, <1>5, CallSet DEF OpenProject, IInv, link
  <1>7. pg \in [project : Project, copy : Copy] /\ pg # NoPage /\ pg.project = to /\ pg.copy = copy
    BY NothingAssumption
  <1> HIDE DEF pg
  <1>8. Nothing \in [Project -> Seq(Copy)] /\ \A p \in Project : Nothing[p] = <<>>
    BY DEF Nothing
  <1>9. /\ place' \in [Tab -> Place] /\ page' \in [Tab -> [project : Project, copy : Copy] \cup {NoPage}]
        /\ shown' \in [Tab -> [Project -> Seq(Copy)]]
        /\ place'[t] = to /\ page'[t] = pg /\ shown'[t] = Nothing
        /\ \A v \in Tab \ {t} : place'[v] = place[v] /\ page'[v] = page[v] /\ shown'[v] = shown[v]
    BY <1>6, <1>7, <1>8 DEF IInv, TypeOK, Place
  <1>10. TypeOK'
    BY <1>6, <1>9 DEF IInv, TypeOK, server, Replaces
  <1>11. TabShape(t)'
    <2>1. CallsShape(t)'
      BY <1>1, <1>6, AnswerShape
    <2>2. members[to] # <<>>
      <3>1. copy.row <= Len(members[to]) /\ copy.row \in Nat /\ copy.row > 0
        BY <1>3, <1>4, <1>5, Numbers DEF CallShape, IInv
      <3>2. members[to] = <<>> => Len(members[to]) = 0
        OBVIOUS
      <3> QED
        BY <3>1, <3>2
    <2>3. PageShape(t)' /\ PageAge(t)'
      <3>1. copy.row <= Len(members[to]) /\ copy.work <= work[to]
        BY <1>3, <1>4, <1>5 DEF CallShape
      <3> QED
        BY <1>6, <1>7, <1>9, <2>2, <3>1 DEF PageShape, PageAge, server
    <2>4. ListShape(t)'
      BY <1>8, <1>9 DEF ListShape
    <2> QED
      BY <2>1, <2>3, <2>4 DEF TabShape
  <1>12. Opening(t) = {k} /\ k \in Calls(t)
    BY <1>1, OneCall
  <1>13. ASSUME NEW p \in Project \ misled'[t]
         PROVE  PairOK(t, p)'
    <2>1. ListOK(t, p)'
      BY <1>9, NothingAssumption DEF ListOK
    <2>2. CASE p = to
      <3>1. p \in c.about \ misled[t] /\ CallOK(t, c, p)
        BY <1>3, <1>6, <2>2
      <3>2. /\ MailOK(t, p)' /\ CallsOK(t, p)'
            /\ Pending(p)' <=> Pending(p)
            /\ Kept(t, p)' <=> Kept(t, p)
            /\ Changes(t, p)' <=> Changes(t, p)
            /\ Current(p)' = Current(p)
        BY <1>1, <1>6, <3>1, AnswerAbout
      <3>3. Kept(t, p) /\ (~Changes(t, p) => ~Pending(p) /\ copy = Current(p))
        BY <1>1, <1>4, <1>5, <2>2, <3>1, TrueCopy
      <3>4. PageOK(t, p)'
        BY <1>7, <1>9, <3>2, <3>3 DEF PageOK
      <3> QED
        BY <2>1, <3>2, <3>4 DEF PairOK
    <2>3. CASE p # to
      <3>1. PairOK(t, p) /\ ServerSame(p) /\ mail'[t] = mail[t]
        BY <1>6, ServerIdle DEF IInv, TabOK
      <3>2. /\ WillSee(t, p)' <=> WillSee(t, p)
            /\ Pending(p)' <=> Pending(p)
            /\ Born(p) => Born(p)'
            /\ Kept(t, p)' <=> Kept(t, p)
            /\ Changes(t, p)' <=> Changes(t, p)
            /\ Hears(t, p)' <=> Hears(t, p)
            /\ members' = members /\ work' = work
        BY <1>6, <3>1 DEF ServerSame, Kept, Changes, Hears, server
      <3>3. k \notin About(t, p)
        BY <1>1, <1>3, <2>3 DEF About
      <3>4. /\ About(t, p)' = About(t, p)
            /\ \A j \in About(t, p) : call'[t][j] = call[t][j]
        BY <1>6, <1>12, <3>3, Answered DEF About, Calls, Replaces
      <3>5. shown'[t][p] = <<>>
        BY <1>8, <1>9
      <3>6. MailOK(t, p)'
        BY <3>1, <3>2 DEF PairOK, MailOK
      <3>7. ASSUME NEW j \in About(t, p)
            PROVE  CallOK(t, call[t][j], p)'
        BY <1>7, <1>9, <2>3, <3>1, <3>2, <3>4, <3>5 DEF PairOK, CallsOK, CallOK, Holds, Lacks, Pages
      <3>8. CallsOK(t, p)'
        BY <3>1, <3>4, <3>7 DEF PairOK, CallsOK
      <3>9. PageOK(t, p)'
        BY <1>9, <2>3 DEF PageOK
      <3> QED
        BY <2>1, <3>6, <3>8, <3>9 DEF PairOK
    <2> QED
      BY <2>2, <2>3
  <1>14. ASSUME NEW v \in Tab \ {t}
         PROVE  UNCHANGED Own(v)
    BY <1>6, <1>9 DEF Own, Replaces
  <1> QED
    BY <1>6, <1>10, <1>11, <1>13, <1>14, OwnStep DEF TabOK

\* A request for one project is answered.
LEMMA OneProject ==
    ASSUME IInv, NEW t \in Tab, NEW k \in Slot, NEW c \in Call, c = call[t][k], c # NoCall,
           c.step = "ready", c.why # "open"
    PROVE  /\ c.to \in Project /\ c.about = {c.to} /\ CallShape(c, place[t])
           /\ c.copies[c.to] \in Copy /\ c.copies[c.to] # NoCopy
           /\ c.copies[c.to].row <= Len(members[c.to]) /\ c.copies[c.to].work <= work[c.to]
           /\ k \in Calls(t) /\ k \notin Opening(t)
           /\ c.to \notin misled[t] => CallOK(t, c, c.to)
  <1>1. CallShape(c, place[t])
    BY OneCall
  <1>2. c.to # Manager
    BY <1>1 DEF CallShape
  <1>3. /\ c.to \in Project /\ c.about = {c.to} /\ k \in Calls(t) /\ k \notin Opening(t)
        /\ c.to \notin misled[t] => CallOK(t, c, c.to)
    BY <1>2, OneCall
  <1>4. c.copies[c.to] # NoCopy
    BY <1>1, <1>2 DEF CallShape
  <1>5. c.copies[c.to] \in Copy
    BY <1>3, <1>4 DEF Call
  <1> QED
    BY <1>1, <1>3, <1>4, <1>5 DEF CallShape

\* The list takes an answer: it ends up with one entry of the project.
LEMMA ListTakes ==
    ASSUME IInv, NEW t \in Tab, NEW k \in Slot, NEW c \in Call, c = call[t][k], c # NoCall,
           c.step = "ready", c.why # "open", place[t] = Manager,
           NEW to \in Project, to = c.to, NEW copy \in Copy, copy = c.copies[to],
           NEW e \in Seq(Copy), e # <<>>, e[1] = copy \/ (shown[t][to] # <<>> /\ e[1] = shown[t][to][1]),
           to \notin misled[t] /\ Opening(t) = {} => e = <<copy>>,
           shown' = [shown EXCEPT ![t][to] = e], Replaces(t, k, NoCall),
           UNCHANGED <<server, link, place, page, misled>>
    PROVE  IInv'
  <1>1. /\ UNCHANGED <<mail, online, cuts, members, work>>
    BY DEF link, server
  <1>2. /\ c.about = {to} /\ copy # NoCopy /\ k \in Calls(t) /\ k \notin Opening(t)
        /\ copy.row <= Len(members[to]) /\ copy.work <= work[to]
        /\ to \notin misled[t] => CallOK(t, c, to)
    BY OneProject
  <1>3. /\ shown' \in [Tab -> [Project -> Seq(Copy)]]
        /\ shown'[t][to] = e
        /\ \A p \in Project \ {to} : shown'[t][p] = shown[t][p]
        /\ \A v \in Tab \ {t} : shown'[v] = shown[v]
    BY DEF IInv, TypeOK
  <1>4. TypeOK'
    BY <1>1, <1>3 DEF IInv, TypeOK, server, Replaces
  <1>5. TabShape(t)'
    <2>1. CallsShape(t)'
      BY AnswerShape
    <2>2. PageShape(t)' /\ PageAge(t)'
      BY <1>1 DEF IInv, TabShape, PageShape, PageAge
    <2>3. e[1].row <= Len(members[to]) /\ e[1].work <= work[to]
      BY <1>2 DEF IInv, TabShape, ListShape
    <2>4. ListShape(t)'
      BY <1>1, <1>3, <2>3 DEF IInv, TabShape, ListShape
    <2> QED
      BY <2>1, <2>2, <2>4 DEF TabShape
  <1>6. ASSUME NEW p \in Project \ misled'[t]
        PROVE  PairOK(t, p)'
    <2>1. PageOK(t, p)'
      BY NothingAssumption DEF PageOK
    <2>2. CASE p # to
      <3>1. p \in Project \ misled[t] /\ p \notin call[t][k].about /\ call[t][k].why # "open"
            /\ mail'[t] = mail[t] /\ place'[t] = place[t] /\ shown'[t][p] = shown[t][p]
            /\ (place[t] = p \/ Pages(t, p)' => page'[t] = page[t]) /\ UNCHANGED server /\ call[t][k] # NoCall
        BY <1>1, <1>2, <1>3, <2>2
      <3> QED
        BY ONLY <3>1, IInv, t \in Tab, k \in Slot, Replaces(t, k, NoCall), AnswerElsewhere
    <2>3. CASE p = to
      <3>1. p \in c.about \ misled[t] /\ CallOK(t, c, p)
        BY <1>2, <2>3
      <3>2. /\ MailOK(t, p)' /\ CallsOK(t, p)'
            /\ WillSee(t, p)' <=> WillSee(t, p)
            /\ Pending(p)' <=> Pending(p)
            /\ Kept(t, p)' <=> Kept(t, p)
            /\ Hears(t, p)' <=> Hears(t, p)
            /\ Current(p)' = Current(p)
        BY <1>1, <3>1, AnswerAbout
      <3>3. Kept(t, p) /\ (~Changes(t, p) => ~Pending(p) /\ copy = Current(p))
        BY <1>2, <2>3, <3>1, TrueCopy
      <3>4. Changes(t, p) => Hears(t, p)
        BY HasWider, Kinds DEF Changes, Hears
      <3>5. Opening(t)' = Opening(t)
        BY <1>2, Answered
      <3> DEFINE one == <<copy>>
      <3>6. Opening(t) = {} => shown'[t][p] = one
        BY <1>3, <2>3, <3>1
      <3>7. Len(one) = 1 /\ (~Changes(t, p) => ~Pending(p) /\ one = <<Current(p)>>)
        BY <3>3
      <3> HIDE DEF one
      <3>8. ListOK(t, p)'
        <4>1. Opening(t)' = {} => shown'[t][p] = one
          BY <3>5, <3>6
        <4>2. Len(one) <= 1
          BY <3>7
        <4>3. Kept(t, p)'
          BY <3>2, <3>3
        <4>4. ~Hears(t, p)' => ~Pending(p)' /\ one = <<Current(p)'>>
          BY <3>2, <3>3, <3>4, <3>7
        <4> QED
          BY <4>1, <4>2, <4>3, <4>4 DEF ListOK
      <3> QED
        BY <2>1, <3>2, <3>8 DEF PairOK
    <2> QED
      BY <2>2, <2>3
  <1>7. ASSUME NEW v \in Tab \ {t}
        PROVE  UNCHANGED Own(v)
    BY <1>1, <1>3 DEF Own, Replaces
  <1> QED
    BY <1>4, <1>5, <1>6, <1>7, OwnStep DEF TabOK

\* The page of a project does not listen to projects that are added.
LEMMA PageIgnores ==
    ASSUME IInv, NEW t \in Tab, NEW k \in Slot, NEW c \in Call, c = call[t][k], c # NoCall,
           c.step = "ready", c.why = "added", place[t] # Manager,
           Replaces(t, k, NoCall), UNCHANGED <<server, link, place, page, shown, misled>>
    PROVE  IInv'
  <1>1. /\ UNCHANGED <<mail, online, cuts, members, work>>
    BY DEF link, server
  <1>2. c.why # "open" /\ c.about = {c.to} /\ k \notin Opening(t) /\ k \in Calls(t)
    BY OneProject
  <1>3. TypeOK'
    BY <1>1 DEF IInv, TypeOK, server, Replaces
  <1>4. Opening(t)' = Opening(t)
    BY <1>2, Answered
  <1>5. TabShape(t)'
    <2>1. CallsShape(t)'
      BY AnswerShape
    <2>2. PageShape(t)' /\ ListShape(t)' /\ PageAge(t)'
      BY <1>1, <1>4 DEF IInv, TabShape, PageShape, ListShape, PageAge
    <2> QED
      BY <2>1, <2>2 DEF TabShape
  <1>6. ASSUME NEW p \in Project \ misled'[t]
        PROVE  PairOK(t, p)'
    <2>1. CASE p \notin c.about
      <3>1. p \in Project \ misled[t] /\ p \notin call[t][k].about /\ call[t][k].why # "open"
            /\ mail'[t] = mail[t] /\ place'[t] = place[t] /\ shown'[t][p] = shown[t][p]
            /\ (place[t] = p \/ Pages(t, p)' => page'[t] = page[t]) /\ UNCHANGED server /\ call[t][k] # NoCall
        BY <1>1, <1>2, <2>1
      <3> QED
        BY ONLY <3>1, IInv, t \in Tab, k \in Slot, Replaces(t, k, NoCall), AnswerElsewhere
    <2>2. CASE p \in c.about
      <3>1. /\ MailOK(t, p)' /\ CallsOK(t, p)' /\ About(t, p) = {k} /\ PairOK(t, p)
            /\ Pending(p)' <=> Pending(p)
            /\ Kept(t, p)' <=> Kept(t, p)
            /\ Changes(t, p)' <=> Changes(t, p)
            /\ Current(p)' = Current(p)
        BY <1>1, <2>2, AnswerAbout
      <3>2. ListOK(t, p)'
        BY DEF ListOK
      <3>3. PageOK(t, p)'
        BY <1>4, <3>1 DEF PairOK, PageOK
      <3> QED
        BY <3>1, <3>2, <3>3 DEF PairOK
    <2> QED
      BY <2>1, <2>2
  <1>7. ASSUME NEW v \in Tab \ {t}
        PROVE  UNCHANGED Own(v)
    BY <1>1 DEF Own, Replaces
  <1> QED
    BY <1>3, <1>5, <1>6, <1>7, OwnStep DEF TabOK

\* An entry more.
LEMMA AppendedIs ==
    ASSUME NEW old \in Seq(Copy), NEW copy \in Copy
    PROVE  /\ Append(old, copy) \in Seq(Copy) /\ Append(old, copy) # <<>>
           /\ old = <<>> => Append(old, copy) = <<copy>> /\ Append(old, copy)[1] = copy
           /\ old # <<>> => Append(old, copy)[1] = old[1]
  <1>1. /\ Append(old, copy) \in Seq(Copy) /\ Append(old, copy) # <<>>
        /\ \A i \in 1 .. Len(old) : Append(old, copy)[i] = old[i]
    BY AppendProperties
  <1>2. old = <<>> => Append(old, copy) = <<copy>> /\ Append(old, copy)[1] = copy
    OBVIOUS
  <1>3. old # <<>> => 1 \in 1 .. Len(old)
    OBVIOUS
  <1> QED
    BY <1>1, <1>2, <1>3

\* A project is added.
LEMMA ProjectAddedOK ==
    ASSUME IInv, NEW t \in Tab, NEW k \in Slot, ProjectAdded(t, k)
    PROVE  IInv'
  <1>1. PICK c \in Call : c = call[t][k] /\ c # NoCall /\ c.step = "ready" /\ c.why = "added"
    BY DEF ProjectAdded, IInv, TypeOK
  <1>2. PICK to \in Project, copy \in Copy : to = c.to /\ copy = c.copies[to]
    BY <1>1, OneProject
  <1>3. c.about = {to} /\ (to \notin misled[t] => CallOK(t, c, to))
    BY <1>1, <1>2, OneProject
  <1>4. Replaces(t, k, NoCall) /\ UNCHANGED <<server, link, place, page, misled>>
    BY <1>1, CallSet DEF ProjectAdded, IInv
  <1>5. CASE place[t] = Manager
    <2>1. PICK old \in Seq(Copy) : old = shown[t][to]
      BY DEF IInv, TypeOK
    <2>2. PICK e \in Seq(Copy) : e = Append(old, copy)
      BY AppendedIs
    <2>3. shown' = [shown EXCEPT ![t][to] = e]
      BY <1>1, <1>2, <1>3, <1>5, <2>1, <2>2 DEF ProjectAdded
    <2>4. /\ e # <<>> /\ (old = <<>> => e = <<copy>> /\ e[1] = copy)
          /\ old # <<>> => e[1] = old[1]
      BY <2>2, AppendedIs
    <2>5. to \notin misled[t] => old = <<>>
      BY <1>1, <1>3, <2>1 DEF CallOK
    <2>6. e[1] = copy \/ (shown[t][to] # <<>> /\ e[1] = shown[t][to][1])
      BY <2>1, <2>4
    <2> QED
      BY <1>1, <1>2, <1>4, <1>5, <2>3, <2>4, <2>5, <2>6, ListTakes
  <1>6. CASE place[t] # Manager
    <2>1. shown' = shown
      BY <1>6 DEF ProjectAdded
    <2> QED
      BY <1>1, <1>4, <1>6, <2>1, PageIgnores
  <1> QED
    BY <1>5, <1>6

\* The list replaces its first entry of the project, or adds one.
LEMMA ReplacedIs ==
    ASSUME NEW old \in Seq(Copy), NEW copy \in Copy
    PROVE  /\ Replaced(old, copy) \in Seq(Copy) /\ Replaced(old, copy) # <<>>
           /\ Replaced(old, copy)[1] = copy
           /\ Len(old) <= 1 => Replaced(old, copy) = <<copy>>
  <1>1. CASE old = <<>>
    BY <1>1 DEF Replaced
  <1>2. CASE old # <<>>
    <2> DEFINE e == [old EXCEPT ![1] = copy]
    <2>1. Len(old) \in Nat /\ Len(old) >= 1 /\ 1 \in 1 .. Len(old)
      BY <1>2
    <2>2. e \in Seq(Copy) /\ Len(e) = Len(old) /\ e[1] = copy
      BY <2>1, ExceptSeq
    <2>3. Replaced(old, copy) = e
      BY <1>2 DEF Replaced
    <2> HIDE DEF e
    <2>4. ASSUME Len(e) = 1
          PROVE  e = <<copy>>
      <3>1. <<copy>> \in Seq(Copy) /\ Len(<<copy>>) = 1 /\ <<copy>>[1] = copy
        OBVIOUS
      <3>2. \A i \in 1 .. Len(e) : e[i] = <<copy>>[i]
        BY <2>2, <2>4, <3>1
      <3> QED
        BY <2>2, <2>4, <3>1, <3>2, SeqEqual
    <2>5. e # <<>>
      BY <2>1, <2>2
    <2>6. Len(old) <= 1 => Len(e) = 1
      BY <2>1, <2>2
    <2> QED
      BY <2>2, <2>3, <2>4, <2>5, <2>6
  <1> QED
    BY <1>1, <1>2

\* The list takes the answer to a change.
LEMMA ProjectChangedListOK ==
    ASSUME IInv, NEW t \in Tab, NEW k \in Slot, ProjectChangedList(t, k)
    PROVE  IInv'
  <1>1. PICK c \in Call : /\ c = call[t][k] /\ c # NoCall /\ c.step = "ready"
                          /\ c.why = "changed" /\ c.why # "open"
    BY DEF ProjectChangedList, IInv, TypeOK
  <1>2. PICK to \in Project, copy \in Copy : to = c.to /\ copy = c.copies[to]
    BY <1>1, OneProject
  <1>3. c.about = {to} /\ place[t] = Manager
    BY <1>1, <1>2, OneProject DEF ProjectChangedList
  <1>4. Replaces(t, k, NoCall) /\ UNCHANGED <<server, link, place, page, misled>>
    BY <1>1, CallSet DEF ProjectChangedList, IInv
  <1>5. PICK old \in Seq(Copy) : old = shown[t][to]
    BY DEF IInv, TypeOK
  <1>6. PICK e \in Seq(Copy) : e = Replaced(old, copy)
    BY <1>5, ReplacedIs
  <1>7. shown' = [shown EXCEPT ![t][to] = e]
    BY <1>1, <1>2, <1>3, <1>5, <1>6 DEF ProjectChangedList
  <1>8. e # <<>> /\ e[1] = copy
    BY <1>5, <1>6, ReplacedIs
  <1>9. to \notin misled[t] /\ Opening(t) = {} => e = <<copy>>
    <2>1. to \notin misled[t] /\ Opening(t) = {} => Len(old) <= 1
      BY <1>3, <1>5 DEF IInv, TabOK, PairOK, ListOK
    <2> QED
      BY <1>6, <2>1, ReplacedIs
  <1> QED
    BY <1>1, <1>2, <1>3, <1>4, <1>7, <1>8, <1>9, ListTakes

\* The page takes the project it is told.
LEMMA ProjectChangedPageOK ==
    ASSUME IInv, NEW t \in Tab, NEW k \in Slot, ProjectChangedPage(t, k)
    PROVE  IInv'
  <1>1. PICK c \in Call : /\ c = call[t][k] /\ c # NoCall /\ c.step = "ready"
                          /\ c.why = "changed" /\ c.why # "open"
    BY DEF ProjectChangedPage, IInv, TypeOK
  <1>2. PICK to \in Project, copy \in Copy : to = c.to /\ copy = c.copies[to]
    BY <1>1, OneProject
  <1>3. /\ c.about = {to} /\ place[t] # Manager /\ k \in Calls(t) /\ k \notin Opening(t)
        /\ to \notin misled[t] => CallOK(t, c, to)
    BY <1>1, <1>2, OneProject DEF ProjectChangedPage
  <1> DEFINE pg == [project |-> to, copy |-> copy]
             projects == IF to # place[t] THEN Project ELSE {}
  <1>4. /\ Replaces(t, k, NoCall) /\ UNCHANGED <<server, link, place, shown>>
        /\ page' = [page EXCEPT ![t] = pg] /\ Mislead(t, projects)
    BY <1>1, <1>2, <1>3, CallSet DEF ProjectChangedPage, IInv
  <1>5. UNCHANGED <<mail, online, cuts, members, work>>
    BY <1>4 DEF link, server
  <1>6. /\ misled' \in [Tab -> SUBSET Project] /\ misled'[t] = misled[t] \cup projects
        /\ \A v \in Tab \ {t} : misled'[v] = misled[v]
    <2>1. projects \in SUBSET Project
      OBVIOUS
    <2> HIDE DEF projects
    <2> QED
      BY <1>4, <2>1, MisledMore DEF IInv
  <1>7. pg \in [project : Project, copy : Copy] /\ pg # NoPage /\ pg.project = to /\ pg.copy = copy
    BY NothingAssumption
  <1> HIDE DEF pg
  <1>8. /\ page' \in [Tab -> [project : Project, copy : Copy] \cup {NoPage}]
        /\ page'[t] = pg /\ \A v \in Tab \ {t} : page'[v] = page[v]
    BY <1>4, <1>7 DEF IInv, TypeOK
  <1>9. TypeOK'
    BY <1>4, <1>5, <1>6, <1>8 DEF IInv, TypeOK, server, Replaces
  <1>10. TabShape(t)'
    <2>1. CallsShape(t)'
      BY <1>1, <1>4, AnswerShape
    <2>2. PageShape(t)'
      <3>1. to # place[t] => misled'[t] = Project
        BY <1>6 DEF IInv, TypeOK
      <3>2. members[place[t]] # <<>>
        BY <1>3 DEF IInv, TabShape, PageShape
      <3> QED
        BY <1>4, <1>5, <1>7, <1>8, <3>1, <3>2 DEF PageShape
    <2>3. ListShape(t)' /\ PageAge(t)'
      <3>1. copy.row <= Len(members[to]) /\ copy.work <= work[to]
        BY <1>1, <1>2, OneProject
      <3>2. PageAge(t)'
        BY <1>5, <1>7, <1>8, <3>1 DEF PageAge
      <3> QED
        BY <1>4, <1>5, <3>2 DEF IInv, TabShape, ListShape
    <2> QED
      BY <2>1, <2>2, <2>3 DEF TabShape
  <1>11. ASSUME NEW p \in Project \ misled'[t]
         PROVE  PairOK(t, p)'
    <2>1. to = place[t] /\ p \notin misled[t]
      BY <1>6
    <2>2. CASE p # to
      <3>1. p \in Project \ misled[t] /\ p \notin call[t][k].about /\ call[t][k].why # "open"
            /\ mail'[t] = mail[t] /\ place'[t] = place[t] /\ shown'[t][p] = shown[t][p]
            /\ (place[t] = p \/ Pages(t, p)' => page'[t] = page[t]) /\ UNCHANGED server /\ call[t][k] # NoCall
        BY <1>1, <1>3, <1>4, <1>5, <1>7, <1>8, <2>1, <2>2 DEF Pages
      <3> QED
        BY ONLY <3>1, IInv, t \in Tab, k \in Slot, <1>4, AnswerElsewhere
    <2>3. CASE p = to
      <3>1. p \in c.about \ misled[t] /\ CallOK(t, c, p)
        BY <1>3, <2>1, <2>3
      <3>2. /\ MailOK(t, p)' /\ CallsOK(t, p)'
            /\ Pending(p)' <=> Pending(p)
            /\ Kept(t, p)' <=> Kept(t, p)
            /\ Changes(t, p)' <=> Changes(t, p)
            /\ Current(p)' = Current(p)
        BY <1>1, <1>4, <1>5, <3>1, AnswerAbout
      <3>3. copy # NoCopy
        BY Numbers DEF IInv
      <3>4. Kept(t, p) /\ (~Changes(t, p) => ~Pending(p) /\ copy = Current(p))
        BY <1>1, <1>2, <2>3, <3>1, <3>3, TrueCopy
      <3>5. ListOK(t, p)'
        BY <1>3, <1>4 DEF ListOK
      <3>6. PageOK(t, p)'
        BY <1>7, <1>8, <3>2, <3>4 DEF PageOK
      <3> QED
        BY <3>2, <3>5, <3>6 DEF PairOK
    <2> QED
      BY <2>2, <2>3
  <1>12. ASSUME NEW v \in Tab \ {t}
         PROVE  UNCHANGED Own(v)
    BY <1>4, <1>5, <1>6, <1>8 DEF Own, Replaces
  <1> QED
    BY <1>4, <1>9, <1>10, <1>11, <1>12, OwnStep DEF TabOK

-----------------------------------------------------------------------------
(* A tab: navigation.                                                      *)

\* A request as it is sent.
LEMMA AskIs ==
    ASSUME NEW why \in {"added", "changed", "open"}, NEW about \in SUBSET Project, NEW to \in Place
    PROVE  LET c == Ask(why, about, to) IN
           /\ c \in Call /\ c # NoCall /\ c.why = why /\ c.about = about /\ c.to = to
           /\ c.step = "asked" /\ \A p \in Project : c.copies[p] = NoCopy
  <1>1. Ask(why, about, to) \in Call
    BY DEF Ask, Call
  <1> QED
    BY <1>1, NothingAssumption DEF Ask

\* The tab goes to another page, perhaps because of a message.
LEMMA OpenWithOK ==
    ASSUME IInv, NEW t \in Tab, NEW to \in Place, OpenWith(t, to), to = Manager <=> place[t] # Manager,
           UNCHANGED <<server, online, cuts, place, shown, page>>,
           mail' \in [Tab -> Seq(Message)], \A v \in Tab \ {t} : mail'[v] = mail[v],
           \A p : Has(mail'[t], MessageType, p) => Has(mail[t], MessageType, p),
           \A p : Revived(mail[t], p) => Revived(mail'[t], p)
    PROVE  IInv'
  <1> DEFINE projects == IF to = Manager THEN Project ELSE {to}
             others == [k \in Slot |-> IF k \in Opening(t) THEN NoCall ELSE call[t][k]]
  <1>1. PICK about \in SUBSET Project : about = projects
    BY DEF Place
  <1>2. PICK c \in Call : c = Ask("open", about, to)
    BY AskIs
  <1>3. PICK k \in Slot :
           /\ others[k] = NoCall
           /\ call' = [call EXCEPT ![t] = [others EXCEPT ![k] = c]]
           /\ misled' = [misled EXCEPT ![t] =
                    {p \in @ : p \notin about \/ Heard(t, p)} \cup
                    {p \in Project : About(t, p) \ Opening(t) # {}}]
    BY <1>1, <1>2 DEF OpenWith
  <1>4. /\ c # NoCall /\ c.why = "open" /\ c.about = about /\ c.to = to
        /\ c.step = "asked" /\ \A p \in Project : c.copies[p] = NoCopy
    <2> DEFINE a == Ask("open", about, to)
    <2>1. /\ a # NoCall /\ a.why = "open" /\ a.about = about /\ a.to = to
          /\ a.step = "asked" /\ \A p \in Project : a.copies[p] = NoCopy
      BY AskIs
    <2>2. c = a
      BY <1>2
    <2> HIDE DEF a
    <2> QED
      BY <2>1, <2>2
  <1>5. others \in [Slot -> Call \cup {NoCall}]
    BY DEF IInv, TypeOK
  <1>6. /\ call' \in [Tab -> [Slot -> Call \cup {NoCall}]]
        /\ call'[t][k] = c
        /\ \A j \in Slot \ {k} : call'[t][j] = others[j]
        /\ \A v \in Tab \ {t} : call'[v] = call[v]
    BY <1>3, <1>5 DEF IInv, TypeOK
  <1>7. k \notin Calls(t) \ Opening(t)
    BY <1>3 DEF Calls
  <1>8. \A j \in Slot \ {k} : /\ j \in Opening(t) => call'[t][j] = NoCall
                              /\ j \notin Opening(t) => call'[t][j] = call[t][j]
    BY <1>6
  <1> HIDE DEF projects, others
  <1>9. /\ \A j \in Calls(t)' : j = k \/ (j \in Calls(t) \ Opening(t) /\ j # k)
        /\ \A j \in Calls(t) \ Opening(t) : j # k /\ j \in Calls(t)' /\ call'[t][j] = call[t][j]
        /\ k \in Calls(t)'
    <2>1. \A j \in Slot : j \in Calls(t) <=> call[t][j] # NoCall
      BY DEF Calls
    <2>2. \A j \in Slot : j \in Calls(t)' <=> call'[t][j] # NoCall
      BY DEF Calls
    <2>3. Calls(t) \subseteq Slot /\ Calls(t)' \subseteq Slot
      BY DEF Calls
    <2> QED
      BY <1>4, <1>6, <1>7, <1>8, <2>1, <2>2, <2>3
  <1>10. Opening(t)' = {k}
    <2>1. \A j \in Calls(t) \ Opening(t) : call[t][j].why # "open"
      BY DEF Opening
    <2>2. \A j \in Calls(t)' : call'[t][j].why = "open" <=> j = k
      BY <1>4, <1>6, <1>9, <2>1
    <2> QED
      BY <1>9, <2>2 DEF Opening
  <1>11. \A v \in Tab \ {t} : misled'[v] = misled[v]
    BY <1>3 DEF IInv, TypeOK
  <1>12. /\ misled' \in [Tab -> SUBSET Project]
         /\ misled'[t] = {p \in misled[t] : p \notin about \/ Heard(t, p)} \cup
                         {p \in Project : About(t, p) \ Opening(t) # {}}
    <2> DEFINE left == {p \in misled[t] : p \notin about \/ Heard(t, p)} \cup
                         {p \in Project : About(t, p) \ Opening(t) # {}}
    <2>1. left \in SUBSET Project
      BY DEF IInv, TypeOK
    <2>2. misled' = [misled EXCEPT ![t] = left]
      BY <1>3
    <2> HIDE DEF left
    <2>3. misled' \in [Tab -> SUBSET Project] /\ misled'[t] = left
      BY <2>1, <2>2 DEF IInv, TypeOK
    <2> QED
      BY <2>3 DEF left
  <1>13. TypeOK'
    BY <1>6, <1>12 DEF IInv, TypeOK, server
  <1>14. TabShape(t)'
    <2>1. ASSUME NEW j \in Calls(t)'
          PROVE  CallShape(call[t][j], place[t])'
      <3>1. CASE j = k
        BY <1>1, <1>4, <1>6, <3>1 DEF CallShape, projects
      <3>2. CASE j # k
        <4>1. CallShape(call[t][j], place[t]) /\ call'[t][j] = call[t][j]
          BY <1>9, <3>2 DEF IInv, TabShape, CallsShape
        <4> QED
          BY <4>1 DEF CallShape, server
      <3> QED
        BY <3>1, <3>2
    <2>2. CallsShape(t)'
      BY <1>10, <2>1 DEF CallsShape
    <2>3. PageShape(t)'
      BY <1>10 DEF IInv, TabShape, PageShape, server
    <2>4. ListShape(t)' /\ PageAge(t)'
      BY DEF IInv, TabShape, ListShape, PageAge, server
    <2> QED
      BY <2>2, <2>3, <2>4 DEF TabShape
  <1>15. ASSUME NEW p \in Project \ misled'[t]
         PROVE  PairOK(t, p)'
    <2>1. About(t, p) \ Opening(t) = {} /\ (p \notin misled[t] \/ ~Hears(t, p))
      BY <1>12, HeardIsHas DEF IInv
    <2>2. ServerSame(p)
      BY ServerIdle
    <2>3. MailOK(t, p)'
      <3>1. CASE p \notin misled[t]
        <4>1. MailOK(t, p)
          BY <3>1 DEF IInv, TabOK, PairOK
        <4> QED
          BY <2>2, <4>1 DEF MailOK, ServerSame
      <3>2. CASE ~Hears(t, p)
        <4>1. ~Has(mail'[t], MessageType, p)
          BY <3>2 DEF Hears
        <4>2. Revived(mail'[t], p)
          BY <4>1, Kinds DEF Revived, Has
        <4> QED
          BY <4>1, <4>2 DEF MailOK
      <3> QED
        BY <2>1, <3>1, <3>2
    <2>4. ASSUME NEW j \in About(t, p)'
          PROVE  j = k
      <3>1. j \in Calls(t)' /\ p \in call'[t][j].about
        BY <2>4 DEF About
      <3>2. j # k => j \in About(t, p) \ Opening(t)
        BY <1>9, <3>1 DEF About
      <3> QED
        BY <2>1, <3>2
    <2>5. CallOK(t, call[t][k], p)'
      BY <1>4, <1>6 DEF CallOK, Holds, Lacks
    <2>6. CallsOK(t, p)'
      BY <2>4, <2>5 DEF CallsOK
    <2>7. ListOK(t, p)' /\ PageOK(t, p)'
      BY <1>10 DEF ListOK, PageOK
    <2> QED
      BY <2>3, <2>6, <2>7 DEF PairOK
  <1>16. ASSUME NEW v \in Tab \ {t}
         PROVE  UNCHANGED Own(v)
    BY <1>6, <1>11 DEF Own
  <1> QED
    BY <1>13, <1>14, <1>15, <1>16, OwnStep DEF TabOK

\* The user follows a link.
LEMMA OpenOK ==
    ASSUME IInv, NEW t \in Tab, NEW to \in Place, Open(t, to)
    PROVE  IInv'
  <1>1. /\ OpenWith(t, to) /\ to # place[t] /\ Manager \in {to, place[t]}
        /\ UNCHANGED <<server, mail, online, cuts, place, shown, page>>
    BY DEF Open, link, view
  <1>2. mail' \in [Tab -> Seq(Message)]
    BY <1>1 DEF IInv, TypeOK
  <1> QED
    BY <1>1, <1>2, OpenWithOK

-----------------------------------------------------------------------------
(* A tab: messages.                                                        *)

\* The first message is taken.
LEMMA TakenIs ==
    ASSUME TypeOK, NEW t \in Tab, mail[t] # <<>>, Taken(t)
    PROVE  /\ Head(mail[t]) \in Message
           /\ mail' \in [Tab -> Seq(Message)] /\ \A v \in Tab \ {t} : mail'[v] = mail[v]
           /\ UNCHANGED <<online, cuts>>
           /\ \A types, p : Has(mail[t], types, p) <=>
                 Has(mail'[t], types, p) \/ (Head(mail[t]).project = p /\ Head(mail[t]).type \in types)
           /\ \A p : Revived(mail[t], p) => Revived(mail'[t], p)
           /\ \A p : Revived(mail[t], p) /\ Head(mail[t]).project = p /\ Head(mail[t]).type \in Removals =>
                 Has(mail'[t], Updates, p)
           /\ \A p : p # Head(mail[t]).project => MailSame(t, p)
  <1>1. mail[t] \in Seq(Message) /\ Tail(mail[t]) \in Seq(Message)
    BY DEF TypeOK
  <1>2. /\ mail' \in [Tab -> Seq(Message)] /\ mail'[t] = Tail(mail[t])
        /\ \A v \in Tab \ {t} : mail'[v] = mail[v]
    BY <1>1 DEF Taken, TypeOK
  <1>3. /\ Head(mail[t]) \in Message
        /\ \A types, p : Has(mail[t], types, p) <=>
              Has(mail'[t], types, p) \/ (Head(mail[t]).project = p /\ Head(mail[t]).type \in types)
        /\ \A p : Revived(mail[t], p) => Revived(mail'[t], p)
        /\ \A p : Revived(mail[t], p) /\ Head(mail[t]).project = p /\ Head(mail[t]).type \in Removals =>
              Has(mail'[t], Updates, p)
    BY <1>1, <1>2, OneLess
  <1>4. ASSUME NEW p, p # Head(mail[t]).project
        PROVE  MailSame(t, p)
    BY <1>3, <1>4 DEF MailSame
  <1>5. UNCHANGED <<online, cuts>>
    BY DEF Taken
  <1> QED
    BY <1>2, <1>3, <1>4, <1>5

\* The list drops the project; a page of another one does nothing.
Drops(t, p) ==
    /\ shown'[t][p] = shown[t][p] \/ shown'[t][p] = <<>>
    /\ place[t] = Manager => shown'[t][p] = <<>>
    /\ place[t] # Manager => page[t].project # p

\* A removal, when the tab stays where it is.
LEMMA DropsOK ==
    ASSUME IInv, NEW t \in Tab, NEW m \in Message, m = Head(mail[t]), mail[t] # <<>>,
           m.type \in Removals, Taken(t), NEW p \in Project, p = m.project,
           Mislead(t, IF About(t, p) # {} THEN {p} ELSE {}),
           UNCHANGED <<server, call, place, page>>,
           shown' \in [Tab -> [Project -> Seq(Copy)]], \A v \in Tab \ {t} : shown'[v] = shown[v],
           \A q \in Project \ {p} : shown'[t][q] = shown[t][q],
           Drops(t, p)
    PROVE  IInv'
  <1> DEFINE projects == IF About(t, p) # {} THEN {p} ELSE {}
  <1>1. /\ mail' \in [Tab -> Seq(Message)] /\ \A v \in Tab \ {t} : mail'[v] = mail[v]
        /\ UNCHANGED <<online, cuts, members, work>>
    BY TakenIs DEF IInv, server
  <1>2. /\ misled' \in [Tab -> SUBSET Project] /\ misled'[t] = misled[t] \cup projects
        /\ \A v \in Tab \ {t} : misled'[v] = misled[v]
    <2>1. projects \in SUBSET Project /\ Mislead(t, projects)
      OBVIOUS
    <2> HIDE DEF projects
    <2> QED
      BY <2>1, MisledMore DEF IInv
  <1>3. TypeOK'
    BY <1>1, <1>2 DEF IInv, TypeOK, server
  <1>4. Calls(t)' = Calls(t) /\ Opening(t)' = Opening(t) /\ \A q : About(t, q)' = About(t, q)
    BY DEF Calls, Opening, About
  <1>5. TabShape(t)'
    <2>1. CallsShape(t)'
      <3>1. ASSUME NEW k \in Calls(t)
            PROVE  CallShape(call[t][k], place[t])'
        <4>1. CallShape(call[t][k], place[t])
          BY DEF IInv, TabShape, CallsShape
        <4> QED
          BY <1>1, <4>1 DEF CallShape
      <3>2. \A j, k \in Opening(t) : j = k
        BY DEF IInv, TabShape, CallsShape
      <3> QED
        BY <1>4, <3>1, <3>2 DEF CallsShape
    <2>2. PageShape(t)'
      <3>1. misled[t] = Project => misled'[t] = Project
        BY <1>2
      <3> QED
        BY <1>1, <1>4, <3>1 DEF IInv, TabShape, PageShape
    <2>4. PageAge(t)'
      BY <1>1 DEF IInv, TabShape, PageAge
    <2>3. ListShape(t)'
      <3>1. \A q \in Project : shown'[t][q] = shown[t][q] \/ shown'[t][q] = <<>>
        BY DEF Drops
      <3> QED
        BY <1>1, <3>1 DEF IInv, TabShape, ListShape
    <2> QED
      BY <2>1, <2>2, <2>3, <2>4 DEF TabShape
  <1>6. ASSUME NEW q \in Project \ misled'[t]
        PROVE  PairOK(t, q)'
    <2>1. PairOK(t, q) /\ ServerSame(q) /\ q \notin misled[t]
      BY <1>2, ServerIdle DEF IInv, TabOK
    <2>2. CASE q # p
      <3>1. MailSame(t, q)
        BY <2>2, TakenIs DEF IInv
      <3>2. TabSame(t, q)
        BY <1>4, <2>2 DEF TabSame
      <3> QED
        BY <2>1, <3>1, <3>2, Untouched
    <2>3. CASE q = p
      <3>1. About(t, p) = {}
        BY <1>2, <2>3
      <3>2. /\ WillSee(t, p)' <=> WillSee(t, p)
            /\ Born(p) => Born(p)'
        BY <2>1, <2>3 DEF ServerSame
      <3>3. /\ \A types : Has(mail'[t], types, p) => Has(mail[t], types, p)
            /\ Revived(mail[t], p) => Revived(mail'[t], p) /\ Has(mail'[t], Updates, p)
        BY TakenIs DEF IInv
      <3>4. MailOK(t, p)'
        BY <2>1, <2>3, <3>2, <3>3 DEF PairOK, MailOK
      <3>5. CallsOK(t, p)'
        BY <1>4, <3>1 DEF CallsOK
      <3>6. WillSee(t, p)' => Hears(t, p)'
        <4>1. WillSee(t, p)' => Has(mail'[t], Updates, p)
          BY <2>1, <2>3, <3>2, <3>3 DEF PairOK, MailOK
        <4> QED
          BY <4>1, HasWider, Kinds DEF Hears
      <3>7. ListOK(t, p)'
        <4> SUFFICES ASSUME place[t] = Manager
                     PROVE  ListOK(t, p)'
          BY DEF ListOK
        <4>1. shown'[t][p] = <<>> /\ Len(<<>>) = 0
          BY DEF Drops
        <4> QED
          BY <3>6, <4>1 DEF ListOK
      <3>8. PageOK(t, p)'
        <4> SUFFICES ASSUME place[t] = p, Opening(t) = {}
                     PROVE  FALSE
          BY <1>4 DEF PageOK
        <4>1. page[t].project # place[t] /\ place[t] # Manager
          BY NothingAssumption DEF Drops
        <4>2. misled[t] = Project
          BY <4>1 DEF IInv, TabShape, PageShape
        <4> QED
          BY <2>1, <2>3, <4>2
      <3> QED
        BY <2>3, <3>4, <3>5, <3>7, <3>8 DEF PairOK
    <2> QED
      BY <2>2, <2>3
  <1>7. ASSUME NEW v \in Tab \ {t}
        PROVE  UNCHANGED Own(v)
    BY <1>1, <1>2 DEF Own
  <1> QED
    BY <1>3, <1>5, <1>6, <1>7, OwnStep DEF TabOK

\* What a removal is.
LEMMA ReceivesRemoval ==
    ASSUME IInv, NEW t \in Tab, Receives(t, {"project_deleted", "project_user_removed"})
    PROVE  \E m \in Message, p \in Project :
              /\ mail[t] # <<>> /\ m = Head(mail[t]) /\ m.type \in Removals /\ p = m.project
  <1>1. mail[t] # <<>> /\ mail[t] \in Seq(Message) /\ Head(mail[t]).type \in Removals
    BY DEF IInv, TypeOK, Receives, Removals
  <1>2. Head(mail[t]) \in Message
    BY <1>1
  <1>3. Head(mail[t]).project \in Project
    BY <1>2 DEF Message
  <1> QED
    BY <1>1, <1>2, <1>3

\* The list drops the project.
LEMMA RemoveFromListOK ==
    ASSUME IInv, NEW t \in Tab, RemoveFromList(t)
    PROVE  IInv'
  <1>1. Receives(t, {"project_deleted", "project_user_removed"}) /\ place[t] = Manager /\ Taken(t)
    BY DEF RemoveFromList
  <1>2. PICK m \in Message, p \in Project :
            mail[t] # <<>> /\ m = Head(mail[t]) /\ m.type \in Removals /\ p = m.project
    BY <1>1, ReceivesRemoval
  <1>3. /\ Mislead(t, IF About(t, p) # {} THEN {p} ELSE {})
        /\ UNCHANGED <<server, call, place, page>>
        /\ shown' = [shown EXCEPT ![t][p] = <<>>]
    BY <1>2 DEF RemoveFromList
  <1>4. /\ shown' \in [Tab -> [Project -> Seq(Copy)]] /\ \A v \in Tab \ {t} : shown'[v] = shown[v]
        /\ \A q \in Project \ {p} : shown'[t][q] = shown[t][q]
        /\ shown'[t][p] = <<>>
    BY <1>3 DEF IInv, TypeOK
  <1>5. Drops(t, p)
    BY <1>1, <1>4 DEF Drops
  <1>6. Mislead(t, IF About(t, p) # {} THEN {p} ELSE {}) /\ UNCHANGED <<server, call, place, page>>
    BY <1>3
  <1> QED
    BY ONLY <1>1, <1>2, <1>4, <1>5, <1>6, IInv, t \in Tab, DropsOK

\* The page of another project does nothing.
LEMMA IgnoreRemovalOK ==
    ASSUME IInv, NEW t \in Tab, IgnoreRemoval(t)
    PROVE  IInv'
  <1>1. Receives(t, {"project_deleted", "project_user_removed"}) /\ place[t] # Manager /\ Taken(t)
    BY DEF IgnoreRemoval
  <1>2. PICK m \in Message, p \in Project :
            mail[t] # <<>> /\ m = Head(mail[t]) /\ m.type \in Removals /\ p = m.project
    BY <1>1, ReceivesRemoval
  <1>3. /\ Mislead(t, IF About(t, p) # {} THEN {p} ELSE {})
        /\ UNCHANGED <<server, call, place, page, shown>>
        /\ page[t].project # p
    BY <1>2 DEF IgnoreRemoval, view
  <1>4. shown' \in [Tab -> [Project -> Seq(Copy)]] /\ Drops(t, p)
    BY <1>1, <1>3 DEF IInv, TypeOK, Drops
  <1> QED
    BY <1>1, <1>2, <1>3, <1>4, DropsOK

\* The page of the project goes to the list.
LEMMA LeavePageOK ==
    ASSUME IInv, NEW t \in Tab, LeavePage(t)
    PROVE  IInv'
  <1>1. /\ Receives(t, {"project_deleted", "project_user_removed"}) /\ place[t] # Manager /\ Taken(t)
        /\ OpenWith(t, Manager) /\ UNCHANGED <<server, place, shown, page>>
    BY DEF LeavePage, view
  <1>2. mail[t] # <<>>
    BY <1>1 DEF Receives
  <1>3. /\ mail' \in [Tab -> Seq(Message)] /\ \A v \in Tab \ {t} : mail'[v] = mail[v]
        /\ UNCHANGED <<online, cuts>>
        /\ \A p : Has(mail'[t], MessageType, p) => Has(mail[t], MessageType, p)
        /\ \A p : Revived(mail[t], p) => Revived(mail'[t], p)
    BY <1>1, <1>2, TakenIs DEF IInv
  <1> QED
    BY <1>1, <1>3, OpenWithOK DEF Place

\* Nothing of the tab changes but its connection and messages it will not get.
LEMMA ConnectionOK ==
    ASSUME IInv, NEW t \in Tab, UNCHANGED <<server, call, place, shown, page>>,
           online' \in [Tab -> BOOLEAN], cuts' \in [Tab -> 0 .. MaxCuts],
           mail' \in [Tab -> Seq(Message)], misled' \in [Tab -> SUBSET Project],
           \A v \in Tab \ {t} : mail'[v] = mail[v] /\ misled'[v] = misled[v],
           misled[t] \subseteq misled'[t],
           \A p \in Project \ misled'[t] : MailSame(t, p)
    PROVE  IInv'
  <1>1. UNCHANGED <<members, work>>
    BY DEF server
  <1>2. TypeOK'
    BY DEF IInv, TypeOK, server
  <1>3. TabShape(t)'
    <2>1. Grows
      BY <1>1 DEF Grows, IInv, TypeOK
    <2>2. misled'[t] \subseteq Project /\ UNCHANGED <<call, place, shown, page>>
      OBVIOUS
    <2> QED
      BY <2>1, <2>2, ShapeStays DEF IInv
  <1>4. ASSUME NEW p \in Project \ misled'[t]
        PROVE  PairOK(t, p)'
    <2>1. PairOK(t, p) /\ ServerSame(p) /\ MailSame(t, p)
      BY ServerIdle DEF IInv, TabOK
    <2>2. TabSame(t, p)
      BY DEF TabSame, Opening, About, Calls
    <2> QED
      BY <2>1, <2>2, Untouched
  <1>5. ASSUME NEW v \in Tab \ {t}
        PROVE  UNCHANGED Own(v)
    BY DEF Own
  <1> QED
    BY <1>2, <1>3, <1>4, <1>5, OwnStep DEF TabOK

\* The connection is lost, with what is on its way.
LEMMA DisconnectOK ==
    ASSUME IInv, NEW t \in Tab, Disconnect(t)
    PROVE  IInv'
  <1>1. /\ cuts[t] < MaxCuts /\ online' = [online EXCEPT ![t] = FALSE]
        /\ cuts' = [cuts EXCEPT ![t] = @ + 1] /\ mail' = [mail EXCEPT ![t] = <<>>]
        /\ UNCHANGED <<server, call, place, shown, page>>
    BY DEF Disconnect, view
  <1>2. PICK projects : projects = {mail[t][i].project : i \in DOMAIN mail[t]}
    OBVIOUS
  <1>3. projects \in SUBSET Project
    <2>1. mail[t] \in Seq(Message)
      BY DEF IInv, TypeOK
    <2>2. \A i \in DOMAIN mail[t] : mail[t][i] \in Message
      BY <2>1
    <2> QED
      BY <1>2, <2>2 DEF Message
  <1>4. /\ misled' \in [Tab -> SUBSET Project] /\ misled'[t] = misled[t] \cup projects
        /\ \A v \in Tab \ {t} : misled'[v] = misled[v]
    BY <1>2, <1>3, MisledMore DEF Disconnect, IInv
  <1>5. /\ online' \in [Tab -> BOOLEAN] /\ mail' \in [Tab -> Seq(Message)]
        /\ mail'[t] = <<>> /\ \A v \in Tab \ {t} : mail'[v] = mail[v]
    BY <1>1 DEF IInv, TypeOK
  <1>6. cuts' \in [Tab -> 0 .. MaxCuts]
    <2>1. cuts \in [Tab -> 0 .. MaxCuts] /\ cuts[t] + 1 \in 0 .. MaxCuts
      BY <1>1, LiveUpdatesAssumption DEF IInv, TypeOK
    <2> QED
      BY <1>1, <2>1
  <1>7. ASSUME NEW p \in Project \ misled'[t]
        PROVE  MailSame(t, p)
    <2>1. \A types : ~Has(mail[t], types, p)
      BY <1>2, <1>4 DEF Has
    <2>2. (\A types : ~Has(mail'[t], types, p)) /\ Revived(mail'[t], p)
      BY <1>5, NoMail
    <2> QED
      BY <2>1, <2>2 DEF MailSame
  <1> QED
    BY <1>1, <1>4, <1>5, <1>6, <1>7, ConnectionOK

\* The connection is made again.
LEMMA ConnectOK ==
    ASSUME IInv, NEW t \in Tab, Connect(t)
    PROVE  IInv'
  <1>1. /\ online' = [online EXCEPT ![t] = TRUE]
        /\ UNCHANGED <<server, mail, cuts, call, place, shown, page, misled>>
    BY DEF Connect, view
  <1>2. /\ online' \in [Tab -> BOOLEAN] /\ cuts' \in [Tab -> 0 .. MaxCuts]
        /\ mail' \in [Tab -> Seq(Message)] /\ misled' \in [Tab -> SUBSET Project]
    BY <1>1 DEF IInv, TypeOK
  <1>3. \A p : MailSame(t, p)
    BY <1>1 DEF MailSame
  <1> QED
    BY <1>1, <1>2, <1>3, ConnectionOK

\* A project was added or changed: the tab asks for it.
LEMMA FetchOK ==
    ASSUME IInv, NEW t \in Tab, Fetch(t)
    PROVE  IInv'
  <1>1. /\ mail[t] # <<>> /\ Head(mail[t]).type \in Updates /\ Taken(t)
        /\ UNCHANGED <<server, place, shown, page>>
    BY DEF Fetch, Receives, Updates, view
  <1>2. PICK m \in Message, p \in Project : m = Head(mail[t]) /\ m.type \in Updates /\ p = m.project
    <2>1. Head(mail[t]) \in Message
      BY <1>1, TakenIs DEF IInv
    <2> QED
      BY <1>1, <2>1 DEF Message
  <1>3. PICK why \in {"added", "changed", "open"} :
            why = IF m.type = "project_added" THEN "added" ELSE "changed"
    OBVIOUS
  <1> DEFINE wrong == About(t, p) # {} \/ (why = "added" /\ shown[t][p] # <<>>)
             projects == IF wrong THEN {p} ELSE {}
             a == Ask(why, {p}, p)
  <1>4. (\E k \in Slot \ Calls(t) : call' = [call EXCEPT ![t][k] = a]) /\ Mislead(t, projects)
    BY <1>2, <1>3 DEF Fetch
  <1>5. projects \in SUBSET Project /\ (p \notin projects <=> ~wrong) /\ projects \subseteq {p}
    OBVIOUS
  <1>6. /\ a \in Call /\ a.why = why /\ a.about = {p} /\ a.to = p
        /\ a.step = "asked" /\ \A q \in Project : a.copies[q] = NoCopy
    <2>1. PICK about \in SUBSET Project, to \in Place : about = {p} /\ to = p
      BY DEF Place
    <2> DEFINE b == Ask(why, about, to)
    <2>2. b \in Call
      BY DEF Ask, Call
    <2>3. /\ b.why = why /\ b.about = about /\ b.to = to
          /\ b.step = "asked" /\ \A q \in Project : b.copies[q] = NoCopy
      BY DEF Ask
    <2>4. a = b
      BY <2>1
    <2> HIDE DEF a, b
    <2> QED
      BY <2>1, <2>2, <2>3, <2>4
  <1> HIDE DEF projects, a
  <1>7. PICK k \in Slot \ Calls(t), c \in Call : c = a /\ call' = [call EXCEPT ![t][k] = c]
    BY <1>4, <1>6
  <1>8. /\ c.why = why /\ c.about = {p} /\ c.to = p
        /\ c.step = "asked" /\ \A q \in Project : c.copies[q] = NoCopy
    BY <1>6, <1>7
  <1>9. Replaces(t, k, c)
    BY <1>7, CallSet DEF IInv
  <1>10. /\ Calls(t)' = Calls(t) \cup {k} /\ Opening(t)' = Opening(t)
         /\ \A q : q # p => About(t, q)' = About(t, q)
         /\ About(t, p)' = About(t, p) \cup {k}
         /\ \A j \in Calls(t) : call'[t][j] = call[t][j]
         /\ call'[t][k] = c
    <2>1. call'[t][k] = c
      BY <1>9 DEF Replaces
    <2>2. c.why # "open"
      BY <1>3, <1>8
    <2> QED
      BY <1>8, <1>9, <2>1, <2>2, Asked
  <1>11. /\ misled' \in [Tab -> SUBSET Project] /\ misled'[t] = misled[t] \cup projects
         /\ \A v \in Tab \ {t} : misled'[v] = misled[v]
    BY <1>4, <1>5, MisledMore DEF IInv
  <1>12. /\ mail' \in [Tab -> Seq(Message)] /\ \A v \in Tab \ {t} : mail'[v] = mail[v]
         /\ UNCHANGED <<online, cuts, members, work>>
    BY <1>1, TakenIs DEF IInv, server
  <1>13. TypeOK'
    BY <1>1, <1>9, <1>11, <1>12 DEF IInv, TypeOK, server, Replaces
  <1>14. TabShape(t)'
    <2>1. ASSUME NEW j \in Calls(t)'
          PROVE  CallShape(call[t][j], place[t])'
      <3>1. CASE j = k
        BY <1>3, <1>8, <1>10, <3>1, NothingAssumption DEF CallShape
      <3>2. CASE j \in Calls(t)
        <4>1. CallShape(call[t][j], place[t]) /\ call'[t][j] = call[t][j]
          BY <1>10, <3>2 DEF IInv, TabShape, CallsShape
        <4> QED
          BY <1>1, <1>12, <4>1 DEF CallShape
      <3> QED
        BY <1>10, <3>1, <3>2
    <2>2. \A i, j \in Opening(t)' : i = j
      BY <1>10 DEF IInv, TabShape, CallsShape
    <2>3. CallsShape(t)'
      BY <2>1, <2>2 DEF CallsShape
    <2>4. misled[t] = Project => misled'[t] = Project
      BY <1>5, <1>11
    <2>5. PageShape(t)' /\ ListShape(t)' /\ PageAge(t)'
      BY <1>1, <1>10, <1>12, <2>4 DEF IInv, TabShape, PageShape, ListShape, PageAge
    <2> QED
      BY <2>3, <2>5 DEF TabShape
  <1>15. ASSUME NEW q \in Project \ misled'[t]
         PROVE  PairOK(t, q)'
    <2>1. PairOK(t, q) /\ ServerSame(q) /\ q \notin misled[t]
      BY <1>1, <1>11, ServerIdle DEF IInv, TabOK
    <2>2. CASE q # p
      <3>1. MailSame(t, q)
        BY <1>1, <1>2, <2>2, TakenIs DEF IInv
      <3>2. TabSame(t, q)
        <4>1. About(t, q)' = About(t, q) /\ About(t, q) \subseteq Calls(t)
          BY <1>10, <2>2 DEF About
        <4> QED
          BY <1>1, <1>10, <4>1 DEF TabSame
      <3> QED
        BY <2>1, <3>1, <3>2, Untouched
    <2>3. CASE q = p
      <3>1. About(t, p) = {} /\ (why = "added" => shown[t][p] = <<>>)
        BY <1>5, <1>11, <2>3
      <3>2. About(t, p)' = {k}
        BY <1>10, <3>1
      <3>3. /\ WillSee(t, p)' <=> WillSee(t, p)
            /\ Pending(p)' <=> Pending(p)
            /\ Born(p) => Born(p)'
            /\ Current(p)' = Current(p)
        BY <1>12, <2>1, <2>3 DEF ServerSame, Current
      <3>4. /\ \A types : Has(mail[t], types, p) <=> Has(mail'[t], types, p) \/ m.type \in types
            /\ Revived(mail[t], p) => Revived(mail'[t], p)
        BY <1>1, <1>2, TakenIs DEF IInv
      <3>5. m.type \in MessageType /\ m.type \notin Removals
        BY <1>2, Kinds
      <3>6. Kept(t, p)' <=> Kept(t, p)
        BY <3>3, <3>4, <3>5 DEF Kept
      <3>7. why = "added" => (Changes(t, p)' <=> Changes(t, p))
        BY <1>3, <3>4 DEF Changes, Changing
      <3>8. Born(p)'
        BY <2>1, <2>3, <3>3, <3>4, <3>5 DEF PairOK, MailOK
      <3>9. MailOK(t, p)'
        BY <2>1, <2>3, <3>3, <3>4, <3>8 DEF PairOK, MailOK
      <3>10. CallOK(t, c, p)'
        BY <1>1, <1>8, <3>1, <3>8 DEF CallOK, Holds, Lacks
      <3>11. CallsOK(t, p)'
        BY <1>10, <3>2, <3>10 DEF CallsOK
      <3>12. ListOK(t, p)'
        BY <1>1, <1>10, <2>1, <2>3, <3>2, <3>6 DEF PairOK, ListOK
      <3>13. PageOK(t, p)'
        <4> SUFFICES ASSUME place[t] = p, Opening(t) = {}
                     PROVE  PageOK(t, p)'
          BY <1>1, <1>10 DEF PageOK
        <4>1. Kept(t, p) /\ (~Changes(t, p) => ~Pending(p) /\ page[t].copy = Current(p))
          BY <2>1, <2>3, <3>1 DEF PairOK, PageOK
        <4>2. (\A j \in About(t, p)' : call'[t][j].why # "changed") => why = "added"
          BY <1>3, <1>8, <1>10, <3>2
        <4> QED
          BY <1>1, <3>3, <3>6, <3>7, <4>1, <4>2 DEF PageOK
      <3> QED
        BY <2>3, <3>9, <3>11, <3>12, <3>13 DEF PairOK
    <2> QED
      BY <2>2, <2>3
  <1>16. ASSUME NEW v \in Tab \ {t}
         PROVE  UNCHANGED Own(v)
    BY <1>1, <1>9, <1>11, <1>12 DEF Own, Replaces
  <1> QED
    BY <1>1, <1>13, <1>14, <1>15, <1>16, OwnStep DEF TabOK

\* Each step of a tab.
LEMMA TabStepOK ==
    ASSUME IInv, NEW t \in Tab, TabStep(t)
    PROVE  IInv'
  <1>1. ASSUME NEW to \in Place, Open(t, to)
        PROVE  IInv'
    BY <1>1, OpenOK
  <1>2. ASSUME Fetch(t) \/ RemoveFromList(t) \/ LeavePage(t) \/ IgnoreRemoval(t)
        PROVE  IInv'
    BY <1>2, FetchOK, RemoveFromListOK, LeavePageOK, IgnoreRemovalOK
  <1>3. ASSUME Disconnect(t) \/ Connect(t)
        PROVE  IInv'
    BY <1>3, DisconnectOK, ConnectOK
  <1>4. ASSUME NEW k \in Slot,
               Verify(t, k) \/ GetRow(t, k) \/ GetRows(t, k) \/ GetTasks(t, k) \/ Fail(t, k)
        PROVE  IInv'
    BY <1>4, VerifyOK, GetRowOK, GetRowsOK, GetTasksOK, FailOK
  <1>5. ASSUME NEW k \in Slot,
               \/ Error(t, k) \/ OpenList(t, k) \/ OpenProject(t, k)
               \/ ProjectAdded(t, k) \/ ProjectChangedList(t, k) \/ ProjectChangedPage(t, k)
        PROVE  IInv'
    BY <1>5, ErrorOK, OpenListOK, OpenProjectOK, ProjectAddedOK, ProjectChangedListOK,
       ProjectChangedPageOK
  <1> QED
    BY <1>1, <1>2, <1>3, <1>4, <1>5 DEF TabStep

-----------------------------------------------------------------------------
(* The theorems.                                                           *)

\* At first each tab has just loaded its list.
LEMMA InitOK == ASSUME Init
                PROVE  IInv
  <1>1. /\ members \in InitMembers /\ work = [p \in Project |-> 0] /\ gone = {} /\ changes = 0
        /\ tx = [s \in Session |-> NoTx] /\ mail = [t \in Tab |-> <<>>]
        /\ online = [t \in Tab |-> TRUE] /\ cuts = [t \in Tab |-> 0]
        /\ call = [t \in Tab |-> [k \in Slot |-> NoCall]]
        /\ place = [t \in Tab |-> Manager]
        /\ page = [t \in Tab |-> NoPage] /\ misled = [t \in Tab |-> {}]
        /\ shown = [t \in Tab |-> [p \in Project |->
                       IF Sees(UserOf[t], p) THEN <<Current(p)>> ELSE <<>>]]
    BY DEF Init
  <1>2. \A p \in Project : /\ members[p] \in Seq(SUBSET User) /\ Len(members[p]) \in Nat /\ work[p] = 0
                           /\ members[p] # <<>> => Len(members[p]) # 0
    <2>1. \A p \in Project : members[p] \in Seq(SUBSET User) /\ work[p] = 0
      BY <1>1, LiveUpdatesAssumption
    <2> QED
      BY <2>1
  <1>3. ASSUME NEW p \in Project
        PROVE  /\ members[p] # <<>> => Current(p) \in Copy
               /\ Current(p).row = Len(members[p]) /\ Current(p).work = work[p]
    <2>1. 0 \in Nat
      OBVIOUS
    <2>2. Current(p).row = Len(members[p]) /\ Current(p).work = work[p]
      BY DEF Current
    <2>3. ASSUME members[p] # <<>>
          PROVE  Current(p) \in Copy
      <3>1. Len(members[p]) \in Row /\ work[p] = 0
        BY <1>2, <2>3 DEF Row
      <3> QED
        BY <2>1, <3>1 DEF Current, Copy
    <2> QED
      BY <2>2, <2>3
  <1>4. \A s \in Session : \A ops, p : ~Writes(s, ops, p)
    BY <1>1 DEF Writes
  <1>5. (\A ops, p : Free(ops, p)) /\ (\A p : ~Pending(p))
    BY <1>4 DEF Free, Pending
  <1>6. \A t \in Tab, p \in Project :
            shown[t][p] = IF Sees(UserOf[t], p) THEN <<Current(p)>> ELSE <<>>
    BY <1>1
  <1>7. \A t \in Tab, p \in Project : Sees(UserOf[t], p) <=> WillSee(t, p)
    BY <1>5, SeesNow
  <1>8. \A t \in Tab, p \in Project : WillSee(t, p) => members[p] # <<>>
    BY <1>7 DEF Sees, Exists
  <1>9. \A t \in Tab, p \in Project :
            /\ shown[t][p] \in Seq(Copy) /\ Len(shown[t][p]) <= 1
            /\ WillSee(t, p) => shown[t][p] = <<Current(p)>>
            /\ shown[t][p] # <<>> => WillSee(t, p) /\ shown[t][p][1] = Current(p)
    <2> SUFFICES ASSUME NEW t \in Tab, NEW p \in Project
                 PROVE  /\ shown[t][p] \in Seq(Copy) /\ Len(shown[t][p]) <= 1
                        /\ WillSee(t, p) => shown[t][p] = <<Current(p)>>
                        /\ shown[t][p] # <<>> => WillSee(t, p) /\ shown[t][p][1] = Current(p)
      OBVIOUS
    <2>1. CASE WillSee(t, p)
      <3>1. PICK c \in Copy : c = Current(p)
        BY <1>3, <1>8, <2>1
      <3>2. shown[t][p] = <<c>>
        BY <1>6, <1>7, <2>1, <3>1
      <3>3. <<c>> \in Seq(Copy) /\ Len(<<c>>) = 1 /\ <<c>>[1] = c
        OBVIOUS
      <3> QED
        BY <2>1, <3>1, <3>2, <3>3
    <2>2. CASE ~WillSee(t, p)
      <3>1. shown[t][p] = <<>>
        BY <1>6, <1>7, <2>2
      <3>2. <<>> \in Seq(Copy) /\ Len(<<>>) = 0
        OBVIOUS
      <3> QED
        BY <2>2, <3>1, <3>2
    <2> QED
      BY <2>1, <2>2
  <1>10. TypeOK
    <2>1. members \in [Project -> Seq(SUBSET User)] /\ work \in [Project -> Nat]
      BY <1>1, LiveUpdatesAssumption
    <2>2. shown \in [Tab -> [Project -> Seq(Copy)]]
      <3>1. ASSUME NEW t \in Tab
            PROVE  shown[t] \in [Project -> Seq(Copy)]
        <4>1. shown[t] = [p \in Project |-> IF Sees(UserOf[t], p) THEN <<Current(p)>> ELSE <<>>]
          BY <1>1
        <4> QED
          BY <1>6, <1>9, <4>1
      <3> QED
        BY <1>1, <3>1
    <2>3. gone \subseteq Project /\ changes \in 0 .. MaxChanges /\ cuts \in [Tab -> 0 .. MaxCuts]
      BY <1>1, LiveUpdatesAssumption
    <2>4. /\ tx \in [Session -> Tx \cup {NoTx}] /\ mail \in [Tab -> Seq(Message)]
          /\ online \in [Tab -> BOOLEAN]
          /\ call \in [Tab -> [Slot -> Call \cup {NoCall}]] /\ place \in [Tab -> Place]
          /\ page \in [Tab -> [project : Project, copy : Copy] \cup {NoPage}]
          /\ misled \in [Tab -> SUBSET Project]
      BY <1>1 DEF Place
    <2> QED
      BY <2>1, <2>2, <2>3, <2>4 DEF TypeOK
  <1>11. TxOK
    <2>1. \A s \in Session : tx[s] = NoTx
      BY <1>1
    <2> QED
      BY <1>1, <1>4, <1>5, <2>1 DEF TxOK
  <1>12. ASSUME NEW t \in Tab
         PROVE  TabShape(t) /\ TabOK(t)
    <2>1. /\ Calls(t) = {} /\ Opening(t) = {} /\ \A p : About(t, p) = {}
          /\ place[t] = Manager /\ mail[t] = <<>>
      BY <1>1 DEF Calls, Opening, About
    <2>2. TabShape(t)
      <3>1. ListShape(t)
        <4>1. \A p \in Project : /\ Current(p).row = Len(members[p]) /\ Current(p).work = work[p]
                                 /\ Len(members[p]) <= Len(members[p]) /\ work[p] <= work[p]
          BY <1>2, <1>3
        <4> QED
          BY <1>9, <4>1 DEF ListShape
      <3> QED
        BY <1>1, <2>1, <3>1 DEF TabShape, CallsShape, PageShape, PageAge
    <2>3. ASSUME NEW p \in Project
          PROVE  PairOK(t, p)
      <3>1. MailOK(t, p)
        BY <2>1, NoMail DEF MailOK
      <3>2. CallsOK(t, p)
        BY <2>1 DEF CallsOK
      <3>3. ListOK(t, p)
        BY <1>5, <1>9 DEF ListOK, Kept
      <3>4. PageOK(t, p)
        BY <2>1, NothingAssumption DEF PageOK
      <3> QED
        BY <3>1, <3>2, <3>3, <3>4 DEF PairOK
    <2> QED
      BY <2>2, <2>3 DEF TabOK
  <1> QED
    BY <1>10, <1>11, <1>12 DEF IInv

\* Every step keeps the invariant.
LEMMA StepOK == ASSUME IInv, [Next]_vars
                PROVE  IInv'
  <1>1. CASE Next
    BY <1>1, ServerStepOK, TabStepOK DEF Next
  <1>2. CASE UNCHANGED vars
    <2>1. UNCHANGED server /\ \A t \in Tab : UNCHANGED Own(t)
      BY <1>2 DEF vars, server, Own
    <2>2. TypeOK'
      BY <1>2 DEF IInv, TypeOK, vars
    <2>3. TxOK'
      BY <2>1 DEF IInv, TxOK, server, Writes, Free
    <2>4. \A t \in Tab : TabShape(t)' /\ TabOK(t)'
      BY <2>1, TabIdle DEF IInv
    <2> QED
      BY <2>2, <2>3, <2>4 DEF IInv
  <1> QED
    BY <1>1, <1>2

\* Whatever order messages, commits, answers and the user's navigation come in:
\* short of the races at misled, what the tab has of a project is as the server
\* will have it, or a message about it is on its way.
THEOREM Inductive == Spec => []IInv
  <1>1. Init => IInv
    BY InitOK
  <1>2. IInv /\ [Next]_vars => IInv'
    BY StepOK
  <1> QED
    BY <1>1, <1>2, PTL DEF Spec

\* Once nothing is on its way the invariant says what the tab shows.
LEMMA QuietTab ==
    ASSUME IInv, NEW t \in Tab, Quiet(t), NEW p \in Project \ misled[t]
    PROVE  /\ place[t] = Manager =>
                  shown[t][p] = IF Sees(UserOf[t], p) THEN <<Current(p)>> ELSE <<>>
           /\ place[t] = p =>
                  Sees(UserOf[t], p) /\ page[t] = [project |-> p, copy |-> Current(p)]
  <1>1. mail[t] = <<>> /\ Calls(t) = {} /\ \A s \in Session : tx[s] = NoTx
    BY DEF Quiet
  <1>2. ~Pending(p)
    BY <1>1 DEF Pending, Writes
  <1>3. Sees(UserOf[t], p) <=> WillSee(t, p)
    BY <1>2, SeesNow
  <1>4. Opening(t) = {} /\ About(t, p) = {}
    BY <1>1 DEF Opening, About
  <1>5. ~Hears(t, p) /\ ~Changes(t, p) /\ (Kept(t, p) <=> WillSee(t, p))
    BY <1>1, NoMail DEF Hears, Changes, Kept
  <1>6. ListOK(t, p) /\ PageOK(t, p)
    BY DEF IInv, TabOK, PairOK
  <1>7. ASSUME place[t] = Manager
        PROVE  shown[t][p] = IF Sees(UserOf[t], p) THEN <<Current(p)>> ELSE <<>>
    <2>1. WillSee(t, p) => shown[t][p] = <<Current(p)>>
      BY <1>4, <1>5, <1>6, <1>7 DEF ListOK
    <2>2. ~WillSee(t, p) => shown[t][p] = <<>>
      BY <1>4, <1>5, <1>6, <1>7 DEF ListOK
    <2> QED
      BY <1>3, <2>1, <2>2
  <1>8. ASSUME place[t] = p
        PROVE  Sees(UserOf[t], p) /\ page[t] = [project |-> p, copy |-> Current(p)]
    <2>1. WillSee(t, p) /\ page[t].copy = Current(p)
      BY <1>4, <1>5, <1>6, <1>8 DEF PageOK
    <2>2. place[t] # Manager /\ misled[t] # Project
      BY <1>8, NothingAssumption
    <2>3. page[t] # NoPage /\ page[t].project = p
      BY <1>4, <1>8, <2>2 DEF IInv, TabShape, PageShape
    <2>4. page[t] \in [project : Project, copy : Copy]
      BY <2>3 DEF IInv, TypeOK
    <2>5. page[t] = [project |-> page[t].project, copy |-> page[t].copy]
      BY <2>4
    <2> QED
      BY <1>3, <2>1, <2>3, <2>5
  <1> QED
    BY <1>7, <1>8

\* Once nothing is on its way, a tab shows each of its user's projects once and
\* as it is, and no other project.
THEOREM ShowsTruth == Spec => []UpToDate
  <1>1. IInv => UpToDate
    BY QuietTab DEF UpToDate, Informed, IInv
  <1> QED
    BY <1>1, Inductive, PTL

-----------------------------------------------------------------------------
(* No step back.                                                           *)

\* No copy is older than itself or than an older one.
LEMMA NotOlder ==
    ASSUME NEW a \in Copy, NEW b \in Copy, a.row >= b.row, a.work >= b.work
    PROVE  ~Older(a, b)
  BY LiveUpdatesAssumption DEF Older, Copy, Row

\* A tab's list and its page go forward.
Forward(t) == \A p \in Project \ misled'[t] :
    shown[t][p] # <<>> /\ shown'[t][p] # <<>> => ~Older(shown'[t][p][1], shown[t][p][1])

PageForward(t) == \A p \in Project \ misled'[t] :
    Pages(t, p) /\ Pages(t, p)' => ~Older(page'[t].copy, page[t].copy)

\* A list that stays does not go back.
LEMMA StaysForward ==
    ASSUME IInv, NEW t \in Tab,
           \A p \in Project : shown[t][p] # <<>> =>
               shown'[t][p] = <<>> \/ shown'[t][p][1] = shown[t][p][1]
    PROVE  Forward(t)
  <1> SUFFICES ASSUME NEW p \in Project, shown[t][p] # <<>>, shown'[t][p] # <<>>
               PROVE  ~Older(shown'[t][p][1], shown[t][p][1])
    BY DEF Forward
  <1>1. PICK a \in Copy : a = shown[t][p][1]
    BY ListNotNewer
  <1>2. a.row >= a.row /\ a.work >= a.work
    BY LiveUpdatesAssumption DEF Copy, Row
  <1> QED
    BY <1>1, <1>2, NotOlder

\* Nor does a list that takes an answer: it is no older than what the list has.
LEMMA AnswerForward ==
    ASSUME IInv, NEW t \in Tab, NEW c \in Call, c.step = "ready", NEW p \in Project,
           CallOK(t, c, p), c.copies[p] # NoCopy, shown[t][p] # <<>>, shown'[t][p][1] = c.copies[p]
    PROVE  ~Older(shown'[t][p][1], shown[t][p][1])
  <1>1. PICK a \in Copy : a = shown[t][p][1]
    BY ListNotNewer
  <1>2. PICK b \in Copy : b = c.copies[p]
    BY DEF Call
  <1>3. b.row >= a.row /\ b.work >= a.work
    BY <1>1, <1>2 DEF CallOK, Holds
  <1> QED
    BY <1>1, <1>2, <1>3, NotOlder

\* The page of the list opens.
LEMMA OpenListForward ==
    ASSUME IInv, NEW t \in Tab, NEW k \in Slot, OpenList(t, k)
    PROVE  Forward(t)
  <1>1. PICK c \in Call : c = call[t][k] /\ c # NoCall /\ c.step = "ready" /\ c.to = Manager
    BY DEF OpenList, IInv, TypeOK
  <1>2. c.about = Project /\ \A p \in Project \ misled[t] : CallOK(t, c, p)
    BY <1>1, OneCall
  <1>3. misled' = misled /\ shown' = [shown EXCEPT ![t] = [p \in Project |->
                        IF c.copies[p] = NoCopy THEN <<>> ELSE <<c.copies[p]>>]]
    BY <1>1 DEF OpenList
  <1>4. \A p \in Project : shown'[t][p] = IF c.copies[p] = NoCopy THEN <<>> ELSE <<c.copies[p]>>
    BY <1>3 DEF IInv, TypeOK
  <1>5. ASSUME NEW p \in Project \ misled'[t], shown[t][p] # <<>>, shown'[t][p] # <<>>
        PROVE  ~Older(shown'[t][p][1], shown[t][p][1])
    <2>1. c.copies[p] # NoCopy
      BY <1>4, <1>5
    <2>2. shown'[t][p][1] = c.copies[p]
      <3>1. PICK copy \in Copy : copy = c.copies[p]
        BY <2>1 DEF Call
      <3>2. shown'[t][p] = <<copy>> /\ <<copy>>[1] = copy
        BY <1>4, <2>1, <3>1
      <3> QED
        BY <3>1, <3>2
    <2>3. CallOK(t, c, p)
      BY <1>2, <1>3
    <2> QED
      BY <1>1, <1>5, <2>1, <2>2, <2>3, AnswerForward
  <1> QED
    BY <1>5 DEF Forward

\* A project is added to the list: its first entry stays.
LEMMA ProjectAddedForward ==
    ASSUME IInv, NEW t \in Tab, NEW k \in Slot, ProjectAdded(t, k)
    PROVE  Forward(t)
  <1>1. PICK c \in Call : c = call[t][k] /\ c # NoCall /\ c.step = "ready" /\ c.why = "added"
    BY DEF ProjectAdded, IInv, TypeOK
  <1>2. PICK to \in Project, copy \in Copy : to = c.to /\ copy = c.copies[to]
    BY <1>1, OneProject
  <1>3. c.about = {to}
    BY <1>1, <1>2, OneProject
  <1>4. CASE place[t] # Manager
    <2>1. shown' = shown
      BY <1>4 DEF ProjectAdded
    <2> QED
      BY <2>1, StaysForward
  <1>5. CASE place[t] = Manager
    <2>1. PICK old \in Seq(Copy) : old = shown[t][to]
      BY DEF IInv, TypeOK
    <2>2. PICK e \in Seq(Copy) : e = Append(old, copy)
      BY AppendedIs
    <2>3. shown' = [shown EXCEPT ![t][to] = e]
      BY <1>1, <1>2, <1>3, <1>5, <2>1, <2>2 DEF ProjectAdded
    <2>4. shown'[t][to] = e /\ \A p \in Project \ {to} : shown'[t][p] = shown[t][p]
      BY <2>3 DEF IInv, TypeOK
    <2>5. old # <<>> => e[1] = old[1]
      BY <2>2, AppendedIs
    <2>6. \A p \in Project : shown[t][p] # <<>> => shown'[t][p][1] = shown[t][p][1]
      BY <2>1, <2>4, <2>5
    <2> QED
      BY <2>6, StaysForward
  <1> QED
    BY <1>4, <1>5

\* A changed project takes the place of its first entry.
LEMMA ProjectChangedForward ==
    ASSUME IInv, NEW t \in Tab, NEW k \in Slot, ProjectChangedList(t, k)
    PROVE  Forward(t)
  <1>1. PICK c \in Call : /\ c = call[t][k] /\ c # NoCall /\ c.step = "ready"
                          /\ c.why = "changed" /\ c.why # "open"
    BY DEF ProjectChangedList, IInv, TypeOK
  <1>2. PICK to \in Project, copy \in Copy :
            to = c.to /\ copy = c.copies[to] /\ c.about = {to} /\ copy # NoCopy
    BY <1>1, OneProject
  <1>3. (to \notin misled[t] => CallOK(t, c, to)) /\ misled' = misled
    BY <1>1, <1>2, OneProject DEF ProjectChangedList
  <1>4. PICK old \in Seq(Copy) : old = shown[t][to]
    BY DEF IInv, TypeOK
  <1>5. PICK e \in Seq(Copy) : e = Replaced(old, copy)
    BY <1>4, ReplacedIs
  <1>6. shown' = [shown EXCEPT ![t][to] = e]
    BY <1>1, <1>2, <1>4, <1>5 DEF ProjectChangedList
  <1>7. /\ shown'[t][to] = e /\ \A p \in Project \ {to} : shown'[t][p] = shown[t][p]
        /\ e[1] = copy
    <2>1. e[1] = copy
      BY <1>5, ReplacedIs
    <2> QED
      BY <1>6, <2>1 DEF IInv, TypeOK
  <1>8. ASSUME NEW p \in Project \ misled'[t], shown[t][p] # <<>>, shown'[t][p] # <<>>
        PROVE  ~Older(shown'[t][p][1], shown[t][p][1])
    <2>1. CASE p = to
      <3>1. CallOK(t, c, p) /\ c.copies[p] # NoCopy /\ shown'[t][p][1] = c.copies[p]
        BY <1>2, <1>3, <1>5, <1>7, <2>1
      <3> QED
        BY <1>1, <1>8, <3>1, AnswerForward
    <2>2. CASE p # to
      <3>1. PICK a \in Copy : a = shown[t][p][1] /\ a = shown'[t][p][1]
        BY <1>7, <1>8, <2>2, ListNotNewer
      <3>2. a.row >= a.row /\ a.work >= a.work
        BY LiveUpdatesAssumption DEF Copy, Row
      <3> QED
        BY <3>1, <3>2, NotOlder
    <2> QED
      BY <2>1, <2>2
  <1> QED
    BY <1>8 DEF Forward

\* A step of another tab, or of the server, leaves the list.
LEMMA OthersForward ==
    ASSUME IInv, NEW t \in Tab, shown'[t] = shown[t]
    PROVE  Forward(t)
  BY StaysForward

\* The tab's own steps.
LEMMA OwnForward ==
    ASSUME IInv, NEW t \in Tab, TabStep(t)
    PROVE  Forward(t) /\ \A v \in Tab \ {t} : shown'[v] = shown[v]
  <1>1. CASE UNCHANGED shown
    BY <1>1, OthersForward
  <1>2. ASSUME NEW k \in Slot, OpenList(t, k)
        PROVE  Forward(t) /\ \A v \in Tab \ {t} : shown'[v] = shown[v]
    BY <1>2, OpenListForward DEF OpenList, IInv, TypeOK
  <1>3. ASSUME NEW k \in Slot, OpenProject(t, k)
        PROVE  Forward(t) /\ \A v \in Tab \ {t} : shown'[v] = shown[v]
    <2>1. shown' = [shown EXCEPT ![t] = Nothing]
      BY <1>3 DEF OpenProject
    <2>2. \A p \in Project : shown'[t][p] = <<>>
      BY <2>1 DEF Nothing, IInv, TypeOK
    <2>3. Forward(t)
      BY <2>2 DEF Forward
    <2> QED
      BY <2>1, <2>3 DEF IInv, TypeOK
  <1>4. ASSUME NEW k \in Slot, ProjectAdded(t, k)
        PROVE  Forward(t) /\ \A v \in Tab \ {t} : shown'[v] = shown[v]
    BY <1>4, ProjectAddedForward DEF ProjectAdded, IInv, TypeOK
  <1>5. ASSUME NEW k \in Slot, ProjectChangedList(t, k)
        PROVE  Forward(t) /\ \A v \in Tab \ {t} : shown'[v] = shown[v]
    BY <1>5, ProjectChangedForward DEF ProjectChangedList, IInv, TypeOK
  <1>6. ASSUME RemoveFromList(t)
        PROVE  Forward(t) /\ \A v \in Tab \ {t} : shown'[v] = shown[v]
    <2>1. PICK p : shown' = [shown EXCEPT ![t][p] = <<>>]
      BY <1>6 DEF RemoveFromList
    <2>2. \A q \in Project : shown'[t][q] = <<>> \/ shown'[t][q] = shown[t][q]
      BY <2>1 DEF IInv, TypeOK
    <2>3. \A q \in Project : shown[t][q] # <<>> =>
              shown'[t][q] = <<>> \/ shown'[t][q][1] = shown[t][q][1]
      BY <2>2
    <2> QED
      BY <2>1, <2>3, StaysForward DEF IInv, TypeOK
  <1>7. \/ UNCHANGED shown
        \/ RemoveFromList(t)
        \/ \E k \in Slot : OpenList(t, k) \/ OpenProject(t, k) \/ ProjectAdded(t, k)
                           \/ ProjectChangedList(t, k)
    BY DEF TabStep, Open, Fetch, LeavePage, IgnoreRemoval, Disconnect, Connect, Verify, GetRow,
           GetRows, GetTasks, Fail, Error, ProjectChangedPage, view
  <1> QED
    BY <1>1, <1>2, <1>3, <1>4, <1>5, <1>6, <1>7

\* A page that stays does not go back,
LEMMA PageStays ==
    ASSUME IInv, NEW t \in Tab, page'[t] = page[t] \/ page[t] = NoPage \/ page'[t] = NoPage
    PROVE  PageForward(t)
  <1> SUFFICES ASSUME NEW p \in Project, Pages(t, p), Pages(t, p)'
               PROVE  ~Older(page'[t].copy, page[t].copy)
    BY DEF PageForward
  <1>1. PICK a \in Copy : a = page[t].copy /\ a = page'[t].copy
    BY PageNotNewer DEF Pages
  <1>2. a.row >= a.row /\ a.work >= a.work
    BY DEF Copy, Row
  <1> QED
    BY <1>1, <1>2, NotOlder

\* nor does one that takes an answer,
LEMMA PageTakes ==
    ASSUME IInv, NEW t \in Tab, NEW k \in Slot, NEW c \in Call, c = call[t][k], c # NoCall,
           c.step = "ready", NEW to \in Project, c.about = {to}, c.copies[to] # NoCopy,
           page'[t] = [project |-> to, copy |-> c.copies[to]], misled[t] \subseteq misled'[t]
    PROVE  PageForward(t)
  <1> SUFFICES ASSUME NEW p \in Project \ misled'[t], Pages(t, p), Pages(t, p)'
               PROVE  ~Older(page'[t].copy, page[t].copy)
    BY DEF PageForward
  <1>1. p = to /\ page'[t].copy = c.copies[to]
    BY DEF Pages
  <1>2. CallOK(t, c, p)
    BY <1>1, OneCall
  <1>3. PICK a \in Copy : a = page[t].copy
    BY PageNotNewer
  <1>4. PICK b \in Copy : b = c.copies[to]
    BY DEF Call
  <1>5. b.row >= a.row /\ b.work >= a.work
    BY <1>1, <1>2, <1>3, <1>4 DEF CallOK, Holds
  <1> QED
    BY <1>1, <1>3, <1>4, <1>5, NotOlder

\* which is what opens a project,
LEMMA OpenProjectForward ==
    ASSUME IInv, NEW t \in Tab, NEW k \in Slot, OpenProject(t, k)
    PROVE  PageForward(t)
  <1>1. PICK c \in Call : /\ c = call[t][k] /\ c # NoCall /\ c.step = "ready" /\ c.why = "open"
                          /\ c.to # Manager
    BY DEF OpenProject, IInv, TypeOK
  <1>2. PICK to \in Project : to = c.to
    BY <1>1, OneCall
  <1>3. CallShape(c, place[t])
    BY <1>1, OneCall
  <1>4. c.about = {to} /\ c.copies[to] # NoCopy
    BY <1>1, <1>2, <1>3 DEF CallShape
  <1>5. page'[t] = [project |-> to, copy |-> c.copies[to]] /\ misled' = misled
    BY <1>1, <1>2 DEF OpenProject, IInv, TypeOK
  <1> QED
    BY <1>1, <1>4, <1>5, PageTakes

\* and what changes it.
LEMMA ProjectChangedPageForward ==
    ASSUME IInv, NEW t \in Tab, NEW k \in Slot, ProjectChangedPage(t, k)
    PROVE  PageForward(t)
  <1>1. PICK c \in Call : c = call[t][k] /\ c # NoCall /\ c.step = "ready" /\ c.why # "open"
    BY DEF ProjectChangedPage, IInv, TypeOK
  <1>2. PICK to \in Project : to = c.to /\ c.about = {to} /\ c.copies[to] # NoCopy
    BY <1>1, OneProject
  <1>3. page'[t] = [project |-> to, copy |-> c.copies[to]] /\ misled[t] \subseteq misled'[t]
    BY <1>1, <1>2 DEF ProjectChangedPage, Mislead, IInv, TypeOK
  <1> QED
    BY <1>1, <1>2, <1>3, PageTakes

\* The tab's own steps.
LEMMA OwnPageForward ==
    ASSUME IInv, NEW t \in Tab, TabStep(t)
    PROVE  PageForward(t) /\ \A v \in Tab \ {t} : page'[v] = page[v]
  <1>1. CASE UNCHANGED page
    BY <1>1, PageStays
  <1>2. ASSUME NEW k \in Slot, OpenList(t, k)
        PROVE  PageForward(t) /\ \A v \in Tab \ {t} : page'[v] = page[v]
    BY <1>2, PageStays DEF OpenList, IInv, TypeOK
  <1>3. ASSUME NEW k \in Slot, OpenProject(t, k)
        PROVE  PageForward(t) /\ \A v \in Tab \ {t} : page'[v] = page[v]
    BY <1>3, OpenProjectForward DEF OpenProject, IInv, TypeOK
  <1>4. ASSUME NEW k \in Slot, ProjectChangedPage(t, k)
        PROVE  PageForward(t) /\ \A v \in Tab \ {t} : page'[v] = page[v]
    BY <1>4, ProjectChangedPageForward DEF ProjectChangedPage, IInv, TypeOK
  <1>5. \/ UNCHANGED page
        \/ \E k \in Slot : OpenList(t, k) \/ OpenProject(t, k) \/ ProjectChangedPage(t, k)
    BY DEF TabStep, Open, Fetch, RemoveFromList, LeavePage, IgnoreRemoval, Disconnect, Connect,
           Verify, GetRow, GetRows, GetTasks, Fail, Error, ProjectAdded, ProjectChangedList, view
  <1> QED
    BY <1>1, <1>2, <1>3, <1>4, <1>5

\* Short of those races no step takes a tab's list or its project page back to
\* an older state of a project: answers come in any order, but one at a time.
THEOREM NeverBack == Spec => NoStepBack
  <1>1. ASSUME IInv, [Next]_vars
        PROVE  [StepsForward]_vars
    <2>1. ASSUME \A t \in Tab : Forward(t) /\ PageForward(t)
          PROVE  [StepsForward]_vars
      BY <2>1 DEF StepsForward, Forward, PageForward, Pages
    <2>2. CASE UNCHANGED vars
      BY <2>2
    <2>3. ASSUME NEW s \in Session, ServerStep(s)
          PROVE  [StepsForward]_vars
      <3>1. UNCHANGED <<shown, page>>
        BY <2>3 DEF ServerStep, AddProject, UpdateProject, CheckUser, GetUsers, UpdateUsers,
           UpdateTask, Send, GetProjectToDelete, DeleteProject, Commit, Rollback, view
      <3> QED
        BY <1>1, <2>1, <3>1, OthersForward, PageStays
    <2>4. ASSUME NEW t \in Tab, TabStep(t)
          PROVE  [StepsForward]_vars
      <3>1. Forward(t) /\ \A v \in Tab \ {t} : Forward(v)
        BY <1>1, <2>4, OwnForward, OthersForward
      <3>2. PageForward(t) /\ \A v \in Tab \ {t} : PageForward(v)
        BY <1>1, <2>4, OwnPageForward, PageStays
      <3> QED
        BY <2>1, <3>1, <3>2
    <2> QED
      BY <1>1, <2>2, <2>3, <2>4 DEF Next
  <1> QED
    BY <1>1, Inductive, PTL DEF Spec, NoStepBack
=============================================================================
