---------------------------- MODULE Users_proofs ----------------------------
(***************************************************************************)
(* Proofs about Users.tla, for any number of accounts, names, overlapping  *)
(* loads and changes of names.  What the page shows and keeps is put       *)
(* together from what answers said when they were given; the invariant     *)
(* says of everything on its way that it was true once, and how the parts  *)
(* of a load complete each other.                                          *)
(***************************************************************************)
EXTENDS Users, TLAPS

Uids(users) == {u.uid : u \in users}

\* Names their users bore, one for each user.
Borne(users) ==
    /\ \A u \in users : u.name \in borne[u.uid]
    /\ \A u, v \in users : u.uid = v.uid => u = v

\* OpenStreetMap's own list, and what UserService kept of it.
NamesOK ==
    /\ \A u \in Uid : displayName[u] # NoName => displayName[u] \in borne[u]
    /\ \A u \in Uid : cache[u] # NoName => cache[u] \in borne[u]

\* A load has the names it found and asks for the others; the answer is about
\* exactly these.
LoadOK ==
    \A k \in Slot : load[k] # NoLoad =>
        LET l == load[k] IN
        /\ Borne(l.cachedUsers) /\ Uids(l.cachedUsers) \subseteq l.users
        /\ l.answer \notin {Refused, NoLoad} =>
             Borne(l.answer) /\ Uids(l.answer) = l.users \ Uids(l.cachedUsers)

PageOK == Borne(project.users) /\ Uids(project.users) = project.loaded

\* The answer to a look-up is a user who bore the name that was entered.
InvitationOK ==
    /\ invitation # NoInvitation /\ invitation.answer \notin {Refused, NoInvitation} =>
         /\ invitation.answer.name = invitation.entered
         /\ invitation.entered \in borne[invitation.answer.uid]
    /\ InvitedBoreName

IInv == TypeOK /\ NamesOK /\ LoadOK /\ PageOK /\ InvitationOK

-----------------------------------------------------------------------------
\* Users that bore their names still did after anybody was renamed.
LEMMA BorneGrows ==
    ASSUME NEW users \in SUBSET User, Borne(users),
           \A u \in Uid : borne[u] \subseteq borne'[u]
    PROVE  Borne(users)'
  BY DEF Borne, User

\* Users with the names f has for them.
Pairs(f, uids) == {[uid |-> u, name |-> f[u]] : u \in uids}

\* If each name was borne by its user, so is every name in the list.
LEMMA PairsBorne ==
    ASSUME NEW f, NEW uids \in SUBSET Uid,
           \A u \in uids : f[u] \in Name /\ f[u] \in borne[u]
    PROVE  /\ Pairs(f, uids) \in SUBSET User /\ Borne(Pairs(f, uids))
           /\ Uids(Pairs(f, uids)) = uids
  <1> DEFINE users == Pairs(f, uids)
  <1>1. \A v \in users : v.uid \in uids /\ v = [uid |-> v.uid, name |-> f[v.uid]]
    BY DEF Pairs
  <1>2. users \in SUBSET User /\ Borne(users)
    BY <1>1 DEF User, Borne
  <1>3. \A u \in uids : \E v \in users : v.uid = u
    <2> TAKE u \in uids
    <2>1. [uid |-> u, name |-> f[u]] \in users
      BY DEF Pairs
    <2> HIDE DEF users
    <2> QED
      BY <2>1
  <1> HIDE DEF users
  <1>4. Uids(users) = uids
    BY <1>1, <1>3 DEF Uids
  <1> QED
    BY <1>2, <1>4 DEF users

\* What OpenStreetMap says of accounts that exist is true now.
LEMMA NamedBorne ==
    ASSUME TypeOK, NamesOK, NEW uids \in SUBSET Uid, \A u \in uids : displayName[u] # NoName
    PROVE  Named(uids) \in SUBSET User /\ Borne(Named(uids)) /\ Uids(Named(uids)) = uids
  <1>1. \A u \in uids : displayName[u] \in Name /\ displayName[u] \in borne[u]
    BY DEF TypeOK, NamesOK
  <1> QED
    BY <1>1, PairsBorne DEF Named, Pairs

\* What UserService has of some users: those it knows.
LEMMA CachedBorne ==
    ASSUME TypeOK, NamesOK, NEW uids \in SUBSET Uid
    PROVE  /\ cachedUsers(uids) \in SUBSET User /\ Borne(cachedUsers(uids))
           /\ Uids(cachedUsers(uids)) = uids \ uncachedUsers(uids)
  <1> DEFINE known == {v \in uids : cache[v] # NoName}
  <1>1. \A u \in known : cache[u] \in Name /\ cache[u] \in borne[u]
    BY DEF TypeOK, NamesOK
  <1>2. cachedUsers(uids) = Pairs(cache, known)
    BY DEF cachedUsers, Pairs
  <1>3. known = uids \ uncachedUsers(uids) /\ known \in SUBSET Uid
    BY DEF uncachedUsers
  <1> HIDE DEF known
  <1>4. /\ cachedUsers(uids) \in SUBSET User /\ Borne(cachedUsers(uids))
        /\ Uids(cachedUsers(uids)) = known
    BY <1>1, <1>2, <1>3, PairsBorne
  <1> QED
    BY <1>3, <1>4

\* It keeps the users of an answer and forgets none.
LEMMA SetNames ==
    ASSUME TypeOK, NEW users \in SUBSET User
    PROVE  /\ set(users) \in [Uid -> Name \cup {NoName}]
           /\ \A u \in Uid : \/ set(users)[u] = cache[u]
                             \/ \E v \in users : v.uid = u /\ set(users)[u] = v.name
  <1>1. ASSUME NEW u \in Uid
        PROVE  /\ set(users)[u] \in Name \cup {NoName}
               /\ \/ set(users)[u] = cache[u]
                  \/ \E v \in users : v.uid = u /\ set(users)[u] = v.name
    <2>1. CASE \E v \in users : v.uid = u
      <3>1. PICK v \in users : v.uid = u /\ v = CHOOSE w \in users : w.uid = u
        BY <2>1
      <3> QED
        BY <2>1, <3>1 DEF set, User
    <2>2. CASE ~ \E v \in users : v.uid = u
      BY <2>2 DEF set, TypeOK
    <2> QED
      BY <2>1, <2>2
  <1> QED
    BY <1>1 DEF set

\* What it keeps then was borne.
LEMMA SetBorne ==
    ASSUME TypeOK, NamesOK, NEW users \in SUBSET User, Borne(users), cache' = set(users),
           UNCHANGED osm
    PROVE  NamesOK' /\ cache' \in [Uid -> Name \cup {NoName}]
  BY SetNames DEF NamesOK, Borne, osm

-----------------------------------------------------------------------------
(* Every step keeps the invariant.                                         *)

\* Whatever changes at OpenStreetMap, a name that was borne stays one.
LEMMA OsmKeeps ==
    ASSUME IInv, NEW u \in Uid, Rename(u) \/ RemoveAccount(u)
    PROVE  IInv'
  <1>1. /\ displayName' \in [Uid -> Name \cup {NoName}] /\ borne' \in [Uid -> SUBSET Name]
        /\ \A v \in Uid : borne[v] \subseteq borne'[v]
        /\ \A v \in Uid : displayName'[v] # NoName => displayName'[v] \in borne'[v]
    BY DEF IInv, TypeOK, NamesOK, Rename, RemoveAccount
  <1>2. changes' \in 0 .. MaxChanges
    BY UsersAssumption DEF IInv, TypeOK, Rename, RemoveAccount
  <1>3. UNCHANGED <<members, cache, load, project, invitation, invited>>
    BY DEF Rename, RemoveAccount
  <1>4. TypeOK'
    BY <1>1, <1>2, <1>3 DEF IInv, TypeOK
  <1>5. NamesOK'
    BY <1>1, <1>3 DEF IInv, TypeOK, NamesOK
  <1>6. \A users \in SUBSET User : Borne(users) => Borne(users)'
    BY <1>1, BorneGrows
  <1>7. LoadOK'
    <2> SUFFICES ASSUME NEW k \in Slot, load[k] # NoLoad
                 PROVE  /\ Borne(load[k].cachedUsers)'
                        /\ Uids(load[k].cachedUsers) \subseteq load[k].users
                        /\ load[k].answer \notin {Refused, NoLoad} =>
                             /\ Borne(load[k].answer)'
                             /\ Uids(load[k].answer)
                                  = load[k].users \ Uids(load[k].cachedUsers)
      BY <1>3 DEF LoadOK, Borne, Uids
    <2>1. /\ load[k].cachedUsers \in SUBSET User
          /\ load[k].answer \notin {Refused, NoLoad} => load[k].answer \in SUBSET User
      BY DEF IInv, TypeOK, Load
    <2> QED
      BY <1>3, <1>6, <2>1 DEF IInv, LoadOK
  <1>8. PageOK'
    <2>1. project.users \in SUBSET User
      BY DEF IInv, TypeOK
    <2>2. Borne(project.users)'
      BY <1>6, <1>3, <2>1 DEF IInv, PageOK, Borne
    <2> QED
      BY <1>3, <2>2 DEF IInv, PageOK, Uids
  <1>9. InvitationOK'
    <2>1. invitation # NoInvitation /\ invitation.answer \notin {Refused, NoInvitation}
            => invitation.answer.uid \in Uid
      BY DEF IInv, TypeOK, Invitation, User
    <2>2. invited # NoInvitation => invited.uid \in Uid
      BY DEF IInv, TypeOK
    <2> QED
      BY <1>1, <1>3, <2>1, <2>2 DEF IInv, InvitationOK, InvitedBoreName
  <1> QED
    BY <1>4, <1>5, <1>7, <1>8, <1>9 DEF IInv

\* Members come and go without any effect on what is shown or under way.
LEMMA MembersKeep ==
    ASSUME IInv, NEW u \in Uid, onRemoveUserClicked(u) \/ ChangeElsewhere(u)
    PROVE  IInv'
  <1>1. members' \subseteq Uid /\ changes' \in 0 .. MaxChanges
    BY UsersAssumption DEF IInv, TypeOK, onRemoveUserClicked, ChangeElsewhere, osm
  <1>2. UNCHANGED <<displayName, borne, cache, load, project, invitation, invited>>
    BY DEF onRemoveUserClicked, ChangeElsewhere, osm
  <1>3. TypeOK'
    BY <1>1, <1>2 DEF IInv, TypeOK
  <1>4. NamesOK' /\ LoadOK' /\ PageOK' /\ InvitationOK'
    BY <1>2 DEF IInv, NamesOK, LoadOK, PageOK, InvitationOK, InvitedBoreName, Borne, Uids
  <1> QED
    BY <1>3, <1>4 DEF IInv

\* A load begins with the names UserService has; with all of them, it is over.
LEMMA GetUsersKeeps ==
    ASSUME IInv, NEW k \in Slot, getUsersByIds(k)
    PROVE  IInv'
  <1> DEFINE had == cachedUsers(members)
  <1>1. /\ members \in SUBSET Uid /\ had \in SUBSET User /\ Borne(had)
        /\ Uids(had) = members \ uncachedUsers(members)
    BY CachedBorne DEF IInv, TypeOK
  <1>2. UNCHANGED <<displayName, changes, borne, members, cache, invitation, invited>>
    BY DEF getUsersByIds, osm
  <1>3. NamesOK' /\ InvitationOK' /\ \A users : Borne(users)' <=> Borne(users)
    BY <1>2 DEF IInv, NamesOK, InvitationOK, InvitedBoreName, Borne
  <1>4. CASE uncachedUsers(members) = {}
    <2>1. project' = [loaded |-> members, users |-> had] /\ load' = load
      BY <1>4 DEF getUsersByIds, toProject
    <2>2. TypeOK'
      BY <1>1, <1>2, <2>1 DEF IInv, TypeOK
    <2>3. PageOK'
      BY <1>1, <1>3, <1>4, <2>1 DEF PageOK
    <2>4. LoadOK'
      BY <1>3, <2>1 DEF IInv, LoadOK
    <2> QED
      BY <1>3, <2>2, <2>3, <2>4 DEF IInv
  <1>5. CASE uncachedUsers(members) # {}
    <2> DEFINE l == [users |-> members, cachedUsers |-> had, answer |-> NoLoad]
    <2>1. load' = [load EXCEPT ![k] = l] /\ project' = project
      BY <1>5 DEF getUsersByIds
    <2>2. l \in Load
      BY <1>1 DEF Load
    <2>3. TypeOK'
      BY <1>2, <2>1, <2>2 DEF IInv, TypeOK
    <2>4. LoadOK'
      BY <1>1, <1>3, <2>1 DEF IInv, TypeOK, LoadOK
    <2>5. PageOK'
      BY <1>3, <2>1 DEF IInv, PageOK
    <2> QED
      BY <1>3, <2>3, <2>4, <2>5 DEF IInv
  <1> QED
    BY <1>4, <1>5

\* OpenStreetMap answers with exactly the users it was asked for, or refuses.
LEMMA AnswerUsersKeeps ==
    ASSUME IInv, NEW k \in Slot, AnswerUsers(k)
    PROVE  IInv'
  <1> DEFINE asked == load[k].users \ Uids(load[k].cachedUsers)
  <1>1. /\ load[k] \in Load /\ load[k] # NoLoad
        /\ UNCHANGED <<displayName, changes, borne, members, cache, project, invitation, invited>>
    BY DEF AnswerUsers, osm, IInv, TypeOK
  <1>2. PICK answer \in UsersAnswer(asked) : load' = [load EXCEPT ![k].answer = answer]
    BY DEF AnswerUsers, Uids
  <1>3. asked \in SUBSET Uid
    BY <1>1 DEF Load
  <1>4. \/ answer = Refused
        \/ answer \in SUBSET User /\ Borne(answer) /\ Uids(answer) = asked
    BY <1>2, <1>3, NamedBorne DEF UsersAnswer, IInv
  <1>5. NamesOK' /\ PageOK' /\ InvitationOK' /\ \A users : Borne(users)' <=> Borne(users)
    BY <1>1 DEF IInv, NamesOK, PageOK, InvitationOK, InvitedBoreName, Borne, Uids
  <1>6. /\ load'[k] = [load[k] EXCEPT !.answer = answer] /\ load'[k] \in Load
        /\ load' \in [Slot -> Load \cup {NoLoad}]
        /\ \A j \in Slot \ {k} : load'[j] = load[j]
    BY <1>1, <1>2, <1>4 DEF IInv, TypeOK, Load
  <1>7. TypeOK'
    BY <1>1, <1>6 DEF IInv, TypeOK
  <1>8. LoadOK'
    <2> SUFFICES ASSUME NEW j \in Slot, load'[j] # NoLoad
                 PROVE  /\ Borne(load'[j].cachedUsers)
                        /\ Uids(load'[j].cachedUsers) \subseteq load'[j].users
                        /\ load'[j].answer \notin {Refused, NoLoad} =>
                             /\ Borne(load'[j].answer)
                             /\ Uids(load'[j].answer)
                                  = load'[j].users \ Uids(load'[j].cachedUsers)
      BY <1>5 DEF LoadOK, Uids
    <2>1. CASE j = k
      <3>1. /\ load'[k].cachedUsers = load[k].cachedUsers /\ load'[k].users = load[k].users
            /\ load'[k].answer = answer
        BY <1>1, <1>6 DEF Load
      <3> QED
        BY <1>1, <1>4, <2>1, <3>1 DEF IInv, LoadOK
    <2>2. CASE j # k
      BY <1>6, <2>2 DEF IInv, LoadOK
    <2> QED
      BY <2>1, <2>2
  <1> QED
    BY <1>5, <1>7, <1>8 DEF IInv

\* With the answer the page has all users of the project it was sent.
LEMMA ReceiveUsersKeeps ==
    ASSUME IInv, NEW k \in Slot, ReceiveUsers(k)
    PROVE  IInv'
  <1> DEFINE l == load[k]
  <1>1. /\ l \in Load /\ l # NoLoad /\ l.answer # NoLoad
        /\ load' = [load EXCEPT ![k] = NoLoad]
        /\ UNCHANGED <<displayName, changes, borne, members, invitation, invited>>
    BY DEF ReceiveUsers, osm, IInv, TypeOK
  <1>2. InvitationOK' /\ \A users : Borne(users)' <=> Borne(users)
    BY <1>1 DEF IInv, InvitationOK, InvitedBoreName, Borne
  <1>3. load' \in [Slot -> Load \cup {NoLoad}] /\ LoadOK'
    BY <1>1, <1>2 DEF IInv, TypeOK, LoadOK
  <1>4. CASE l.answer = Refused
    <2>1. cache' = cache /\ project' = project
      BY <1>4 DEF ReceiveUsers
    <2>2. TypeOK'
      BY <1>1, <1>3, <2>1 DEF IInv, TypeOK
    <2>3. NamesOK' /\ PageOK'
      BY <1>1, <1>2, <2>1 DEF IInv, NamesOK, PageOK
    <2> QED
      BY <1>2, <1>3, <2>2, <2>3 DEF IInv
  <1>5. CASE l.answer # Refused
    <2>1. /\ l.answer \in SUBSET User /\ l.cachedUsers \in SUBSET User /\ l.users \in SUBSET Uid
          /\ Borne(l.answer) /\ Borne(l.cachedUsers)
          /\ Uids(l.answer) = l.users \ Uids(l.cachedUsers)
          /\ Uids(l.cachedUsers) \subseteq l.users
      BY <1>1, <1>5 DEF IInv, LoadOK, Load
    <2>2. /\ cache' = set(l.answer)
          /\ project' = [loaded |-> l.users, users |-> l.cachedUsers \cup l.answer]
      BY <1>5 DEF ReceiveUsers, toProject
    <2>3. NamesOK' /\ cache' \in [Uid -> Name \cup {NoName}]
      BY <1>1, <2>1, <2>2, SetBorne DEF IInv, osm
    <2>4. TypeOK'
      BY <1>1, <1>3, <2>1, <2>2, <2>3 DEF IInv, TypeOK
    <2>5. Borne(l.cachedUsers \cup l.answer)
      BY <2>1 DEF Borne, Uids
    <2>6. Uids(l.cachedUsers \cup l.answer) = l.users
      BY <2>1 DEF Uids
    <2>7. PageOK'
      BY <1>2, <2>2, <2>5, <2>6 DEF PageOK
    <2> QED
      BY <1>2, <1>3, <2>3, <2>4, <2>7 DEF IInv
  <1> QED
    BY <1>4, <1>5

\* A kept name leads to a user who bore it.
LEMMA InviteClickKeeps ==
    ASSUME IInv, NEW entered \in Name, onInvitationButtonClicked(entered)
    PROVE  IInv'
  <1>1. UNCHANGED <<displayName, changes, borne, cache, load, project>>
    BY DEF onInvitationButtonClicked, osm
  <1>2. NamesOK' /\ LoadOK' /\ PageOK'
    BY <1>1 DEF IInv, NamesOK, LoadOK, PageOK, Borne, Uids
  <1>3. CASE /\ \E u \in Uid : cache[u] = entered /\ Invite(u, entered)
             /\ UNCHANGED invitation
    <2>1. PICK u \in Uid : cache[u] = entered /\ Invite(u, entered)
      BY <1>3
    <2>2. members' \subseteq Uid /\ invited' = [uid |-> u, entered |-> entered]
      BY <2>1 DEF Invite, IInv, TypeOK
    <2>3. TypeOK'
      BY <1>1, <1>3, <2>2 DEF IInv, TypeOK
    <2>4. entered \in borne[u]
      BY <2>1, UsersAssumption DEF IInv, NamesOK
    <2>5. InvitationOK'
      BY <1>1, <1>3, <2>2, <2>4 DEF IInv, InvitationOK, InvitedBoreName
    <2> QED
      BY <1>2, <2>3, <2>5 DEF IInv
  <1>4. CASE /\ invitation' = [entered |-> entered, stage |-> "changesets",
                               answer |-> NoInvitation]
             /\ UNCHANGED <<members, invited>>
    <2>1. invitation' \in Invitation /\ invitation'.answer = NoInvitation
      BY <1>4 DEF Invitation, Stage
    <2>2. TypeOK'
      BY <1>1, <1>4, <2>1 DEF IInv, TypeOK
    <2>3. InvitationOK'
      BY <1>1, <1>4, <2>1 DEF IInv, InvitationOK, InvitedBoreName
    <2> QED
      BY <1>2, <2>2, <2>3 DEF IInv
  <1> QED
    BY <1>3, <1>4 DEF onInvitationButtonClicked

\* Whoever is found by a name bears it at that moment; the notes list others,
\* too, and they are left out.
LEMMA FoundBear ==
    ASSUME TypeOK, NEW stage \in Stage, NEW name \in Name, NEW user \in Found(stage, name)
    PROVE  user \in User /\ user.name = name /\ displayName[user.uid] = name
  <1>1. CASE stage = "changesets"
    <2>1. PICK u \in Bearers(name) \cap Mappers : user = [uid |-> u, name |-> displayName[u]]
      BY <1>1 DEF Found, Named
    <2> QED
      BY <2>1 DEF Bearers, User
  <1>2. CASE stage = "notes"
    <2>1. user \in Named(Commenters) /\ user.name = name
      BY <1>2 DEF Found, extractDataFromComment
    <2>2. PICK u \in Commenters : user = [uid |-> u, name |-> displayName[u]]
      BY <2>1 DEF Named
    <2> QED
      BY <2>1, <2>2, UsersAssumption DEF User
  <1> QED
    BY <1>1, <1>2 DEF Stage

\* The answer to a look-up is one of these, or none.
LEMMA AnswerNameKeeps ==
    ASSUME IInv, AnswerName
    PROVE  IInv'
  <1> DEFINE i == invitation
             found == Found(i.stage, i.entered)
  <1>1. /\ i \in Invitation /\ i # NoInvitation
        /\ UNCHANGED <<displayName, changes, borne, members, cache, load, project, invited>>
    BY DEF AnswerName, osm, IInv, TypeOK
  <1>2. PICK answer \in IF found = {} THEN {Refused} ELSE found :
           invitation' = [i EXCEPT !.answer = answer]
    BY DEF AnswerName
  <1>3. i.stage \in Stage /\ i.entered \in Name
    BY <1>1 DEF Invitation
  <1>4. \/ answer = Refused
        \/ answer \in User /\ answer.name = i.entered /\ displayName[answer.uid] = i.entered
    <2>1. found # {} => answer \in found
      BY <1>2
    <2>2. found = {} => answer = Refused
      BY <1>2
    <2> QED
      BY <1>3, <2>1, <2>2, FoundBear DEF IInv
  <1>5. /\ invitation' \in Invitation /\ invitation'.answer = answer
        /\ invitation'.entered = i.entered
    BY <1>1, <1>2, <1>4 DEF Invitation
  <1>6. TypeOK'
    BY <1>1, <1>5 DEF IInv, TypeOK
  <1>7. NamesOK' /\ LoadOK' /\ PageOK'
    BY <1>1 DEF IInv, NamesOK, LoadOK, PageOK, Borne, Uids
  <1>8. answer # Refused => i.entered \in borne[answer.uid]
    BY <1>3, <1>4, UsersAssumption DEF IInv, NamesOK, User
  <1>9. InvitationOK'
    BY <1>1, <1>4, <1>5, <1>8 DEF IInv, InvitationOK, InvitedBoreName
  <1> QED
    BY <1>6, <1>7, <1>9 DEF IInv

\* Whoever was found is invited and kept; after the notes, nobody is.
LEMMA ReceiveNameKeeps ==
    ASSUME IInv, ReceiveName
    PROVE  IInv'
  <1> DEFINE i == invitation
  <1>1. /\ i \in Invitation /\ i # NoInvitation /\ i.answer # NoInvitation
        /\ UNCHANGED <<displayName, changes, borne, load, project>>
    BY DEF ReceiveName, osm, IInv, TypeOK
  <1>2. LoadOK' /\ PageOK' /\ \A users : Borne(users)' <=> Borne(users)
    BY <1>1 DEF IInv, LoadOK, PageOK, Borne, Uids
  <1>3. CASE i.answer = Refused
    <2>1. /\ invitation' = IF i.stage = "notes" THEN NoInvitation
                           ELSE [i EXCEPT !.stage = "notes", !.answer = NoInvitation]
          /\ UNCHANGED <<members, cache, invited>>
      BY <1>3 DEF ReceiveName
    <2>2. \/ invitation' = NoInvitation
          \/ invitation' \in Invitation /\ invitation'.answer = NoInvitation
      BY <1>1, <2>1 DEF Invitation, Stage
    <2>3. TypeOK'
      BY <1>1, <2>1, <2>2 DEF IInv, TypeOK
    <2>4. NamesOK' /\ InvitationOK'
      BY <1>1, <2>1, <2>2 DEF IInv, NamesOK, InvitationOK, InvitedBoreName
    <2> QED
      BY <1>2, <2>3, <2>4 DEF IInv
  <1>4. CASE i.answer # Refused
    <2>1. /\ cache' = set({i.answer}) /\ invitation' = NoInvitation
          /\ members' = members \cup {i.answer.uid}
          /\ invited' = [uid |-> i.answer.uid, entered |-> i.entered]
      BY <1>4 DEF ReceiveName, Invite
    <2>2. /\ i.answer \in User /\ i.answer.uid \in Uid /\ i.entered \in Name
          /\ i.answer.name = i.entered /\ i.entered \in borne[i.answer.uid]
      BY <1>1, <1>4 DEF IInv, InvitationOK, Invitation, User
    <2>3. {i.answer} \in SUBSET User /\ Borne({i.answer})
      BY <2>2 DEF Borne
    <2>4. NamesOK' /\ cache' \in [Uid -> Name \cup {NoName}]
      BY <1>1, <2>1, <2>3, SetBorne DEF IInv, osm
    <2>5. TypeOK'
      BY <1>1, <2>1, <2>2, <2>4 DEF IInv, TypeOK
    <2>6. InvitationOK'
      BY <1>1, <2>1, <2>2 DEF InvitationOK, InvitedBoreName
    <2> QED
      BY <1>2, <2>4, <2>5, <2>6 DEF IInv
  <1> QED
    BY <1>3, <1>4

\* The invariant holds when the page is loaded.
LEMMA InitIInv ==
    Init => IInv
  <1> SUFFICES ASSUME Init PROVE IInv
    OBVIOUS
  <1>1. TypeOK
    BY UsersAssumption DEF Init, TypeOK
  <1>2. NamesOK /\ LoadOK /\ PageOK /\ InvitationOK
    BY DEF Init, NamesOK, LoadOK, PageOK, InvitationOK, InvitedBoreName, Borne, Uids
  <1> QED
    BY <1>1, <1>2 DEF IInv

\* So it is inductive.
LEMMA StepIInv ==
    IInv /\ [Next]_vars => IInv'
  <1> SUFFICES ASSUME IInv, [Next]_vars PROVE IInv'
    OBVIOUS
  <1>1. CASE Next
    BY <1>1, OsmKeeps, MembersKeep, GetUsersKeeps, AnswerUsersKeeps, ReceiveUsersKeeps,
       InviteClickKeeps, AnswerNameKeeps, ReceiveNameKeeps DEF Next
  <1>2. CASE UNCHANGED vars
    BY <1>2 DEF vars, IInv, TypeOK, NamesOK, LoadOK, PageOK, InvitationOK, InvitedBoreName,
       Borne, Uids
  <1> QED
    BY <1>1, <1>2

\* The invariant holds throughout.
THEOREM Inductive == Spec => []IInv
  BY InitIInv, StepIInv, PTL DEF Spec

-----------------------------------------------------------------------------
\* Every name UserService keeps or the page shows was borne by its user since
\* the page was loaded, however loads overlap, and nobody is shown twice.
THEOREM NamesTrue == Spec => []UsersOK
  <1>1. IInv => UsersOK
    BY DEF IInv, UsersOK, NamesWereBorne, NamesOK, PageOK, Borne
  <1> QED
    BY <1>1, Inductive, PTL

\* The page never shows a project without one of the members it was sent.
THEOREM AllShown == Spec => []ListComplete
  <1>1. IInv => ListComplete
    BY DEF IInv, PageOK, ListComplete, Uids
  <1> QED
    BY <1>1, Inductive, PTL

\* Nobody is invited by a name he never bore.
THEOREM NoStranger == Spec => []InvitedBoreName
  <1>1. IInv => InvitedBoreName
    BY DEF IInv, InvitationOK
  <1> QED
    BY <1>1, Inductive, PTL
=============================================================================
