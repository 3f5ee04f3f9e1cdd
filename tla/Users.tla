------------------------------- MODULE Users --------------------------------
(***************************************************************************)
(* The users of a project on its page.  The server knows users by id; the  *)
(* UserService of the client asks OpenStreetMap for their names, keeps     *)
(* what it learns as long as the page is loaded, and finds the id of a     *)
(* name to invite, first in what it keeps, then by the changesets and at   *)
(* last by the notes of that name.  Accounts are renamed, a free name is   *)
(* taken by somebody else, and accounts are removed.                       *)
(***************************************************************************)
EXTENDS Integers

CONSTANTS
    Uid, Name, owner,
    Mappers,      \* users who have made a changeset
    Commenters,   \* users who have commented on a note
    InitialName,  \* display names when the page is loaded
    Slot,         \* bound: projects being loaded at a time
    MaxChanges,   \* bound: of names, accounts and, elsewhere, members
    NoName, NoLoad, NoInvitation, Refused

ASSUME UsersAssumption ==
    /\ owner \in Uid
    /\ Mappers \subseteq Uid /\ Commenters \subseteq Uid
    /\ NoName \notin Name
    /\ InitialName \in [Uid -> Name]
    /\ \A u, v \in Uid : InitialName[u] = InitialName[v] => u = v
    /\ MaxChanges \in Nat

VARIABLES
    displayName,  \* at OpenStreetMap, NoName without an account
    changes,      \* how many there were, of those MaxChanges bounds
    borne,        \* the names a user bore since the page was loaded
    members,      \* of the project, on the server
    cache,        \* UserService
    load,         \* projects being loaded
    project,      \* on the page: the members as loaded and their names
    invitation,   \* being looked up
    invited       \* the last one, sent to the server

vars == <<displayName, changes, borne, members, cache, load, project, invitation, invited>>
osm == <<displayName, changes, borne>>

-----------------------------------------------------------------------------
User == [uid : Uid, name : Name]

\* users: of the project as the server sent it.  answer: of OpenStreetMap.
Load == [users : SUBSET Uid, cachedUsers : SUBSET User, answer : (SUBSET User) \cup {Refused, NoLoad}]
Stage == {"changesets", "notes"}
Invitation == [entered : Name, stage : Stage, answer : User \cup {Refused, NoInvitation}]

TypeOK ==
    /\ displayName \in [Uid -> Name \cup {NoName}]
    /\ changes \in 0 .. MaxChanges
    /\ borne \in [Uid -> SUBSET Name]
    /\ members \subseteq Uid
    /\ cache \in [Uid -> Name \cup {NoName}]
    /\ load \in [Slot -> Load \cup {NoLoad}]
    /\ project \in [loaded : SUBSET Uid, users : SUBSET User]
    /\ invitation \in Invitation \cup {NoInvitation}
    /\ invited \in [uid : Uid, entered : Name] \cup {NoInvitation}

Init ==
    /\ displayName = InitialName /\ changes = 0
    /\ borne = [u \in Uid |-> {InitialName[u]}]
    /\ members = {owner}
    /\ cache = [u \in Uid |-> NoName]
    /\ load = [k \in Slot |-> NoLoad]
    /\ project = [loaded |-> {}, users |-> {}]
    /\ invitation = NoInvitation /\ invited = NoInvitation

-----------------------------------------------------------------------------
\* OpenStreetMap.
Rename(u) ==
    /\ changes < MaxChanges
    /\ displayName[u] # NoName
    /\ \E name \in Name \ {displayName[v] : v \in Uid} :
          /\ displayName' = [displayName EXCEPT ![u] = name]
          /\ borne' = [borne EXCEPT ![u] = @ \cup {name}]
    /\ changes' = changes + 1
    /\ UNCHANGED <<members, cache, load, project, invitation, invited>>

RemoveAccount(u) ==
    /\ changes < MaxChanges
    /\ displayName[u] # NoName
    /\ displayName' = [displayName EXCEPT ![u] = NoName]
    /\ changes' = changes + 1
    /\ UNCHANGED <<borne, members, cache, load, project, invitation, invited>>

Bearers(name) == {u \in Uid : displayName[u] = name}
Named(uids) == {[uid |-> u, name |-> displayName[u]] : u \in uids}

\* Of the users asked for; none if one of them is gone.
UsersAnswer(uids) == IF \E u \in uids : displayName[u] = NoName THEN {Refused} ELSE {Named(uids)}

-----------------------------------------------------------------------------
\* Loading a project: getUsersByIds asks for the names it does not have yet.
cachedUsers_Unchecked(uids) == {[uid |-> u, name |-> cache[u]] : u \in uids}

cachedUsers(uids) == {[uid |-> u, name |-> cache[u]] : u \in {v \in uids : cache[v] # NoName}}

uncachedUsers(uids) == {u \in uids : cache[u] = NoName}

toProject_Loaded(users, cached, loaded) == [loaded |-> users, users |-> loaded]

toProject(users, cached, loaded) == [loaded |-> users, users |-> cached \cup loaded]

getUsersByIds(k) ==
    /\ load[k] = NoLoad
    /\ IF uncachedUsers(members) = {}
       THEN project' = toProject(members, {}, cachedUsers(members)) /\ UNCHANGED load
       ELSE /\ load' = [load EXCEPT ![k] = [users |-> members, cachedUsers |-> cachedUsers(members),
                                            answer |-> NoLoad]]
            /\ UNCHANGED project
    /\ UNCHANGED <<osm, members, cache, invitation, invited>>

AnswerUsers(k) ==
    /\ load[k] # NoLoad /\ load[k].answer = NoLoad
    /\ \E answer \in UsersAnswer(load[k].users \ {u.uid : u \in load[k].cachedUsers}) :
          load' = [load EXCEPT ![k].answer = answer]
    /\ UNCHANGED <<osm, members, cache, project, invitation, invited>>

set(users) == [u \in Uid |-> IF \E v \in users : v.uid = u
                             THEN (CHOOSE v \in users : v.uid = u).name ELSE cache[u]]

\* A refusal fails the whole project, or list of projects.
ReceiveUsers(k) ==
    /\ load[k] # NoLoad /\ load[k].answer # NoLoad
    /\ IF load[k].answer = Refused THEN UNCHANGED <<cache, project>>
       ELSE /\ cache' = set(load[k].answer)
            /\ project' = toProject(load[k].users, load[k].cachedUsers, load[k].answer)
    /\ load' = [load EXCEPT ![k] = NoLoad]
    /\ UNCHANGED <<osm, members, invitation, invited>>

-----------------------------------------------------------------------------
\* The invitation of a name that is not on the page.
Invite(uid, entered) ==
    /\ members' = members \cup {uid}
    /\ invited' = [uid |-> uid, entered |-> entered]

onInvitationButtonClicked(entered) ==
    /\ project.users # {} /\ invitation = NoInvitation
    /\ entered \notin {u.name : u \in project.users}
    /\ \/ /\ \E u \in Uid : cache[u] = entered /\ Invite(u, entered)
          /\ UNCHANGED invitation
       \/ /\ \A u \in Uid : cache[u] # entered
          /\ invitation' = [entered |-> entered, stage |-> "changesets", answer |-> NoInvitation]
          /\ UNCHANGED <<members, invited>>
    /\ UNCHANGED <<osm, cache, load, project>>

\* Among the comments of a note are other users'.
extractDataFromComment_First(name) == IF Bearers(name) \cap Commenters = {} THEN {} ELSE Named(Commenters)

extractDataFromComment(name) == {user \in Named(Commenters) : user.name = name}

Found(stage, name) ==
    CASE stage = "changesets" -> Named(Bearers(name) \cap Mappers)
      [] stage = "notes" -> extractDataFromComment(name)

AnswerName ==
    /\ invitation # NoInvitation /\ invitation.answer = NoInvitation
    /\ LET found == Found(invitation.stage, invitation.entered)
       IN  \E answer \in IF found = {} THEN {Refused} ELSE found :
              invitation' = [invitation EXCEPT !.answer = answer]
    /\ UNCHANGED <<osm, members, cache, load, project, invited>>

\* Without a changeset of the name the notes are asked; then it is an error.
ReceiveName ==
    /\ invitation # NoInvitation /\ invitation.answer # NoInvitation
    /\ IF invitation.answer = Refused
       THEN /\ invitation' = IF invitation.stage = "notes" THEN NoInvitation
                             ELSE [invitation EXCEPT !.stage = "notes", !.answer = NoInvitation]
            /\ UNCHANGED <<members, cache, invited>>
       ELSE /\ cache' = set({invitation.answer})
            /\ Invite(invitation.answer.uid, invitation.entered)
            /\ invitation' = NoInvitation
    /\ UNCHANGED <<osm, load, project>>

onRemoveUserClicked(u) ==
    /\ u # owner /\ u \in {v.uid : v \in project.users}
    /\ members' = members \ {u}
    /\ UNCHANGED <<osm, cache, load, project, invitation, invited>>

\* The owner invites from another browser, and members leave.
ChangeElsewhere(u) ==
    /\ changes < MaxChanges
    /\ u # owner
    /\ members' = IF u \in members THEN members \ {u} ELSE members \cup {u}
    /\ changes' = changes + 1
    /\ UNCHANGED <<displayName, borne, cache, load, project, invitation, invited>>

Next ==
    \/ \E u \in Uid : Rename(u) \/ RemoveAccount(u) \/ onRemoveUserClicked(u) \/ ChangeElsewhere(u)
    \/ \E k \in Slot : getUsersByIds(k) \/ AnswerUsers(k) \/ ReceiveUsers(k)
    \/ \E name \in Name : onInvitationButtonClicked(name)
    \/ AnswerName \/ ReceiveName

Spec == Init /\ [][Next]_vars

-----------------------------------------------------------------------------
\* A name that is kept or shown is one its user bore since the page was loaded,
\* and no user is shown twice, though loads overlap and answer late.
NamesWereBorne ==
    /\ \A u \in Uid : cache[u] # NoName => cache[u] \in borne[u]
    /\ \A u \in project.users : u.name \in borne[u.uid]
    /\ \A u, v \in project.users : u.uid = v.uid => u = v

UsersOK == TypeOK /\ NamesWereBorne

\* The page shows every member of the project it was sent, the owner among
\* them, without whom the page could not be drawn.
ListComplete == {u.uid : u \in project.users} = project.loaded

\* Who is invited bore the entered name: he may have lost it since the page was
\* loaded, to the one who is meant, but he is no stranger.
InvitedBoreName == invited # NoInvitation => invited.entered \in borne[invited.uid]
=============================================================================
