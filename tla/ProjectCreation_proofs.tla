---------------------- MODULE ProjectCreation_proofs ------------------------
(***************************************************************************)
(* Proofs about ProjectCreation.tla, for any number of drafts, any sizes   *)
(* of polygons and any exports.                                            *)
(*                                                                         *)
(* First what the two loops over drafts compute: findSmallestId gives an   *)
(* id no draft has, and addTasks gives each new draft one.  Both are       *)
(* folds, and what a fold does for every input takes induction.  Then the  *)
(* invariant, on states of service and page: each handler keeps it (Good), *)
(* and what is rendered after it does (BecomeIInv).  Last what a step may  *)
(* do.                                                                     *)
(***************************************************************************)
EXTENDS ProjectCreation, FiniteSetTheorems, WellFoundedInduction, TLAPS

-----------------------------------------------------------------------------
(* Induction.  The induction theorems of the library take a predicate, but *)
(* that every set of finite sets has a minimal element is about sets only. *)

\* A set of finite sets of natural numbers has a minimal member.
LEMMA MinimalSet ==
    ASSUME NEW C, C # {}, \A T \in C : T \subseteq Nat /\ IsFiniteSet(T)
    PROVE  \E T \in C : \A U \in C : U \subseteq T => U = T
  <1> DEFINE R == StrictSubsetOrdering(Nat)
             D == FiniteSubsetsOf(Nat)
  <1>1. IsWellFoundedOn(R, D)
    BY FS_StrictSubsetOrderingWellFounded
  <1>2. C \subseteq D
    BY DEF FiniteSubsetsOf
  <1>3. PICK T \in C : \A U \in C : <<U, T>> \notin R
    <2> HIDE DEF R, D
    <2> QED
      BY <1>1, <1>2, WFMin
  <1> QED
    BY <1>2, <1>3 DEF StrictSubsetOrdering, FiniteSubsetsOf

\* A set of natural numbers has a least member.
LEMMA LeastNat ==
    ASSUME NEW S \in SUBSET Nat, S # {}
    PROVE  \E n \in S : \A m \in S : n <= m
  <1> DEFINE C == {0 .. n : n \in S}
  <1>1. ASSUME NEW T \in C PROVE T \subseteq Nat /\ IsFiniteSet(T)
    <2>1. PICK n \in S : T = 0 .. n
      OBVIOUS
    <2>2. IsFiniteSet(0 .. n)
      BY FS_Interval
    <2> QED
      BY <2>1, <2>2
  <1>2. PICK T \in C : \A U \in C : U \subseteq T => U = T
    <2>1. C # {}
      OBVIOUS
    <2> HIDE DEF C
    <2> QED
      BY <1>1, <2>1, MinimalSet
  <1>3. PICK n \in S : T = 0 .. n
    BY <1>2
  <1>4. ASSUME NEW m \in S, m < n PROVE FALSE
    <2>1. 0 .. m \in C /\ 0 .. m \subseteq T /\ n \in T /\ n \notin 0 .. m
      BY <1>3, <1>4
    <2> QED
      BY <2>1, <1>2
  <1> QED
    BY <1>4

\* A set that contains 0 and with a number the next one contains all.
LEMMA Upwards ==
    ASSUME NEW S, 0 \in S, \A n \in Nat : n \in S => n + 1 \in S
    PROVE  Nat \subseteq S
  <1> SUFFICES ASSUME Nat \ S # {} PROVE FALSE
    OBVIOUS
  <1>1. PICK n \in Nat \ S : \A m \in Nat \ S : n <= m
    BY LeastNat
  <1>2. n - 1 \in Nat /\ n - 1 \in S
    BY <1>1
  <1> QED
    BY <1>1, <1>2

\* A finite set of natural numbers has a greatest member.
LEMMA MaxIn ==
    ASSUME NEW S \in SUBSET Nat, IsFiniteSet(S), S # {}
    PROVE  Max(S) \in S /\ \A x \in S : x <= Max(S)
  <1> DEFINE C == {T \in SUBSET S : T # {} /\ ~\E x \in T : \A y \in T : y <= x}
  <1> SUFFICES ASSUME C # {} PROVE FALSE
    BY DEF Max
  <1>1. \A T \in C : T \subseteq Nat /\ IsFiniteSet(T)
    BY FS_Subset
  <1>2. PICK T \in C : \A U \in C : U \subseteq T => U = T
    <2> HIDE DEF C
    <2> QED
      BY <1>1, MinimalSet
  <1>3. PICK t \in T : TRUE
    BY <1>2
  <1>4. T \ {t} # {}
    BY <1>1, <1>2, <1>3
  <1>5. PICK x \in T \ {t} : \A y \in T \ {t} : y <= x
    <2>1. T \ {t} \notin C
      BY <1>2, <1>3
    <2>2. T \ {t} \in SUBSET S
      BY <1>2
    <2> QED
      BY <1>4, <2>1, <2>2
  <1>6. x \in Nat /\ t \in Nat
    BY <1>1, <1>3, <1>5
  <1>7. \A y \in T : y \in Nat
    BY <1>1
  <1>8. \E z \in T : \A y \in T : y <= z
    <2>1. CASE t <= x
      BY <2>1, <1>3, <1>5, <1>6, <1>7
    <2>2. CASE x <= t
      BY <2>2, <1>3, <1>5, <1>6, <1>7
    <2> QED
      BY <2>1, <2>2, <1>6
  <1> QED
    BY <1>2, <1>8

\* The greatest number up to n is n.
LEMMA MaxUpTo ==
    ASSUME NEW n \in Nat \ {0}
    PROVE  Max(1 .. n) = n
  <1>1. n \in 1 .. n /\ \A y \in 1 .. n : n >= y
    OBVIOUS
  <1> QED
    BY <1>1 DEF Max

-----------------------------------------------------------------------------
(* The ids of new drafts.                                                  *)

\* The loop of findSmallestId, and its state after the ids S.
Scan(id, current) == IF id = current THEN current + 1 ELSE current
ScanEq(iter, S) == iter = [s \in SUBSET S |-> IF s = {} THEN 0 ELSE Scan(Max(s), iter[s \ {Max(s)}])]
Scanned(current, S) == current \in Nat /\ 0 .. current - 1 \subseteq S /\ current \notin S

\* The loop computes something for every finite set.
LEMMA ScanDefined ==
    ASSUME NEW ids \in SUBSET Nat, IsFiniteSet(ids)
    PROVE  \E iter : ScanEq(iter, ids)
  <1> DEFINE C == {S \in SUBSET ids : ~\E iter : ScanEq(iter, S)}
  <1> SUFFICES ASSUME C # {} PROVE FALSE
    OBVIOUS
  <1>1. \A T \in C : T \subseteq Nat /\ IsFiniteSet(T)
    BY FS_Subset
  <1>2. PICK S \in C : \A U \in C : U \subseteq S => U = S
    <2> HIDE DEF C
    <2> QED
      BY <1>1, MinimalSet
  <1>3. S \subseteq Nat /\ IsFiniteSet(S)
    BY <1>1
  <1>4. CASE S = {}
    <2>1. ScanEq([s \in SUBSET S |-> 0], S)
      BY <1>4 DEF ScanEq
    <2> QED
      BY <1>2, <2>1
  <1>5. CASE S # {}
    <2> DEFINE m == Max(S)
    <2>1. m \in S /\ \A x \in S : x <= m
      BY <1>3, <1>5, MaxIn
    <2> HIDE DEF m
    <2>2. PICK f : ScanEq(f, S \ {m})
      <3>1. S \ {m} \notin C
        BY <1>2, <2>1
      <3>2. S \ {m} \in SUBSET ids
        BY <1>2
      <3> QED
        BY <3>1, <3>2
    <2> DEFINE g == [s \in SUBSET S |-> IF m \in s THEN Scan(m, f[s \ {m}]) ELSE f[s]]
    <2>3. ASSUME NEW s \in SUBSET S
          PROVE  g[s] = IF s = {} THEN 0 ELSE Scan(Max(s), g[s \ {Max(s)}])
      <3>1. CASE m \in s
        <4>1. Max(s) = m
          <5>1. s \in SUBSET Nat /\ IsFiniteSet(s) /\ s # {}
            BY <1>3, <3>1, FS_Subset
          <5>2. Max(s) \in s /\ \A x \in s : x <= Max(s)
            BY <5>1, MaxIn
          <5>3. Max(s) \in S /\ Max(s) \in Nat /\ m \in Nat
            BY <1>3, <2>1, <5>2
          <5>4. Max(s) <= m /\ m <= Max(s)
            BY <2>1, <3>1, <5>2, <5>3
          <5> QED
            BY <5>3, <5>4
        <4>2. g[s \ {m}] = f[s \ {m}]
          OBVIOUS
        <4> QED
          BY <3>1, <4>1, <4>2
      <3>2. CASE m \notin s
        <4>1. s \in SUBSET (S \ {m}) /\ s \ {Max(s)} \in SUBSET (S \ {m})
          BY <3>2
        <4>2. g[s] = f[s] /\ g[s \ {Max(s)}] = f[s \ {Max(s)}]
          BY <3>2
        <4> HIDE DEF g
        <4> QED
          BY <2>2, <4>1, <4>2 DEF ScanEq
      <3> QED
        BY <3>1, <3>2
    <2>4. ScanEq(g, S)
      <3>1. g = [s \in SUBSET S |-> g[s]]
        OBVIOUS
      <3> HIDE DEF g
      <3> QED
        BY <2>3, <3>1 DEF ScanEq
    <2> HIDE DEF g
    <2> QED
      BY <1>2, <2>4
  <1> QED
    BY <1>4, <1>5

\* And that is the smallest number which is no id.
LEMMA ScanSmallest ==
    ASSUME NEW ids \in SUBSET Nat, IsFiniteSet(ids), NEW iter, ScanEq(iter, ids)
    PROVE  Scanned(iter[ids], ids)
  <1> DEFINE C == {S \in SUBSET ids : ~Scanned(iter[S], S)}
  <1> SUFFICES ASSUME C # {} PROVE FALSE
    OBVIOUS
  <1>1. \A T \in C : T \subseteq Nat /\ IsFiniteSet(T)
    BY FS_Subset
  <1>2. PICK S \in C : \A U \in C : U \subseteq S => U = S
    <2> HIDE DEF C
    <2> QED
      BY <1>1, MinimalSet
  <1>3. S \subseteq Nat /\ IsFiniteSet(S) /\ S \in SUBSET ids
    BY <1>1
  <1>4. CASE S = {}
    <2>1. iter[S] = 0
      BY <1>3, <1>4 DEF ScanEq
    <2> QED
      BY <1>2, <1>4, <2>1 DEF Scanned
  <1>5. CASE S # {}
    <2> DEFINE m == Max(S)
               old == iter[S \ {m}]
    <2>1. m \in S /\ \A x \in S : x <= m
      BY <1>3, <1>5, MaxIn
    <2>2. iter[S] = Scan(m, old)
      BY <1>3, <1>5 DEF ScanEq
    <2> HIDE DEF m, old
    <2>3. Scanned(old, S \ {m})
      BY <1>2, <2>1 DEF old
    <2>4. Scanned(iter[S], S)
      BY <1>3, <2>1, <2>2, <2>3 DEF Scan, Scanned
    <2> QED
      BY <1>2, <2>4
  <1> QED
    BY <1>4, <1>5

\* findSmallestId returns the smallest number that is no id.
THEOREM SmallestId ==
    ASSUME NEW ids \in SUBSET Nat, IsFiniteSet(ids)
    PROVE  Scanned(findSmallestId(ids), ids)
  <1>1. findSmallestId(ids) = (CHOOSE iter : ScanEq(iter, ids))[ids]
    BY DEF findSmallestId, MapThenFoldSet, ScanEq, Scan
  <1>2. ScanEq(CHOOSE iter : ScanEq(iter, ids), ids)
    BY ScanDefined
  <1> QED
    BY <1>1, <1>2, ScanSmallest

-----------------------------------------------------------------------------
(* Giving ids to new drafts.                                               *)

\* What addTasks is given, and its loop.
NewDraft == [id : {NoDraft}, size : Size \cup {Bare}]
GiveId(t, all) == all \cup {[t EXCEPT !.id = findSmallestId({u.id : u \in all})]}
GiveEq(iter, ts, new) ==
    iter = [s \in SUBSET DOMAIN new |->
              IF s = {} THEN ts ELSE GiveId(new[Max(s)], iter[s \ {Max(s)}])]

\* The loop computes something for every list of new drafts.
LEMMA GiveDefined ==
    ASSUME NEW ts, NEW new, NEW n \in Nat, DOMAIN new = 1 .. n
    PROVE  \E iter : GiveEq(iter, ts, new)
  <1> DEFINE Eq(iter, k) == iter = [s \in SUBSET (1 .. k) |->
                 IF s = {} THEN ts ELSE GiveId(new[Max(s)], iter[s \ {Max(s)}])]
             S == {k \in Nat : \E iter : Eq(iter, k)}
  <1>1. 0 \in S
    <2>1. Eq([s \in SUBSET (1 .. 0) |-> ts], 0)
      <3>1. 1 .. 0 = {}
        OBVIOUS
      <3> QED
        BY <3>1
    <2> QED
      BY <2>1
  <1>2. ASSUME NEW k \in Nat, k \in S PROVE k + 1 \in S
    <2> DEFINE m == k + 1
    <2>1. PICK f : Eq(f, k)
      BY <1>2
    <2> DEFINE g == [s \in SUBSET (1 .. m) |-> IF m \in s THEN GiveId(new[m], f[s \ {m}]) ELSE f[s]]
    <2>2. ASSUME NEW s \in SUBSET (1 .. m)
          PROVE  g[s] = IF s = {} THEN ts ELSE GiveId(new[Max(s)], g[s \ {Max(s)}])
      <3>1. CASE m \in s
        <4>1. Max(s) = m
          <5>1. s \in SUBSET Nat /\ IsFiniteSet(s) /\ s # {}
            <6>1. IsFiniteSet(1 .. m) /\ 1 .. m \in SUBSET Nat
              BY FS_Interval
            <6>2. IsFiniteSet(s)
              BY <6>1, FS_Subset
            <6> QED
              BY <3>1, <6>1, <6>2
          <5>2. Max(s) \in s /\ \A x \in s : x <= Max(s)
            BY <5>1, MaxIn
          <5>3. Max(s) \in 1 .. m /\ m <= Max(s)
            BY <3>1, <5>2
          <5> QED
            BY <5>3
        <4>2. g[s \ {m}] = f[s \ {m}]
          OBVIOUS
        <4>3. g[s] = GiveId(new[m], f[s \ {m}])
          BY <3>1
        <4> HIDE DEF g
        <4> QED
          BY <3>1, <4>1, <4>2, <4>3
      <3>2. CASE m \notin s
        <4>1. s \in SUBSET (1 .. k) /\ s \ {Max(s)} \in SUBSET (1 .. k)
          <5>1. \A x \in 1 .. m : x = m \/ x \in 1 .. k
            OBVIOUS
          <5> QED
            BY <3>2, <5>1
        <4>2. g[s] = f[s] /\ g[s \ {Max(s)}] = f[s \ {Max(s)}]
          BY <3>2
        <4> HIDE DEF g
        <4> QED
          BY <2>1, <4>1, <4>2
      <3> QED
        BY <3>1, <3>2
    <2>3. Eq(g, m)
      <3>1. g = [s \in SUBSET (1 .. m) |-> g[s]]
        OBVIOUS
      <3> HIDE DEF g
      <3> QED
        BY <2>2, <3>1
    <2> HIDE DEF g, Eq
    <2> QED
      BY <2>3
  <1>3. n \in S
    <2> HIDE DEF S
    <2> QED
      BY <1>1, <1>2, Upwards
  <1> QED
    BY <1>3 DEF GiveEq

\* "all" are the drafts "ts" and k new ones, with ids of their own.
Given(all, ts, new, k) ==
    /\ ts \subseteq all /\ all \subseteq [id : Nat, size : Size \cup {Bare}]
    /\ IsFiniteSet(all) /\ Cardinality(all) = Cardinality(ts) + k
    /\ \A t, u \in all : t.id = u.id => t = u
    /\ \A t \in all \ ts : /\ t.id < Cardinality(all)
                          /\ \E i \in DOMAIN new : t.size = new[i].size

\* One turn of the loop.
LEMMA GiveOne ==
    ASSUME NEW ts, NEW new, NEW k \in Nat, NEW i \in DOMAIN new, new[i] \in NewDraft,
           NEW all, Given(all, ts, new, k), IsFiniteSet(ts)
    PROVE  Given(GiveId(new[i], all), ts, new, k + 1)
  <1> DEFINE ids == {u.id : u \in all}
             id == findSmallestId(ids)
             t == [new[i] EXCEPT !.id = id]
             after == all \cup {t}
  <1>1. ids \subseteq Nat
    BY DEF Given
  <1>2. IsFiniteSet(ids) /\ Cardinality(ids) <= Cardinality(all)
    <2> DEFINE f == [u \in all |-> u.id]
    <2>1. f \in Surjection(all, ids)
      BY DEF Surjection
    <2>2. IsFiniteSet(all)
      BY DEF Given
    <2> HIDE DEF f, ids
    <2> QED
      BY <2>1, <2>2, FS_Surjection
  <1>3. id \in Nat /\ 0 .. id - 1 \subseteq ids /\ id \notin ids
    <2> HIDE DEF ids
    <2> QED
      BY <1>1, <1>2, SmallestId DEF Scanned
  <1>4. id <= Cardinality(all)
    <2> HIDE DEF ids, id
    <2>1. Cardinality(0 .. id - 1) = id
      BY <1>3, FS_Interval
    <2>2. Cardinality(0 .. id - 1) <= Cardinality(ids)
      BY <1>2, <1>3, FS_Subset
    <2>3. Cardinality(ids) \in Nat /\ Cardinality(all) \in Nat
      BY <1>2, FS_CardinalityType DEF Given
    <2> QED
      BY <1>2, <1>3, <2>1, <2>2, <2>3
  <1>5. t \in [id : Nat, size : Size \cup {Bare}] /\ t.id = id /\ t.size = new[i].size
    <2> HIDE DEF id
    <2> QED
      BY <1>3 DEF NewDraft
  <1>6. t \notin all
    BY <1>3, <1>5
  <1>7. \A u \in all : u.id # id
    BY <1>3
  <1>8. IsFiniteSet(after) /\ Cardinality(after) = Cardinality(all) + 1
    <2> HIDE DEF t
    <2> QED
      BY <1>6, FS_AddElement DEF Given
  <1>9. Cardinality(all) \in Nat /\ Cardinality(ts) \in Nat
    BY FS_CardinalityType DEF Given
  <1>10. after = GiveId(new[i], all)
    BY DEF GiveId
  <1> HIDE DEF ids, id, t
  <1>11. \A u, v \in after : u.id = v.id => u = v
    BY <1>5, <1>7 DEF Given
  <1>12. ASSUME NEW u \in after \ ts
         PROVE  u.id < Cardinality(after) /\ \E j \in DOMAIN new : u.size = new[j].size
    <2>1. CASE u = t
      BY <2>1, <1>3, <1>4, <1>5, <1>8, <1>9
    <2>2. CASE u \in all \ ts
      BY <2>2, <1>8, <1>9 DEF Given
    <2> QED
      BY <2>1, <2>2
  <1>13. ts \subseteq after /\ after \subseteq [id : Nat, size : Size \cup {Bare}]
    BY <1>5 DEF Given
  <1>14. Cardinality(after) = Cardinality(ts) + (k + 1)
    BY <1>8, <1>9 DEF Given
  <1> HIDE DEF after
  <1> QED
    BY <1>8, <1>10, <1>11, <1>12, <1>13, <1>14 DEF Given

\* addTasks gives each new draft an id of its own.
THEOREM WithIds ==
    ASSUME NEW ts \in SUBSET [id : Nat, size : Size \cup {Bare}], IsFiniteSet(ts),
           \A t, u \in ts : t.id = u.id => t = u,
           NEW n \in Nat, NEW new \in [1 .. n -> NewDraft]
    PROVE  Given(withIds(ts, new), ts, new, n)
  <1>1. withIds(ts, new) = (CHOOSE iter : GiveEq(iter, ts, new))[DOMAIN new]
    BY DEF withIds, FoldLeft, MapThenFoldSet, GiveEq, GiveId
  <1> DEFINE iter == CHOOSE f : GiveEq(f, ts, new)
  <1>2. GiveEq(iter, ts, new)
    BY GiveDefined
  <1> HIDE DEF iter
  <1>3. DOMAIN new = 1 .. n
    OBVIOUS
  <1> DEFINE S == {k \in Nat : k <= n => Given(iter[1 .. k], ts, new, k)}
  <1>4. 0 \in S
    <2>1. 1 .. 0 = {} /\ 1 .. 0 \in SUBSET (1 .. n)
      OBVIOUS
    <2>2. iter[1 .. 0] = ts
      BY <1>2, <1>3, <2>1 DEF GiveEq
    <2>3. Given(ts, ts, new, 0)
      BY FS_CardinalityType DEF Given
    <2> QED
      BY <2>2, <2>3
  <1>5. ASSUME NEW k \in Nat, k \in S PROVE k + 1 \in S
    <2> SUFFICES ASSUME k + 1 <= n PROVE Given(iter[1 .. k + 1], ts, new, k + 1)
      OBVIOUS
    <2>1. Max(1 .. k + 1) = k + 1
      BY MaxUpTo
    <2>2. (1 .. k + 1) \ {k + 1} = 1 .. k
      OBVIOUS
    <2>3. 1 .. k + 1 # {} /\ 1 .. k + 1 \in SUBSET (1 .. n)
      <3>1. \A x \in 1 .. k + 1 : x \in 1 .. n
        OBVIOUS
      <3>2. k + 1 \in 1 .. k + 1
        OBVIOUS
      <3> QED
        BY <3>1, <3>2
    <2>4. iter[1 .. k + 1] = GiveId(new[k + 1], iter[1 .. k])
      BY <1>2, <1>3, <2>1, <2>2, <2>3 DEF GiveEq
    <2>5. k + 1 \in DOMAIN new /\ new[k + 1] \in NewDraft
      OBVIOUS
    <2>6. Given(iter[1 .. k], ts, new, k)
      BY <1>5
    <2> HIDE DEF S
    <2> QED
      BY <2>4, <2>5, <2>6, GiveOne
  <1>6. n \in S
    <2> HIDE DEF S
    <2> QED
      BY <1>4, <1>5, Upwards
  <1> QED
    BY <1>1, <1>3, <1>6 DEF iter

-----------------------------------------------------------------------------
(* The invariant, on states of service and page.                           *)

State == [tasks : SUBSET Draft, selected : DraftId \cup {NoDraft}, page : Page]

Unique(ts) == \A t, u \in ts : t.id = u.id => t = u

\* What shows the form, apart from the form itself.
FormShown(s) == s.page.open /\ s.page.tab = "Tasks" /\ s.selected # NoDraft

HasCause(p, ts) == p.open /\ "added" \notin p.deaf => \A t \in ts \ p.map : t.id \in p.old

Good(s) ==
    /\ s \in State
    /\ IsFiniteSet(s.tasks) /\ Unique(s.tasks)
    /\ s.page.map \subseteq s.tasks /\ \A f \in s.page.map : f.size # Bare
    /\ s.selected # NoDraft => \E t \in s.tasks : t.id = s.selected
    /\ s.page.preview => FormShown(s)
    /\ HasCause(s.page, s.tasks)

IInv ==
    /\ TypeOK
    /\ Good(state)
    /\ page.divide # NoDivide <=> FormShown(state)

-----------------------------------------------------------------------------
(* The handlers.                                                           *)

\* There is a draft with the selected id.
LEMMA SelectedIn ==
    ASSUME NEW s, Good(s), s.selected # NoDraft
    PROVE  SelectedDraft(s) \in s.tasks /\ SelectedDraft(s).id = s.selected
  BY DEF Good, SelectedDraft

\* What a selection changes.
LEMMA SelectFields ==
    ASSUME NEW s \in State, NEW id \in DraftId \cup {NoDraft}
    PROVE  /\ selectTask(s, id) \in State
           /\ selectTask(s, id).tasks = s.tasks /\ selectTask(s, id).selected = id
           /\ selectTask(s, id).page = [s.page EXCEPT !.preview = FALSE]
  <1>1. s.page \in Page
    BY DEF State
  <1> DEFINE q == [s.page EXCEPT !.preview = FALSE]
  <1>2. q \in Page
    BY <1>1 DEF Page
  <1>3. selectTask(s, id) = [s EXCEPT !.selected = id, !.page = q]
    BY DEF selectTask
  <1> HIDE DEF q
  <1>4. /\ selectTask(s, id) \in State
        /\ selectTask(s, id).tasks = s.tasks /\ selectTask(s, id).selected = id
        /\ selectTask(s, id).page = q
    BY <1>2, <1>3 DEF State
  <1> QED
    BY <1>4 DEF q

\* A selection names a draft or nothing and ends the preview.
LEMMA SelectGood ==
    ASSUME NEW s, Good(s), NEW id \in DraftId \cup {NoDraft},
           id # NoDraft => \E t \in s.tasks : t.id = id
    PROVE  Good(selectTask(s, id))
  <1>1. /\ s \in State /\ s.page \in Page
    BY DEF Good, State
  <1> DEFINE r == selectTask(s, id)
  <1>2. /\ r \in State /\ r.tasks = s.tasks /\ r.selected = id
        /\ r.page = [s.page EXCEPT !.preview = FALSE]
    BY <1>1, SelectFields
  <1>3. /\ r.page.map = s.page.map /\ r.page.open = s.page.open /\ r.page.deaf = s.page.deaf
        /\ r.page.old = s.page.old /\ r.page.preview = FALSE
    BY <1>1, <1>2 DEF Page
  <1> SUFFICES Good(r)
    OBVIOUS
  <1> HIDE DEF r
  <1> QED
    BY <1>2, <1>3 DEF Good, HasCause

\* Removing features of a draft from the map.
LEMMA RemoveGood ==
    ASSUME NEW s, Good(s), NEW id \in DraftId
    PROVE  Good(removeTask(s, id))
  <1> DEFINE left == [s EXCEPT !.tasks = @ \ {t \in @ : t.id = id}]
             rest == IF s.selected = id THEN deselectTask(left) ELSE left
             r == removeFromMap(rest, id)
  <1>1. /\ s \in State /\ s.page \in Page
    BY DEF Good, State
  <1>2. /\ left \in State /\ left.tasks = s.tasks \ {t \in s.tasks : t.id = id}
        /\ left.selected = s.selected /\ left.page = s.page
    BY <1>1 DEF State
  <1>3. r = removeTask(s, id)
    BY DEF removeTask
  <1> HIDE DEF left
  <1>4. /\ rest \in State /\ rest.tasks = left.tasks
        /\ rest.selected = IF s.selected = id THEN NoDraft ELSE s.selected
        /\ rest.page = IF s.selected = id THEN [s.page EXCEPT !.preview = FALSE] ELSE s.page
    <2>1. CASE s.selected = id
      <3>1. rest = selectTask(left, NoDraft)
        BY <2>1 DEF deselectTask
      <3> HIDE DEF rest
      <3> QED
        BY <1>2, <2>1, <3>1, SelectFields
    <2>2. CASE s.selected # id
      BY <1>2, <2>2
    <2> QED
      BY <2>1, <2>2
  <1> HIDE DEF rest
  <1>5. /\ r \in State /\ r.tasks = left.tasks /\ r.selected = rest.selected
        /\ r.page = [rest.page EXCEPT !.map = @ \ {f \in @ : f.id = id}]
    BY <1>4 DEF removeFromMap, State, Page
  <1> HIDE DEF r
  <1>6. /\ r.page.map = s.page.map \ {f \in s.page.map : f.id = id}
        /\ r.page.open = s.page.open /\ r.page.deaf = s.page.deaf /\ r.page.old = s.page.old
        /\ r.page.tab = s.page.tab
        /\ r.page.preview => s.page.preview /\ s.selected # id
    BY <1>1, <1>4, <1>5 DEF Page
  <1>7. IsFiniteSet(r.tasks) /\ Unique(r.tasks) /\ r.tasks \subseteq s.tasks
    BY <1>2, <1>5, FS_Subset DEF Good, Unique
  <1>8. r.page.map \subseteq r.tasks /\ \A f \in r.page.map : f.size # Bare
    BY <1>2, <1>5, <1>6 DEF Good
  <1>9. r.selected # NoDraft => r.selected = s.selected /\ s.selected # id
    BY <1>4, <1>5
  <1>10. r.selected # NoDraft => \E t \in r.tasks : t.id = r.selected
    BY <1>2, <1>5, <1>9 DEF Good
  <1>11. r.page.preview => FormShown(r)
    BY <1>4, <1>5, <1>6 DEF Good, FormShown
  <1>12. HasCause(r.page, r.tasks)
    BY <1>2, <1>5, <1>6 DEF Good, HasCause
  <1> QED
    BY <1>3, <1>5, <1>7, <1>8, <1>10, <1>11, <1>12 DEF Good

\* Reaching the maximum of tasks turns the tool off and ends the selection.
LEMMA InteractionGood ==
    ASSUME NEW s, Good(s), NEW tool \in Tool, NEW on \in BOOLEAN
    PROVE  Good(setInteraction(s, tool, on))
  <1> DEFINE r == [s EXCEPT !.page.active = IF on THEN tool ELSE "select"]
  <1>1. /\ s \in State /\ s.page \in Page
    BY DEF Good, State
  <1>2. /\ r \in State /\ r.tasks = s.tasks /\ r.selected = s.selected
        /\ r.page = [s.page EXCEPT !.active = IF on THEN tool ELSE "select"]
    BY <1>1 DEF State, Page
  <1> HIDE DEF r
  <1>3. /\ r.page.map = s.page.map /\ r.page.open = s.page.open /\ r.page.deaf = s.page.deaf
        /\ r.page.old = s.page.old /\ r.page.preview = s.page.preview /\ r.page.tab = s.page.tab
    BY <1>1, <1>2 DEF Page
  <1>4. Good(r)
    BY <1>2, <1>3 DEF Good, HasCause, FormShown
  <1>5. Good(selectTask(r, NoDraft))
    BY <1>4, SelectGood
  <1> QED
    BY <1>5 DEF setInteraction, deselectTask, r

\* What showing drafts does to a page that goes on with them.
LEMMA ShowsAll ==
    ASSUME NEW s, Good(s), NEW new \in SUBSET s.tasks, \A t \in new : t.size # Bare
    PROVE  Good([s EXCEPT !.page.map = @ \cup new])
  <1> DEFINE q == [s.page EXCEPT !.map = @ \cup new]
             r == [s EXCEPT !.page.map = @ \cup new]
  <1>1. /\ s \in State /\ s.page \in Page /\ s.page.map \in SUBSET Draft /\ new \in SUBSET Draft
    BY DEF Good, State, Page
  <1>2. /\ q \in Page /\ q.map = s.page.map \cup new
        /\ q.open = s.page.open /\ q.deaf = s.page.deaf
        /\ q.old = s.page.old /\ q.preview = s.page.preview /\ q.tab = s.page.tab
    BY <1>1 DEF Page
  <1>3. r = [s EXCEPT !.page = q]
    OBVIOUS
  <1> SUFFICES Good(r)
    OBVIOUS
  <1> HIDE DEF q, r
  <1>4. r \in State /\ r.tasks = s.tasks /\ r.selected = s.selected /\ r.page = q
    BY <1>1, <1>2, <1>3 DEF State
  <1> QED
    BY <1>2, <1>4 DEF Good, HasCause, FormShown

\* And to one that fails on them: every event of the kind is lost from now on.
LEMMA GoesDeaf ==
    ASSUME NEW s, Good(s), NEW event \in {"added", "changed"}
    PROVE  Good([s EXCEPT !.page.deaf = @ \cup {event}])
  <1> DEFINE q == [s.page EXCEPT !.deaf = @ \cup {event}]
             r == [s EXCEPT !.page.deaf = @ \cup {event}]
  <1>1. /\ s \in State /\ s.page \in Page
    BY DEF Good, State
  <1>2. /\ q \in Page /\ q.map = s.page.map
        /\ q.open = s.page.open /\ q.deaf = s.page.deaf \cup {event}
        /\ q.old = s.page.old /\ q.preview = s.page.preview /\ q.tab = s.page.tab
    BY <1>1 DEF Page
  <1>3. r = [s EXCEPT !.page = q]
    OBVIOUS
  <1> SUFFICES Good(r)
    OBVIOUS
  <1> HIDE DEF q, r
  <1>4. r \in State /\ r.tasks = s.tasks /\ r.selected = s.selected /\ r.page = q
    BY <1>1, <1>2, <1>3 DEF State
  <1> QED
    BY <1>2, <1>4 DEF Good, HasCause, FormShown

\* Drafts of the list are shown, or the page will be deaf.
LEMMA ShowGood ==
    ASSUME NEW s, Good(s), NEW new \in SUBSET s.tasks, NEW event \in {"added", "changed"}
    PROVE  Good(showTasks(s, new, event))
  <1>1. CASE ~s.page.open \/ event \in s.page.deaf
    BY <1>1 DEF showTasks
  <1>2. CASE s.page.open /\ event \notin s.page.deaf /\ \E t \in new : t.size = Bare
    BY <1>2, GoesDeaf DEF showTasks
  <1>3. CASE s.page.open /\ event \notin s.page.deaf /\ ~\E t \in new : t.size = Bare
    <2> DEFINE shown == [s EXCEPT !.page.map = @ \cup new]
    <2>1. Good(shown)
      BY <1>3, ShowsAll
    <2>2. showTasks(s, new, event)
            = IF canAddTasks(s) THEN shown ELSE setInteraction(shown, "draw", FALSE)
      BY <1>3 DEF showTasks
    <2>3. Good(setInteraction(shown, "draw", FALSE))
      <3> HIDE DEF shown
      <3> QED
        BY <2>1, InteractionGood DEF Tool
    <2> QED
      BY <2>1, <2>2, <2>3
  <1> QED
    BY <1>1, <1>2, <1>3

\* A new name: the feature of the draft is put on the map again.
LEMMA RenameGood ==
    ASSUME NEW s, Good(s), NEW id \in DraftId, \E t \in s.tasks : t.id = id
    PROVE  Good(changeTaskName(s, id))
  <1> DEFINE t == CHOOSE u \in s.tasks : u.id = id
             left == removeFromMap(s, id)
  <1>1. t \in s.tasks /\ t.id = id
    OBVIOUS
  <1>2. \A u \in s.tasks : u.id = id => u = t
    BY <1>1 DEF Good, Unique
  <1>3. changeTaskName(s, id) = IF ~s.page.open \/ "changed" \in s.page.deaf THEN s
                                ELSE showTasks(left, {t}, "changed")
    BY DEF changeTaskName
  <1> HIDE DEF t
  <1>4. s \in State /\ s.page \in Page
    BY DEF Good, State
  <1> DEFINE q == [s.page EXCEPT !.map = @ \ {f \in @ : f.id = id}]
  <1>5. /\ q \in Page /\ q.map = s.page.map \ {f \in s.page.map : f.id = id}
        /\ q.open = s.page.open /\ q.deaf = s.page.deaf /\ q.active = s.page.active
        /\ q.old = s.page.old /\ q.preview = s.page.preview /\ q.tab = s.page.tab
    BY <1>4 DEF Page
  <1>6. left = [s EXCEPT !.page = q]
    BY DEF removeFromMap
  <1> HIDE DEF q, left
  <1>7. left \in State /\ left.tasks = s.tasks /\ left.selected = s.selected /\ left.page = q
    BY <1>4, <1>5, <1>6 DEF State
  <1>8. CASE ~s.page.open \/ "changed" \in s.page.deaf
    BY <1>3, <1>8
  <1>9. CASE s.page.open /\ "changed" \notin s.page.deaf /\ t.size = Bare
    <2>1. q.map = s.page.map
      BY <1>1, <1>2, <1>5, <1>9 DEF Good
    <2>2. Good(left)
      BY <1>5, <1>7, <2>1 DEF Good, HasCause, FormShown
    <2>3. Good(showTasks(left, {t}, "changed"))
      BY <1>1, <1>7, <2>2, ShowGood
    <2> QED
      BY <1>3, <1>9, <2>3
  <1>10. CASE s.page.open /\ "changed" \notin s.page.deaf /\ t.size # Bare
    <2> DEFINE shown == [left EXCEPT !.page.map = @ \cup {t}]
               p == [q EXCEPT !.map = @ \cup {t}]
    <2>1. /\ p \in Page /\ p.map = q.map \cup {t}
          /\ p.open = s.page.open /\ p.deaf = s.page.deaf /\ p.active = s.page.active
          /\ p.old = s.page.old /\ p.preview = s.page.preview /\ p.tab = s.page.tab
      <3>1. t \in Draft /\ q.map \in SUBSET Draft
        BY <1>1, <1>4, <1>5 DEF State, Page
      <3> QED
        BY <1>5, <3>1 DEF Page
    <2>2. shown = [left EXCEPT !.page = p]
      BY <1>7
    <2>3. showTasks(left, {t}, "changed")
            = IF canAddTasks(left) THEN shown ELSE setInteraction(shown, "draw", FALSE)
      BY <1>5, <1>7, <1>10 DEF showTasks
    <2> HIDE DEF p, shown
    <2>4. shown \in State /\ shown.tasks = s.tasks /\ shown.selected = s.selected /\ shown.page = p
      BY <1>7, <2>1, <2>2 DEF State
    <2>5. p.map = s.page.map \cup {t}
      BY <1>1, <1>2, <1>5, <2>1 DEF Good
    <2>6. Good(shown)
      BY <1>1, <1>10, <2>1, <2>4, <2>5 DEF Good, HasCause, FormShown
    <2>7. Good(setInteraction(shown, "draw", FALSE))
      BY <2>6, InteractionGood DEF Tool
    <2> QED
      BY <1>3, <1>10, <2>3, <2>6, <2>7
  <1> QED
    BY <1>8, <1>9, <1>10

\* New drafts get ids of their own.
LEMMA AddFields ==
    ASSUME NEW s, Good(s), NEW n \in Nat, NEW new \in [1 .. n -> NewDraft],
           Cardinality(addTasks(s, new).tasks) <= MaxDrafts
    PROVE  LET all == withIds(s.tasks, new)
               r == [s EXCEPT !.tasks = all]
           IN  /\ Given(all, s.tasks, new, n) /\ all \in SUBSET Draft
               /\ addTasks(s, new) = showTasks(r, all \ s.tasks, "added")
               /\ r \in State
               /\ r.tasks = all /\ r.page = s.page /\ r.selected = s.selected
  <1> DEFINE all == withIds(s.tasks, new)
             r == [s EXCEPT !.tasks = all]
  <1>1. s \in State /\ s.page \in Page /\ s.tasks \in SUBSET Draft
    BY DEF Good, State
  <1>2. Draft \subseteq [id : Nat, size : Size \cup {Bare}]
    BY ProjectCreationAssumption DEF Draft, DraftId
  <1>3. Given(all, s.tasks, new, n)
    BY <1>1, <1>2, WithIds DEF Good, Unique
  <1>4. addTasks(s, new) = showTasks(r, all \ s.tasks, "added")
    BY DEF addTasks
  <1> HIDE DEF all
  <1>5. r.tasks = all /\ r.page = s.page /\ r.selected = s.selected
    BY <1>1 DEF State
  <1>6. addTasks(s, new).tasks = all
    BY <1>4, <1>5 DEF showTasks, setInteraction, deselectTask, selectTask
  <1>7. all \in SUBSET Draft
    <2>1. Cardinality(all) \in Nat /\ Cardinality(all) <= MaxDrafts
      BY <1>3, <1>6, FS_CardinalityType DEF Given
    <2>2. ASSUME NEW t \in all PROVE t.id \in DraftId
      <3>1. CASE t \in s.tasks
        BY <1>1, <3>1 DEF Draft
      <3>2. CASE t \notin s.tasks
        BY <1>3, <2>1, <3>2, ProjectCreationAssumption DEF Given, DraftId
      <3> QED
        BY <3>1, <3>2
    <2> QED
      BY <1>3, <2>2 DEF Given, Draft
  <1>8. r \in State
    BY <1>1, <1>7 DEF State
  <1> QED
    BY <1>3, <1>4, <1>5, <1>7, <1>8 DEF all

\* The new drafts are shown unless there is a cause.
LEMMA AddGood ==
    ASSUME NEW s, Good(s), NEW n \in Nat, NEW new \in [1 .. n -> NewDraft],
           Cardinality(addTasks(s, new).tasks) <= MaxDrafts
    PROVE  Good(addTasks(s, new))
  <1> DEFINE all == withIds(s.tasks, new)
             r == [s EXCEPT !.tasks = all]
  <1>1. s \in State /\ s.page \in Page
    BY DEF Good, State
  <1>2. /\ Given(all, s.tasks, new, n) /\ all \in SUBSET Draft
        /\ addTasks(s, new) = showTasks(r, all \ s.tasks, "added")
        /\ r \in State
        /\ r.tasks = all /\ r.page = s.page /\ r.selected = s.selected
    BY AddFields
  <1> HIDE DEF all
  <1>9. IsFiniteSet(all) /\ Unique(all) /\ s.tasks \subseteq all
    BY <1>2 DEF Given, Unique
  <1> HIDE DEF r
  <1>10. CASE ~s.page.open \/ "added" \in s.page.deaf
    <2>1. addTasks(s, new) = r
      BY <1>2, <1>10 DEF showTasks
    <2> QED
      BY <2>1, <1>2, <1>9, <1>10 DEF Good, HasCause, FormShown
  <1>11. CASE s.page.open /\ "added" \notin s.page.deaf /\ \E t \in all \ s.tasks : t.size = Bare
    <2> DEFINE q == [s.page EXCEPT !.deaf = @ \cup {"added"}]
               lost == [r EXCEPT !.page = q]
    <2>1. /\ q \in Page /\ q.map = s.page.map
          /\ q.open = s.page.open /\ q.deaf = s.page.deaf \cup {"added"}
          /\ q.old = s.page.old /\ q.preview = s.page.preview /\ q.tab = s.page.tab
      BY <1>1 DEF Page
    <2>2. addTasks(s, new) = lost
      BY <1>2, <1>11 DEF showTasks
    <2> SUFFICES Good(lost)
      BY <2>2
    <2> HIDE DEF q, lost
    <2>3. lost \in State /\ lost.tasks = all /\ lost.selected = s.selected /\ lost.page = q
      BY <1>2, <2>1 DEF State, lost
    <2> QED
      BY <2>1, <2>3, <1>9 DEF Good, HasCause, FormShown
  <1>12. CASE s.page.open /\ "added" \notin s.page.deaf /\ ~\E t \in all \ s.tasks : t.size = Bare
    <2> DEFINE q == [s.page EXCEPT !.map = @ \cup (all \ s.tasks)]
               shown == [r EXCEPT !.page = q]
    <2>1. /\ q \in Page /\ q.map = s.page.map \cup (all \ s.tasks)
          /\ q.open = s.page.open /\ q.deaf = s.page.deaf
          /\ q.old = s.page.old /\ q.preview = s.page.preview /\ q.tab = s.page.tab
      <3>1. s.page.map \in SUBSET Draft /\ all \ s.tasks \in SUBSET Draft
        BY <1>1, <1>2 DEF Page
      <3> QED
        BY <1>1, <3>1 DEF Page
    <2>2. addTasks(s, new) = IF canAddTasks(r) THEN shown ELSE setInteraction(shown, "draw", FALSE)
      BY <1>2, <1>12 DEF showTasks
    <2>3. Good(shown)
      <3> HIDE DEF q, shown
      <3>1. shown \in State /\ shown.tasks = all /\ shown.selected = s.selected /\ shown.page = q
        BY <1>2, <2>1 DEF State, shown
      <3>2. q.map \subseteq all /\ \A f \in q.map : f.size # Bare
        BY <1>9, <1>12, <2>1 DEF Good
      <3> QED
        BY <2>1, <3>1, <3>2, <1>9 DEF Good, HasCause, FormShown
    <2>4. Good(setInteraction(shown, "draw", FALSE))
      <3> HIDE DEF shown
      <3> QED
        BY <2>3, InteractionGood DEF Tool
    <2> QED
      BY <2>2, <2>3, <2>4
  <1> QED
    BY <1>10, <1>11, <1>12

\* After its handler a state gets its form and forgets what is shown by now.
LEMMA BecomeIInv ==
    ASSUME NEW s, Good(s), Become(s),
           copying' \in 0 .. MaxCalls, saving' \in 0 .. MaxCalls
    PROVE  IInv'
  <1> DEFINE shown == FormShown(s)
             old == s.page.old \cap {t.id : t \in s.tasks \ s.page.map}
             form == IF ~shown THEN NoDivide
                     ELSE IF s.page.divide = NoDivide THEN newForm(SelectedDraft(s), FirstGrid)
                     ELSE s.page.divide
             q == [s.page EXCEPT !.old = old, !.divide = form]
  <1>1. s \in State /\ s.page \in Page
    BY DEF Good, State
  <1>2. ASSUME shown PROVE newForm(SelectedDraft(s), FirstGrid) \in Division
    <2>1. SelectedDraft(s) \in Draft
      BY <1>2, SelectedIn DEF Good, State, FormShown
    <2>2. amountOfCells(SelectedDraft(s), FirstGrid) \in Nat
      BY <2>1, ProjectCreationAssumption DEF amountOfCells, Draft
    <2> QED
      BY <2>2, ProjectCreationAssumption DEF newForm, Division
  <1>3. form \in Division \cup {NoDivide} /\ (form # NoDivide <=> shown)
    BY <1>1, <1>2, NothingAssumption DEF Page
  <1>4. rendered(s) = [s EXCEPT !.page = q]
    BY <1>1 DEF rendered, FormShown, Page
  <1>5. old \in SUBSET DraftId
    BY <1>1 DEF Page
  <1> HIDE DEF form, old, shown
  <1>6. /\ q \in Page /\ q.map = s.page.map /\ q.open = s.page.open /\ q.deaf = s.page.deaf
        /\ q.old = old /\ q.preview = s.page.preview /\ q.tab = s.page.tab /\ q.divide = form
    BY <1>1, <1>3, <1>5 DEF Page
  <1> HIDE DEF q
  <1>7. tasks' = s.tasks /\ selected' = s.selected /\ page' = q
    BY <1>1, <1>4 DEF Become, State
  <1>8. TypeOK'
    BY <1>1, <1>6, <1>7 DEF TypeOK, State
  <1>9. state' \in State /\ state'.tasks = s.tasks /\ state'.selected = s.selected /\ state'.page = q
    BY <1>1, <1>6, <1>7 DEF state, State
  <1>10. FormShown(s) <=> FormShown(state')
    BY <1>6, <1>9 DEF FormShown
  <1>11. HasCause(q, s.tasks)
    BY <1>6 DEF Good, HasCause, old
  <1>12. Good(state')
    BY <1>6, <1>9, <1>10, <1>11 DEF Good
  <1>13. Good(state)' /\ FormShown(state)' = FormShown(state')
    BY <1>12 DEF Good, FormShown, HasCause, Unique, State, state, Page
  <1>14. (page.divide # NoDivide <=> FormShown(state))'
    BY <1>3, <1>6, <1>7, <1>10, <1>13 DEF shown
  <1> QED
    BY <1>8, <1>13, <1>14 DEF IInv

-----------------------------------------------------------------------------
(* The actions keep the invariant.                                         *)

\* The parts of the state the page sees.
LEMMA StateFields ==
    ASSUME IInv
    PROVE  /\ Good(state) /\ state \in State /\ page \in Page
           /\ state.tasks = tasks /\ state.selected = selected /\ state.page = page
           /\ copying \in 0 .. MaxCalls /\ saving \in 0 .. MaxCalls
           /\ page.divide # NoDivide <=> page.open /\ page.tab = "Tasks" /\ selected # NoDraft
           /\ Cardinality(tasks) \in Nat
  BY FS_CardinalityType DEF IInv, TypeOK, Good, FormShown, state

\* A step that only sends a request.
LEMMA SameIInv ==
    ASSUME IInv, UNCHANGED <<tasks, selected, page>>,
           copying' \in 0 .. MaxCalls, saving' \in 0 .. MaxCalls
    PROVE  IInv'
  BY DEF IInv, TypeOK, Good, HasCause, FormShown, Unique, state, State, Page, SelectedDraft

\* A change of the page alone keeps what the invariant says of the service.
LEMMA PageGood ==
    ASSUME IInv, NEW p \in Page, p.map = page.map, p.open = page.open, p.deaf = page.deaf,
           p.old = page.old, p.preview => page.preview /\ p.tab = page.tab
    PROVE  Good([state EXCEPT !.page = p])
  <1> DEFINE s == [state EXCEPT !.page = p]
  <1>1. s \in State /\ s.tasks = tasks /\ s.selected = selected /\ s.page = p
    BY StateFields DEF State
  <1> SUFFICES Good(s)
    OBVIOUS
  <1> HIDE DEF s
  <1> QED
    BY <1>1, StateFields DEF Good, HasCause, FormShown

\* The page is new, or gone.
LEMMA OpenPageKeeps ==
    ASSUME IInv, OpenPage
    PROVE  IInv'
  <1> DEFINE s == [state EXCEPT !.page = NewPage]
  <1>1. /\ NewPage \in Page /\ NewPage.map = {} /\ NewPage.preview = FALSE
        /\ NewPage.old = {t.id : t \in tasks}
    <2>1. {t.id : t \in tasks} \in SUBSET DraftId
      BY StateFields DEF State, Draft
    <2> QED
      BY <2>1 DEF NewPage, Page, Tab
  <1>2. s \in State /\ s.tasks = tasks /\ s.selected = selected /\ s.page = NewPage
    BY <1>1, StateFields DEF State
  <1>3. Good(s)
    <2> HIDE DEF s
    <2> QED
      BY <1>1, <1>2, StateFields DEF Good, HasCause, FormShown
  <1>4. Become(s) /\ copying' \in 0 .. MaxCalls /\ saving' \in 0 .. MaxCalls
    BY StateFields DEF OpenPage
  <1> QED
    BY <1>3, <1>4, BecomeIInv

\* Without a page there is nothing to agree with.
LEMMA NoPageGood ==
    ASSUME IInv
    PROVE  Good([state EXCEPT !.page = NoPage])
  <1> DEFINE s == [state EXCEPT !.page = NoPage]
  <1>1. NoPage \in Page /\ NoPage.map = {} /\ NoPage.preview = FALSE /\ NoPage.open = FALSE
    BY DEF NoPage, NewPage, Page, Tab
  <1>2. s \in State /\ s.tasks = tasks /\ s.selected = selected /\ s.page = NoPage
    BY <1>1, StateFields DEF State
  <1> SUFFICES Good(s)
    OBVIOUS
  <1> HIDE DEF s
  <1> QED
    BY <1>1, <1>2, StateFields DEF Good, HasCause, FormShown

\* The page goes, the drafts stay with the service.
LEMMA CancelKeeps ==
    ASSUME IInv, Cancel
    PROVE  IInv'
  BY NoPageGood, BecomeIInv, StateFields DEF Cancel

\* Another tab: the tool is off, and the preview ends with the form.
LEMMA SelectTabKeeps ==
    ASSUME IInv, SelectTab
    PROVE  IInv'
  <1>1. PICK tab \in Tab : onTabSelected(tab)
    BY DEF SelectTab
  <1> DEFINE p == [page EXCEPT !.tab = tab, !.active = "select", !.preview = FALSE, !.button = NoButton]
  <1>2. /\ p \in Page /\ p.map = page.map /\ p.open = page.open /\ p.deaf = page.deaf
        /\ p.old = page.old /\ p.preview = FALSE
    BY StateFields DEF Page
  <1>3. Become([state EXCEPT !.page = p])
    BY <1>1, StateFields DEF onTabSelected, State
  <1>4. Good([state EXCEPT !.page = p])
    <2> HIDE DEF p
    <2> QED
      BY <1>2, PageGood
  <1>5. copying' \in 0 .. MaxCalls /\ saving' \in 0 .. MaxCalls
    BY StateFields DEF SelectTab
  <1> HIDE DEF p
  <1> QED
    BY <1>3, <1>4, <1>5, BecomeIInv

\* A button of the tool bar or its key.
LEMMA OnButtonKeeps ==
    ASSUME IInv, NEW tool \in Tool, onButton(tool)
    PROVE  IInv'
  <1> DEFINE s == onToggle(state, tool)
             button == IF s.page.button = tool THEN NoButton ELSE tool
             p == [s.page EXCEPT !.button = button]
             r == [s EXCEPT !.page = p]
  <1>1. Good(s)
    <2>1. (page.active # tool) \in BOOLEAN
      OBVIOUS
    <2> QED
      BY <2>1, InteractionGood, StateFields DEF onToggle
  <1>2. Become(r)
    BY DEF onButton
  <1>3. button \in Tool \cup {NoButton}
    OBVIOUS
  <1> HIDE DEF s, button
  <1>4. s \in State /\ s.page \in Page
    BY <1>1 DEF Good, State
  <1>5. /\ p \in Page /\ p.map = s.page.map /\ p.open = s.page.open /\ p.deaf = s.page.deaf
        /\ p.old = s.page.old /\ p.preview = s.page.preview /\ p.tab = s.page.tab
    BY <1>3, <1>4 DEF Page
  <1> HIDE DEF p
  <1>6. r \in State /\ r.tasks = s.tasks /\ r.selected = s.selected /\ r.page = p
    BY <1>4, <1>5 DEF State
  <1> HIDE DEF r
  <1>7. Good(r)
    BY <1>1, <1>5, <1>6 DEF Good, HasCause, FormShown
  <1>8. copying' \in 0 .. MaxCalls /\ saving' \in 0 .. MaxCalls
    BY StateFields DEF onButton
  <1> QED
    BY <1>2, <1>7, <1>8, BecomeIInv

\* Adding drafts to the state, which Become lets happen within the bound.
LEMMA AddKeeps ==
    ASSUME NEW s, Good(s), NEW n \in Nat, NEW new \in [1 .. n -> NewDraft], Become(addTasks(s, new)),
           copying' \in 0 .. MaxCalls, saving' \in 0 .. MaxCalls
    PROVE  IInv'
  BY AddGood, BecomeIInv DEF Become

\* A polygon is drawn: its bare geometry becomes a draft.
LEMMA DrawEndKeeps ==
    ASSUME IInv, DrawEnd
    PROVE  IInv'
  <1>1. <<toTaskDraft>> \in [1 .. 1 -> NewDraft]
    BY DEF toTaskDraft, NewDraft
  <1> QED
    BY <1>1, AddKeeps, StateFields DEF DrawEnd

\* A polygon is changed: feature and draft have one geometry.
LEMMA ModifyKeeps ==
    ASSUME IInv, Modify
    PROVE  IInv'
  <1> DEFINE resized(ts, f, size) == {IF t = f THEN [t EXCEPT !.size = size] ELSE t : t \in ts}
  <1>1. PICK f \in page.map, size \in Size :
            Become([state EXCEPT !.tasks = resized(@, f, size), !.page.map = resized(@, f, size)])
    BY DEF Modify
  <1> DEFINE big == [f EXCEPT !.size = size]
             ts == resized(tasks, f, size)
             map == resized(page.map, f, size)
             p == [page EXCEPT !.map = map]
             r == [state EXCEPT !.tasks = ts, !.page = p]
  <1>2. tasks \in SUBSET Draft /\ page.map \subseteq tasks /\ f \in tasks /\ Unique(tasks)
    BY StateFields DEF Good, State
  <1>3. big \in Draft /\ big.id = f.id /\ big.size # Bare
    BY <1>2, ProjectCreationAssumption DEF Draft
  <1>4. ts = (tasks \ {f}) \cup {big} /\ map = (page.map \ {f}) \cup {big}
    BY <1>2
  <1>5. Become(r)
    BY <1>1, StateFields DEF State
  <1> HIDE DEF ts, map, big
  <1>6. IsFiniteSet(ts)
    <2>1. IsFiniteSet(tasks)
      BY StateFields DEF Good
    <2>2. IsFiniteSet(tasks \ {f})
      BY <2>1, FS_RemoveElement
    <2> QED
      BY <1>4, <2>2, FS_AddElement
  <1>7. Unique(ts) /\ ts \in SUBSET Draft /\ map \in SUBSET Draft /\ map \subseteq ts
    BY <1>2, <1>3, <1>4 DEF Unique
  <1>8. /\ p \in Page /\ p.map = map /\ p.open = page.open /\ p.deaf = page.deaf
        /\ p.old = page.old /\ p.preview = page.preview /\ p.tab = page.tab
    BY <1>7, StateFields DEF Page
  <1> HIDE DEF p
  <1>9. r \in State /\ r.tasks = ts /\ r.selected = selected /\ r.page = p
    BY <1>7, <1>8, StateFields DEF State
  <1> HIDE DEF r
  <1>10. \A g \in map : g.size # Bare
    BY <1>3, <1>4, StateFields DEF Good
  <1>11. selected # NoDraft => \E t \in ts : t.id = selected
    BY <1>2, <1>3, <1>4, StateFields DEF Good
  <1>12. HasCause(p, ts)
    BY <1>4, <1>8, StateFields DEF Good, HasCause
  <1>13. Good(r)
    BY <1>6, <1>7, <1>8, <1>9, <1>10, <1>11, <1>12, StateFields DEF Good, FormShown
  <1>14. copying' \in 0 .. MaxCalls /\ saving' \in 0 .. MaxCalls
    BY StateFields DEF Modify
  <1> QED
    BY <1>5, <1>13, <1>14, BecomeIInv

\* The drafts on the map and in the list have ids.
LEMMA DraftHasId ==
    ASSUME IInv
    PROVE  /\ \A t \in tasks : t.id \in DraftId
           /\ page.map \subseteq tasks
  BY StateFields DEF Good, State, Draft

\* A draft is deleted on the map.
LEMMA RemoveOnMapKeeps ==
    ASSUME IInv, RemoveOnMap
    PROVE  IInv'
  <1>1. PICK f \in page.map : Become(removeTask(state, f.id))
    BY DEF RemoveOnMap
  <1>2. Good(removeTask(state, f.id))
    BY RemoveGood, DraftHasId, StateFields
  <1> QED
    BY <1>1, <1>2, BecomeIInv, StateFields DEF RemoveOnMap

\* A draft of the list is selected.
LEMMA SelectsListed ==
    ASSUME IInv, NEW t \in tasks, Become(selectTask(state, t.id)),
           copying' \in 0 .. MaxCalls, saving' \in 0 .. MaxCalls
    PROVE  IInv'
  <1>1. t.id \in DraftId /\ t \in state.tasks
    BY DraftHasId, StateFields
  <1>2. Good(selectTask(state, t.id))
    BY <1>1, SelectGood, StateFields
  <1> QED
    BY <1>2, BecomeIInv

\* A draft is selected on the map, or none.
LEMMA SelectOnMapKeeps ==
    ASSUME IInv, SelectOnMap
    PROVE  IInv'
  <1>1. copying' \in 0 .. MaxCalls /\ saving' \in 0 .. MaxCalls
    BY StateFields DEF SelectOnMap
  <1>2. CASE Become(deselectTask(state))
    <2>1. Good(deselectTask(state))
      BY SelectGood, StateFields DEF deselectTask
    <2> QED
      BY <1>1, <1>2, <2>1, BecomeIInv
  <1>3. CASE \E f \in page.map : Become(selectTask(state, f.id))
    BY <1>1, <1>3, DraftHasId, SelectsListed
  <1> QED
    BY <1>2, <1>3 DEF SelectOnMap

\* A draft is selected in the list.
LEMMA OnTaskClickedKeeps ==
    ASSUME IInv, onTaskClicked
    PROVE  IInv'
  <1>1. copying' \in 0 .. MaxCalls /\ saving' \in 0 .. MaxCalls
    BY StateFields DEF onTaskClicked
  <1> QED
    BY <1>1, SelectsListed DEF onTaskClicked

\* While there is a form there is a draft it is about.
LEMMA FormSelected ==
    ASSUME IInv, page.divide # NoDivide
    PROVE  /\ selected \in DraftId /\ selected # NoDraft
           /\ SelectedDraft(state) \in tasks /\ SelectedDraft(state).id = selected
           /\ SelectedDraft(state) \in Draft
  BY StateFields, SelectedIn DEF State

\* The selected draft gets another name.
LEMMA OnTaskNameChangedKeeps ==
    ASSUME IInv, onTaskNameChanged
    PROVE  IInv'
  <1>1. Good(changeTaskName(state, selected))
    BY RenameGood, FormSelected, StateFields DEF onTaskNameChanged
  <1>2. copying' \in 0 .. MaxCalls /\ saving' \in 0 .. MaxCalls
    BY StateFields DEF onTaskNameChanged
  <1> QED
    BY <1>1, <1>2, BecomeIInv DEF onTaskNameChanged

\* Another grid is entered into the form.
LEMMA DividePropertyKeeps ==
    ASSUME IInv, taskDividePropertyChanged
    PROVE  IInv'
  <1>1. PICK grid \in Grid \cup {NoGrid} :
            Become([state EXCEPT !.page.divide = newForm(SelectedDraft(state), grid)])
    BY DEF taskDividePropertyChanged
  <1> DEFINE form == newForm(SelectedDraft(state), grid)
             p == [page EXCEPT !.divide = form]
  <1>2. form \in Division
    <2>1. amountOfCells(SelectedDraft(state), grid) \in Nat
      BY FormSelected, ProjectCreationAssumption DEF amountOfCells, Draft, taskDividePropertyChanged
    <2> QED
      BY <2>1 DEF newForm, Division
  <1>3. Become([state EXCEPT !.page = p])
    BY <1>1, StateFields DEF State
  <1> HIDE DEF form
  <1>4. /\ p \in Page /\ p.map = page.map /\ p.open = page.open /\ p.deaf = page.deaf
        /\ p.old = page.old /\ p.preview = page.preview /\ p.tab = page.tab
    BY <1>2, StateFields DEF Page
  <1> HIDE DEF p
  <1>5. Good([state EXCEPT !.page = p])
    BY <1>4, PageGood
  <1>6. copying' \in 0 .. MaxCalls /\ saving' \in 0 .. MaxCalls
    BY StateFields DEF taskDividePropertyChanged
  <1> QED
    BY <1>3, <1>5, <1>6, BecomeIInv

\* The cells are previewed.
LEMMA OnPreviewKeeps ==
    ASSUME IInv, onPreviewButtonClicked
    PROVE  IInv'
  <1> DEFINE p == [page EXCEPT !.preview = TRUE]
             s == [state EXCEPT !.page = p]
  <1>1. Become(s)
    BY StateFields DEF State, onPreviewButtonClicked
  <1>2. /\ p \in Page /\ p.map = page.map /\ p.open = page.open /\ p.deaf = page.deaf
        /\ p.old = page.old /\ p.tab = page.tab
    BY StateFields DEF Page
  <1> HIDE DEF p
  <1>3. s \in State /\ s.tasks = tasks /\ s.selected = selected /\ s.page = p
    BY <1>2, StateFields DEF State
  <1> HIDE DEF s
  <1>4. Good(s)
    BY <1>2, <1>3, StateFields DEF Good, HasCause, FormShown, onPreviewButtonClicked
  <1>5. copying' \in 0 .. MaxCalls /\ saving' \in 0 .. MaxCalls
    BY StateFields DEF onPreviewButtonClicked
  <1> QED
    BY <1>1, <1>4, <1>5, BecomeIInv

\* What a division makes of a draft.
LEMMA CellsType ==
    ASSUME NEW d \in Draft, NEW grid \in Grid \cup {NoGrid}
    PROVE  /\ amountOfCells(d, grid) \in Nat
           /\ createTaskDrafts(d, grid) \in [1 .. amountOfCells(d, grid) -> NewDraft]
  <1>1. amountOfCells(d, grid) \in Nat
    BY ProjectCreationAssumption DEF amountOfCells, Draft
  <1>2. toImportedDraft(CellSize) \in NewDraft
    BY ProjectCreationAssumption DEF toImportedDraft, toTaskDraft, NewDraft
  <1> QED
    BY <1>1, <1>2 DEF createTaskDrafts

\* A draft is replaced by its cells.
LEMMA OnDivideKeeps ==
    ASSUME IInv, onDivideButtonClicked
    PROVE  IInv'
  <1> DEFINE d == SelectedDraft(state)
             grid == page.divide.grid
             n == amountOfCells(d, grid)
             new == createTaskDrafts(d, grid)
             left == removeTask(state, selected)
  <1>1. Good(left)
    BY FormSelected, RemoveGood, StateFields DEF onDivideButtonClicked
  <1>2. grid \in Grid \cup {NoGrid}
    BY StateFields DEF onDivideButtonClicked, Page, Division
  <1>3. n \in Nat /\ new \in [1 .. n -> NewDraft]
    <2> HIDE DEF d, grid
    <2>1. d \in Draft
      BY FormSelected DEF onDivideButtonClicked, d
    <2> QED
      BY <1>2, <2>1, CellsType
  <1>4. Become(addTasks(left, new)) /\ copying' \in 0 .. MaxCalls /\ saving' \in 0 .. MaxCalls
    BY StateFields DEF onDivideButtonClicked
  <1> HIDE DEF left, new, n
  <1> QED
    BY <1>1, <1>3, <1>4, AddKeeps

\* An imported project, whether its page is still there or not.
LEMMA ImportKeeps ==
    ASSUME IInv, importProjectAsNewProject,
           copying' \in 0 .. MaxCalls, saving' \in 0 .. MaxCalls
    PROVE  IInv'
  <1>1. PICK sizes \in Exports :
            Become(addTasks(state, [i \in DOMAIN sizes |-> toImportedDraft(sizes[i])]))
    BY DEF importProjectAsNewProject
  <1> DEFINE new == [i \in DOMAIN sizes |-> toImportedDraft(sizes[i])]
  <1>2. sizes \in Seq(Size)
    BY ProjectCreationAssumption
  <1>3. \A size \in Size : toImportedDraft(size) \in NewDraft
    BY DEF toImportedDraft, toTaskDraft, NewDraft
  <1>4. Len(sizes) \in Nat /\ new \in [1 .. Len(sizes) -> NewDraft]
    BY <1>2, <1>3
  <1> HIDE DEF new
  <1> QED
    BY <1>1, <1>4, AddKeeps, StateFields DEF new

\* An export arrives, or its request failed.
LEMMA ImportedKeeps ==
    ASSUME IInv, Imported
    PROVE  IInv'
  <1>1. copying' \in 0 .. MaxCalls /\ saving' \in 0 .. MaxCalls
    BY StateFields, ProjectCreationAssumption DEF Imported
  <1> QED
    BY <1>1, ImportKeeps, SameIInv DEF Imported

\* A file is imported.
LEMMA OnProjectSelectedKeeps ==
    ASSUME IInv, onProjectSelected
    PROVE  IInv'
  BY ImportKeeps, StateFields DEF onProjectSelected

\* An export is asked for.
LEMMA OnImportClickedKeeps ==
    ASSUME IInv, onImportClicked
    PROVE  IInv'
  <1>1. copying' \in 0 .. MaxCalls /\ saving' \in 0 .. MaxCalls
    BY StateFields, ProjectCreationAssumption DEF onImportClicked
  <1> QED
    BY <1>1, SameIInv DEF onImportClicked

\* The project is sent to the server.
LEMMA OnSaveKeeps ==
    ASSUME IInv, onSaveButtonClicked
    PROVE  IInv'
  <1>1. copying' \in 0 .. MaxCalls /\ saving' \in 0 .. MaxCalls
    BY StateFields, ProjectCreationAssumption DEF onSaveButtonClicked
  <1> QED
    BY <1>1, SameIInv DEF onSaveButtonClicked

\* The project was added, or not.
LEMMA SavedKeeps ==
    ASSUME IInv, Saved
    PROVE  IInv'
  <1>1. copying' \in 0 .. MaxCalls /\ saving' \in 0 .. MaxCalls
    BY StateFields, ProjectCreationAssumption DEF Saved
  <1> QED
    BY <1>1, NoPageGood, BecomeIInv, SameIInv DEF Saved

-----------------------------------------------------------------------------
\* A new tab has no drafts and no page.
LEMMA InitIInv ==
    ASSUME Init
    PROVE  IInv
  <1>1. NoPage \in Page /\ NoPage.map = {} /\ NoPage.preview = FALSE /\ NoPage.open = FALSE
        /\ NoPage.divide = NoDivide
    BY DEF NoPage, NewPage, Page, Tab
  <1>2. /\ state \in State /\ state.tasks = {} /\ state.selected = NoDraft /\ state.page = NoPage
    BY <1>1 DEF Init, state, State
  <1>3. Good(state)
    BY <1>1, <1>2, FS_EmptySet DEF Good, HasCause, Unique
  <1>4. page.divide # NoDivide <=> FormShown(state)
    BY <1>1, <1>2 DEF Init, FormShown
  <1> QED
    BY <1>1, <1>3, <1>4, ProjectCreationAssumption DEF Init, IInv, TypeOK

\* Every step keeps the invariant.
LEMMA StepIInv ==
    ASSUME IInv, [Next]_vars
    PROVE  IInv'
  <1>1. CASE UNCHANGED vars
    BY <1>1, SameIInv, StateFields DEF vars
  <1>2. CASE Next
    BY <1>2, OpenPageKeeps, CancelKeeps, SelectTabKeeps, OnButtonKeeps, DrawEndKeeps,
       ModifyKeeps, RemoveOnMapKeeps, SelectOnMapKeeps, OnTaskClickedKeeps,
       OnTaskNameChangedKeeps, DividePropertyKeeps, OnPreviewKeeps, OnDivideKeeps,
       OnImportClickedKeeps, ImportedKeeps, OnProjectSelectedKeeps, OnSaveKeeps, SavedKeeps
       DEF Next
  <1> QED
    BY <1>1, <1>2

\* The invariant holds in every state: each handler leaves service, map and form
\* together, and rendering gives the page the form that goes with them.
THEOREM Inductive == Spec => []IInv
  BY InitIInv, StepIInv, PTL DEF Spec

\* Whatever events pass between service, map, list and form: ids are unique, the
\* map shows listed drafts, the selected draft exists, and a preview has its form.
THEOREM Together == Spec => []Consistent
  <1>1. IInv => Consistent
    <2> SUFFICES ASSUME IInv PROVE Consistent
      OBVIOUS
    <2>1. TypeOK
      BY DEF IInv
    <2>2. IdsUnique /\ MapIsListed /\ SelectionLives
      BY StateFields DEF Good, Unique, IdsUnique, MapIsListed, SelectionLives
    <2>3. PreviewHasForm
      BY StateFields DEF Good, FormShown, PreviewHasForm
    <2> QED
      BY <2>1, <2>2, <2>3 DEF Consistent
  <1> QED
    BY <1>1, Inductive, PTL

\* A draft that is not on the map, and so will not be saved, was there before the
\* page or came after a bare polygon had ended the page's subscription.
THEOREM Explained == Spec => []MissingHasCause
  <1>1. IInv => MissingHasCause
    BY StateFields DEF Good, HasCause, MissingHasCause
  <1> QED
    BY <1>1, Inductive, PTL

-----------------------------------------------------------------------------
(* What a step may do.                                                     *)

\* Become leaves the page its tool and its button, and the service its drafts.
LEMMA Becomes ==
    ASSUME NEW s \in State, Become(s)
    PROVE  /\ tasks' = s.tasks /\ selected' = s.selected
           /\ page'.active = s.page.active /\ page'.button = s.page.button
  <1> DEFINE old == s.page.old \cap {t.id : t \in s.tasks \ s.page.map}
             form == rendered(s).page.divide
             q == [s.page EXCEPT !.old = old, !.divide = form]
  <1>1. s.page \in Page
    BY DEF State
  <1>2. rendered(s) = [s EXCEPT !.page = q]
    BY <1>1 DEF rendered, State, Page
  <1> HIDE DEF old, form
  <1>3. q.active = s.page.active /\ q.button = s.page.button
    BY <1>1 DEF Page
  <1> QED
    BY <1>2, <1>3 DEF Become, State

\* Turning a tool on or off.
LEMMA InteractionFields ==
    ASSUME NEW s \in State, NEW tool \in Tool, NEW on \in BOOLEAN
    PROVE  /\ setInteraction(s, tool, on).tasks = s.tasks
           /\ setInteraction(s, tool, on).page.button = s.page.button
           /\ setInteraction(s, tool, on).page.active = IF on THEN tool ELSE "select"
  <1>1. s.page \in Page
    BY DEF State
  <1> QED
    BY <1>1 DEF setInteraction, deselectTask, selectTask, State, Page

\* Showing drafts takes the tool and the selection only where there can be no more drafts.
LEMMA ShowFields ==
    ASSUME NEW s \in State, Cardinality(s.tasks) \in Nat, NEW new \in SUBSET Draft,
           NEW event \in {"added", "changed"}
    PROVE  LET r == showTasks(s, new, event)
           IN  /\ r.tasks = s.tasks /\ r.page.button = s.page.button
               /\ \/ r.page.active = s.page.active /\ r.selected = s.selected
                  \/ Cardinality(s.tasks) >= maxTasksPerProject
  <1>1. s.page \in Page
    BY DEF State
  <1>2. CASE ~s.page.open \/ event \in s.page.deaf
    BY <1>2 DEF showTasks
  <1>3. CASE s.page.open /\ event \notin s.page.deaf /\ \E t \in new : t.size = Bare
    <2>1. showTasks(s, new, event) = [s EXCEPT !.page.deaf = @ \cup {event}]
      BY <1>3 DEF showTasks
    <2> QED
      BY <1>1, <2>1 DEF State, Page
  <1>4. CASE s.page.open /\ event \notin s.page.deaf /\ ~\E t \in new : t.size = Bare
    <2> DEFINE q == [s.page EXCEPT !.map = @ \cup new]
               shown == [s EXCEPT !.page.map = @ \cup new]
    <2>1. showTasks(s, new, event)
            = IF canAddTasks(s) THEN shown ELSE setInteraction(shown, "draw", FALSE)
      BY <1>4 DEF showTasks
    <2>2. q \in Page /\ q.active = s.page.active /\ q.button = s.page.button
      <3>1. s.page.map \in SUBSET Draft
        BY <1>1 DEF Page
      <3> QED
        BY <1>1, <3>1 DEF Page
    <2>3. shown = [s EXCEPT !.page = q]
      OBVIOUS
    <2> HIDE DEF q, shown
    <2>4. shown \in State /\ shown.tasks = s.tasks /\ shown.page = q /\ shown.selected = s.selected
      BY <2>2, <2>3 DEF State
    <2>5. CASE canAddTasks(s)
      BY <2>1, <2>2, <2>4, <2>5
    <2>6. CASE ~canAddTasks(s)
      <3>1. Cardinality(s.tasks) >= maxTasksPerProject
        BY <2>6, ProjectCreationAssumption DEF canAddTasks
      <3> QED
        <4>1. showTasks(s, new, event) = setInteraction(shown, "draw", FALSE)
          BY <2>1, <2>6
        <4>2. /\ setInteraction(shown, "draw", FALSE).tasks = shown.tasks
              /\ setInteraction(shown, "draw", FALSE).page.button = shown.page.button
          BY <2>4, InteractionFields DEF Tool
        <4> QED
          BY <2>2, <2>4, <3>1, <4>1, <4>2
    <2> QED
      BY <2>5, <2>6
  <1> QED
    BY <1>2, <1>3, <1>4

\* Removing a draft leaves tool and button.
LEMMA RemoveFields ==
    ASSUME NEW s \in State, NEW id
    PROVE  LET r == removeTask(s, id)
           IN  /\ r.tasks = s.tasks \ {t \in s.tasks : t.id = id}
               /\ r.page.active = s.page.active /\ r.page.button = s.page.button
  <1>1. s.page \in Page
    BY DEF State
  <1> QED
    BY <1>1 DEF removeTask, removeFromMap, deselectTask, selectTask, State, Page

\* The tool of a page and whether the maximum of tasks may have turned it off.
ToolStays(s, r) ==
    /\ r.page.button = s.page.button
    /\ r.page.active = s.page.active \/ Cardinality(r.tasks) >= maxTasksPerProject

\* Adding drafts.
LEMMA AddTool ==
    ASSUME NEW s, Good(s), NEW n \in Nat, NEW new \in [1 .. n -> NewDraft], Become(addTasks(s, new))
    PROVE  ToolStays(s, addTasks(s, new))
  <1> DEFINE all == withIds(s.tasks, new)
             r == [s EXCEPT !.tasks = all]
  <1>1. Cardinality(addTasks(s, new).tasks) <= MaxDrafts
    BY DEF Become
  <1>2. /\ Given(all, s.tasks, new, n) /\ all \in SUBSET Draft
        /\ addTasks(s, new) = showTasks(r, all \ s.tasks, "added")
        /\ r \in State
        /\ r.tasks = all /\ r.page = s.page
    BY <1>1, AddFields
  <1> HIDE DEF all, r
  <1>3. Cardinality(all) \in Nat /\ all \ s.tasks \in SUBSET Draft
    BY <1>2, FS_CardinalityType DEF Given
  <1> QED
    BY <1>2, <1>3, ShowFields DEF ToolStays

\* A step that leaves the tool as it is keeps tool bar and map in agreement.
LEMMA StaysFollows ==
    ASSUME NEW s \in State, s.page.active = page.active, s.page.button = page.button,
           NEW r \in State, ToolStays(s, r), Become(r)
    PROVE  Agree(page) => Agree(page') \/ Cardinality(tasks') >= maxTasksPerProject
  BY Becomes DEF ToolStays, Agree

\* What a step must do for tool bar and map.
Follows == Agree(page) => Agree(page') \/ Cardinality(tasks') >= maxTasksPerProject

\* A change of the page that leaves the tool.
LEMMA PageFollows ==
    ASSUME IInv, NEW p \in Page, Become([state EXCEPT !.page = p]),
           \/ p.active = page.active /\ p.button = page.button
           \/ p.active = "select" /\ p.button = NoButton
    PROVE  Follows
  <1> DEFINE s == [state EXCEPT !.page = p]
  <1>1. s \in State /\ s.page = p
    BY StateFields DEF State
  <1> HIDE DEF s
  <1> QED
    BY <1>1, Becomes DEF Follows, Agree, s

\* A selection.
LEMMA SelectFollows ==
    ASSUME IInv, NEW id \in DraftId \cup {NoDraft}, Become(selectTask(state, id))
    PROVE  Follows
  <1> DEFINE r == selectTask(state, id)
  <1>1. r \in State /\ r.page = [page EXCEPT !.preview = FALSE]
    BY StateFields, SelectFields
  <1> HIDE DEF r
  <1>2. r.page.active = page.active /\ r.page.button = page.button
    BY <1>1, StateFields DEF Page
  <1> QED
    BY <1>1, <1>2, Becomes DEF Follows, Agree, r

\* Adding drafts, those of a division after the divided one is removed.
LEMMA AddFollows ==
    ASSUME NEW s, Good(s), s.page.active = page.active, s.page.button = page.button,
           NEW n \in Nat, NEW new \in [1 .. n -> NewDraft], Become(addTasks(s, new))
    PROVE  Follows
  <1>1. ToolStays(s, addTasks(s, new))
    BY AddTool
  <1>2. addTasks(s, new) \in State /\ s \in State
    BY AddGood DEF Become, Good
  <1> HIDE DEF addTasks
  <1> QED
    BY <1>1, <1>2, StaysFollows DEF Follows

\* An imported project and the tool.
LEMMA ImportFollows ==
    ASSUME IInv, importProjectAsNewProject
    PROVE  Follows
  <1>1. PICK sizes \in Exports :
            Become(addTasks(state, [i \in DOMAIN sizes |-> toImportedDraft(sizes[i])]))
    BY DEF importProjectAsNewProject
  <1> DEFINE new == [i \in DOMAIN sizes |-> toImportedDraft(sizes[i])]
  <1>2. sizes \in Seq(Size)
    BY ProjectCreationAssumption
  <1>3. \A size \in Size : toImportedDraft(size) \in NewDraft
    BY DEF toImportedDraft, toTaskDraft, NewDraft
  <1>4. Len(sizes) \in Nat /\ new \in [1 .. Len(sizes) -> NewDraft]
    BY <1>2, <1>3
  <1> HIDE DEF new
  <1> QED
    BY <1>1, <1>4, AddFollows, StateFields DEF new

\* A division and the tool.
LEMMA DivideFollows ==
    ASSUME IInv, onDivideButtonClicked
    PROVE  Follows
  <1> DEFINE d == SelectedDraft(state)
             grid == page.divide.grid
             n == amountOfCells(d, grid)
             new == createTaskDrafts(d, grid)
             left == removeTask(state, selected)
  <1>1. Good(left) /\ left.page.active = page.active /\ left.page.button = page.button
    BY FormSelected, RemoveGood, RemoveFields, StateFields DEF onDivideButtonClicked
  <1>2. n \in Nat /\ new \in [1 .. n -> NewDraft]
    <2>1. grid \in Grid \cup {NoGrid}
      BY StateFields DEF onDivideButtonClicked, Page, Division
    <2> HIDE DEF d, grid
    <2>2. d \in Draft
      BY FormSelected DEF onDivideButtonClicked, d
    <2> QED
      BY <2>1, <2>2, CellsType
  <1>3. Become(addTasks(left, new))
    BY DEF onDivideButtonClicked
  <1> HIDE DEF left, new, n
  <1> QED
    BY <1>1, <1>2, <1>3, AddFollows

\* A button turns its tool on or off, and so does its highlight.
LEMMA OnButtonFollows ==
    ASSUME IInv, NEW tool \in Tool, onButton(tool)
    PROVE  Follows
  <1> DEFINE s == onToggle(state, tool)
             button == IF s.page.button = tool THEN NoButton ELSE tool
             p == [s.page EXCEPT !.button = button]
             r == [s EXCEPT !.page = p]
  <1>1. s \in State /\ s.page \in Page
    <2>1. (page.active # tool) \in BOOLEAN
      OBVIOUS
    <2> QED
      BY <2>1, InteractionGood, StateFields DEF onToggle, Good, State
  <1>2. /\ s.page.button = page.button
        /\ s.page.active = IF page.active # tool THEN tool ELSE "select"
    <2> DEFINE on == page.active # tool
    <2>1. on \in BOOLEAN /\ s = setInteraction(state, tool, on)
      BY StateFields DEF onToggle
    <2> HIDE DEF on, s
    <2>2. s.page.button = page.button /\ s.page.active = IF on THEN tool ELSE "select"
      BY <2>1, InteractionFields, StateFields
    <2> QED
      BY <2>2 DEF on
  <1>3. Become(r)
    BY DEF onButton
  <1>4. button \in Tool \cup {NoButton}
    OBVIOUS
  <1> HIDE DEF s
  <1>5. p \in Page /\ p.active = s.page.active /\ p.button = button
    BY <1>1, <1>4 DEF Page
  <1> HIDE DEF p
  <1>6. r \in State /\ r.page = p
    BY <1>1, <1>5 DEF State
  <1> HIDE DEF r
  <1>7. Agree(page) => (page.active = tool <=> page.button = tool)
    BY NothingAssumption DEF Agree, Tool
  <1>8. Agree(page) => Agree(p)
    <2> SUFFICES ASSUME Agree(page) PROVE Agree(p)
      OBVIOUS
    <2>1. CASE page.button = tool
      <3>1. p.active = "select" /\ p.button = NoButton
        BY <1>2, <1>5, <1>7, <2>1 DEF button
      <3> QED
        BY <3>1 DEF Agree
    <2>2. CASE page.button # tool
      <3>1. p.active = tool /\ p.button = tool /\ tool # NoButton
        BY <1>2, <1>5, <1>7, <2>2, NothingAssumption DEF button
      <3> QED
        BY <3>1 DEF Agree
    <2> QED
      BY <2>1, <2>2
  <1> QED
    BY <1>3, <1>5, <1>6, <1>8, Becomes DEF Follows, Agree

\* A changed polygon and the tool.
LEMMA ModifyFollows ==
    ASSUME IInv, Modify
    PROVE  Follows
  <1> DEFINE resized(ts, f, size) == {IF t = f THEN [t EXCEPT !.size = size] ELSE t : t \in ts}
  <1>1. PICK f \in page.map, size \in Size :
            Become([state EXCEPT !.tasks = resized(@, f, size), !.page.map = resized(@, f, size)])
    BY DEF Modify
  <1> DEFINE ts == resized(tasks, f, size)
             map == resized(page.map, f, size)
             p == [page EXCEPT !.map = map]
             r == [state EXCEPT !.tasks = ts, !.page = p]
  <1>2. Become(r)
    BY <1>1, StateFields DEF State
  <1>3. ts \in SUBSET Draft /\ map \in SUBSET Draft
    BY StateFields DEF State, Page, Draft
  <1> HIDE DEF ts, map
  <1>4. p \in Page /\ p.active = page.active /\ p.button = page.button
    BY <1>3, StateFields DEF Page
  <1> HIDE DEF p
  <1>5. r \in State /\ r.page = p
    BY <1>3, <1>4, StateFields DEF State
  <1> HIDE DEF r
  <1> QED
    BY <1>2, <1>4, <1>5, Becomes DEF Follows, Agree

\* A new name leaves the drafts; tool and selection go at the maximum of tasks only.
LEMMA RenameFields ==
    ASSUME NEW s, Good(s), NEW id \in DraftId, \E t \in s.tasks : t.id = id
    PROVE  LET r == changeTaskName(s, id)
           IN  /\ r.tasks = s.tasks /\ ToolStays(s, r)
               /\ r.selected = s.selected \/ Cardinality(s.tasks) >= maxTasksPerProject
  <1> DEFINE t == CHOOSE u \in s.tasks : u.id = id
             left == removeFromMap(s, id)
             q == [s.page EXCEPT !.map = @ \ {f \in @ : f.id = id}]
  <1>1. s \in State /\ s.page \in Page /\ s.tasks \in SUBSET Draft /\ Cardinality(s.tasks) \in Nat
    BY FS_CardinalityType DEF Good, State
  <1>2. t \in Draft
    BY <1>1
  <1>3. changeTaskName(s, id) = IF ~s.page.open \/ "changed" \in s.page.deaf THEN s
                                ELSE showTasks(left, {t}, "changed")
    BY DEF changeTaskName
  <1>4. left = [s EXCEPT !.page = q]
    BY DEF removeFromMap
  <1>5. q \in Page /\ q.active = s.page.active /\ q.button = s.page.button
    BY <1>1 DEF Page
  <1> HIDE DEF q, left, t
  <1>6. left \in State /\ left.tasks = s.tasks /\ left.selected = s.selected /\ left.page = q
    BY <1>1, <1>4, <1>5 DEF State
  <1>7. CASE ~s.page.open \/ "changed" \in s.page.deaf
    BY <1>3, <1>7 DEF ToolStays
  <1>8. CASE s.page.open /\ "changed" \notin s.page.deaf
    <2> DEFINE r == showTasks(left, {t}, "changed")
    <2>1. /\ r.tasks = left.tasks /\ r.page.button = left.page.button
          /\ \/ r.page.active = left.page.active /\ r.selected = left.selected
             \/ Cardinality(left.tasks) >= maxTasksPerProject
      BY <1>1, <1>2, <1>6, ShowFields
    <2>2. changeTaskName(s, id) = r
      BY <1>3, <1>8
    <2> HIDE DEF r
    <2> QED
      BY <1>5, <1>6, <2>1, <2>2 DEF ToolStays
  <1> QED
    BY <1>7, <1>8

\* Every step keeps tool bar and map in agreement, or reaches the maximum of tasks.
LEMMA StepFollows ==
    ASSUME IInv, [Next]_vars
    PROVE  Follows
  <1>1. CASE UNCHANGED <<tasks, selected, page>>
    BY <1>1 DEF Follows, Agree
  <1>2. ASSUME Become(selectTask(state, NoDraft)) PROVE Follows
    BY <1>2, SelectFollows
  <1>3. ASSUME Become([state EXCEPT !.page = NoPage]) PROVE Follows
    <2>1. NoPage \in Page /\ NoPage.active = "select" /\ NoPage.button = NoButton
      BY DEF NoPage, NewPage, Page, Tab
    <2> QED
      BY <1>3, <2>1, PageFollows
  <1>4. CASE OpenPage
    <2>1. NewPage \in Page /\ NewPage.active = "select" /\ NewPage.button = NoButton
      <3>1. {t.id : t \in tasks} \in SUBSET DraftId
        BY StateFields DEF State, Draft
      <3> QED
        BY <3>1 DEF NewPage, Page, Tab
    <2> QED
      BY <1>4, <2>1, PageFollows DEF OpenPage
  <1>5. CASE SelectTab
    <2>1. PICK tab \in Tab : onTabSelected(tab)
      BY <1>5 DEF SelectTab
    <2> DEFINE p == [page EXCEPT !.tab = tab, !.active = "select", !.preview = FALSE, !.button = NoButton]
    <2>2. p \in Page /\ p.active = "select" /\ p.button = NoButton
      BY StateFields DEF Page
    <2>3. Become([state EXCEPT !.page = p])
      BY <2>1, StateFields DEF onTabSelected, State
    <2> HIDE DEF p
    <2> QED
      BY <2>2, <2>3, PageFollows
  <1>6. CASE DrawEnd
    <2>1. <<toTaskDraft>> \in [1 .. 1 -> NewDraft]
      BY DEF toTaskDraft, NewDraft
    <2> QED
      BY <1>6, <2>1, AddFollows, StateFields DEF DrawEnd
  <1>7. CASE RemoveOnMap
    <2>1. PICK f \in page.map : Become(removeTask(state, f.id))
      BY <1>7 DEF RemoveOnMap
    <2> DEFINE r == removeTask(state, f.id)
    <2>2. r \in State /\ r.page.active = page.active /\ r.page.button = page.button
      BY RemoveGood, RemoveFields, DraftHasId, StateFields DEF Good
    <2> HIDE DEF r
    <2> QED
      BY <2>1, <2>2, Becomes DEF Follows, Agree, r
  <1>8. CASE SelectOnMap
    BY <1>2, <1>8, SelectFollows, DraftHasId DEF SelectOnMap, deselectTask
  <1>9. CASE onTaskClicked
    BY <1>9, SelectFollows, DraftHasId DEF onTaskClicked
  <1>10. CASE onTaskNameChanged
    <2> DEFINE r == changeTaskName(state, selected)
    <2>1. Good(r) /\ ToolStays(state, r) /\ Become(r)
      BY <1>10, RenameGood, RenameFields, FormSelected, StateFields DEF onTaskNameChanged
    <2> HIDE DEF r
    <2> QED
      BY <2>1, StaysFollows, StateFields DEF Follows, Good
  <1>11. CASE taskDividePropertyChanged
    <2>1. PICK grid \in Grid \cup {NoGrid} :
              Become([state EXCEPT !.page.divide = newForm(SelectedDraft(state), grid)])
      BY <1>11 DEF taskDividePropertyChanged
    <2> DEFINE form == newForm(SelectedDraft(state), grid)
               p == [page EXCEPT !.divide = form]
    <2>2. form \in Division
      BY <1>11, FormSelected, CellsType DEF newForm, Division, taskDividePropertyChanged
    <2>3. Become([state EXCEPT !.page = p])
      BY <2>1, StateFields DEF State
    <2> HIDE DEF form
    <2>4. p \in Page /\ p.active = page.active /\ p.button = page.button
      BY <2>2, StateFields DEF Page
    <2> HIDE DEF p
    <2> QED
      BY <2>3, <2>4, PageFollows
  <1>12. CASE onPreviewButtonClicked
    <2> DEFINE p == [page EXCEPT !.preview = TRUE]
    <2>1. Become([state EXCEPT !.page = p])
      BY <1>12, StateFields DEF State, onPreviewButtonClicked
    <2>2. p \in Page /\ p.active = page.active /\ p.button = page.button
      BY StateFields DEF Page
    <2> HIDE DEF p
    <2> QED
      BY <2>1, <2>2, PageFollows
  <1>13. CASE Cancel \/ Saved
    BY <1>1, <1>3, <1>13 DEF Cancel, Saved
  <1>14. CASE onImportClicked \/ Imported \/ onProjectSelected \/ onSaveButtonClicked
    BY <1>1, <1>14, ImportFollows DEF onImportClicked, Imported, onProjectSelected, onSaveButtonClicked
  <1> QED
    BY <1>1, <1>4, <1>5, <1>6, <1>7, <1>8, <1>9, <1>10, <1>11, <1>12, <1>13, <1>14,
       OnButtonFollows, ModifyFollows, DivideFollows DEF Next, vars

\* Buttons, keys and tabs keep tool bar and map in agreement; only the maximum of
\* tasks turns a tool off under its button.
THEOREM Follow == Spec => ToolbarFollows
  <1>1. IInv /\ [Next]_vars => [Agree(page) => Agree(page') \/ Cardinality(tasks') >= maxTasksPerProject]_vars
    BY StepFollows DEF Follows
  <1> QED
    BY <1>1, Inductive, PTL DEF Spec, ToolbarFollows

\* What a division counts is what it makes.
LEMMA DividesWithin ==
    ASSUME IInv, onDivideButtonClicked, page.divide = newForm(SelectedDraft(state), page.divide.grid)
    PROVE  Cardinality(tasks') <= maxTasksPerProject
  <1> DEFINE d == SelectedDraft(state)
             grid == page.divide.grid
             n == amountOfCells(d, grid)
             new == createTaskDrafts(d, grid)
             left == removeTask(state, selected)
             all == withIds(left.tasks, new)
  <1>1. /\ Good(left) /\ left.tasks = tasks \ {t \in tasks : t.id = selected}
    BY FormSelected, RemoveGood, RemoveFields, StateFields DEF onDivideButtonClicked
  <1>2. n \in Nat /\ new \in [1 .. n -> NewDraft]
    <2>1. grid \in Grid \cup {NoGrid}
      BY StateFields DEF onDivideButtonClicked, Page, Division
    <2> HIDE DEF d, grid
    <2>2. d \in Draft
      BY FormSelected DEF onDivideButtonClicked, d
    <2> QED
      BY <2>1, <2>2, CellsType
  <1>3. n = page.divide.cells
    BY DEF newForm
  <1>4. Become(addTasks(left, new))
    BY DEF onDivideButtonClicked
  <1>5. Cardinality(left.tasks) = Cardinality(tasks) - 1
    <2>1. d \in tasks /\ d.id = selected /\ Unique(tasks) /\ IsFiniteSet(tasks)
      BY FormSelected, StateFields DEF onDivideButtonClicked, Good
    <2> HIDE DEF d
    <2>2. left.tasks = tasks \ {d}
      BY <1>1, <2>1 DEF Unique
    <2> QED
      BY <2>1, <2>2, FS_RemoveElement
  <1>6. Cardinality(tasks) - 1 + n <= maxTasksPerProject
    BY <1>3 DEF onDivideButtonClicked, canDivideTasks, amountTasksAfterDividing
  <1> HIDE DEF left, new, n
  <1>7. Given(all, left.tasks, new, n) /\ addTasks(left, new) \in State /\ addTasks(left, new).tasks = all
    <2>1. Cardinality(addTasks(left, new).tasks) <= MaxDrafts
      BY <1>4 DEF Become
    <2> DEFINE r == [left EXCEPT !.tasks = all]
    <2>2. /\ Given(all, left.tasks, new, n) /\ all \in SUBSET Draft
          /\ addTasks(left, new) = showTasks(r, all \ left.tasks, "added")
          /\ r \in State /\ r.tasks = all
      BY <1>1, <1>2, <2>1, AddFields
    <2>3. Cardinality(all) \in Nat /\ all \ left.tasks \in SUBSET Draft
      BY <2>2, FS_CardinalityType DEF Given
    <2>4. addTasks(left, new) \in State
      BY <1>1, <1>2, <2>1, AddGood DEF Good
    <2> HIDE DEF r, all
    <2> QED
      BY <2>2, <2>3, <2>4, ShowFields
  <1> HIDE DEF all
  <1>8. tasks' = all
    BY <1>4, <1>7, Becomes
  <1> QED
    BY <1>5, <1>6, <1>7, <1>8 DEF Given

\* A division keeps to the maximum of tasks when the form counts the cells of the
\* draft that is divided.
THEOREM Divides == Spec => DivideWithinLimit
  <1>1. IInv /\ [Next]_vars => [onDivideButtonClicked /\ page.divide = newForm(SelectedDraft(state), page.divide.grid)
                                  => Cardinality(tasks') <= maxTasksPerProject]_vars
    BY DividesWithin
  <1> QED
    BY <1>1, Inductive, PTL DEF Spec, DivideWithinLimit

\* A new name takes the selection at the maximum of tasks only.
LEMMA RenameKeeps ==
    ASSUME IInv, onTaskNameChanged, Cardinality(tasks) < maxTasksPerProject
    PROVE  selected' = selected /\ tasks' = tasks
  <1> DEFINE r == changeTaskName(state, selected)
  <1>1. /\ r.tasks = tasks /\ Good(r) /\ Become(r)
        /\ r.selected = selected \/ Cardinality(tasks) >= maxTasksPerProject
    BY RenameGood, RenameFields, FormSelected, StateFields DEF onTaskNameChanged
  <1> HIDE DEF r
  <1>2. r.selected = selected
    BY <1>1, StateFields, ProjectCreationAssumption
  <1> QED
    BY <1>1, <1>2, Becomes DEF Good

\* Who types a new name keeps the selection below the maximum of tasks.
THEOREM Renames == Spec => RenameKeepsSelection
  <1>1. IInv /\ [Next]_vars => [onTaskNameChanged /\ Cardinality(tasks) < maxTasksPerProject
                                  => selected' = selected /\ tasks' = tasks]_vars
    BY RenameKeeps
  <1> QED
    BY <1>1, Inductive, PTL DEF Spec, RenameKeepsSelection
=============================================================================
