---------------------- MODULE ParentIncrementalProofs -----------------------
(***************************************************************************)
(* A run of parent_incremental replaces what it has read and nothing else, *)
(* for every foreign key, configuration of the windows, and number of      *)
(* children, days, changes and faults, however the run of the parents      *)
(* interleaves with it.  The argument: the copy of a parent is never newer *)
(* than the source's parent (CopyInv), so a parent inside the window of    *)
(* the copy is inside that of the source; and of a parent that has not     *)
(* changed since the run began the staging table holds all children, or    *)
(* none, and in the versions they have now (ReadInv).                      *)
(***************************************************************************)
EXTENDS ParentIncremental, TLAPS

DatesOf(row) == row.created \cup row.updated

NoNewer(copy, row) == \A d \in DatesOf(copy) : \E e \in DatesOf(row) : d <= e

CopyInv ==
    /\ \A p \in Parents : NoNewer(copied[p], parent[p])
    /\ \A p \in Parents : \A d \in DatesOf(parent[p]) : d <= today
    /\ \A s \in pstaged : NoNewer(s[2], parent[s[1]])

ReadInv ==
    cstep = "replace" =>
        \A c \in Children : Steady(c) =>
            \A v \in Versions : <<c, v>> \in staged <=>
                v = child[c] /\ v # 0 /\ InWindow(parent[ParentOf[c]], cutoff)

IInv == TypeOK /\ CopyInv /\ ReadInv

-----------------------------------------------------------------------------
(* Lemmas.                                                                 *)

LEMMA Constants == /\ MaxDay \in Nat /\ Lookback \in Nat /\ MaxVersion \in Nat
                   /\ MaxChanges \in Nat /\ MaxFaults \in Nat
                   /\ HalfYear \in Nat \ {0} /\ InitialChildren \subseteq [Children -> {0, 1}]
                   /\ 0 \in Days /\ 0 \in Versions /\ 1 \in Versions
                   /\ \A d \in Days : d \in Int /\ 0 <= d /\ d <= MaxDay
                   /\ \A v \in Versions : v \in Int /\ (v # 0 => v \in 1..MaxVersion)
                   /\ \A c \in Children : ParentOf[c] \in Parents
  BY ParentAssumption DEF ParentAssumption, Days, Versions

LEMMA FirstInv == Init => IInv
  <1> SUFFICES ASSUME Init PROVE IInv
    OBVIOUS
  <1>1. /\ 0 \in 0..MaxChanges /\ 0 \in 0..MaxFaults
        /\ child \in [Children -> Versions] /\ parent \in [Parents -> Row]
    BY Constants DEF Init, Row, NoRow
  <1>2. TypeOK
    BY <1>1, Constants DEF Init, TypeOK
  <1>3. CopyInv
    BY Constants DEF Init, CopyInv, NoNewer, DatesOf, NoRow
  <1>4. ReadInv
    BY DEF Init, ReadInv
  <1> QED
    BY <1>2, <1>3, <1>4 DEF IInv

(* A child's run never hits the unique index: what is to be inserted is    *)
(* among what is deleted.                                                  *)
LEMMA NothingIsInTheWay == ~Conflict
  BY DEF Conflict, Kept, Deleted, Staged

LEMMA DatesAreDays == ASSUME TypeOK
              PROVE  /\ today \in Int /\ cutoff \in Int
                     /\ \A p \in Parents : /\ \A d \in DatesOf(copied[p]) : d \in Int
                                           /\ \A d \in DatesOf(parent[p]) : d \in Int
                     /\ \A s \in pstaged : /\ s[1] \in Parents
                                           /\ \A d \in DatesOf(s[2]) : d \in Int
  BY Constants DEF TypeOK, Row, DatesOf

LEMMA CutoffsAreIntegers == ASSUME NEW mode, NEW day \in Days PROVE CutoffOf(mode, day) \in Int
  <1>1. day \in Int /\ 2 * HalfYear \in Nat \ {0} /\ HalfYear \in Int
    BY Constants
  <1>2. day \div (2 * HalfYear) \in Int
    BY <1>1
  <1>3. (day \div (2 * HalfYear)) * 2 * HalfYear \in Int
    BY <1>1, <1>2
  <1>4. DeepCutoff(day) \in Int
    BY <1>1, <1>3 DEF DeepCutoff
  <1> QED
    BY <1>1, <1>4, Constants DEF CutoffOf

LEMMA StampedRow == ASSUME TypeOK, NEW row \in Row PROVE Stamped(row) \in Row
  BY DEF Stamped, Row, NoRow, TypeOK

LEMMA NoNewerWindow ==
    ASSUME NEW copy, NEW row, NoNewer(copy, row), NEW limit \in Int,
           \A d \in DatesOf(copy) \cup DatesOf(row) : d \in Int, InWindow(copy, limit)
    PROVE  InWindow(row, limit)
  <1>1. PICK d \in DatesOf(copy) : d >= limit
    BY DEF InWindow, Reaches, DatesOf
  <1>2. PICK e \in DatesOf(row) : d <= e
    BY DEF NoNewer
  <1>3. e >= limit
    BY <1>1, <1>2
  <1> QED
    BY <1>3 DEF InWindow, Reaches, DatesOf

-----------------------------------------------------------------------------
(* Every step keeps the invariant.                                         *)

LEMMA TypesKept == IInv /\ [Next]_vars => TypeOK'
  <1> SUFFICES ASSUME IInv, [Next]_vars PROVE TypeOK'
    OBVIOUS
  <1> USE DEF IInv
  <1>1. ASSUME NEW c \in Children, NEW v \in Versions, Change(c, v) PROVE TypeOK'
    <2>1. changes' \in 0..MaxChanges
      BY <1>1, Constants DEF Change, TypeOK
    <2>2. Stamped(parent[ParentOf[c]]) \in Row
      BY StampedRow, Constants DEF TypeOK
    <2>3. parent' \in [Parents -> Row] /\ child' \in [Children -> Versions]
      BY <1>1, <2>2 DEF Change, TypeOK
    <2> QED
      BY <1>1, <2>1, <2>3 DEF Change, TypeOK, parentRunVars, childRunVars
  <1>2. ASSUME NextDay PROVE TypeOK'
    <2>1. today' \in Days
      BY <1>2, Constants DEF NextDay, TypeOK, Days
    <2> QED
      BY <1>2, <2>1 DEF NextDay, TypeOK, sourceVars, parentRunVars
  <1>3. ASSUME ParentRun PROVE TypeOK'
    <2>1. CASE ReadParents
      <3>1. pstaged' \subseteq Parents \X Row
        BY <2>1 DEF ReadParents, TypeOK
      <3> QED
        BY <2>1, <3>1 DEF ReadParents, TypeOK, sourceVars, childRunVars
    <2>2. CASE UpsertParents
      <3>1. ASSUME NEW p \in Parents, \E s \in pstaged : s[1] = p
            PROVE  (CHOOSE s \in pstaged : s[1] = p)[2] \in Row
        BY <3>1 DEF TypeOK
      <3>2. copied' \in [Parents -> Row]
        BY <2>2, <3>1 DEF UpsertParents, TypeOK
      <3> QED
        BY <2>2, <3>2 DEF UpsertParents, TypeOK, sourceVars, childRunVars
    <2> QED
      BY <1>3, <2>1, <2>2 DEF ParentRun
  <1>4. ASSUME StartChildren PROVE TypeOK'
    <2>1. ChildCutoff \in Int
      BY CutoffsAreIntegers DEF ChildCutoff, TypeOK
    <2> QED
      BY <1>4, <2>1 DEF StartChildren, TypeOK, sourceVars, parentRunVars
  <1>5. ASSUME NoChildren \/ SomeChildren PROVE TypeOK'
    <2>1. CASE NoChildren
      BY <2>1 DEF NoChildren, ChildRunEnds, CameThrough, TypeOK, sourceVars, parentRunVars
    <2>2. CASE SomeChildren
      BY <2>2 DEF SomeChildren, TypeOK, sourceVars, parentRunVars
    <2> QED
      BY <1>5, <2>1, <2>2
  <1>6. ASSUME ReadChildren PROVE TypeOK'
    <2>1. \A c \in SourceWindow : c \in Children /\ child[c] \in 1..MaxVersion
      BY Constants DEF SourceWindow, TypeOK
    <2>2. staged' \subseteq Children \X (1..MaxVersion)
      BY <1>6, <2>1 DEF ReadChildren
    <2> QED
      BY <1>6, <2>2 DEF ReadChildren, TypeOK, sourceVars, parentRunVars
  <1>7. ASSUME ReplaceChildren PROVE TypeOK'
    <2>1. ASSUME NEW c \in Staged PROVE (CHOOSE v \in Versions : <<c, v>> \in staged) \in Versions
      BY <2>1 DEF Staged
    <2>2. target' \in [Children -> Versions]
      BY <1>7, <2>1, Constants DEF ReplaceChildren, TypeOK
    <2>3. failed' \in BOOLEAN /\ ran' \in {"no", "begun", "yes"}
      BY <1>7 DEF ReplaceChildren, Conflict, CameThrough, FellThrough, TypeOK
    <2>4. /\ cstep' = "idle" /\ cutoff' = 0 /\ staged' = {} /\ steady' = {}
          /\ UNCHANGED <<settings, today, sourceVars, parentRunVars, faults>>
      BY <1>7 DEF ReplaceChildren, ChildRunEnds
    <2> QED
      BY <2>2, <2>3, <2>4 DEF TypeOK, sourceVars, parentRunVars
  <1>8. ASSUME ParentRunDies \/ ChildRunDies PROVE TypeOK'
    <2>1. faults' \in 0..MaxFaults
      BY <1>8, Constants DEF ParentRunDies, ChildRunDies, TypeOK
    <2>2. CASE ParentRunDies
      BY <2>1, <2>2 DEF ParentRunDies, TypeOK, sourceVars, childRunVars
    <2>3. CASE ChildRunDies
      BY <2>1, <2>3 DEF ChildRunDies, ChildRunEnds, FellThrough, TypeOK, sourceVars, parentRunVars
    <2> QED
      BY <1>8, <2>2, <2>3
  <1>9. CASE UNCHANGED vars
    BY <1>9 DEF vars, TypeOK, sourceVars, parentRunVars, childRunVars
  <1> QED
    BY <1>1, <1>2, <1>3, <1>4, <1>5, <1>6, <1>7, <1>8, <1>9 DEF Next, ChildRun

LEMMA CopyKept == IInv /\ [Next]_vars => CopyInv'
  <1> SUFFICES ASSUME IInv, [Next]_vars PROVE CopyInv'
    OBVIOUS
  <1> USE DEF IInv
  <1>1. ASSUME NEW c \in Children, NEW v \in Versions, Change(c, v) PROVE CopyInv'
    <2>1. parent' = [parent EXCEPT ![ParentOf[c]] = Stamped(parent[ParentOf[c]])]
          /\ UNCHANGED <<today, copied, pstaged>> /\ parent \in [Parents -> Row]
      BY <1>1 DEF Change, parentRunVars, TypeOK
    <2>2. /\ today \in DatesOf(Stamped(parent[ParentOf[c]]))
          /\ \A e \in DatesOf(Stamped(parent[ParentOf[c]])) : e <= today
      BY <2>1, DatesAreDays, Constants DEF Stamped, DatesOf, Row, NoRow, CopyInv
    <2>3. ASSUME NEW p \in Parents
          PROVE  /\ NoNewer(parent[p], parent'[p])
                 /\ \A e \in DatesOf(parent'[p]) : e <= today /\ e \in Int
      <3>1. CASE p = ParentOf[c]
        <4>1. parent'[p] = Stamped(parent[p])
          BY <2>1, <3>1
        <4>2. parent'[p] \in Row
          BY <2>1, <4>1, StampedRow
        <4> QED
          BY <2>2, <3>1, <4>1, <4>2, Constants DEF CopyInv, NoNewer, DatesOf, Row
      <3>2. CASE p # ParentOf[c]
        BY <2>1, <3>2, DatesAreDays DEF CopyInv, NoNewer
      <3> QED
        BY <3>1, <3>2
    <2>4. ASSUME NEW p \in Parents, NEW copy, \A d \in DatesOf(copy) : d \in Int,
                 NoNewer(copy, parent[p])
          PROVE  NoNewer(copy, parent'[p])
      <3> SUFFICES ASSUME NEW d \in DatesOf(copy) PROVE \E e \in DatesOf(parent'[p]) : d <= e
        BY DEF NoNewer
      <3>1. PICK e \in DatesOf(parent[p]) : d <= e
        BY <2>4 DEF NoNewer
      <3>2. PICK f \in DatesOf(parent'[p]) : e <= f
        BY <2>3 DEF NoNewer
      <3> QED
        BY <2>3, <2>4, <3>1, <3>2, DatesAreDays
    <2> QED
      BY <2>1, <2>3, <2>4, DatesAreDays DEF CopyInv
  <1>2. ASSUME NextDay PROVE CopyInv'
    BY <1>2, DatesAreDays DEF NextDay, CopyInv, sourceVars, parentRunVars
  <1>3. ASSUME ReadParents PROVE CopyInv'
    <2>1. \A p \in Parents : NoNewer(parent[p], parent[p])
      BY DatesAreDays DEF NoNewer
    <2> QED
      BY <1>3, <2>1 DEF ReadParents, CopyInv, sourceVars
  <1>4. ASSUME UpsertParents PROVE CopyInv'
    <2>1. ASSUME NEW p \in Parents PROVE NoNewer(copied'[p], parent[p])
      <3>1. CASE \E s \in pstaged : s[1] = p
        <4> DEFINE new == CHOOSE s \in pstaged : s[1] = p
        <4>1. new \in pstaged /\ new[1] = p
          BY <3>1
        <4>2. copied'[p] = new[2]
          BY <1>4, <3>1 DEF UpsertParents
        <4> QED
          BY <4>1, <4>2 DEF CopyInv
      <3>2. CASE ~\E s \in pstaged : s[1] = p
        BY <1>4, <3>2 DEF UpsertParents, CopyInv
      <3> QED
        BY <3>1, <3>2
    <2> QED
      BY <1>4, <2>1 DEF UpsertParents, CopyInv, sourceVars
  <1>5. CASE UNCHANGED <<copied, parent, today>> /\ pstaged' \in {pstaged, {}}
    BY <1>5 DEF CopyInv
  <1> QED
    BY <1>1, <1>2, <1>3, <1>4, <1>5 DEF Next, ParentRun, ChildRun, StartChildren, NoChildren,
       SomeChildren, ReadChildren, ReplaceChildren, ParentRunDies, ChildRunDies, ChildRunEnds, vars,
       sourceVars, parentRunVars

LEMMA ReadKept == IInv /\ [Next]_vars => ReadInv'
  <1> SUFFICES ASSUME IInv, [Next]_vars PROVE ReadInv'
    OBVIOUS
  <1> USE DEF IInv
  <1>1. ASSUME NEW c \in Children, NEW v \in Versions, Change(c, v) PROVE ReadInv'
    <2>1. ASSUME NEW d \in Children, ParentOf[d] \in steady'
          PROVE  /\ ParentOf[d] \in steady
                 /\ child'[d] = child[d] /\ parent'[ParentOf[d]] = parent[ParentOf[d]]
      BY <1>1, <2>1, Constants DEF Change, TypeOK
    <2> QED
      BY <1>1, <2>1 DEF Change, ReadInv, Steady, InWindow, childRunVars
  <1>2. ASSUME ReadChildren PROVE ReadInv'
    BY <1>2 DEF ReadChildren, ReadInv, SourceWindow, sourceVars, Steady, InWindow
  <1>3. CASE cstep' # "replace"
    BY <1>3 DEF ReadInv
  <1>4. CASE UNCHANGED <<sourceVars, cutoff, staged, steady, cstep>>
    BY <1>4 DEF ReadInv, sourceVars, Steady, InWindow
  <1> QED
    BY <1>1, <1>2, <1>3, <1>4 DEF Next, NextDay, ParentRun, ReadParents, UpsertParents, ChildRun,
       StartChildren, NoChildren, SomeChildren, ReplaceChildren, ParentRunDies, ChildRunDies,
       ChildRunEnds, vars, childRunVars

LEMMA InvariantHolds == Spec => []IInv
  <1>1. IInv /\ [Next]_vars => IInv'
    BY TypesKept, CopyKept, ReadKept DEF IInv
  <1> QED
    BY <1>1, FirstInv, PTL DEF Spec

-----------------------------------------------------------------------------
(* Theorems.                                                               *)

(* The variables of the two pipelines keep their types.                    *)
THEOREM ParentTypeCorrect == Spec => []TypeOK
  <1>1. IInv => TypeOK
    BY DEF IInv
  <1> QED
    BY <1>1, InvariantHolds, PTL

(* The INSERT after the DELETE never hits the unique index, whatever the   *)
(* copy of the parents says (the staging half of _delete_window).          *)
THEOREM ReplacementNeverConflicts == Spec => []NeverConflicts
  <1>1. Init => NeverConflicts
    BY DEF Init, NeverConflicts
  <1>2. NeverConflicts /\ [Next]_vars => NeverConflicts'
    BY NothingIsInTheWay DEF NeverConflicts, Next, Change, NextDay, ParentRun, ReadParents,
       UpsertParents, ChildRun, StartChildren, NoChildren, SomeChildren, ReadChildren,
       ReplaceChildren, ParentRunDies, ChildRunDies, ChildRunEnds, vars, childRunVars
  <1> QED
    BY <1>1, <1>2, PTL DEF Spec

(* Of a parent that rests, the children in the window and only they are in *)
(* the staging table when the replacement comes.                           *)
LEMMA AllOrNone ==
    ASSUME IInv, cstep = "replace", NEW c \in Children, Steady(c)
    PROVE  /\ c \in Staged <=> child[c] # 0 /\ InWindow(parent[ParentOf[c]], cutoff)
           /\ c \in Staged => (CHOOSE v \in Versions : <<c, v>> \in staged) = child[c]
  <1>1. \A v \in Versions : <<c, v>> \in staged <=>
            v = child[c] /\ v # 0 /\ InWindow(parent[ParentOf[c]], cutoff)
    BY DEF IInv, ReadInv
  <1>2. child[c] \in Versions
    BY DEF IInv, TypeOK
  <1> HIDE DEF InWindow
  <1> QED
    BY <1>1, <1>2 DEF Staged

(* The replacement spoils no child that was right: all it deletes of a     *)
(* parent that rests it has read (_delete_window against _source_where).   *)
THEOREM ReplacementTakesNothingAway == Spec => NothingTakenAway
  <1>1. ASSUME IInv, [Next]_vars, NEW c \in Children, Steady(c), child[c] # 0, target[c] = child[c]
        PROVE  target'[c] = child[c]
    <2>1. CASE ~ReplaceChildren
      BY <1>1, <2>1 DEF Next, Change, NextDay, ParentRun, ReadParents, UpsertParents, ChildRun,
         StartChildren, NoChildren, SomeChildren, ReadChildren, ParentRunDies, ChildRunDies,
         ChildRunEnds, vars, childRunVars
    <2>2. CASE ReplaceChildren
      <3>1. cstep = "replace" /\ target'[c] =
                (IF c \in Kept \ Staged THEN target[c]
                 ELSE IF c \in Staged THEN CHOOSE v \in Versions : <<c, v>> \in staged ELSE 0)
        BY <2>2, NothingIsInTheWay DEF ReplaceChildren
      <3>2. CASE c \in Staged
        BY <1>1, <3>1, <3>2, AllOrNone
      <3>3. CASE c \notin Staged
        <4>1. ~InWindow(parent[ParentOf[c]], cutoff)
          BY <1>1, <3>1, <3>3, AllOrNone
        <4>2. ~InWindow(copied[ParentOf[c]], cutoff)
          BY <1>1, <4>1, NoNewerWindow, DatesAreDays, Constants DEF IInv, CopyInv
        <4>3. ASSUME NEW s \in Staged, ParentOf[s] = ParentOf[c] PROVE FALSE
          <5>1. s \in Children /\ Steady(s)
            BY <1>1, <4>3 DEF Staged, Steady
          <5>2. InWindow(parent[ParentOf[s]], cutoff)
            BY <1>1, <3>1, <4>3, <5>1, AllOrNone
          <5> QED
            BY <4>1, <4>3, <5>2
        <4>4. c \in Kept
          BY <1>1, <4>2, <4>3 DEF Kept, Deleted
        <4> QED
          BY <1>1, <3>1, <3>3, <4>4
      <3> QED
        BY <3>2, <3>3
    <2> QED
      BY <2>1, <2>2
  <1>2. IInv /\ [Next]_vars =>
            [\A c \in Children : Steady(c) /\ child[c] # 0 /\ target[c] = child[c]
                                => target'[c] = child[c]]_vars
    BY <1>1
  <1> QED
    BY <1>2, InvariantHolds, PTL DEF Spec, NothingTakenAway

(* What has vanished from the source under a parent in the window of the   *)
(* copy is gone after a replacement, although nothing was read for it.     *)
THEOREM StaleRowsAreDeleted == Spec => StaleRowsGo
  <1>1. ASSUME IInv, ReplaceChildren, NEW c \in Children, Steady(c), child[c] = 0,
               InWindow(copied[ParentOf[c]], cutoff)
        PROVE  target'[c] = 0
    <2>1. c \notin Staged /\ c \notin Kept
      BY <1>1, AllOrNone DEF ReplaceChildren, Kept, Deleted
    <2> QED
      BY <1>1, <2>1, NothingIsInTheWay DEF ReplaceChildren
  <1>2. IInv /\ [Next]_vars =>
            [ReplaceChildren /\ ~failed' =>
                \A c \in Children :
                    Steady(c) /\ child[c] = 0 /\ InWindow(copied[ParentOf[c]], cutoff)
                    => target'[c] = 0]_vars
    BY <1>1
  <1> QED
    BY <1>2, InvariantHolds, PTL DEF Spec, StaleRowsGo
=============================================================================
