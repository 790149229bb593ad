----------------------------- MODULE LoadProofs -----------------------------
(***************************************************************************)
(* The load of a table into PostgreSQL, in its two halves.                 *)
(*                                                                         *)
(* The full load implements AtomicReplace, for every value of the          *)
(* constants.  The argument: while the source is read the shadow holds     *)
(* exactly what the reader has handed over (StepInv); a read that ended    *)
(* normally has skipped nothing and invented nothing (CoverInv); and the   *)
(* target everybody sees changes only when the shadow's rows go into it.   *)
(*                                                                         *)
(* The columns of a load keep their names and the package's columns keep   *)
(* to the catalogue (ColumnsInv): a run's names are made of its columns,   *)
(* one by one, so that whatever is written under a name comes from the     *)
(* column that is called so.  The batches lose nothing (BatchInv): the     *)
(* rows of a batch follow one another, and what was sent, what the buffer  *)
(* still holds and what is not serialised are together their pieces.  And  *)
(* the values survive (ValueInv): whatever has been copied was coerced in  *)
(* some batch of the source, to the type the first one settled, and was    *)
(* accepted there, so that what becomes of a value is a matter of what     *)
(* the coercion of any column makes of one of its cells.                   *)
(***************************************************************************)
EXTENDS FullLoad, ReadWithResumeProofs, Preparation, FiniteSetTheorems, SequenceTheorems

StepInv ==
    /\ step \in {"idle", "swap", "insert", "finish"} => phase = "off"
    /\ step = "read" => /\ phase # "off"
                        /\ window = Keys
                        /\ shadow = got
                        /\ seen = got
    /\ step \in {"swap", "insert"} => stable \subseteq shadow /\ shadow \subseteq appeared
    /\ step # "insert" => session = committed
    /\ HasPk => twice = {}

FullInv ==
    /\ CoverInv
    /\ TypeOK
    /\ StepInv

(* There may be no table.                                                  *)
LEMMA NoTableType == NoTable \in Table
  BY DEF NoTable, Table

(* Nothing has been read or written.                                       *)
LEMMA FullInit == Init => FullInv
  <1> SUFFICES ASSUME Init PROVE FullInv
    OBVIOUS
  <1>1. CoverInv
    BY CoverInit DEF Init
  <1>2. TypeOK
    <2>1. 0 \in 0..MaxFaults
      BY FullAssumption DEF FullAssumption
    <2>2. ReadTypeOK
      BY <1>1 DEF CoverInv
    <2> QED
      BY <2>1, <2>2, NoTableType DEF Init, TypeOK
  <1>3. StepInv
    BY DEF Init, ReadInit, StepInv
  <1> QED
    BY <1>1, <1>2, <1>3 DEF FullInv

-----------------------------------------------------------------------------
(* The invariant of the reader.                                            *)

(* The reader keeps its invariant in every step of the load.               *)
LEMMA FullCover == ASSUME FullInv, [Next]_vars PROVE CoverInv'
  <1> USE DEF FullInv
  <1>1. CASE SourceChanges
    BY <1>1, SourceStepCover DEF SourceChanges
  <1>2. CASE StartRead
    BY <1>2, BeginCover DEF StartRead
  <1>3. CASE UNCHANGED vars
    BY <1>3, IdleCover DEF vars
  <1>4. CASE StartEmpty
    <2>1. phase = "off" /\ readVars' = readVars /\ rows' = rows /\ stable' = {} /\ appeared' = {}
      BY <1>4 DEF StepInv, StartEmpty
    <2>2. ReadTypeOK'
      BY <2>1 DEF CoverInv, ReadTypeOK, readVars
    <2> QED
      BY <2>1, <2>2 DEF CoverInv, FlagsInv, HistoryInv, QueryInv, PrefixInv, NothingSkipped,
         NothingInvented, readVars
  <1>5. ASSUME NEW b \in SUBSET pending, LoadBatch(b) PROVE CoverInv'
    BY <1>5, DeliverCover DEF LoadBatch
  <1>6. CASE LoadEmptyFrame
    BY <1>6, FrameCover DEF LoadEmptyFrame
  <1>7. CASE ReadOn
    BY <1>7, OpenQueryCover, ExhaustCover DEF ReadOn
  <1>8. CASE ReadDone \/ RunFails \/ RunDies
    BY <1>8, AbandonCover DEF ReadDone, RunFails, RunDies, RollBack
  <1>9. CASE RenameShadow \/ Truncate \/ InsertFromShadow
    BY <1>9, IdleCover DEF RenameShadow, Truncate, InsertFromShadow
  <1>10. ASSUME NEW fails \in BOOLEAN, Finish(fails) PROVE CoverInv'
    BY <1>10, IdleCover DEF Finish
  <1>11. ASSUME NEW temporary \in BOOLEAN, Drop(temporary) PROVE CoverInv'
    BY <1>11, SourceErrorCover DEF Drop
  <1> QED
    BY <1>1, <1>2, <1>3, <1>4, <1>5, <1>6, <1>7, <1>8, <1>9, <1>10, <1>11
       DEF Next, Start, Progress

-----------------------------------------------------------------------------
(* The steps of the load.                                                  *)

(* The shadow once it is filled,                                           *)
LEMMA FilledType == ASSUME NEW table \in Table, shadow \subseteq Keys, twice \subseteq Keys
                    PROVE  /\ Filled(table) \in Table
                           /\ Filled(table).rows = shadow
  BY DEF Filled, Table

(* a new one,                                                              *)
LEMMA NewTableType == ASSUME NEW part \in BOOLEAN
                      PROVE  NewTable(part) \in Table /\ NewTable(part).rows = {}
  BY DEF NewTable, NoTable, Table

(* and the target after an index of it was built.                          *)
LEMMA AfterBuildType == ASSUME session \in Table, NEW fails \in BOOLEAN
                        PROVE  AfterBuild(fails) \in {"none", "invalid", "valid"}
  BY DEF AfterBuild, Table

(* What the load leaves in place keeps its type.                           *)
LEMMA FullTypes == ASSUME FullInv, CoverInv', [Next]_vars PROVE TypeOK'
  <1> USE DEF FullInv, loadVars
  <1>0. ReadTypeOK'
    BY DEF CoverInv
  <1>1. CASE SourceChanges \/ ReadOn \/ UNCHANGED vars
    BY <1>0, <1>1 DEF TypeOK, SourceChanges, ReadOn, vars
  <1>2. CASE StartRead \/ StartEmpty
    <2>1. EffectiveSpec(session) \in BOOLEAN
      BY FullAssumption DEF EffectiveSpec, FullAssumption, TypeOK, Table
    <2> QED
      BY <1>0, <1>2, <2>1 DEF TypeOK, StartRead, StartEmpty
  <1>3. ASSUME NEW b \in SUBSET pending, LoadBatch(b) PROVE TypeOK'
    <2>1. b \subseteq Keys /\ FilterNew(b) \subseteq Keys
      BY DEF CoverInv, ReadTypeOK, FilterNew
    <2> QED
      BY <1>0, <1>3, <2>1 DEF TypeOK, LoadBatch
  <1>4. CASE LoadEmptyFrame \/ ReadDone
    BY <1>0, <1>4 DEF TypeOK, LoadEmptyFrame, ReadDone
  <1>5. CASE RenameShadow \/ InsertFromShadow
    <2>1. Filled(NewTable(FALSE)) \in Table /\ Filled(session) \in Table
      BY NewTableType, FilledType DEF TypeOK
    <2> QED
      BY <1>0, <1>5, <2>1 DEF TypeOK, RenameShadow, InsertFromShadow
  <1>6. CASE Truncate
    <2>1. session' \in Table
      <3>1. CASE session.exists
        BY <1>6, <3>1 DEF Truncate, TypeOK, Table
      <3>2. CASE ~session.exists
        BY <1>6, <3>2, NewTableType DEF Truncate
      <3> QED
        BY <3>1, <3>2
    <2> QED
      BY <1>0, <1>6, <2>1 DEF TypeOK, Truncate, KeepTransactionOpen
  <1>7. ASSUME NEW fails \in BOOLEAN, Finish(fails) PROVE TypeOK'
    <2>1. session' \in Table
      <3>1. CASE HasPk
        <4>1. AfterBuild(fails) \in {"none", "invalid", "valid"}
          BY AfterBuildType DEF TypeOK
        <4> QED
          BY <1>7, <3>1, <4>1 DEF Finish, TypeOK, Table
      <3>2. CASE ~HasPk
        BY <1>7, <3>2 DEF Finish, TypeOK
      <3> QED
        BY <3>1, <3>2
    <2>2. faults' \in 0..MaxFaults
      BY <1>7, FullAssumption DEF Finish, TypeOK, FullAssumption
    <2> QED
      BY <1>0, <1>7, <2>1, <2>2 DEF TypeOK, Finish
  <1>8. ASSUME NEW temporary \in BOOLEAN, Drop(temporary) PROVE TypeOK'
    <2>1. faults' \in 0..MaxFaults
      BY <1>8, FullAssumption DEF TypeOK, Drop, FullAssumption
    <2> QED
      BY <1>0, <1>8, <2>1 DEF TypeOK, Drop
  <1>9. CASE RunFails \/ RunDies
    <2>1. faults' \in 0..MaxFaults
      BY <1>9, FullAssumption DEF TypeOK, RunFails, RunDies, FullAssumption
    <2> QED
      BY <1>0, <1>9, <2>1 DEF TypeOK, RunFails, RunDies, RollBack
  <1> QED
    BY <1>1, <1>2, <1>3, <1>4, <1>5, <1>6, <1>7, <1>8, <1>9 DEF Next, Start, Progress

(* The shadow follows the reader, and the session follows the target.      *)
LEMMA FullSteps == ASSUME FullInv, [Next]_vars PROVE StepInv'
  <1> USE DEF FullInv, StepInv, loadVars
  <1>1. CASE SourceChanges
    BY <1>1 DEF SourceChanges, SourceStep, Insert, Delete, readVars
  <1>2. CASE StartRead
    BY <1>2 DEF StartRead, Begin
  <1>3. CASE UNCHANGED vars
    BY <1>3 DEF vars, allReadVars, readVars, sourceVars
  <1>4. CASE StartEmpty
    BY <1>4 DEF StartEmpty, readVars
  <1>5. ASSUME NEW b \in SUBSET pending, LoadBatch(b) PROVE StepInv'
    BY <1>5 DEF LoadBatch, Deliver, FilterNew
  <1>6. CASE LoadEmptyFrame
    BY <1>6 DEF LoadEmptyFrame, DeliverEmptyFrame
  <1>7. CASE ReadOn
    BY <1>7 DEF ReadOn, OpenQuery, Exhaust
  <1>8. CASE ReadDone
    <2>1. stable \subseteq shadow /\ shadow \subseteq appeared
      BY <1>8 DEF ReadDone, CoverInv, ReadTypeOK, NothingSkipped, NothingInvented
    <2> QED
      BY <1>8, <2>1 DEF ReadDone, Abandon, sourceVars
  <1>9. CASE RenameShadow \/ Truncate \/ InsertFromShadow
    BY <1>9 DEF RenameShadow, Truncate, InsertFromShadow, allReadVars, readVars, sourceVars
  <1>10. ASSUME NEW fails \in BOOLEAN, Finish(fails) PROVE StepInv'
    BY <1>10 DEF Finish, allReadVars, readVars, sourceVars
  <1>11. ASSUME NEW temporary \in BOOLEAN, Drop(temporary) PROVE StepInv'
    BY <1>11 DEF Drop, SourceError
  <1>12. CASE RunFails \/ RunDies
    BY <1>12 DEF RunFails, RunDies, RollBack, Abandon
  <1> QED
    BY <1>1, <1>2, <1>3, <1>4, <1>5, <1>6, <1>7, <1>8, <1>9, <1>10, <1>11, <1>12
       DEF Next, Start, Progress

(* Each step of the load keeps the invariant.                              *)
LEMMA FullNext == FullInv /\ [Next]_vars => FullInv'
  BY FullCover, FullTypes, FullSteps DEF FullInv

(* Every state of a full load satisfies its inductive invariant.           *)
THEOREM FullInvariant == Spec => []FullInv
  BY FullInit, FullNext, PTL DEF Spec

(* The variables of a full load keep their types.                          *)
THEOREM FullTypeCorrect == Spec => []TypeOK
  <1>1. FullInv => TypeOK
    BY DEF FullInv
  <1> QED
    BY <1>1, FullInvariant, PTL

(* With a primary key the rows that go into the target have no key twice,  *)
(* whatever the order of the keys in pandas: SeenKeys makes up for the     *)
(* batches a resumed read repeats.                                         *)
THEOREM FullHasNoKeyTwice == Spec => []NoKeyTwice
  <1>1. FullInv => NoKeyTwice
    BY DEF FullInv, StepInv, NoKeyTwice
  <1> QED
    BY <1>1, FullInvariant, PTL

-----------------------------------------------------------------------------
(* Refinement.                                                             *)

(* The first state of the load is one of the atomic replacement,           *)
LEMMA FullStartsEmpty == Init => Target!Init
  BY DEF Init, ReadInit, NoTable, Target!Init

(* A step that leaves the source and the target everybody sees alone.      *)
LEMMA Stutter == ASSUME rows' = rows, committed' = committed, stable' = stable,
                        appeared' = appeared
                 PROVE  UNCHANGED Target!vars
  BY DEF Target!vars

(* and each step is one of it, or changes nothing it shows.                *)
LEMMA FullStepRefines == FullInv /\ [Next]_vars => [Target!Next]_(Target!vars)
  <1> SUFFICES ASSUME FullInv, [Next]_vars PROVE [Target!Next]_(Target!vars)
    OBVIOUS
  <1> USE DEF loadVars
  <1>1. CASE SourceChanges
    BY <1>1 DEF SourceChanges, SourceStep, Insert, Delete, Target!Next, Target!Insert,
       Target!Delete
  <1>2. CASE StartRead \/ StartEmpty
    BY <1>2 DEF StartRead, StartEmpty, Begin, Target!Next, Target!Look
  <1>3. CASE UNCHANGED vars
    BY <1>3, Stutter DEF vars, allReadVars, sourceVars
  <1>4. ASSUME NEW b \in SUBSET pending, LoadBatch(b) PROVE UNCHANGED Target!vars
    BY <1>4, Stutter DEF LoadBatch, Deliver, sourceVars
  <1>5. CASE LoadEmptyFrame \/ ReadOn
    BY <1>5, Stutter DEF LoadEmptyFrame, DeliverEmptyFrame, ReadOn, OpenQuery, Exhaust,
       sourceVars
  <1>6. CASE ReadDone \/ RunFails \/ RunDies
    BY <1>6, Stutter DEF ReadDone, RunFails, RunDies, RollBack, Abandon, sourceVars
  <1>7. CASE Truncate
    BY <1>7, Stutter DEF Truncate, KeepTransactionOpen, allReadVars, sourceVars
  <1>8. CASE RenameShadow \/ InsertFromShadow
    <2>1. stable \subseteq shadow /\ shadow \subseteq appeared
      BY <1>8 DEF FullInv, StepInv, RenameShadow, InsertFromShadow
    <2>2. Filled(NewTable(FALSE)).rows = shadow /\ Filled(session).rows = shadow
      BY NewTableType, FilledType DEF FullInv, TypeOK
    <2>3. committed'.rows = shadow
      BY <1>8, <2>2 DEF RenameShadow, InsertFromShadow
    <2> QED
      BY <1>8, <2>1, <2>3 DEF RenameShadow, InsertFromShadow, allReadVars, sourceVars,
         Target!Next, Target!Replace
  <1>9. ASSUME NEW fails \in BOOLEAN, Finish(fails) PROVE UNCHANGED Target!vars
    <2>1. session = committed /\ session \in Table
      BY <1>9 DEF Finish, FullInv, StepInv, TypeOK
    <2>2. committed'.rows = committed.rows
      BY <1>9, <2>1 DEF Finish, Table
    <2> QED
      BY <1>9, <2>2 DEF Finish, allReadVars, sourceVars, Target!vars
  <1>10. ASSUME NEW temporary \in BOOLEAN, Drop(temporary) PROVE UNCHANGED Target!vars
    BY <1>10, Stutter DEF Drop, SourceError, sourceVars
  <1> QED
    BY <1>1, <1>2, <1>3, <1>4, <1>5, <1>6, <1>7, <1>8, <1>9, <1>10 DEF Next, Start, Progress

(* Readers of the target see complete copies of the source only.           *)
THEOREM FullReplacesAtomically == Spec => ReplacesAtomically
  <1>1. Init => Target!Init
    BY FullStartsEmpty
  <1>2. FullInv /\ [Next]_vars => [Target!Next]_(Target!vars)
    BY FullStepRefines
  <1> QED
    BY <1>1, <1>2, FullInvariant, PTL DEF Spec, ReplacesAtomically, Target!Spec

-----------------------------------------------------------------------------
(* Selections.                                                             *)

(* How many of a set of places there are up to one.                        *)
Rank(I, i) == Cardinality({j \in I : j <= i})

(* The places of a finite set are ranked from one on.                      *)
LEMMA RankIs ==
    ASSUME NEW n \in Nat, NEW I \in SUBSET (1..n)
    PROVE /\ IsFiniteSet(I) /\ Cardinality(I) \in Nat
          /\ \A i \in I : Rank(I, i) \in 1..Cardinality(I)
          /\ \A i, j \in I : Rank(I, i) = Rank(I, j) => i = j
          /\ \A m \in 1..Cardinality(I) : \E i \in I : Rank(I, i) = m
  <1>1. IsFiniteSet(I)
    <2>1. IsFiniteSet(1..n)
      BY FS_Interval
    <2> QED
      BY <2>1, FS_Subset
  <1>2. Cardinality(I) \in Nat
    BY <1>1, FS_CardinalityType
  <1>3. ASSUME NEW i \in I
        PROVE /\ IsFiniteSet({j \in I : j <= i}) /\ Rank(I, i) \in Nat
              /\ Rank(I, i) <= Cardinality(I) /\ Rank(I, i) # 0
    <2> DEFINE U == {j \in I : j <= i}
    <2>1. U \subseteq I /\ i \in U
      OBVIOUS
    <2> HIDE DEF U
    <2>2. IsFiniteSet(U) /\ Cardinality(U) <= Cardinality(I)
      BY <1>1, <2>1, FS_Subset
    <2>3. Cardinality(U) \in Nat
      BY <2>2, FS_CardinalityType
    <2>4. Cardinality(U) # 0
      BY <2>1, <2>2, FS_EmptySet
    <2> QED
      BY <2>2, <2>3, <2>4 DEF Rank, U
  <1>4. ASSUME NEW i \in I, NEW j \in I, i < j PROVE Rank(I, i) < Rank(I, j)
    <2> DEFINE U == {k \in I : k <= i}
               V == {k \in I : k <= j}
    <2>0. /\ I \subseteq Int /\ i \in Int /\ j \in Int
          /\ \A k \in Int : k <= i => k <= j
      BY <1>4
    <2>1. U \subseteq V /\ j \in V /\ j \notin U
      <3>1. U \subseteq V
        BY <2>0
      <3>2. j \in V
        BY <2>0
      <3>3. j \notin U
        BY <1>4, <2>0
      <3> QED
        BY <3>1, <3>2, <3>3
    <2>2. IsFiniteSet(U) /\ IsFiniteSet(V)
      BY <1>3
    <2> HIDE DEF U, V
    <2>3. Cardinality(U) \in Nat /\ Cardinality(V) \in Nat /\ Cardinality(U) <= Cardinality(V)
      BY <2>1, <2>2, FS_Subset, FS_CardinalityType
    <2>4. Cardinality(U) # Cardinality(V)
      BY <2>1, <2>2, FS_Subset
    <2> QED
      BY <2>3, <2>4 DEF Rank, U, V
  <1>5. ASSUME NEW i \in I, NEW j \in I, Rank(I, i) = Rank(I, j) PROVE i = j
    <2>1. i < j => Rank(I, i) < Rank(I, j)
      BY <1>4
    <2>2. j < i => Rank(I, j) < Rank(I, i)
      BY <1>4
    <2>3. Rank(I, i) \in Nat /\ Rank(I, j) \in Nat
      BY <1>3
    <2> QED
      BY <1>5, <2>1, <2>2, <2>3
  <1>6. ASSUME NEW i \in I PROVE Rank(I, i) \in 1..Cardinality(I)
    <2>1. Rank(I, i) \in Nat /\ Rank(I, i) <= Cardinality(I) /\ Rank(I, i) # 0
      BY <1>3
    <2> QED
      BY <1>2, <2>1
  <1>7. ASSUME NEW m \in 1..Cardinality(I) PROVE \E i \in I : Rank(I, i) = m
    <2> DEFINE f == [i \in I |-> Rank(I, i)]
               T == 1..Cardinality(I)
    <2>0. \A i \in I : Rank(I, i) \in T
      BY <1>6
    <2>1. f \in [I -> T]
      <3> HIDE DEF T
      <3> QED
        BY <2>0
    <2>2. \A i, j \in I : f[i] = f[j] => i = j
      BY <1>5
    <2>3. f \in Injection(I, T)
      BY <2>1, <2>2 DEF Injection, IsInjective
    <2>4. IsFiniteSet(T) /\ Cardinality(T) = Cardinality(I)
      BY <1>2, FS_Interval
    <2>5. f \in Surjection(I, T)
      <3> HIDE DEF f, T
      <3> QED
        BY <2>3, <2>4, FS_Injection
    <2> QED
      BY <2>5 DEF Surjection
  <1> QED
    BY <1>1, <1>2, <1>5, <1>6, <1>7

(* A selection from a sequence has the elements asked for, and is          *)
(* injective if the sequence is.                                           *)
LEMMA SelectIs ==
    ASSUME NEW T, NEW s \in Seq(T), NEW S
    PROVE /\ Select(s, S) \in Seq(T)
          /\ Range(Select(s, S)) = Range(s) \cap S
          /\ IsInjective(s) => IsInjective(Select(s, S))
  <1> DEFINE I == {i \in DOMAIN s : s[i] \in S}
             Place(m) == CHOOSE i \in I : Cardinality({j \in I : j <= i}) = m
             r == [m \in 1..Cardinality(I) |-> s[Place(m)]]
  <1>1. Select(s, S) = r
    BY DEF Select
  <1>2. /\ Len(s) \in Nat /\ DOMAIN s = 1..Len(s) /\ I \in SUBSET (1..Len(s))
        /\ \A i \in DOMAIN s : s[i] \in T
    OBVIOUS
  <1>3. /\ Cardinality(I) \in Nat
        /\ \A i \in I : Rank(I, i) \in 1..Cardinality(I)
        /\ \A i, j \in I : Rank(I, i) = Rank(I, j) => i = j
        /\ \A m \in 1..Cardinality(I) : \E i \in I : Rank(I, i) = m
    <2> DEFINE n == Len(s)
    <2>1. n \in Nat /\ I \in SUBSET (1..n)
      BY <1>2
    <2> HIDE DEF I, n
    <2> QED
      BY <2>1, RankIs
  <1>4. ASSUME NEW m \in 1..Cardinality(I) PROVE Place(m) \in I /\ Rank(I, Place(m)) = m
    <2>1. \E i \in I : Cardinality({j \in I : j <= i}) = m
      BY <1>3 DEF Rank
    <2> HIDE DEF I
    <2> QED
      BY <2>1 DEF Rank
  <1>5. ASSUME NEW i \in I PROVE Place(Rank(I, i)) = i
    <2>1. Rank(I, i) \in 1..Cardinality(I)
      BY <1>3
    <2>2. Place(Rank(I, i)) \in I /\ Rank(I, Place(Rank(I, i))) = Rank(I, i)
      BY <1>4, <2>1
    <2> HIDE DEF I, Place
    <2> QED
      BY <1>3, <2>2
  <1>6. \A i \in I : i \in DOMAIN s /\ s[i] \in S
    OBVIOUS
  <1>7. \A i \in DOMAIN s : s[i] \in S => i \in I
    OBVIOUS
  <1> HIDE DEF I, Place
  <1>8. r \in Seq(T)
    <2>1. \A m \in 1..Cardinality(I) : s[Place(m)] \in T
      BY <1>2, <1>4, <1>6
    <2> DEFINE c == Cardinality(I)
    <2>2. c \in Nat /\ \A m \in 1..c : s[Place(m)] \in T
      BY <1>3, <2>1
    <2> HIDE DEF c
    <2>3. [m \in 1..c |-> s[Place(m)]] \in [1..c -> T]
      BY <2>2
    <2>4. [m \in 1..c |-> s[Place(m)]] \in Seq(T)
      BY <2>2, <2>3
    <2> QED
      BY <2>4 DEF c
  <1>9. DOMAIN r = 1..Cardinality(I) /\ \A m \in 1..Cardinality(I) : r[m] = s[Place(m)]
    OBVIOUS
  <1> HIDE DEF r
  <1>10. Range(r) \subseteq Range(s) \cap S
    <2> SUFFICES ASSUME NEW m \in 1..Cardinality(I) PROVE r[m] \in Range(s) \cap S
      BY <1>9 DEF Range
    <2>1. Place(m) \in DOMAIN s /\ s[Place(m)] \in S
      BY <1>4, <1>6
    <2> QED
      BY <1>9, <2>1 DEF Range
  <1>11. Range(s) \cap S \subseteq Range(r)
    <2> SUFFICES ASSUME NEW i \in DOMAIN s, s[i] \in S PROVE s[i] \in Range(r)
      BY DEF Range
    <2>1. i \in I
      BY <1>7
    <2>2. Rank(I, i) \in 1..Cardinality(I) /\ Place(Rank(I, i)) = i
      BY <1>3, <1>5, <2>1
    <2> QED
      BY <1>9, <2>2 DEF Range
  <1>12. ASSUME IsInjective(s) PROVE IsInjective(r)
    <2> SUFFICES ASSUME NEW m \in 1..Cardinality(I), NEW n \in 1..Cardinality(I), r[m] = r[n]
                 PROVE m = n
      BY <1>9 DEF IsInjective
    <2>1. /\ Place(m) \in I /\ Rank(I, Place(m)) = m
          /\ Place(n) \in I /\ Rank(I, Place(n)) = n
      BY <1>4
    <2>2. s[Place(m)] = s[Place(n)]
      BY <1>9
    <2>3. Place(m) \in DOMAIN s /\ Place(n) \in DOMAIN s
      BY <1>6, <2>1
    <2>4. \A a, b \in DOMAIN s : s[a] = s[b] => a = b
      BY <1>12 DEF IsInjective
    <2>5. Place(m) = Place(n)
      BY <2>2, <2>3, <2>4
    <2> QED
      BY <2>1, <2>5
  <1> QED
    BY <1>1, <1>8, <1>10, <1>11, <1>12

(* What is left without a set.                                             *)
LEMMA WithoutIs ==
    ASSUME NEW T, NEW s \in Seq(T), NEW S
    PROVE /\ Without(s, S) \in Seq(T)
          /\ Range(Without(s, S)) = Range(s) \ S
          /\ IsInjective(s) => IsInjective(Without(s, S))
  <1>1. Range(s) \cap (Range(s) \ S) = Range(s) \ S
    OBVIOUS
  <1> QED
    BY <1>1, SelectIs DEF Without

(* Two injective sequences that share nothing, one after the other.        *)
LEMMA JoinedIs ==
    ASSUME NEW T, NEW s \in Seq(T), NEW t \in Seq(T)
    PROVE /\ s \o t \in Seq(T)
          /\ Range(s \o t) = Range(s) \cup Range(t)
          /\ IsInjective(s) /\ IsInjective(t) /\ Range(s) \cap Range(t) = {}
                => IsInjective(s \o t)
  <1>1. s \o t \in Seq(T) /\ Range(s \o t) = Range(s) \cup Range(t)
    BY RangeConcatenation, ConcatProperties
  <1>2. /\ Len(s) \in Nat /\ DOMAIN s = 1..Len(s) /\ Len(t) \in Nat /\ DOMAIN t = 1..Len(t)
        /\ DOMAIN (s \o t) = 1..(Len(s) + Len(t))
    BY ConcatProperties
  <1>3. \A i \in 1..(Len(s) + Len(t)) :
           (s \o t)[i] = IF i <= Len(s) THEN s[i] ELSE t[i - Len(s)]
    BY ConcatProperties
  <1>4. ASSUME IsInjective(s), IsInjective(t), Range(s) \cap Range(t) = {},
               NEW i \in 1..(Len(s) + Len(t)), NEW j \in 1..(Len(s) + Len(t)),
               (s \o t)[i] = (s \o t)[j]
        PROVE i = j
    <2>1. CASE i <= Len(s) /\ j <= Len(s)
      <3>1. i \in DOMAIN s /\ j \in DOMAIN s /\ s[i] = s[j]
        BY <1>2, <1>3, <1>4, <2>1
      <3> QED
        BY <1>4, <3>1 DEF IsInjective
    <2>2. CASE i > Len(s) /\ j > Len(s)
      <3>1. /\ i - Len(s) \in DOMAIN t /\ j - Len(s) \in DOMAIN t
        BY <1>2, <2>2
      <3>2. t[i - Len(s)] = t[j - Len(s)]
        BY <1>2, <1>3, <1>4, <2>2
      <3>3. i - Len(s) = j - Len(s)
        BY <1>4, <3>1, <3>2 DEF IsInjective
      <3> QED
        BY <1>2, <3>3
    <2>3. CASE i <= Len(s) /\ j > Len(s)
      <3>1. i \in DOMAIN s /\ j - Len(s) \in DOMAIN t
        BY <1>2, <2>3
      <3>2. s[i] = t[j - Len(s)]
        BY <1>2, <1>3, <1>4, <2>3
      <3> QED
        BY <1>4, <3>1, <3>2 DEF Range
    <2>4. CASE i > Len(s) /\ j <= Len(s)
      <3>1. j \in DOMAIN s /\ i - Len(s) \in DOMAIN t
        BY <1>2, <2>4
      <3>2. s[j] = t[i - Len(s)]
        BY <1>2, <1>3, <1>4, <2>4
      <3> QED
        BY <1>4, <3>1, <3>2 DEF Range
    <2> QED
      BY <1>2, <2>1, <2>2, <2>3, <2>4
  <1> QED
    BY <1>1, <1>2, <1>4 DEF IsInjective

-----------------------------------------------------------------------------
(* The columns of a run.                                                   *)

(* What the columns of the source are called in the target.                *)
OwnNames(columns) == [i \in 1..Len(columns) |-> CleanColumnName(Normalised(columns[i]))]

(* A run under way has columns with a name each, and those of the package. *)
RunIsWhole ==
    /\ load.method \in {"full", "incremental"} /\ load.hashed \in BOOLEAN
    /\ load.columns \in Seq(SourceName) /\ IsInjective(load.columns)
    /\ IsInjective(OwnNames(load.columns))
    /\ load.names = OwnNames(load.columns)
                       \o Without(Generated(load.hashed), Range(OwnNames(load.columns)))

(* What COPY is given is part of it, and names no column twice.            *)
ListedAreNames ==
    /\ listed \in Seq(ColumnName) /\ IsInjective(listed)
    /\ Range(listed) \subseteq Range(load.names)

LoadInv ==
    /\ stage \in {"idle", "refused"} =>
          load.method = "none" /\ load.columns = <<>> /\ load.names = <<>>
    /\ stage \in {"context", "ensured", "adopted", "written", "red"} => RunIsWhole
    /\ stage \in {"context", "ensured", "adopted"} =>
          (target = <<>> => load.method = "full")
    /\ stage \in {"ensured", "adopted", "written", "red"} => ListedAreNames
    /\ stage = "ensured" =>
          /\ Range(listed) = Range(load.names)
          /\ target # <<>> => Range(Generated(load.hashed)) \subseteq Range(target)
    /\ stage = "adopted" =>
          /\ Range(Generated(load.hashed)) \subseteq Range(listed)
          /\ load.method = "full" => Range(listed) = Range(load.names)
          /\ target # <<>> => Range(listed) \subseteq {Lower(u) : u \in Range(target)}

TableInv ==
    /\ source \in Catalogues
    /\ target \in Seq(ColumnName) /\ IsInjective(target)
    /\ DOMAIN held = Range(target)
    /\ stage \in {"idle", "refused", "context", "ensured", "adopted", "written", "red"}

ColumnsInv == TableInv /\ LoadInv /\ NoValueUnderAnothersName /\ ColumnsAgree

(* One element and two make three.                                         *)
LEMMA OneAndTwo ==
    ASSUME NEW S, NEW a \in S, NEW b \in S, NEW d \in S
    PROVE <<a>> \o <<b, d>> = <<a, b, d>>
  <1>1. /\ <<a>> \in Seq(S) /\ <<b, d>> \in Seq(S) /\ <<a, b, d>> \in Seq(S)
        /\ Len(<<a>>) = 1 /\ Len(<<b, d>>) = 2 /\ Len(<<a, b, d>>) = 3
    OBVIOUS
  <1>2. \A i \in 1..3 : (<<a>> \o <<b, d>>)[i] = <<a, b, d>>[i]
    BY <1>1, ConcatProperties
  <1>3. Len(<<a>> \o <<b, d>>) = 3 /\ <<a>> \o <<b, d>> \in Seq(S)
    BY <1>1, ConcatProperties
  <1> QED
    BY <1>1, <1>2, <1>3, SeqEqual

(* Two elements, and one before them.                                      *)
LEMMA ShortSequences ==
    ASSUME NEW S, NEW a \in S, NEW b \in S, NEW d \in S, a # b, b # d, a # d
    PROVE /\ <<a>> \o <<b, d>> = <<a, b, d>> /\ <<>> \o <<b, d>> = <<b, d>>
          /\ <<a, b, d>> \in Seq(S) /\ <<b, d>> \in Seq(S)
          /\ Range(<<a, b, d>>) = {a, b, d} /\ Range(<<b, d>>) = {b, d}
          /\ IsInjective(<<a, b, d>>) /\ IsInjective(<<b, d>>)
  <1>1. <<a>> \o <<b, d>> = <<a, b, d>> /\ <<>> \o <<b, d>> = <<b, d>>
    <2>1. <<a>> \o <<b, d>> = <<a, b, d>>
      BY OneAndTwo
    <2>2. <<b, d>> \in Seq(S)
      OBVIOUS
    <2>3. <<>> \o <<b, d>> = <<b, d>>
      BY <2>2, ConcatEmptySeq
    <2> QED
      BY <2>1, <2>3
  <1>2. <<a, b, d>> \in Seq(S) /\ <<b, d>> \in Seq(S)
    OBVIOUS
  <1>3. Range(<<a, b, d>>) = {a, b, d} /\ Range(<<b, d>>) = {b, d}
    BY DEF Range
  <1>4. IsInjective(<<a, b, d>>) /\ IsInjective(<<b, d>>)
    BY DEF IsInjective
  <1> QED
    BY <1>1, <1>2, <1>3, <1>4

(* A name of the package's own columns, and of one of the source.          *)
LEMMA NameTypes ==
    /\ \A c \in SourceName :
          /\ CleanColumnName(Normalised(c)) \in ColumnName
          /\ ~CleanColumnName(Normalised(c)).upper
    /\ \A h \in BOOLEAN :
          /\ Generated(h) \in Seq(ColumnName) /\ IsInjective(Generated(h))
          /\ \A t \in Range(Generated(h)) : ~t.upper
          /\ Range(Generated(h)) \subseteq Range(Generated(TRUE))
  <1>1. ASSUME NEW c \in SourceName
        PROVE /\ CleanColumnName(Normalised(c)) \in ColumnName
              /\ ~CleanColumnName(Normalised(c)).upper
    BY DEF CleanColumnName, Normalised, InTarget, ColumnName, SourceName
  <1>2. ASSUME NEW h \in BOOLEAN
        PROVE /\ Generated(h) \in Seq(ColumnName) /\ IsInjective(Generated(h))
              /\ \A t \in Range(Generated(h)) : ~t.upper
              /\ Range(Generated(h)) \subseteq Range(Generated(TRUE))
    <2> DEFINE a == HashColumn
               b == InTarget("timestamp", TRUE)
               d == InTarget("deleted_in_source", TRUE)
    <2>1. /\ a \in ColumnName /\ b \in ColumnName /\ d \in ColumnName
          /\ ~a.upper /\ ~b.upper /\ ~d.upper
          /\ a # b /\ b # d /\ a # d
      <3>1. \A w \in Words : \A p \in BOOLEAN :
               InTarget(w, p) \in ColumnName /\ ~InTarget(w, p).upper
        BY DEF InTarget, ColumnName
      <3>2. /\ "row_hash" \in Words /\ "timestamp" \in Words
            /\ "deleted_in_source" \in Words
        BY ColumnNamesAssumption DEF ColumnNamesAssumption
      <3>3. TRUE \in BOOLEAN /\ FALSE \in BOOLEAN
        OBVIOUS
      <3>4. /\ a \in ColumnName /\ b \in ColumnName /\ d \in ColumnName
            /\ ~a.upper /\ ~b.upper /\ ~d.upper
        BY Zenon, <3>1, <3>2, <3>3 DEF HashColumn
      <3>5. a # b /\ b # d /\ a # d
        BY DEF HashColumn, InTarget
      <3> QED
        BY Zenon, <3>4, <3>5
    <2>2. MetadataColumns = <<b, d>>
      BY Zenon DEF MetadataColumns
    <2> HIDE DEF a, b, d
    <2>3. /\ <<a>> \o <<b, d>> = <<a, b, d>> /\ <<>> \o <<b, d>> = <<b, d>>
          /\ <<a, b, d>> \in Seq(ColumnName) /\ <<b, d>> \in Seq(ColumnName)
          /\ Range(<<a, b, d>>) = {a, b, d} /\ Range(<<b, d>>) = {b, d}
          /\ IsInjective(<<a, b, d>>) /\ IsInjective(<<b, d>>)
      BY <2>1, ShortSequences
    <2>4. (IF TRUE THEN <<a>> ELSE <<>>) = <<a>> /\ (IF FALSE THEN <<a>> ELSE <<>>) = <<>>
      BY Zenon
    <2>5. Generated(TRUE) = <<a, b, d>> /\ Generated(FALSE) = <<b, d>>
      BY Zenon, <2>2, <2>3, <2>4 DEF Generated, a
    <2> QED
      BY <2>1, <2>3, <2>5
  <1> QED
    BY <1>1, <1>2

(* The names of a run: those of its columns, one each, and the package's.  *)
LEMMA NamesAre ==
    ASSUME NEW columns \in Seq(SourceName), NEW h \in BOOLEAN,
           IsInjective(OwnNames(columns))
    PROVE LET own == OwnNames(columns)
              names == own \o Without(Generated(h), Range(own))
          IN  /\ own \in Seq(ColumnName) /\ Len(own) = Len(columns)
              /\ names \in Seq(ColumnName) /\ IsInjective(names)
              /\ Range(names) = Range(own) \cup Range(Generated(h))
              /\ \A t \in Range(names) : ~t.upper
              /\ Len(names) >= Len(columns)
              /\ \A i \in 1..Len(columns) :
                    names[i] = CleanColumnName(Normalised(columns[i])) /\ i \in DOMAIN names
              /\ names # <<>> \/ columns = <<>>
  <1> DEFINE own == OwnNames(columns)
             rest == Without(Generated(h), Range(own))
             names == own \o rest
  <1>1. \A i \in 1..Len(columns) : columns[i] \in SourceName
    OBVIOUS
  <1>2. \A i \in 1..Len(columns) : /\ CleanColumnName(Normalised(columns[i])) \in ColumnName
                                   /\ ~CleanColumnName(Normalised(columns[i])).upper
    BY <1>1, NameTypes
  <1>3. /\ own \in Seq(ColumnName) /\ Len(own) = Len(columns)
        /\ \A i \in 1..Len(columns) : own[i] = CleanColumnName(Normalised(columns[i]))
    <2> DEFINE n == Len(columns)
    <2>1. n \in Nat /\ own = [i \in 1..n |-> CleanColumnName(Normalised(columns[i]))]
      BY DEF OwnNames
    <2> HIDE DEF own, n
    <2>2. own \in [1..n -> ColumnName]
      BY <1>2, <2>1 DEF n
    <2>3. own \in Seq(ColumnName) /\ Len(own) = n
      BY <2>1, <2>2
    <2> QED
      BY <2>1, <2>3 DEF n
  <1>4. /\ Generated(h) \in Seq(ColumnName) /\ IsInjective(Generated(h))
        /\ \A t \in Range(Generated(h)) : ~t.upper
    BY NameTypes
  <1>5. /\ rest \in Seq(ColumnName) /\ IsInjective(rest)
        /\ Range(rest) = Range(Generated(h)) \ Range(own)
    BY <1>4, WithoutIs
  <1>6. IsInjective(own)
    OBVIOUS
  <1>7. \A t \in Range(own) : ~t.upper
    <2> SUFFICES ASSUME NEW i \in DOMAIN own PROVE ~own[i].upper
      BY DEF Range
    <2>1. i \in 1..Len(columns)
      BY <1>3
    <2> QED
      BY <1>2, <1>3, <2>1
  <1> HIDE DEF own, rest
  <1>8. /\ names \in Seq(ColumnName) /\ IsInjective(names)
        /\ Range(names) = Range(own) \cup Range(rest)
    <2>1. Range(own) \cap Range(rest) = {}
      BY <1>5
    <2> QED
      BY <1>3, <1>5, <1>6, <2>1, JoinedIs
  <1>9. Range(names) = Range(own) \cup Range(Generated(h))
    BY <1>5, <1>8
  <1>10. /\ Len(names) = Len(own) + Len(rest) /\ Len(own) \in Nat /\ Len(rest) \in Nat
         /\ \A i \in 1..Len(own) : names[i] = own[i]
    BY <1>3, <1>5
  <1>11. \A i \in 1..Len(columns) :
            names[i] = CleanColumnName(Normalised(columns[i])) /\ i \in DOMAIN names
    <2> SUFFICES ASSUME NEW i \in 1..Len(columns)
                 PROVE names[i] = CleanColumnName(Normalised(columns[i])) /\ i \in DOMAIN names
      OBVIOUS
    <2>1. i \in 1..Len(own) /\ DOMAIN names = 1..Len(names)
      BY <1>3, <1>8
    <2>2. names[i] = own[i]
      BY <1>10, <2>1
    <2>3. i \in 1..Len(names)
      BY <1>10, <2>1
    <2> QED
      BY <1>3, <2>1, <2>2, <2>3
  <1>12. Len(names) >= Len(columns)
    BY <1>3, <1>10
  <1>13. names # <<>> \/ columns = <<>>
    <2>1. Len(columns) \in Nat /\ Len(names) \in Nat
      BY <1>8
    <2>2. columns # <<>> => Len(columns) # 0
      OBVIOUS
    <2> HIDE DEF names
    <2> QED
      BY <1>12, <2>1, <2>2
  <1>14. \A t \in Range(names) : ~t.upper
    BY <1>4, <1>7, <1>9
  <1> HIDE DEF names
  <1>15. /\ own \in Seq(ColumnName) /\ Len(own) = Len(columns)
         /\ names \in Seq(ColumnName) /\ IsInjective(names)
         /\ Range(names) = Range(own) \cup Range(Generated(h))
         /\ \A t \in Range(names) : ~t.upper
         /\ Len(names) >= Len(columns)
         /\ \A i \in 1..Len(columns) :
               names[i] = CleanColumnName(Normalised(columns[i])) /\ i \in DOMAIN names
         /\ names # <<>> \/ columns = <<>>
    BY <1>3, <1>8, <1>9, <1>11, <1>12, <1>13, <1>14
  <1> QED
    BY <1>15 DEF own, names, rest

(* target_column_names, where it does not refuse the columns.              *)
LEMMA TargetNamesAre ==
    ASSUME NEW columns \in Seq(SourceName), NEW h \in BOOLEAN,
           TargetColumnNames(columns, h) # <<>>
    PROVE /\ IsInjective(OwnNames(columns))
          /\ TargetColumnNames(columns, h) =
                OwnNames(columns) \o Without(Generated(h), Range(OwnNames(columns)))
  BY DEF TargetColumnNames, OwnNames

(* reconcile_with_existing loses and invents nothing.                      *)
LEMMA ReconciledIs ==
    ASSUME NEW desired \in Seq(ColumnName), NEW existing \in Seq(ColumnName),
           IsInjective(desired), IsInjective(existing)
    PROVE LET both == ReconcileWithExisting(desired, existing)
          IN  /\ both \in Seq(ColumnName) /\ IsInjective(both)
              /\ Range(both) = Range(desired)
  <1> DEFINE s == Select(existing, Range(desired))
             t == Without(desired, Range(existing))
  <1>1. /\ s \in Seq(ColumnName) /\ IsInjective(s)
        /\ Range(s) = Range(existing) \cap Range(desired)
    BY SelectIs
  <1>2. /\ t \in Seq(ColumnName) /\ IsInjective(t)
        /\ Range(t) = Range(desired) \ Range(existing)
    BY WithoutIs
  <1> HIDE DEF s, t
  <1>3. Range(s) \cap Range(t) = {} /\ Range(s) \cup Range(t) = Range(desired)
    BY <1>1, <1>2
  <1>4. /\ s \o t \in Seq(ColumnName) /\ IsInjective(s \o t)
        /\ Range(s \o t) = Range(desired)
    BY <1>1, <1>2, <1>3, JoinedIs
  <1> QED
    BY <1>4 DEF ReconcileWithExisting, s, t

(* The columns a run selects are columns of the source, none twice.        *)
LEMMA SelectedAre ==
    ASSUME NEW columns \in Seq(SourceName), IsInjective(columns), NEW s
    PROVE LET some == SelectColumns(columns, s)
          IN  /\ some \in Seq(SourceName) /\ IsInjective(some)
              /\ RequiredColumns(columns, s) \subseteq Range(some)
              /\ Range(some) \subseteq Range(columns)
  <1> DEFINE required == RequiredColumns(columns, s)
             kept == IF s.only /\ s.selected # {} THEN s.selected \cup required
                     ELSE Range(columns)
             these == kept \ (s.excluded \ required)
  <1>1. required \subseteq Range(columns)
    BY DEF RequiredColumns
  <1>2. required \subseteq kept
    <2> HIDE DEF required
    <2> QED
      BY <1>1
  <1>3. required \subseteq these
    <2> HIDE DEF required, kept
    <2> QED
      BY <1>2
  <1>4. SelectColumns(columns, s) = Select(columns, these)
    BY DEF SelectColumns
  <1> HIDE DEF these, required
  <1>5. /\ Select(columns, these) \in Seq(SourceName)
        /\ Range(Select(columns, these)) = Range(columns) \cap these
        /\ IsInjective(Select(columns, these))
    BY SelectIs
  <1>6. required \subseteq Range(columns) \cap these
    BY <1>1, <1>3
  <1> QED
    BY <1>4, <1>5, <1>6 DEF required

(* The columns of a batch that come to be called t.                        *)
Sent(t) == {c \in DOMAIN Renamed : t \in Renamed[c]}

(* Those are the columns of the run that have this name, if the batch has  *)
(* them under the name of the catalogue.                                   *)
LEMMA SentIs ==
    ASSUME NEW t, NEW c
    PROVE c \in Sent(t) <=>
             /\ c \in {Denormalized(d) : d \in Range(load.columns)}
             /\ \E i \in 1..Len(load.columns) : load.columns[i] = c /\ load.names[i] = t
  <1> DEFINE map == NameMap(load)
             At(d) == {i \in DOMAIN map : load.columns[i] = d}
             D == {Denormalized(d) : d \in Range(load.columns)}
  <1>1. /\ DOMAIN Renamed = D
        /\ \A d \in D : Renamed[d] = IF At(d) = {} THEN {} ELSE {map[i] : i \in At(d)}
    BY DEF Renamed
  <1>2. /\ DOMAIN map = 1..Len(load.columns)
        /\ \A i \in 1..Len(load.columns) : map[i] = load.names[i]
    BY DEF NameMap
  <1> HIDE DEF map, D
  <1>3. \A d \in D : t \in Renamed[d] <=>
           \E i \in 1..Len(load.columns) : load.columns[i] = d /\ load.names[i] = t
    BY <1>1, <1>2
  <1>4. c \in Sent(t) <=>
           c \in D /\ \E i \in 1..Len(load.columns) : load.columns[i] = c /\ load.names[i] = t
    BY <1>1, <1>3 DEF Sent
  <1> QED
    BY <1>4 DEF D

(* No driver's name is quoted in lower case once it is denormalized; any   *)
(* other is as it was.                                                     *)
LEMMA DenormalizedIs ==
    ASSUME NEW c \in SourceName
    PROVE /\ Denormalized(c).spelling # "lower"
          /\ c.spelling # "lower" => Denormalized(c) = c
  <1>1. c = [word |-> c.word, spelling |-> c.spelling]
        /\ c.spelling \in {"plain", "mixed", "lower"}
    BY DEF SourceName
  <1>2. CASE c.spelling = "mixed"
    BY <1>1, <1>2 DEF Denormalized, FromDriver
  <1>3. CASE c.spelling = "plain"
    <2>1. FromDriver(c) = [word |-> c.word, spelling |-> "lower"]
      BY <1>1, <1>3 DEF FromDriver
    <2>2. [c EXCEPT !.spelling = "plain"] = c
      BY <1>1, <1>3
    <2>3. Denormalized(c) = c
      BY <2>1, <2>2 DEF Denormalized
    <2> QED
      BY <1>3, <2>3
  <1>4. CASE c.spelling = "lower"
    <2>1. FromDriver(c) = c
      BY <1>4 DEF FromDriver
    <2>2. Denormalized(c) = [word |-> c.word, spelling |-> "plain"]
      BY <1>1, <1>4, <2>1 DEF Denormalized
    <2> QED
      BY <1>4, <2>2
  <1> QED
    BY <1>1, <1>2, <1>3, <1>4

(* A column of the target is filled from the one column its name is made   *)
(* of, or by the package.                                                  *)
LEMMA OriginIs ==
    ASSUME RunIsWhole
    PROVE /\ \A t : \A o \in Origin(t) :
                IF o = Computed THEN t \in Range(Generated(TRUE))
                ELSE CleanColumnName(Normalised(o)) = t
          /\ \A t : \A o, p \in Origin(t) : o = p
          /\ \A i \in 1..Len(load.columns) :
                \/ Origin(load.names[i]) = {load.columns[i]}
                \/ /\ Origin(load.names[i]) \subseteq {Computed}
                   /\ load.columns[i].spelling = "lower"
          /\ \A t \in Range(Generated(load.hashed)) : Origin(t) # {}
  <1> USE DEF RunIsWhole
  <1> DEFINE columns == load.columns
             own == OwnNames(columns)
             names == load.names
             h == load.hashed
  <1>1. /\ columns \in Seq(SourceName) /\ IsInjective(columns) /\ h \in BOOLEAN
        /\ IsInjective(own) /\ Len(columns) \in Nat
        /\ DOMAIN columns = 1..Len(columns)
        /\ \A i \in 1..Len(columns) : columns[i] \in SourceName
    OBVIOUS
  <1>2. /\ \A i \in 1..Len(columns) : names[i] = CleanColumnName(Normalised(columns[i]))
        /\ \A i \in 1..Len(columns) : names[i] = own[i]
        /\ DOMAIN own = 1..Len(columns)
    <2>1. \A i \in 1..Len(columns) : names[i] = CleanColumnName(Normalised(columns[i]))
      BY <1>1, NamesAre
    <2> QED
      BY <2>1 DEF OwnNames
  <1>3. \A t : Origin(t) = IF Sent(t) = {} /\ t \in Range(Generated(h))
                           THEN {Computed} ELSE Sent(t)
    BY DEF Origin, Sent
  <1>4. ASSUME NEW t, NEW o \in Sent(t)
        PROVE \E i \in 1..Len(columns) : columns[i] = o /\ names[i] = t
    BY <1>4, SentIs
  <1>5. \A i, j \in 1..Len(columns) : names[i] = names[j] => i = j
    BY <1>1, <1>2 DEF IsInjective
  <1>6. Range(Generated(h)) \subseteq Range(Generated(TRUE))
    BY <1>1, NameTypes
  <1>7. ASSUME NEW t, NEW o \in Sent(t)
        PROVE o # Computed /\ CleanColumnName(Normalised(o)) = t
    <2>1. PICK i \in 1..Len(columns) : columns[i] = o /\ names[i] = t
      BY <1>4
    <2>2. o \in SourceName
      BY <1>1, <2>1
    <2>3. o # Computed
      BY <2>2 DEF SourceName, Computed
    <2> QED
      BY <1>2, <2>1, <2>3
  <1>8. ASSUME NEW t, NEW o \in Sent(t), NEW p \in Sent(t)
        PROVE o = p
    <2>1. PICK i \in 1..Len(columns) : columns[i] = o /\ names[i] = t
      BY <1>4
    <2>2. PICK j \in 1..Len(columns) : columns[j] = p /\ names[j] = t
      BY <1>4
    <2>3. i = j
      BY <1>5, <2>1, <2>2
    <2> QED
      BY <2>1, <2>2, <2>3
  <1>9. ASSUME NEW i \in 1..Len(columns), columns[i].spelling # "lower"
        PROVE Sent(names[i]) = {columns[i]}
    <2>1. columns[i] \in Sent(names[i])
      <3>1. Denormalized(columns[i]) = columns[i]
        BY <1>1, <1>9, DenormalizedIs
      <3>2. columns[i] \in {Denormalized(d) : d \in Range(columns)}
        <4>1. columns[i] \in Range(columns)
          BY <1>1 DEF Range
        <4> HIDE DEF columns
        <4> QED
          BY <3>1, <4>1
      <3> QED
        BY <3>2, SentIs
    <2>2. \A o \in Sent(names[i]) : o = columns[i]
      BY <1>8, <2>1
    <2> HIDE DEF columns, names
    <2> QED
      BY <2>1, <2>2
  <1>10. ASSUME NEW i \in 1..Len(columns), columns[i].spelling = "lower"
         PROVE Sent(names[i]) = {}
    <2> SUFFICES ASSUME NEW o \in Sent(names[i]) PROVE FALSE
      OBVIOUS
    <2>1. PICK j \in 1..Len(columns) : columns[j] = o /\ names[j] = names[i]
      BY <1>4
    <2>2. o = columns[i]
      BY <1>5, <2>1
    <2>3. PICK d \in Range(columns) : o = Denormalized(d)
      BY SentIs
    <2>4. d \in SourceName
      BY <1>1 DEF Range
    <2> QED
      BY <1>10, <2>2, <2>3, <2>4, DenormalizedIs
  <1> HIDE DEF columns, own, names, h, RunIsWhole
  <1>11. \A t : \A o \in Origin(t) :
            IF o = Computed THEN t \in Range(Generated(TRUE))
            ELSE CleanColumnName(Normalised(o)) = t
    BY <1>3, <1>6, <1>7
  <1>12. \A t : \A o, p \in Origin(t) : o = p
    BY <1>3, <1>8
  <1>13. \A i \in 1..Len(columns) :
            \/ Origin(names[i]) = {columns[i]}
            \/ Origin(names[i]) \subseteq {Computed} /\ columns[i].spelling = "lower"
    <2> SUFFICES ASSUME NEW i \in 1..Len(columns)
                 PROVE \/ Origin(names[i]) = {columns[i]}
                       \/ Origin(names[i]) \subseteq {Computed} /\ columns[i].spelling = "lower"
      OBVIOUS
    <2>1. CASE columns[i].spelling = "lower"
      BY <1>3, <1>10, <2>1
    <2>2. CASE columns[i].spelling # "lower"
      BY <1>3, <1>9, <2>2
    <2> QED
      BY <2>1, <2>2
  <1>14. \A t \in Range(Generated(h)) : Origin(t) # {}
    BY <1>3
  <1> QED
    BY <1>11, <1>12, <1>13, <1>14 DEF columns, names, h

-----------------------------------------------------------------------------
(* The steps of the runs.                                                  *)

(* Nothing is said to be written, copied in vain or refused.               *)
LEMMA NothingClaimed ==
    ASSUME stage \notin {"written", "red", "refused"} PROVE ColumnsAgree
  BY DEF ColumnsAgree, CopyFindsItsColumns, FullMakesUp, ManagedColumnsFilled, RequiredSurvive

(* Columns that come without values bring none under another's name.       *)
LEMMA StillNamed ==
    ASSUME NoValueUnderAnothersName, stage' # "written",
           \A t \in DOMAIN held' : \A o \in held'[t] : t \in DOMAIN held /\ o \in held[t]
    PROVE NoValueUnderAnothersName'
  BY DEF NoValueUnderAnothersName

(* Nothing has been loaded yet.                                            *)
LEMMA ColumnsStart == ColumnsInit => ColumnsInv
  <1> SUFFICES ASSUME ColumnsInit PROVE ColumnsInv
    OBVIOUS
  <1> USE DEF ColumnsInit
  <1>1. TableInv
    BY ColumnNamesAssumption DEF ColumnNamesAssumption, TableInv
  <1>2. LoadInv
    BY DEF LoadInv, NoLoad
  <1>3. NoValueUnderAnothersName
    BY DEF NoValueUnderAnothersName
  <1>4. ColumnsAgree
    BY NothingClaimed
  <1> QED
    BY <1>1, <1>2, <1>3, <1>4 DEF ColumnsInv

(* What follows from the invariant of a run under way.                     *)
LEMMA RunFacts ==
    ASSUME RunIsWhole
    PROVE /\ load.names \in Seq(ColumnName) /\ IsInjective(load.names)
          /\ \A t \in Range(load.names) : ~t.upper
          /\ Range(Generated(load.hashed)) \subseteq Range(load.names)
          /\ Generated(load.hashed) \in Seq(ColumnName) /\ IsInjective(Generated(load.hashed))
          /\ \A i \in 1..Len(load.columns) : load.names[i] \in Range(load.names)
          /\ TargetColumnNames(load.columns, load.hashed) = load.names
  <1>1. /\ load.columns \in Seq(SourceName) /\ load.hashed \in BOOLEAN
        /\ IsInjective(OwnNames(load.columns))
        /\ load.names = OwnNames(load.columns)
              \o Without(Generated(load.hashed), Range(OwnNames(load.columns)))
    BY DEF RunIsWhole
  <1>2. /\ load.names \in Seq(ColumnName) /\ IsInjective(load.names)
        /\ Range(load.names) = Range(OwnNames(load.columns)) \cup Range(Generated(load.hashed))
        /\ \A t \in Range(load.names) : ~t.upper
        /\ \A i \in 1..Len(load.columns) : i \in DOMAIN load.names
    BY <1>1, NamesAre
  <1>3. /\ Generated(load.hashed) \in Seq(ColumnName)
        /\ IsInjective(Generated(load.hashed))
    BY <1>1, NameTypes
  <1>4. TargetColumnNames(load.columns, load.hashed) = load.names
    BY <1>1 DEF TargetColumnNames, OwnNames
  <1>5. \A i \in 1..Len(load.columns) : load.names[i] \in Range(load.names)
    BY <1>2 DEF Range
  <1>6. Range(Generated(load.hashed)) \subseteq Range(load.names)
    BY <1>2
  <1> QED
    BY <1>2, <1>3, <1>4, <1>5, <1>6

(* ALTER TABLE ADD COLUMN, of columns the table does not have.             *)
LEMMA AddedAre ==
    ASSUME NEW columns \in Seq(ColumnName), IsInjective(columns),
           target \in Seq(ColumnName), IsInjective(target), DOMAIN held = Range(target),
           Range(target) \cap Range(columns) = {},
           AddColumns(columns)
    PROVE /\ target' \in Seq(ColumnName) /\ IsInjective(target')
          /\ Range(target') = Range(target) \cup Range(columns)
          /\ DOMAIN held' = Range(target')
          /\ \A t \in DOMAIN held' : \A o \in held'[t] : t \in DOMAIN held /\ o \in held[t]
  <1>1. /\ target \o columns \in Seq(ColumnName) /\ IsInjective(target \o columns)
        /\ Range(target \o columns) = Range(target) \cup Range(columns)
    BY JoinedIs
  <1>2. /\ target' = target \o columns
        /\ held' = [t \in Range(target \o columns) |-> IF t \in DOMAIN held THEN held[t] ELSE {}]
    BY DEF AddColumns
  <1> QED
    BY <1>1, <1>2

(* The source changes between two runs, which loads nothing.               *)
LEMMA ColumnsInvOnAlterSource == ASSUME ColumnsInv, AlterSource PROVE ColumnsInv'
  <1> USE DEF AlterSource
  <1>1. TableInv'
    BY DEF ColumnsInv, TableInv
  <1>2. LoadInv'
    BY DEF LoadInv, NoLoad
  <1>3. NoValueUnderAnothersName'
    BY StillNamed DEF ColumnsInv
  <1>4. ColumnsAgree'
    BY DEF ColumnsAgree, CopyFindsItsColumns, FullMakesUp, ManagedColumnsFilled, RequiredSurvive
  <1> QED
    BY <1>1, <1>2, <1>3, <1>4 DEF ColumnsInv

(* A run that fails has written nothing.                                   *)
LEMMA ColumnsInvOnFail == ASSUME ColumnsInv, Fail PROVE ColumnsInv'
  <1> USE DEF Fail
  <1>1. TableInv'
    BY DEF ColumnsInv, TableInv
  <1>2. LoadInv'
    BY DEF LoadInv, NoLoad
  <1>3. NoValueUnderAnothersName'
    BY StillNamed DEF ColumnsInv
  <1>4. ColumnsAgree'
    BY DEF ColumnsAgree, CopyFindsItsColumns, FullMakesUp, ManagedColumnsFilled, RequiredSurvive
  <1> QED
    BY <1>1, <1>2, <1>3, <1>4 DEF ColumnsInv

(* A key and a date column the source has are among what an incremental    *)
(* run selects, which is then valid.                                       *)
LEMMA RequiredAreValid ==
    ASSUME NEW columns \in Seq(SourceName), IsInjective(columns), NEW s,
           s.method = "incremental", NEW h \in BOOLEAN,
           {s.primary, s.date} \subseteq Range(columns),
           TargetColumnNames(SelectColumns(columns, s), h) # <<>>
    PROVE IsValid(SelectColumns(columns, s), TargetColumnNames(SelectColumns(columns, s), h), s)
  <1> DEFINE some == SelectColumns(columns, s)
             names == TargetColumnNames(some, h)
  <1>1. some \in Seq(SourceName) /\ RequiredColumns(columns, s) \subseteq Range(some)
    BY SelectedAre
  <1>2. RequiredColumns(columns, s) = {s.primary, s.date}
    BY DEF RequiredColumns
  <1> HIDE DEF some
  <1>3. /\ IsInjective(OwnNames(some))
        /\ names = OwnNames(some) \o Without(Generated(h), Range(OwnNames(some)))
    BY <1>1, TargetNamesAre DEF some
  <1>4. \A i \in 1..Len(some) : names[i] = CleanColumnName(Normalised(some[i]))
    BY <1>1, <1>3, NamesAre
  <1>5. \E i \in 1..Len(some) : some[i] = s.primary
    BY <1>1, <1>2 DEF Range
  <1>6. s.date \in Range(some)
    BY <1>1, <1>2
  <1> HIDE DEF names
  <1>7. KeyIsLoaded(some, names, s)
    BY <1>4, <1>5 DEF KeyIsLoaded
  <1>8. IsValid(some, names, s)
    BY <1>6, <1>7 DEF IsValid, IncrementalIsValid
  <1> QED
    BY <1>8 DEF some, names

(* The columns of a run, and what they are called.                         *)
LEMMA ColumnsInvOnBuildContext ==
    ASSUME ColumnsInv, NEW s \in ColumnSettings, BuildContext(s) PROVE ColumnsInv'
  <1> DEFINE columns == SelectColumns(source, s)
             names == TargetColumnNames(columns, s.hashed)
             required == IF s.method = "incremental" THEN {s.primary, s.date} ELSE {}
             context == [method |-> IF target = <<>> THEN "full" ELSE s.method,
                         columns |-> columns, names |-> names,
                         hashed |-> s.hashed, window |-> required]
  <1>1. /\ s.method \in {"full", "incremental"} /\ s.hashed \in BOOLEAN
        /\ source \in Seq(SourceName) /\ IsInjective(source)
    BY ColumnNamesAssumption DEF ColumnNamesAssumption, ColumnsInv, TableInv
  <1>2. /\ columns \in Seq(SourceName) /\ IsInjective(columns)
    BY <1>1, SelectedAre
  <1>3. /\ listed' = <<>> /\ source' = source /\ target' = target /\ held' = held
        /\ \/ /\ columns # <<>> /\ names # <<>> /\ load' = context /\ stage' = "context"
           \/ /\ columns # <<>> /\ names # <<>> /\ ~IsValid(columns, names, s)
              /\ load' = [NoLoad EXCEPT !.window = required] /\ stage' = "refused"
           \/ load' = NoLoad /\ stage' = "idle"
    BY DEF BuildContext, IntrospectColumns
  <1>4. names # <<>> =>
           /\ IsInjective(OwnNames(columns))
           /\ names = OwnNames(columns) \o Without(Generated(s.hashed), Range(OwnNames(columns)))
    BY <1>1, <1>2, TargetNamesAre
  <1>5. stage' = "refused" => RequiredSurvive'
    <2> SUFFICES ASSUME stage' = "refused", load'.window # {}, load'.window \subseteq Range(source)
                 PROVE FALSE
      BY <1>3 DEF RequiredSurvive
    <2>1. names # <<>> /\ ~IsValid(columns, names, s) /\ load'.window = required
      BY <1>3 DEF NoLoad
    <2>2. s.method = "incremental" /\ {s.primary, s.date} \subseteq Range(source)
      BY <2>1
    <2>3. IsValid(columns, names, s)
      BY <1>1, <2>1, <2>2, RequiredAreValid
    <2> QED
      BY <2>1, <2>3
  <1> HIDE DEF columns, names, required
  <1>6. TableInv'
    BY <1>3 DEF ColumnsInv, TableInv
  <1>7. LoadInv'
    <2>1. CASE stage' = "context"
      <3>1. load' = context /\ names # <<>>
        BY <1>3, <2>1
      <3>2. RunIsWhole'
        BY <1>1, <1>2, <1>4, <3>1 DEF RunIsWhole
      <3> QED
        BY <1>3, <2>1, <3>1, <3>2 DEF LoadInv
    <2>2. CASE stage' \in {"idle", "refused"}
      BY <1>3, <2>2 DEF LoadInv, NoLoad
    <2> QED
      BY <1>3, <2>1, <2>2
  <1>8. NoValueUnderAnothersName'
    BY <1>3, StillNamed DEF ColumnsInv
  <1>9. ColumnsAgree'
    <2>1. stage' \in {"context", "idle", "refused"}
      BY <1>3
    <2>2. RequiredSurvive'
      BY <1>5 DEF RequiredSurvive
    <2> QED
      BY <2>1, <2>2 DEF ColumnsAgree, CopyFindsItsColumns, FullMakesUp, ManagedColumnsFilled
  <1> QED
    BY <1>6, <1>7, <1>8, <1>9 DEF ColumnsInv

(* Lowering a name that has no capitals changes nothing.                   *)
LEMMA LowerIs ==
    ASSUME NEW t \in ColumnName
    PROVE /\ ~t.upper => Lower(t) = t
          /\ Lower(t) \in ColumnName
  <1>1. t = [word |-> t.word, prefixed |-> t.prefixed, upper |-> t.upper]
        /\ t.word \in Words /\ t.prefixed \in BOOLEAN /\ t.upper \in BOOLEAN
    BY DEF ColumnName
  <1>2. /\ DOMAIN t = {"word", "prefixed", "upper"}
        /\ DOMAIN Lower(t) = {"word", "prefixed", "upper"}
        /\ Lower(t).word = t.word /\ Lower(t).prefixed = t.prefixed
    BY DEF Lower, ColumnName
  <1>3. ~Lower(t).upper
    BY DEF Lower, ColumnName
  <1>4. Lower(t) \in ColumnName
    BY DEF Lower, ColumnName
  <1>5. ~t.upper => Lower(t) = t
    BY <1>1, <1>2, <1>3, <1>4 DEF ColumnName
  <1> QED
    BY <1>4, <1>5

(* A table that is there gets the columns of the package.                  *)
LEMMA ColumnsInvOnEnsure == ASSUME ColumnsInv, EnsureManagedColumns PROVE ColumnsInv'
  <1> DEFINE generated == Generated(load.hashed)
             added == IF target = <<>> THEN <<>> ELSE GeneratedMissing
  <1>1. /\ stage = "context" /\ stage' = "ensured" /\ AddColumns(added)
        /\ listed' = AllColumns /\ source' = source /\ load' = load
    BY DEF EnsureManagedColumns
  <1>2. /\ RunIsWhole /\ (target = <<>> => load.method = "full")
        /\ target \in Seq(ColumnName) /\ IsInjective(target) /\ DOMAIN held = Range(target)
        /\ source \in Catalogues
    BY <1>1 DEF ColumnsInv, LoadInv, TableInv
  <1>3. /\ load.names \in Seq(ColumnName) /\ IsInjective(load.names)
        /\ generated \in Seq(ColumnName) /\ IsInjective(generated)
        /\ TargetColumnNames(load.columns, load.hashed) = load.names
    BY <1>2, RunFacts
  <1> HIDE DEF generated
  <1>4. /\ added \in Seq(ColumnName) /\ IsInjective(added)
        /\ Range(target) \cap Range(added) = {}
        /\ target # <<>> => Range(generated) \subseteq Range(target) \cup Range(added)
    <2>1. CASE target = <<>>
      <3>1. Range(<<>>) = {}
        BY DEF Range
      <3>2. added = <<>> /\ IsInjective(<<>>) /\ <<>> \in Seq(ColumnName)
        BY <2>1 DEF IsInjective
      <3> QED
        BY <2>1, <3>1, <3>2
    <2>2. CASE target # <<>>
      <3>1. added = Without(generated, Range(target))
        BY <2>2 DEF GeneratedMissing, generated
      <3>2. /\ Without(generated, Range(target)) \in Seq(ColumnName)
            /\ Range(Without(generated, Range(target))) = Range(generated) \ Range(target)
            /\ IsInjective(Without(generated, Range(target)))
        BY <1>3, WithoutIs
      <3> QED
        BY <3>1, <3>2
    <2> QED
      BY <2>1, <2>2
  <1> HIDE DEF added
  <1>5. /\ target' \in Seq(ColumnName) /\ IsInjective(target')
        /\ Range(target') = Range(target) \cup Range(added)
        /\ DOMAIN held' = Range(target')
        /\ \A t \in DOMAIN held' : \A o \in held'[t] : t \in DOMAIN held /\ o \in held[t]
    BY <1>1, <1>2, <1>4, AddedAre
  <1>6. /\ listed' \in Seq(ColumnName) /\ IsInjective(listed')
        /\ Range(listed') = Range(load.names)
    <2>1. listed' = ReconcileWithExisting(load.names, target)
      BY <1>1, <1>3 DEF AllColumns
    <2> QED
      BY <1>2, <1>3, <2>1, ReconciledIs
  <1>7. /\ target' # <<>> => target # <<>>
        /\ target' # <<>> => Range(generated) \subseteq Range(target')
    <2>1. target = <<>> => target' = <<>>
      <3> SUFFICES ASSUME target = <<>> PROVE target' = <<>>
        OBVIOUS
      <3>1. target' = <<>> \o <<>>
        BY <1>1 DEF AddColumns, added
      <3> QED
        BY <3>1
    <2> QED
      BY <1>4, <1>5, <2>1
  <1>8. TableInv'
    BY <1>1, <1>2, <1>5 DEF TableInv
  <1>9. LoadInv'
    <2>1. RunIsWhole' /\ ListedAreNames'
      BY <1>1, <1>2, <1>6 DEF RunIsWhole, ListedAreNames
    <2>2. target' = <<>> => load'.method = "full"
      <3>1. target' = <<>> => target = <<>>
        <4>1. Range(<<>>) = {}
          BY DEF Range
        <4> SUFFICES ASSUME target' = <<>>, target # <<>> PROVE FALSE
          OBVIOUS
        <4>2. Range(target) = {}
          BY <1>5, <4>1
        <4>3. 1 \in DOMAIN target
          BY <1>2
        <4> QED
          BY <4>2, <4>3 DEF Range
      <3> QED
        BY <1>1, <1>2, <3>1
    <2>3. /\ Range(listed') = Range(load'.names)
          /\ target' # <<>> => Range(Generated(load'.hashed)) \subseteq Range(target')
      BY <1>1, <1>6, <1>7 DEF generated
    <2> QED
      BY <1>1, <2>1, <2>2, <2>3 DEF LoadInv
  <1>10. NoValueUnderAnothersName'
    BY <1>1, <1>5, StillNamed DEF ColumnsInv
  <1>11. ColumnsAgree'
    BY <1>1 DEF ColumnsAgree, CopyFindsItsColumns, FullMakesUp, ManagedColumnsFilled, RequiredSurvive
  <1> QED
    BY <1>8, <1>9, <1>10, <1>11 DEF ColumnsInv

(* What the target lacks, of columns named without capitals.               *)
LEMMA MissingIs ==
    ASSUME NEW columns \in Seq(ColumnName), IsInjective(columns),
           \A t \in Range(columns) : ~t.upper,
           target \in Seq(ColumnName)
    PROVE /\ MissingInTarget(columns) \in Seq(ColumnName)
          /\ IsInjective(MissingInTarget(columns))
          /\ Range(target) \cap Range(MissingInTarget(columns)) = {}
          /\ Range(MissingInTarget(columns)) \subseteq Range(columns)
          /\ target # <<>> => Range(MissingInTarget(columns)) =
                Range(columns) \ {Lower(u) : u \in Range(target)}
  <1>1. CASE target = <<>>
    <2>1. MissingInTarget(columns) = <<>>
      BY <1>1 DEF MissingInTarget
    <2>2. Range(<<>>) = {} /\ IsInjective(<<>>) /\ <<>> \in Seq(ColumnName)
      BY DEF Range, IsInjective
    <2> QED
      BY <1>1, <2>1, <2>2
  <1>2. CASE target # <<>>
    <2> DEFINE lower == {Lower(u) : u \in Range(target)}
               missing == MissingInTarget(columns)
    <2>1. missing = Without(columns, lower)
      BY <1>2 DEF MissingInTarget
    <2>2. /\ missing \in Seq(ColumnName) /\ Range(missing) = Range(columns) \ lower
          /\ IsInjective(missing)
      <3> HIDE DEF lower, missing
      <3> QED
        BY <2>1, WithoutIs
    <2>3. \A t \in Range(target) : t \in ColumnName
      BY DEF Range
    <2>4. ASSUME NEW t \in Range(target), t \in Range(missing) PROVE FALSE
      <3>1. t \in Range(columns) /\ t \notin lower
        BY <2>2, <2>4
      <3>2. Lower(t) = t
        BY <2>3, <3>1, LowerIs
      <3> QED
        BY <3>1, <3>2
    <2> HIDE DEF missing, lower
    <2>5. Range(target) \cap Range(missing) = {} /\ Range(missing) \subseteq Range(columns)
      BY <2>2, <2>4
    <2> QED
      BY <2>2, <2>5 DEF missing, lower
  <1> QED
    BY <1>1, <1>2

(* What the target has not is not loaded.                                  *)
LEMMA ColumnsInvOnDrop == ASSUME ColumnsInv, DropColumnsMissingInTarget PROVE ColumnsInv'
  <1> DEFINE missing == MissingInTarget(listed)
             lower == {Lower(u) : u \in Range(target)}
  <1>1. /\ stage = "ensured" /\ stage' = "adopted" /\ load.method = "incremental"
        /\ listed' = Without(listed, Range(missing))
        /\ source' = source /\ target' = target /\ held' = held /\ load' = load
    BY DEF DropColumnsMissingInTarget
  <1>2. /\ RunIsWhole /\ ListedAreNames /\ TableInv
        /\ target # <<>> /\ Range(listed) = Range(load.names)
        /\ Range(Generated(load.hashed)) \subseteq Range(target)
        /\ target \in Seq(ColumnName)
    BY <1>1 DEF ColumnsInv, LoadInv, TableInv
  <1>3. /\ \A t \in Range(load.names) : ~t.upper
        /\ Range(Generated(load.hashed)) \subseteq Range(load.names)
    BY <1>2, RunFacts
  <1>4. Range(missing) = Range(listed) \ lower
    BY <1>2, <1>3, MissingIs DEF ListedAreNames
  <1> HIDE DEF missing, lower
  <1>5. /\ listed' \in Seq(ColumnName) /\ IsInjective(listed')
        /\ Range(listed') = Range(listed) \cap lower
    <2>1. /\ Without(listed, Range(missing)) \in Seq(ColumnName)
          /\ IsInjective(Without(listed, Range(missing)))
          /\ Range(Without(listed, Range(missing))) = Range(listed) \ Range(missing)
      BY <1>2, WithoutIs DEF ListedAreNames
    <2> QED
      BY <1>1, <1>4, <2>1
  <1>6. Range(Generated(load.hashed)) \subseteq lower
    <2> SUFFICES ASSUME NEW g \in Range(Generated(load.hashed)) PROVE g \in lower
      OBVIOUS
    <2>1. g \in Range(target) /\ ~g.upper
      BY <1>2, <1>3
    <2>2. g \in ColumnName
      BY <1>2, <2>1 DEF Range
    <2>3. Lower(g) = g
      BY <2>1, <2>2, LowerIs
    <2> QED
      BY <2>1, <2>3 DEF lower
  <1>7. TableInv'
    BY <1>1, <1>2 DEF TableInv
  <1>8. LoadInv'
    <2>1. RunIsWhole' /\ ListedAreNames'
      BY <1>1, <1>2, <1>5 DEF RunIsWhole, ListedAreNames
    <2>2. /\ Range(Generated(load'.hashed)) \subseteq Range(listed')
          /\ load'.method # "full"
          /\ Range(listed') \subseteq {Lower(u) : u \in Range(target')}
          /\ target' # <<>>
      BY <1>1, <1>2, <1>3, <1>5, <1>6 DEF lower
    <2> QED
      BY <1>1, <2>1, <2>2 DEF LoadInv
  <1>9. NoValueUnderAnothersName'
    BY <1>1, StillNamed DEF ColumnsInv
  <1>10. ColumnsAgree'
    BY <1>1 DEF ColumnsAgree, CopyFindsItsColumns, FullMakesUp, ManagedColumnsFilled, RequiredSurvive
  <1> QED
    BY <1>7, <1>8, <1>9, <1>10 DEF ColumnsInv

(* What the target has not is added to it.                                 *)
LEMMA ColumnsInvOnAdopt == ASSUME ColumnsInv, AdoptNewColumns PROVE ColumnsInv'
  <1> DEFINE missing == MissingInTarget(AllColumns)
  <1>1. /\ stage = "ensured" /\ stage' = "adopted" /\ load.method = "full"
        /\ AddColumns(missing)
        /\ listed' = ReconcileWithExisting(load.names, target')
        /\ source' = source /\ load' = load
    BY DEF AdoptNewColumns
  <1>2. /\ RunIsWhole /\ TableInv
        /\ target \in Seq(ColumnName) /\ IsInjective(target) /\ DOMAIN held = Range(target)
    BY <1>1 DEF ColumnsInv, LoadInv, TableInv
  <1>3. /\ load.names \in Seq(ColumnName) /\ IsInjective(load.names)
        /\ \A t \in Range(load.names) : ~t.upper
        /\ Range(Generated(load.hashed)) \subseteq Range(load.names)
        /\ TargetColumnNames(load.columns, load.hashed) = load.names
    BY <1>2, RunFacts
  <1>4. /\ AllColumns \in Seq(ColumnName) /\ IsInjective(AllColumns)
        /\ Range(AllColumns) = Range(load.names)
    BY <1>2, <1>3, ReconciledIs DEF AllColumns
  <1>5. /\ missing \in Seq(ColumnName) /\ IsInjective(missing)
        /\ Range(target) \cap Range(missing) = {}
        /\ Range(missing) \subseteq Range(load.names)
        /\ target # <<>> => Range(missing) =
              Range(load.names) \ {Lower(u) : u \in Range(target)}
    BY <1>2, <1>3, <1>4, MissingIs
  <1> HIDE DEF missing
  <1>6. /\ target' \in Seq(ColumnName) /\ IsInjective(target')
        /\ Range(target') = Range(target) \cup Range(missing)
        /\ DOMAIN held' = Range(target')
        /\ \A t \in DOMAIN held' : \A o \in held'[t] : t \in DOMAIN held /\ o \in held[t]
    BY <1>1, <1>2, <1>5, AddedAre
  <1>7. /\ listed' \in Seq(ColumnName) /\ IsInjective(listed')
        /\ Range(listed') = Range(load.names)
    BY <1>1, <1>3, <1>6, ReconciledIs
  <1>8. target' # <<>> => Range(load.names) \subseteq {Lower(u) : u \in Range(target')}
    <2> SUFFICES ASSUME target' # <<>>, NEW t \in Range(load.names)
                 PROVE t \in {Lower(u) : u \in Range(target')}
      OBVIOUS
    <2>1. target # <<>>
      <3>1. target = <<>> => missing = <<>>
        BY DEF missing, MissingInTarget
      <3>2. target = <<>> => target' = <<>> \o missing
        BY <1>1 DEF AddColumns
      <3>3. <<>> \o <<>> = <<>>
        OBVIOUS
      <3> QED
        BY <3>1, <3>2, <3>3
    <2>2. CASE t \in Range(missing)
      <3>1. t \in Range(target') /\ t \in ColumnName /\ ~t.upper
        BY <1>3, <1>6, <2>2 DEF Range
      <3>2. Lower(t) = t
        BY <3>1, LowerIs
      <3> QED
        BY <3>1, <3>2
    <2>3. CASE t \notin Range(missing)
      <3>1. PICK u \in Range(target) : t = Lower(u)
        BY <1>5, <2>1, <2>3
      <3> QED
        BY <1>6, <3>1
    <2> QED
      BY <2>2, <2>3
  <1>9. TableInv'
    BY <1>1, <1>2, <1>6 DEF TableInv
  <1>10. LoadInv'
    <2>1. RunIsWhole' /\ ListedAreNames'
      BY <1>1, <1>2, <1>7 DEF RunIsWhole, ListedAreNames
    <2>2. /\ Range(Generated(load'.hashed)) \subseteq Range(listed')
          /\ load'.method = "full" /\ Range(listed') = Range(load'.names)
          /\ target' # <<>> => Range(listed') \subseteq {Lower(u) : u \in Range(target')}
      BY <1>1, <1>3, <1>7, <1>8
    <2> QED
      BY <1>1, <2>1, <2>2 DEF LoadInv
  <1>11. NoValueUnderAnothersName'
    BY <1>1, <1>6, StillNamed DEF ColumnsInv
  <1>12. ColumnsAgree'
    BY <1>1 DEF ColumnsAgree, CopyFindsItsColumns, FullMakesUp, ManagedColumnsFilled, RequiredSurvive
  <1> QED
    BY <1>9, <1>10, <1>11, <1>12 DEF ColumnsInv

(* COPY that does not find its column.                                     *)
LEMMA ColumnsInvOnRed ==
    ASSUME ColumnsInv, Write, stage' = "red" PROVE ColumnsInv'
  <1>1. /\ stage = "adopted" /\ source' = source /\ load' = load /\ listed' = listed
        /\ target # <<>> /\ ~(Range(listed) \subseteq Range(target))
        /\ target' = target /\ held' = held
    BY DEF Write
  <1>2. /\ RunIsWhole /\ ListedAreNames /\ TableInv
        /\ Range(listed) \subseteq {Lower(u) : u \in Range(target)}
        /\ target \in Seq(ColumnName)
    BY <1>1 DEF ColumnsInv, LoadInv, TableInv
  <1>3. CopyFindsItsColumns'
    <2>1. PICK t \in Range(listed) : t \notin Range(target)
      BY <1>1
    <2>2. PICK u \in Range(target) : t = Lower(u)
      BY <1>2, <2>1
    <2>3. u \in ColumnName
      BY <1>2 DEF Range
    <2>4. u.upper
      BY <2>1, <2>2, <2>3, LowerIs
    <2> QED
      BY <1>1, <2>1, <2>2, <2>4 DEF CopyFindsItsColumns
  <1>4. TableInv'
    BY <1>1, <1>2 DEF TableInv
  <1>5. LoadInv'
    <2>1. RunIsWhole' /\ ListedAreNames'
      BY <1>1, <1>2 DEF RunIsWhole, ListedAreNames
    <2> QED
      BY <2>1 DEF LoadInv
  <1>6. NoValueUnderAnothersName'
    BY <1>1, StillNamed DEF ColumnsInv
  <1>7. ColumnsAgree'
    BY <1>3 DEF ColumnsAgree, FullMakesUp, ManagedColumnsFilled, RequiredSurvive
  <1> QED
    BY <1>4, <1>5, <1>6, <1>7 DEF ColumnsInv

(* COPY that does: the values are those of the run's own columns.          *)
LEMMA ColumnsInvOnWritten ==
    ASSUME ColumnsInv, Write, stage' = "written" PROVE ColumnsInv'
  <1> DEFINE before(t) == IF t \in DOMAIN held /\ load.method = "incremental"
                          THEN held[t] ELSE {}
             after(t) == IF t \in Range(listed) THEN Origin(t) ELSE {}
  <1>1. /\ stage = "adopted" /\ source' = source /\ load' = load /\ listed' = listed
        /\ target' = IF target = <<>> THEN listed ELSE target
        /\ target # <<>> => Range(listed) \subseteq Range(target)
        /\ held' = [t \in Range(target') |-> before(t) \cup after(t)]
    BY DEF Write
  <1>2. /\ RunIsWhole /\ ListedAreNames /\ TableInv
        /\ Range(Generated(load.hashed)) \subseteq Range(listed)
        /\ load.method = "full" => Range(listed) = Range(load.names)
        /\ NoValueUnderAnothersName
    BY <1>1 DEF ColumnsInv, LoadInv
  <1>3. /\ target' \in Seq(ColumnName) /\ IsInjective(target')
        /\ Range(listed) \subseteq Range(target')
    BY <1>1, <1>2 DEF TableInv, ListedAreNames
  <1>4. /\ \A t : \A o \in Origin(t) :
              IF o = Computed THEN t \in Range(Generated(TRUE))
              ELSE CleanColumnName(Normalised(o)) = t
        /\ \A t : \A o, p \in Origin(t) : o = p
        /\ \A i \in 1..Len(load.columns) :
              \/ Origin(load.names[i]) = {load.columns[i]}
              \/ /\ Origin(load.names[i]) \subseteq {Computed}
                 /\ load.columns[i].spelling = "lower"
        /\ \A t \in Range(Generated(load.hashed)) : Origin(t) # {}
    BY <1>2, OriginIs
  <1>5. \A i \in 1..Len(load.columns) : load.names[i] \in Range(load.names)
    BY <1>2, RunFacts
  <1>6. \A t : Origin(t)' = Origin(t)
    BY <1>1 DEF Origin, Renamed, NameMap
  <1>7. DOMAIN held' = Range(target') /\ \A t \in Range(target') : held'[t] = before(t) \cup after(t)
    BY <1>1
  <1>8. \A t : before(t) # {} => t \in DOMAIN held /\ before(t) = held[t] /\ load.method # "full"
    OBVIOUS
  <1>9. \A t : (t \in Range(listed) => after(t) = Origin(t)) /\ (t \notin Range(listed) => after(t) = {})
    OBVIOUS
  <1> HIDE DEF before, after
  <1>10. TableInv'
    BY <1>1, <1>2, <1>3, <1>7 DEF TableInv
  <1>11. LoadInv'
    <2>1. RunIsWhole' /\ ListedAreNames'
      BY <1>1, <1>2 DEF RunIsWhole, ListedAreNames
    <2> QED
      BY <2>1 DEF LoadInv
  <1>12. NoValueUnderAnothersName'
    <2>1. ASSUME NEW t \in DOMAIN held', NEW o \in held'[t]
          PROVE IF o = Computed THEN t \in Range(Generated(TRUE))
                ELSE CleanColumnName(Normalised(o)) = t
      <3>1. CASE o \in before(t)
        BY <1>2, <1>8, <3>1 DEF NoValueUnderAnothersName
      <3>2. CASE o \in after(t)
        BY <1>4, <1>9, <3>2
      <3> QED
        BY <1>7, <2>1, <3>1, <3>2
    <2>2. ASSUME NEW t PROVE \A o, p \in Origin(t)' : o = p
      BY <1>4, <1>6
    <2> QED
      BY <2>1, <2>2 DEF NoValueUnderAnothersName
  <1>13. FullMakesUp'
    <2> SUFFICES ASSUME load.method = "full"
                 PROVE /\ \A i \in 1..Len(load.columns) :
                             /\ load.names[i] \in Range(target')
                             /\ \/ held'[load.names[i]] = {load.columns[i]}
                                \/ /\ held'[load.names[i]] \subseteq {Computed}
                                   /\ load.columns[i].spelling = "lower"
                       /\ \A t \in Range(target') \ Range(listed) : held'[t] = {}
      BY <1>1 DEF FullMakesUp
    <2>1. \A t \in Range(target') : held'[t] = after(t)
      BY <1>7, <1>8
    <2>2. ASSUME NEW i \in 1..Len(load.columns)
          PROVE /\ load.names[i] \in Range(target')
                /\ held'[load.names[i]] = Origin(load.names[i])
      <3>1. load.names[i] \in Range(listed)
        BY <1>2, <1>5
      <3>2. load.names[i] \in Range(target')
        BY <1>3, <3>1
      <3> QED
        BY <1>9, <2>1, <3>1, <3>2
    <2>3. \A t \in Range(target') \ Range(listed) : held'[t] = {}
      BY <1>9, <2>1
    <2>4. ASSUME NEW i \in 1..Len(load.columns)
          PROVE /\ load.names[i] \in Range(target')
                /\ \/ held'[load.names[i]] = {load.columns[i]}
                   \/ /\ held'[load.names[i]] \subseteq {Computed}
                      /\ load.columns[i].spelling = "lower"
      <3>1. \/ Origin(load.names[i]) = {load.columns[i]}
            \/ /\ Origin(load.names[i]) \subseteq {Computed}
               /\ load.columns[i].spelling = "lower"
        BY <1>4
      <3>2. /\ load.names[i] \in Range(target')
            /\ held'[load.names[i]] = Origin(load.names[i])
        BY <2>2
      <3> QED
        BY <3>1, <3>2
    <2> QED
      BY <2>3, <2>4
  <1>14. ManagedColumnsFilled'
    <2> SUFFICES ASSUME NEW g \in Range(Generated(load.hashed))
                 PROVE g \in Range(target') /\ held'[g] # {}
      BY <1>1 DEF ManagedColumnsFilled
    <2>1. g \in Range(listed) /\ g \in Range(target')
      BY <1>2, <1>3
    <2>2. after(g) = Origin(g) /\ Origin(g) # {}
      BY <1>4, <1>9, <2>1
    <2> QED
      BY <1>7, <2>1, <2>2
  <1>15. ColumnsAgree'
    BY <1>13, <1>14 DEF ColumnsAgree, CopyFindsItsColumns, RequiredSurvive
  <1> QED
    BY <1>10, <1>11, <1>12, <1>15 DEF ColumnsInv

(* Each step of the runs over a table keeps the invariant.                 *)
LEMMA ColumnsStep == ASSUME ColumnsInv, [ColumnsNext]_colVars PROVE ColumnsInv'
  <1>1. CASE AlterSource
    BY <1>1, ColumnsInvOnAlterSource
  <1>2. ASSUME NEW s \in ColumnSettings, BuildContext(s) PROVE ColumnsInv'
    BY <1>2, ColumnsInvOnBuildContext
  <1>3. CASE EnsureManagedColumns
    BY <1>3, ColumnsInvOnEnsure
  <1>4. CASE DropColumnsMissingInTarget
    BY <1>4, ColumnsInvOnDrop
  <1>5. CASE AdoptNewColumns
    BY <1>5, ColumnsInvOnAdopt
  <1>6. CASE Write
    <2>1. stage' \in {"red", "written"}
      BY <1>6 DEF Write
    <2> QED
      BY <1>6, <2>1, ColumnsInvOnRed, ColumnsInvOnWritten
  <1>7. CASE Fail
    BY <1>7, ColumnsInvOnFail
  <1>8. CASE UNCHANGED colVars
    <2>1. TableInv' /\ LoadInv'
      BY <1>8 DEF colVars, ColumnsInv, TableInv, LoadInv, RunIsWhole, ListedAreNames
    <2>2. NoValueUnderAnothersName'
      <3>1. \A t : Origin(t)' = Origin(t)
        BY <1>8 DEF colVars, Origin, Renamed, NameMap
      <3>2. held' = held /\ stage' = stage /\ listed' = listed
        BY <1>8 DEF colVars
      <3> QED
        BY <3>1, <3>2 DEF ColumnsInv, NoValueUnderAnothersName
    <2>3. ColumnsAgree'
      BY <1>8 DEF colVars, ColumnsInv, ColumnsAgree, CopyFindsItsColumns, FullMakesUp,
                  ManagedColumnsFilled, RequiredSurvive
    <2> QED
      BY <2>1, <2>2, <2>3 DEF ColumnsInv
  <1> QED
    BY <1>1, <1>2, <1>3, <1>4, <1>5, <1>6, <1>7, <1>8 DEF ColumnsNext

(* Following a column leaves the table behind.                             *)
LEMMA ColumnsInvOnFollow == ASSUME ColumnsInv, Follow PROVE ColumnsInv'
  <1>1. /\ source' = CHOOSE c \in Catalogues : TRUE
        /\ target' = <<>> /\ held' = [t \in {} |-> {}]
        /\ load' = NoLoad /\ stage' = "idle"
    BY DEF Follow
  <1>2. source' \in Catalogues
    BY <1>1 DEF ColumnsInv, TableInv
  <1>3. Range(<<>>) = {} /\ IsInjective(<<>>) /\ <<>> \in Seq(ColumnName)
    BY DEF Range, IsInjective
  <1>4. TableInv'
    BY <1>1, <1>2, <1>3 DEF TableInv
  <1>5. LoadInv'
    BY <1>1 DEF LoadInv, NoLoad
  <1>6. NoValueUnderAnothersName'
    BY <1>1, StillNamed DEF ColumnsInv
  <1>7. ColumnsAgree'
    BY <1>1 DEF ColumnsAgree, CopyFindsItsColumns, FullMakesUp, ManagedColumnsFilled, RequiredSurvive
  <1> QED
    BY <1>4, <1>5, <1>6, <1>7 DEF ColumnsInv

(* Through every run over a table, however source, settings and target     *)
(* drift apart: the invariant of the columns.                              *)
THEOREM ColumnsAreKept == PrepSpec => []ColumnsInv
  <1>1. PrepInit => ColumnsInv
    BY ColumnsStart DEF PrepInit
  <1>2. ColumnsInv /\ [PrepNext]_colAndVars => ColumnsInv'
    <2> SUFFICES ASSUME ColumnsInv, [PrepNext]_colAndVars PROVE ColumnsInv'
      OBVIOUS
    <2>1. CASE Follow
      BY <2>1, ColumnsInvOnFollow
    <2>2. CASE ~Follow
      <3>1. [ColumnsNext]_colVars
        BY <2>2 DEF PrepNext, colAndVars
      <3> QED
        BY <3>1, ColumnsStep
    <2> QED
      BY <2>1, <2>2
  <1> QED
    BY <1>1, <1>2, PTL DEF PrepSpec

(* A column of the target holds the values of the source column its name   *)
(* is made from and of no other, however often the table has been loaded.  *)
THEOREM ValuesKeepTheirNames == PrepSpec => []NoValueUnderAnothersName
  <1>1. ColumnsInv => NoValueUnderAnothersName
    BY DEF ColumnsInv
  <1> QED
    BY <1>1, ColumnsAreKept, PTL

(* What a run reads, what COPY names and what the table has agree.         *)
THEOREM ColumnsDoAgree == PrepSpec => []ColumnsAgree
  <1>1. ColumnsInv => ColumnsAgree
    BY DEF ColumnsInv
  <1> QED
    BY <1>1, ColumnsAreKept, PTL

-----------------------------------------------------------------------------
(* The batches.                                                            *)

N == Cardinality(Rows)

Piece == Nat \X {"cell", "end"}

JobInv ==
    /\ job.size \in BatchSizes /\ DOMAIN job.source = Rows
    /\ types \in Types \cup {"none"}
    /\ status \in {"idle", "followed", "read", "copy", "green", "red"}
    /\ status \notin {"idle", "followed"} =>
          \E c \in Columns, s \in BatchSizes :
             \E cells \in [Rows -> CellsOf(c.kind)] : job = Job(c, cells, s)
    /\ status \in {"idle", "followed"} => types = "none"

(* What is unread are the last rows; the batch are rows that follow one    *)
(* another, and with what has been copied they are all that was read.      *)
RowsInv ==
    /\ \E u \in 1..(N + 1) : unread = u..N
    /\ DOMAIN batch \subseteq Rows \ unread /\ DOMAIN hashes = DOMAIN batch
    /\ DOMAIN copied \subseteq Rows
    /\ status \in {"idle", "followed"} =>
          unread = Rows /\ DOMAIN batch = {} /\ DOMAIN copied = {}
    /\ status = "read" => DOMAIN copied = Rows \ unread
    /\ status = "copy" =>
          /\ \E a, b \in Rows : a <= b /\ DOMAIN batch = a..b
          /\ DOMAIN copied = (Rows \ unread) \ DOMAIN batch
    /\ status = "green" => DOMAIN copied = Rows

Readers == [df : SUBSET Rows, start : Nat, buffer : Seq(Piece), offset : Nat,
            exhausted : BOOLEAN, size : ReadSizes \cup {1}]

ReaderInv ==
    /\ reader \in Readers
    /\ reader.offset <= Len(reader.buffer)
    /\ sent \in Seq(Piece)
    /\ status = "copy" =>
          /\ reader.df = DOMAIN batch
          /\ reader.exhausted => reader.start >= Cardinality(DOMAIN batch)

BatchInv ==
    /\ JobInv /\ RowsInv /\ ReaderInv
    /\ NothingLostInTheBuffer /\ HashIsOfTheRowAlone

(* The rows are 1..N.                                                      *)
LEMMA RowsAre == N \in Nat /\ Rows = 1..N
  BY BatchAssumption, FS_CardinalityType DEF BatchAssumption, N

(* The least of an interval.                                               *)
LEMMA MinOfInterval ==
    ASSUME NEW a \in Int, NEW b \in Int, a <= b PROVE MinOf(a..b) = a
  <1>1. a \in a..b /\ \A m \in a..b : a <= m
    OBVIOUS
  <1>2. \A n \in a..b : (\A m \in a..b : n <= m) => n = a
    BY <1>1
  <1> QED
    BY <1>1, <1>2 DEF MinOf

(* The least of two.                                                       *)
LEMMA MinOfTwo ==
    ASSUME NEW x \in Int, NEW y \in Int
    PROVE MinOf({x, y}) = IF x <= y THEN x ELSE y
  <1> DEFINE z == IF x <= y THEN x ELSE y
  <1>1. z \in {x, y} /\ \A m \in {x, y} : z <= m
    OBVIOUS
  <1>2. \A n \in {x, y} : (\A m \in {x, y} : n <= m) => n = z
    OBVIOUS
  <1> HIDE DEF z
  <1>3. MinOf({x, y}) = z
    BY <1>1, <1>2 DEF MinOf
  <1> QED
    BY <1>3 DEF z

(* Of the rows u..n, a batch is the first ones.                            *)
FirstTaken(u, n, size) ==
    \E b \in u..n : /\ NextRows(u..n, size) = u..b
                    /\ (u..n) \ NextRows(u..n, size) = (b + 1)..n

(* The driver's next rows are the first of those left.                     *)
LEMMA NextRowsAre ==
    ASSUME NEW u \in Nat, NEW n \in Nat, u <= n, NEW size \in Nat \ {0}
    PROVE FirstTaken(u, n, size)
  <1>1. MinOf(u..n) = u
    BY MinOfInterval
  <1>2. NextRows(u..n, size) = {k \in u..n : k < u + size}
    BY <1>1 DEF NextRows
  <1>3. CASE u + size - 1 <= n
    <2> DEFINE b == u + size - 1
    <2>1. b \in u..n /\ {k \in u..n : k < u + size} = u..b
      BY <1>3
    <2>2. (u..n) \ {k \in u..n : k < u + size} = (b + 1)..n
      BY <1>3
    <2> HIDE DEF b
    <2> QED
      BY <1>2, <2>1, <2>2 DEF FirstTaken
  <1>4. CASE ~(u + size - 1 <= n)
    <2>1. {k \in u..n : k < u + size} = u..n
      BY <1>4
    <2>2. (u..n) \ (u..n) = (n + 1)..n
      OBVIOUS
    <2>3. n \in u..n
      OBVIOUS
    <2> QED
      BY <1>2, <2>1, <2>2, <2>3 DEF FirstTaken
  <1> QED
    BY <1>3, <1>4

(* The pieces of consecutive rows: two of each, of which one ends it.      *)
LEMMA PiecesAre ==
    ASSUME NEW a \in Nat, NEW b \in Nat, a <= b
    PROVE LET S == a..b
          IN  /\ IsFiniteSet(S) /\ Cardinality(S) = b - a + 1
              /\ Pieces(S) \in Seq(Piece) /\ Len(Pieces(S)) = 2 * Cardinality(S)
              /\ \A k \in Nat :
                    (\E i \in 1..(2 * Cardinality(S)) : Pieces(S)[i] = <<k, "end">>) <=> k \in S
  <1> DEFINE S == a..b
             n == b - a + 1
  <1>1. IsFiniteSet(S) /\ Cardinality(S) = n /\ n \in Nat
    BY FS_Interval
  <1>2. MinOf(S) = a
    BY MinOfInterval
  <1>3. \A i \in 1..n : RowsInOrder(S)[i] = a + i - 1
    <2> HIDE DEF S, n
    <2> QED
      BY <1>1, <1>2 DEF RowsInOrder
  <1>4. \A i \in 1..(2 * n) : (i + 1) \div 2 \in 1..n
    BY <1>1
  <1>5. Pieces(S) = [i \in 1..(2 * n) |->
                       <<RowsInOrder(S)[(i + 1) \div 2], IF i % 2 = 1 THEN "cell" ELSE "end">>]
    <2> HIDE DEF S, n
    <2> QED
      BY <1>1 DEF Pieces
  <1>6. \A i \in 1..(2 * n) : Pieces(S)[i] = <<a + (i + 1) \div 2 - 1,
                                              IF i % 2 = 1 THEN "cell" ELSE "end">>
    <2> HIDE DEF S, n
    <2> QED
      BY <1>3, <1>4, <1>5
  <1>7. \A i \in 1..(2 * n) : Pieces(S)[i] \in Piece
    <2> SUFFICES ASSUME NEW i \in 1..(2 * n) PROVE Pieces(S)[i] \in Piece
      OBVIOUS
    <2>1. (i + 1) \div 2 \in 1..n
      BY <1>4
    <2>2. a + (i + 1) \div 2 - 1 \in Nat
      BY <1>1, <2>1
    <2> DEFINE end == IF i % 2 = 1 THEN "cell" ELSE "end"
    <2>3. end \in {"cell", "end"}
      OBVIOUS
    <2>4. Pieces(S)[i] = <<a + (i + 1) \div 2 - 1, end>>
      BY <1>6
    <2> HIDE DEF S, n, end
    <2> QED
      BY <2>2, <2>3, <2>4 DEF Piece
  <1>8. Pieces(S) \in Seq(Piece) /\ Len(Pieces(S)) = 2 * n
    <2>1. 2 * n \in Nat
      BY <1>1
    <2> HIDE DEF S, n
    <2>2. Pieces(S) \in [1..(2 * n) -> Piece]
      BY <1>5, <1>7
    <2> QED
      BY <2>1, <2>2
  <1>9. ASSUME NEW k \in S PROVE \E i \in 1..(2 * n) : Pieces(S)[i] = <<k, "end">>
    <2> DEFINE i == 2 * (k - a + 1)
    <2>1. i \in 1..(2 * n) /\ i % 2 # 1 /\ a + (i + 1) \div 2 - 1 = k
      BY <1>1
    <2> HIDE DEF i, n, S
    <2>2. Pieces(S)[i] = <<k, "end">>
      BY <1>6, <2>1
    <2> QED
      BY <2>1, <2>2
  <1>10. ASSUME NEW k \in Nat, NEW i \in 1..(2 * n), Pieces(S)[i] = <<k, "end">> PROVE k \in S
    <2>1. k = a + (i + 1) \div 2 - 1
      <3> HIDE DEF n, S
      <3> QED
        BY <1>6, <1>10
    <2>2. (i + 1) \div 2 \in 1..n
      BY <1>4
    <2> QED
      BY <1>1, <2>1, <2>2
  <1> HIDE DEF S, n
  <1>11. /\ IsFiniteSet(S) /\ Cardinality(S) = n
         /\ Pieces(S) \in Seq(Piece) /\ Len(Pieces(S)) = 2 * Cardinality(S)
         /\ \A k \in Nat :
               (\E i \in 1..(2 * Cardinality(S)) : Pieces(S)[i] = <<k, "end">>) <=> k \in S
    BY <1>1, <1>8, <1>9, <1>10
  <1> QED
    BY <1>11 DEF S, n

(* The pieces a chunk takes from row s on, and all from row s on.          *)
NextChunk(p, n, s, c) == SubSeq(p, 2 * s + 1, 2 * MinOf({s + c, n}))
Beyond(p, n, s) == SubSeq(p, 2 * s + 1, 2 * n)

(* One chunk and what comes after it.                                      *)
LEMMA ChunkIsNext ==
    ASSUME NEW T, NEW p \in Seq(T), NEW n \in Nat, Len(p) = 2 * n,
           NEW s \in Nat, s < n, NEW c \in Nat \ {0}
    PROVE /\ NextChunk(p, n, s, c) \in Seq(T) /\ Beyond(p, n, s + c) \in Seq(T)
          /\ NextChunk(p, n, s, c) \o Beyond(p, n, s + c) = Beyond(p, n, s)
  <1>1. \A i \in 1..(2 * n) : p[i] \in T
    OBVIOUS
  <1>2. SubSeq(p, 2 * s + 1, 2 * n) \in Seq(T)
    BY <1>1, SubSeqProperties
  <1>3. CASE s + c <= n
    <2>1. MinOf({s + c, n}) = s + c
      BY <1>3, MinOfTwo
    <2>2. /\ 2 * s + 1 \in 1..(Len(p) + 1) /\ 2 * (s + c) \in (2 * s)..Len(p)
          /\ 2 * n \in (2 * (s + c))..Len(p)
      BY <1>3
    <2>3. SubSeq(p, 2 * s + 1, 2 * (s + c)) \o SubSeq(p, 2 * (s + c) + 1, 2 * n)
             = SubSeq(p, 2 * s + 1, 2 * n)
      <3> DEFINE m == 2 * s + 1
                 k == 2 * (s + c)
                 z == 2 * n
      <3>1. m \in 1..(Len(p) + 1) /\ k \in (m - 1)..Len(p) /\ z \in k..Len(p)
        BY <2>2
      <3> HIDE DEF m, k, z
      <3>2. SubSeq(p, m, k) \o SubSeq(p, k + 1, z) = SubSeq(p, m, z)
        BY <3>1, ConcatAdjacentSubSeq
      <3> QED
        BY <3>2 DEF m, k, z
    <2>4. /\ SubSeq(p, 2 * s + 1, 2 * (s + c)) \in Seq(T)
          /\ SubSeq(p, 2 * (s + c) + 1, 2 * n) \in Seq(T)
      <3>1. /\ \A i \in (2 * s + 1)..(2 * (s + c)) : p[i] \in T
            /\ \A i \in (2 * (s + c) + 1)..(2 * n) : p[i] \in T
        BY <1>1, <2>2
      <3> QED
        BY <3>1, SubSeqProperties
    <2> QED
      BY <2>1, <2>3, <2>4 DEF NextChunk, Beyond
  <1>4. CASE ~(s + c <= n)
    <2>1. MinOf({s + c, n}) = n
      BY <1>4, MinOfTwo
    <2>2. SubSeq(p, 2 * (s + c) + 1, 2 * n) = <<>>
      <3>1. 2 * (s + c) + 1 \in Int /\ 2 * n \in Int /\ 2 * n < 2 * (s + c) + 1
        BY <1>4
      <3> QED
        BY <3>1, SubSeqEmpty
    <2>3. SubSeq(p, 2 * s + 1, 2 * n) \o <<>> = SubSeq(p, 2 * s + 1, 2 * n)
      BY <1>2, ConcatEmptySeq
    <2>4. <<>> \in Seq(T)
      OBVIOUS
    <2> QED
      BY <1>2, <2>1, <2>2, <2>3, <2>4 DEF NextChunk, Beyond
  <1> QED
    BY <1>3, <1>4
(* What is left of a buffer at an offset.                                  *)
Left(b, o) == SubSeq(b, o + 1, Len(b))

(* What is read of a buffer, and what is left.                             *)
LEMMA ReadIsNext ==
    ASSUME NEW T, NEW b \in Seq(T), NEW o \in 0..Len(b), NEW m \in 1..(Len(b) - o)
    PROVE /\ SubSeq(Left(b, o), 1, m) \in Seq(T) /\ Len(SubSeq(Left(b, o), 1, m)) = m
          /\ Left(b, o + m) \in Seq(T)
          /\ SubSeq(Left(b, o), 1, m) \o Left(b, o + m) = Left(b, o)
  <1>1. /\ Len(b) \in Nat /\ o \in Nat /\ m \in Nat /\ m # 0 /\ o + m <= Len(b)
        /\ \A i \in 1..Len(b) : b[i] \in T
    OBVIOUS
  <1>2. SubSeq(b, o + 1, Len(b)) \in Seq(T)
    BY <1>1, SubSeqProperties
  <1>3. SubSeq(SubSeq(b, o + 1, Len(b)), 1, m) = SubSeq(b, o + 1, o + m)
    <2> DEFINE i == o + 1
               j == Len(b)
    <2>1. i \in 1..Len(b) /\ j \in 1..Len(b) /\ 1 \in 1..(j - i + 1) /\ m \in 1..(j - i + 1)
      BY <1>1
    <2>2. i + 1 - 1 = o + 1 /\ i + m - 1 = o + m
      BY <1>1
    <2> HIDE DEF i, j
    <2>3. SubSeq(SubSeq(b, i, j), 1, m) = SubSeq(b, i + 1 - 1, i + m - 1)
      BY <2>1, SubSeqOfSubSeq
    <2> QED
      BY <2>2, <2>3 DEF i, j
  <1>4. SubSeq(b, o + 1, o + m) \in Seq(T) /\ Len(SubSeq(b, o + 1, o + m)) = m
    <2>1. o + 1 \in Int /\ o + m \in Int /\ (o + m) - (o + 1) + 1 = m /\ o + 1 <= o + m
      BY <1>1
    <2>2. \A i \in (o + 1)..(o + m) : b[i] \in T
      BY <1>1
    <2> QED
      BY <2>1, <2>2, SubSeqProperties
  <1>5. SubSeq(b, (o + m) + 1, Len(b)) \in Seq(T)
    <2>1. \A i \in ((o + m) + 1)..Len(b) : b[i] \in T
      BY <1>1
    <2> QED
      BY <1>1, <2>1, SubSeqProperties
  <1>6. SubSeq(b, o + 1, o + m) \o SubSeq(b, (o + m) + 1, Len(b)) = SubSeq(b, o + 1, Len(b))
    <2> DEFINE i == o + 1
               k == o + m
    <2>1. i \in 1..(Len(b) + 1) /\ k \in (i - 1)..Len(b) /\ Len(b) \in k..Len(b)
      BY <1>1
    <2> HIDE DEF i, k
    <2>2. SubSeq(b, i, k) \o SubSeq(b, k + 1, Len(b)) = SubSeq(b, i, Len(b))
      BY <2>1, ConcatAdjacentSubSeq
    <2> QED
      BY <2>2 DEF i, k
  <1> QED
    BY <1>3, <1>4, <1>5, <1>6 DEF Left

(* The rest of the buffer.                                                 *)
LEMMA RestIs ==
    ASSUME ReaderInv
    PROVE Rest(reader) \in Seq(Piece) /\ Len(Rest(reader)) = Len(reader.buffer) - reader.offset
  <1>1. /\ reader.buffer \in Seq(Piece) /\ reader.offset \in 0..Len(reader.buffer)
        /\ Len(reader.buffer) \in Nat
    BY DEF ReaderInv, Readers
  <1>2. \A i \in (reader.offset + 1)..Len(reader.buffer) : reader.buffer[i] \in Piece
    BY <1>1
  <1>3. reader.offset + 1 \in Int
    BY <1>1
  <1> QED
    BY <1>1, <1>2, <1>3, SubSeqProperties DEF Rest

(* The rows under COPY, and the pieces of them.                            *)
LEMMA CopyFacts ==
    ASSUME RowsInv, ReaderInv, status = "copy"
    PROVE /\ Cardinality(DOMAIN batch) \in Nat
          /\ Pieces(DOMAIN batch) \in Seq(Piece)
          /\ Len(Pieces(DOMAIN batch)) = 2 * Cardinality(DOMAIN batch)
          /\ \A k \in Nat :
                (\E i \in 1..(2 * Cardinality(DOMAIN batch)) :
                    Pieces(DOMAIN batch)[i] = <<k, "end">>) <=> k \in DOMAIN batch
          /\ reader.df = DOMAIN batch
          /\ DOMAIN batch # {} /\ DOMAIN batch \subseteq Rows
  <1>1. PICK a \in Rows, b \in Rows : a <= b /\ DOMAIN batch = a..b
    BY DEF RowsInv
  <1> DEFINE S == a..b
  <1>2. a \in Nat /\ b \in Nat /\ b - a + 1 \in Nat /\ a \in S /\ S \subseteq Rows
    BY <1>1, RowsAre
  <1>3. /\ Cardinality(S) = b - a + 1
        /\ Pieces(S) \in Seq(Piece) /\ Len(Pieces(S)) = 2 * Cardinality(S)
        /\ \A k \in Nat :
              (\E i \in 1..(2 * Cardinality(S)) : Pieces(S)[i] = <<k, "end">>) <=> k \in S
    BY <1>1, <1>2, PiecesAre
  <1>4. DOMAIN batch = S /\ reader.df = DOMAIN batch
    BY <1>1 DEF ReaderInv
  <1> HIDE DEF S
  <1> QED
    BY <1>2, <1>3, <1>4

(* What has not been serialised is a sequence of pieces.                   *)
LEMMA UnserialisedIs ==
    ASSUME RowsInv, ReaderInv, status = "copy"
    PROVE /\ Unserialised(reader) \in Seq(Piece)
          /\ reader.start >= Cardinality(DOMAIN batch) => Unserialised(reader) = <<>>
  <1> DEFINE p == Pieces(DOMAIN batch)
             n == Cardinality(DOMAIN batch)
             s == reader.start
  <1>1. p \in Seq(Piece) /\ Len(p) = 2 * n /\ n \in Nat /\ s \in Nat
    BY CopyFacts DEF ReaderInv, Readers
  <1>2. Unserialised(reader) = SubSeq(p, 2 * s + 1, 2 * n)
    BY CopyFacts DEF Unserialised
  <1> HIDE DEF p, n, s
  <1>3. \A i \in (2 * s + 1)..(2 * n) : p[i] \in Piece
    BY <1>1
  <1>4. 2 * s + 1 \in Int /\ 2 * n \in Int /\ (s >= n => 2 * n < 2 * s + 1)
    BY <1>1
  <1>5. SubSeq(p, 2 * s + 1, 2 * n) \in Seq(Piece)
    BY <1>3, <1>4, SubSeqProperties
  <1>6. s >= n => SubSeq(p, 2 * s + 1, 2 * n) = <<>>
    BY <1>4, SubSeqEmpty
  <1> QED
    BY <1>2, <1>5, <1>6 DEF n, s

(* A reader, field by field, and after _compact.                           *)
LEMMA ReaderFields ==
    ASSUME NEW r \in Readers
    PROVE /\ r.df \in SUBSET Rows /\ r.start \in Nat /\ r.buffer \in Seq(Piece)
          /\ r.offset \in Nat /\ r.exhausted \in BOOLEAN /\ r.size \in ReadSizes \cup {1}
  BY DEF Readers

(* _compact keeps all of a reader but what has been read of its buffer.    *)
LEMMA Compacted ==
    ASSUME NEW r \in Readers, Rest(r) \in Seq(Piece)
    PROVE /\ Compact(r) \in Readers
          /\ Compact(r).df = r.df /\ Compact(r).start = r.start
          /\ Compact(r).buffer = Rest(r) /\ Compact(r).offset = 0
          /\ (Compact(r).exhausted = r.exhausted) /\ Compact(r).size = r.size
  BY DEF Readers, Compact

(* The end of the chunks.                                                  *)
LEMMA Exhausted ==
    ASSUME NEW r \in Readers, NEW q, q = [r EXCEPT !.exhausted = TRUE]
    PROVE /\ q \in Readers /\ q.df = r.df /\ q.start = r.start /\ q.buffer = r.buffer
          /\ q.offset = r.offset
  <1>1. \A e \in BOOLEAN : [r EXCEPT !.exhausted = e] \in Readers
    BY SMT DEF Readers
  <1>2. TRUE \in BOOLEAN
    OBVIOUS
  <1>3. q \in Readers
    BY Zenon, <1>1, <1>2
  <1>4. q.df = r.df /\ q.start = r.start /\ q.buffer = r.buffer /\ q.offset = r.offset
    BY DEF Readers
  <1> QED
    BY <1>3, <1>4

(* A reader with a buffer of which nothing has been read.                  *)
LEMMA FreshBuffer ==
    ASSUME ReaderInv, status = "copy", UNCHANGED <<status, batch, sent>>,
           reader' \in Readers, reader'.df = reader.df, reader'.offset = 0,
           reader'.exhausted => reader'.start >= Cardinality(DOMAIN batch)
    PROVE ReaderInv' /\ Rest(reader)' = reader'.buffer
  <1>1. sent \in Seq(Piece) /\ reader.df = DOMAIN batch
    BY DEF ReaderInv
  <1>2. reader'.buffer \in Seq(Piece)
    BY DEF Readers
  <1>3. reader'.offset <= Len(reader'.buffer)
    BY <1>2
  <1>4. ReaderInv'
    BY <1>1, <1>3 DEF ReaderInv, Readers
  <1>5. Rest(reader)' = SubSeq(reader'.buffer, 0 + 1, Len(reader'.buffer))
    BY DEF Rest
  <1>6. SubSeq(reader'.buffer, 0 + 1, Len(reader'.buffer)) = reader'.buffer
    BY <1>2, SubSeqFull
  <1> QED
    BY <1>4, <1>5, <1>6

(* A reader whose buffer has one chunk more.                               *)
LEMMA Grown ==
    ASSUME ReaderInv, NEW chunk \in Seq(Piece),
           reader' = [Compact(reader) EXCEPT !.buffer = @ \o chunk, !.start = @ + CopyChunkRows]
    PROVE /\ reader' \in Readers /\ reader'.df = reader.df
          /\ reader'.start = reader.start + CopyChunkRows
          /\ reader'.buffer = Rest(reader) \o chunk /\ reader'.offset = 0
          /\ (reader'.exhausted = reader.exhausted)
  <1>1. reader \in Readers /\ Rest(reader) \in Seq(Piece) /\ CopyChunkRows \in Nat
    BY RestIs, BatchAssumption DEF ReaderInv, BatchAssumption
  <1>2. /\ Compact(reader) \in Readers /\ Compact(reader).df = reader.df
        /\ Compact(reader).start = reader.start /\ Compact(reader).buffer = Rest(reader)
        /\ Compact(reader).offset = 0
        /\ (Compact(reader).exhausted = reader.exhausted)
    BY <1>1, Compacted
  <1> DEFINE r == Compact(reader)
             b == r.buffer \o chunk
             t == r.start + CopyChunkRows
  <1>3. reader' = [r EXCEPT !.buffer = b, !.start = t]
    OBVIOUS
  <1>4. b \in Seq(Piece) /\ t \in Nat
    BY <1>1, <1>2, ReaderFields
  <1>5. b = Rest(reader) \o chunk /\ t = reader.start + CopyChunkRows
    BY <1>2
  <1>6. r \in Readers /\ r.df = reader.df /\ r.offset = 0
    BY <1>2
  <1>7. r.exhausted = reader.exhausted
    BY <1>2
  <1> HIDE DEF r, b, t
  <1>8. reader' \in Readers
    BY <1>3, <1>4, <1>6 DEF Readers
  <1>9. reader'.df = r.df /\ reader'.start = t /\ reader'.buffer = b /\ reader'.offset = r.offset
    BY <1>3, <1>6 DEF Readers
  <1>10. reader'.exhausted = r.exhausted
    BY <1>3, <1>6 DEF Readers
  <1>11. reader'.exhausted = reader.exhausted
    BY Zenon, <1>7, <1>10
  <1> QED
    BY <1>5, <1>6, <1>8, <1>9, <1>11

(* Pieces are concatenated in any bracketing.                              *)
LEMMA Associative ==
    \A s, t, u \in Seq(Piece) : (s \o t) \o u = s \o (t \o u)
  BY ConcatAssociative

(* What is sent, read and unread, in two bracketings.                      *)
LEMMA StillAll ==
    ASSUME ReaderInv, NEW chunk \in Seq(Piece), NEW after \in Seq(Piece)
    PROVE (sent \o (Rest(reader) \o chunk)) \o after
             = (sent \o Rest(reader)) \o (chunk \o after)
  <1>1. sent \in Seq(Piece) /\ Rest(reader) \in Seq(Piece)
    BY RestIs DEF ReaderInv
  <1>2. \A s, t, u \in Seq(Piece) : (s \o t) \o u = s \o (t \o u)
    BY Associative
  <1>3. (sent \o Rest(reader)) \o chunk = sent \o (Rest(reader) \o chunk)
    BY Zenon, <1>1, <1>2
  <1>4. sent \o Rest(reader) \in Seq(Piece)
    BY <1>1, ConcatProperties
  <1>5. ((sent \o Rest(reader)) \o chunk) \o after
           = (sent \o Rest(reader)) \o (chunk \o after)
    BY Zenon, <1>2, <1>4
  <1> QED
    BY Zenon, <1>3, <1>5

(* Filling the buffer moves pieces from the unserialised rows into it.     *)
LEMMA BatchInvOnFill == ASSUME BatchInv, Fill PROVE BatchInv'
  <1>1. /\ status = "copy" /\ status' = status /\ job' = job /\ types' = types
        /\ unread' = unread /\ batch' = batch /\ hashes' = hashes /\ sent' = sent
        /\ copied' = copied
        /\ reader' = IF reader.start >= Cardinality(reader.df)
                     THEN [Compact(reader) EXCEPT !.exhausted = TRUE]
                     ELSE [Compact(reader) EXCEPT !.buffer = @ \o Chunk(reader),
                                                  !.start = @ + CopyChunkRows]
    BY DEF Fill
  <1>2. /\ JobInv /\ RowsInv /\ ReaderInv /\ HashIsOfTheRowAlone
        /\ (sent \o Rest(reader)) \o Unserialised(reader) = Pieces(DOMAIN batch)
    BY <1>1 DEF BatchInv, NothingLostInTheBuffer
  <1>3. JobInv' /\ RowsInv' /\ HashIsOfTheRowAlone'
    BY <1>1, <1>2 DEF JobInv, RowsInv, HashIsOfTheRowAlone
  <1> DEFINE n == Cardinality(DOMAIN batch)
             rest == Rest(reader)
             p == Pieces(DOMAIN batch)
             s == reader.start
             c == CopyChunkRows
             chunk == NextChunk(p, n, s, c)
             after == Beyond(p, n, s + c)
  <1>4. /\ n \in Nat /\ p \in Seq(Piece) /\ Len(p) = 2 * n
        /\ s \in Nat /\ rest \in Seq(Piece) /\ sent \in Seq(Piece)
        /\ reader.df = DOMAIN batch /\ c \in Nat \ {0} /\ reader \in Readers
        /\ reader.exhausted => s >= n
    BY <1>1, <1>2, CopyFacts, RestIs, BatchAssumption, ReaderFields DEF ReaderInv, BatchAssumption
  <1>6. CASE s >= n
    <2>1. /\ reader' \in Readers /\ reader'.df = reader.df /\ reader'.start = s
          /\ reader'.buffer = rest /\ reader'.offset = 0
      <3>1. reader' = [Compact(reader) EXCEPT !.exhausted = TRUE]
        BY <1>1, <1>4, <1>6
      <3> QED
        BY <1>4, <3>1, Compacted, Exhausted
    <2>2. ReaderInv' /\ Rest(reader)' = rest
      BY <1>1, <1>2, <1>4, <1>6, <2>1, FreshBuffer
    <2>3. Unserialised(reader)' = Unserialised(reader)
      BY <1>4, <2>1 DEF Unserialised
    <2>4. NothingLostInTheBuffer'
      BY <1>1, <1>2, <2>2, <2>3 DEF NothingLostInTheBuffer
    <2> QED
      BY <1>3, <2>2, <2>4 DEF BatchInv
  <1>7. CASE s < n
    <2>1. /\ chunk \in Seq(Piece) /\ after \in Seq(Piece)
          /\ chunk \o after = Beyond(p, n, s)
      <3>1. /\ n \in Nat /\ p \in Seq(Piece) /\ Len(p) = 2 * n
            /\ s \in Nat /\ s < n /\ c \in Nat \ {0}
        BY <1>4, <1>7
      <3> HIDE DEF p, n, s, c
      <3> QED
        BY <3>1, ChunkIsNext, SMTT(30)
    <2>2. Chunk(reader) = chunk
      BY <1>4 DEF Chunk, NextChunk
    <2>3. Unserialised(reader) = Beyond(p, n, s)
      BY <1>4 DEF Unserialised, Beyond
    <2>12. chunk \in Seq(Piece) /\ after \in Seq(Piece)
      BY <2>1
    <2> HIDE DEF chunk, p, n
    <2>4. reader' = [Compact(reader) EXCEPT !.buffer = @ \o chunk, !.start = @ + c]
      BY <1>1, <1>4, <1>7, <2>2 DEF n
    <2>5. /\ reader' \in Readers /\ reader'.df = reader.df /\ reader'.start = s + c
          /\ reader'.buffer = rest \o chunk /\ reader'.offset = 0
          /\ (reader'.exhausted = reader.exhausted)
      <3> QED
        BY <1>2, <2>12, <2>4, Grown
    <2>6. ~reader'.exhausted
      <3>1. ~reader.exhausted
        BY <1>4, <1>7
      <3> QED
        BY <2>5, <3>1
    <2>7. ReaderInv' /\ Rest(reader)' = rest \o chunk
      BY <1>1, <1>2, <2>5, <2>6, FreshBuffer
    <2>8. Unserialised(reader)' = after
      BY <1>1, <1>4, <2>5 DEF Unserialised, Beyond, p, n
    <2>9. (sent \o (rest \o chunk)) \o after = (sent \o rest) \o (chunk \o after)
      <3>1. chunk \in Seq(Piece)
        BY <2>12
      <3>2. after \in Seq(Piece)
        BY <2>12
      <3> HIDE DEF after
      <3> QED
        BY Zenon, <1>2, <3>1, <3>2, StillAll DEF rest
    <2>10. (sent \o (rest \o chunk)) \o after = p
      BY <1>2, <2>1, <2>3, <2>9 DEF p
    <2>11. NothingLostInTheBuffer'
      BY <1>1, <2>7, <2>8, <2>10 DEF NothingLostInTheBuffer, p
    <2> QED
      BY <1>3, <2>7, <2>11 DEF BatchInv
  <1> QED
    BY <1>4, <1>6, <1>7

(* A read moves the offset, or starts the buffer anew.                     *)
LEMMA OffsetMoves ==
    ASSUME NEW r \in Readers, NEW o \in Nat, NEW q, q = [r EXCEPT !.offset = o]
    PROVE /\ q \in Readers /\ q.df = r.df /\ q.start = r.start
          /\ q.buffer = r.buffer /\ q.offset = o
          /\ (q.exhausted = r.exhausted)
  BY DEF Readers

(* What is read moves from the buffer to PostgreSQL.                       *)
LEMMA BatchInvOnRead == ASSUME BatchInv, Read PROVE BatchInv'
  <1> DEFINE rest == Rest(reader)
             m == MinOf({reader.size, Len(rest)})
             out == SubSeq(rest, 1, m)
             after == [reader EXCEPT !.offset = @ + Len(out)]
             b == reader.buffer
             o == reader.offset
  <1>1. /\ status = "copy" /\ status' = status /\ job' = job /\ types' = types
        /\ unread' = unread /\ batch' = batch /\ hashes' = hashes
        /\ copied' = copied /\ rest # <<>>
        /\ sent' = sent \o out
        /\ reader' = IF after.offset >= Len(after.buffer)
                     THEN [after EXCEPT !.buffer = <<>>, !.offset = 0] ELSE after
    BY DEF Read
  <1>2. /\ JobInv /\ RowsInv /\ ReaderInv /\ HashIsOfTheRowAlone
        /\ (sent \o rest) \o Unserialised(reader) = Pieces(DOMAIN batch)
    BY <1>1 DEF BatchInv, NothingLostInTheBuffer
  <1>3. JobInv' /\ RowsInv' /\ HashIsOfTheRowAlone'
    BY <1>1, <1>2 DEF JobInv, RowsInv, HashIsOfTheRowAlone
  <1>4. /\ reader \in Readers /\ b \in Seq(Piece) /\ o \in 0..Len(b) /\ Len(b) \in Nat
        /\ rest \in Seq(Piece) /\ Len(rest) = Len(b) - o /\ sent \in Seq(Piece)
        /\ reader.size \in Nat \ {0} /\ rest = Left(b, o)
    <2>1. reader \in Readers /\ sent \in Seq(Piece) /\ o <= Len(b)
      BY <1>2 DEF ReaderInv
    <2>2. b \in Seq(Piece) /\ o \in Nat /\ reader.size \in ReadSizes \cup {1}
      BY <2>1, ReaderFields
    <2>3. Len(b) \in Nat /\ o \in 0..Len(b)
      <3> HIDE DEF b, o
      <3> QED
        BY <2>1, <2>2
    <2>4. rest \in Seq(Piece) /\ Len(rest) = Len(b) - o
      BY <1>2, RestIs
    <2>5. reader.size \in Nat \ {0}
      <3>1. \A x \in ReadSizes \cup {1} : x \in Nat \ {0}
        BY BatchAssumption DEF BatchAssumption
      <3> QED
        BY Zenon, <2>2, <3>1
    <2>6. rest = Left(b, o)
      BY DEF Rest, Left
    <2> QED
      BY <2>1, <2>2, <2>3, <2>4, <2>5, <2>6
  <1>5. m \in 1..(Len(b) - o)
    <2>1. Len(rest) \in Nat /\ Len(rest) # 0
      BY <1>1, <1>4
    <2>2. m = IF reader.size <= Len(rest) THEN reader.size ELSE Len(rest)
      BY <1>4, <2>1, MinOfTwo
    <2> HIDE DEF m, rest, b, o
    <2> QED
      BY <1>4, <2>1, <2>2
  <1> HIDE DEF m
  <1>6. /\ out \in Seq(Piece) /\ Len(out) = m /\ Left(b, o + m) \in Seq(Piece)
        /\ out \o Left(b, o + m) = rest
    <2> HIDE DEF rest, b, o
    <2>1. b \in Seq(Piece) /\ o \in 0..Len(b)
      BY <1>4
    <2>2. /\ SubSeq(Left(b, o), 1, m) \in Seq(Piece) /\ Len(SubSeq(Left(b, o), 1, m)) = m
          /\ Left(b, o + m) \in Seq(Piece)
          /\ SubSeq(Left(b, o), 1, m) \o Left(b, o + m) = Left(b, o)
      BY <1>5, <2>1, ReadIsNext
    <2> QED
      BY <1>4, <2>2
  <1>7. after = [reader EXCEPT !.offset = o + m]
    BY <1>6
  <1>8. o + m \in Nat /\ o + m <= Len(b) /\ o \in Nat /\ m \in Nat
    BY <1>4, <1>5
  <1>9. /\ after \in Readers /\ after.df = reader.df /\ after.start = reader.start
        /\ after.buffer = b /\ after.offset = o + m /\ (after.exhausted = reader.exhausted)
    <2> DEFINE z == o + m
    <2>1. z \in Nat
      BY <1>8
    <2>2. after = [reader EXCEPT !.offset = z]
      BY <1>7
    <2> HIDE DEF z, after
    <2>3. /\ after \in Readers /\ after.df = reader.df /\ after.start = reader.start
          /\ after.buffer = reader.buffer /\ after.offset = z
          /\ (after.exhausted = reader.exhausted)
      BY <1>4, <2>1, <2>2, OffsetMoves
    <2> QED
      BY <2>3 DEF z
  <1> HIDE DEF out, after
  <1>10. sent' \in Seq(Piece)
    BY <1>1, <1>4, <1>6
  <1>11. (sent \o out) \o Left(b, o + m) = sent \o rest
    <2>1. Left(b, o + m) \in Seq(Piece) /\ out \in Seq(Piece)
      BY <1>6
    <2>2. (sent \o out) \o Left(b, o + m) = sent \o (out \o Left(b, o + m))
      BY Zenon, <1>4, <2>1, Associative
    <2> QED
      BY Zenon, <1>6, <2>2
  <1>12. /\ reader' \in Readers /\ reader'.df = reader.df /\ reader'.start = reader.start
         /\ reader'.offset <= Len(reader'.buffer)
         /\ (reader'.exhausted = reader.exhausted)
         /\ Rest(reader)' = Left(b, o + m)
    <2>1. CASE o + m >= Len(b)
      <3>1. reader' = [after EXCEPT !.buffer = <<>>, !.offset = 0]
        BY <1>1, <1>9, <2>1
      <3>2. <<>> \in Seq(Piece)
        OBVIOUS
      <3>3. /\ reader' \in Readers /\ reader'.df = reader.df /\ reader'.start = reader.start
            /\ reader'.buffer = <<>> /\ reader'.offset = 0
        BY <1>9, <3>1, <3>2 DEF Readers
      <3>4. reader'.exhausted = reader.exhausted
        BY <1>9, <3>1 DEF Readers
      <3>5. Left(b, o + m) = <<>>
        BY <1>4, <1>8, <2>1, SubSeqEmpty DEF Left
      <3>6. Rest(reader)' = <<>>
        BY <3>3, SubSeqEmpty DEF Rest
      <3> QED
        BY <3>3, <3>4, <3>5, <3>6
    <2>2. CASE ~(o + m >= Len(b))
      <3>1. reader' = after
        BY <1>1, <1>9, <2>2
      <3>2. Rest(reader)' = Left(b, o + m)
        BY <1>9, <3>1 DEF Rest, Left
      <3> QED
        BY <1>4, <1>8, <1>9, <3>1, <3>2
    <2> QED
      BY <2>1, <2>2
  <1>13. ReaderInv'
    BY <1>1, <1>2, <1>10, <1>12 DEF ReaderInv
  <1>14. Unserialised(reader)' = Unserialised(reader)
    BY <1>12 DEF Unserialised
  <1>15. NothingLostInTheBuffer'
    BY <1>1, <1>2, <1>11, <1>12, <1>14 DEF NothingLostInTheBuffer
  <1> QED
    BY <1>3, <1>13, <1>15 DEF BatchInv

(* The column a run prepares.                                              *)
LEMMA JobFacts ==
    ASSUME JobInv, status \notin {"idle", "followed"}
    PROVE /\ job.kind \in Kinds /\ job.size \in Nat \ {0}
          /\ \A k \in Rows : IsCellOf(job.kind, job.source[k])
  <1>1. PICK c \in Columns, s \in BatchSizes :
           \E cells \in [Rows -> CellsOf(c.kind)] : job = Job(c, cells, s)
    BY DEF JobInv
  <1>2. PICK cells \in [Rows -> CellsOf(c.kind)] : job = Job(c, cells, s)
    BY <1>1
  <1>3. job.kind = c.kind /\ job.source = cells /\ job.size = s
    BY <1>2 DEF Job
  <1>4. c.kind \in Kinds
    BY ColumnAssumption DEF ColumnAssumption
  <1>5. \A x \in CellsOf(c.kind) : IsCellOf(c.kind, x)
    BY <1>4, ColumnAssumption DEF ColumnAssumption
  <1>6. s \in Nat \ {0}
    BY BatchAssumption DEF BatchAssumption
  <1>7. \A k \in Rows : cells[k] \in CellsOf(c.kind)
    BY <1>2
  <1> QED
    BY <1>3, <1>4, <1>5, <1>6, <1>7

(* Only a column of integers has numbers.                                  *)
LEMMA NoNumber ==
    ASSUME NEW kind \in Kinds, kind # "int", NEW c, IsCellOf(kind, c)
    PROVE ~IsNumber(c)
  <1>1. Forms(kind) \cap {"int", "float"} = {}
    BY DEF Forms, Kinds
  <1>2. CASE c = Null
    BY <1>2 DEF Null, IsNumber
  <1>3. CASE c \in [as : Forms(kind), n : Int]
    <2>1. c.as \in Forms(kind)
      BY <1>3
    <2> QED
      BY <1>1, <2>1 DEF IsNumber
  <1> QED
    BY <1>2, <1>3 DEF IsCellOf

(* What pandas infers of a column without numbers is the column.           *)
LEMMA NothingInferred ==
    ASSUME NEW S, NEW col, col = [k \in S |-> col[k]], \A k \in S : ~IsNumber(col[k])
    PROVE \A k \in S : AsPandasInfers(col)[k] = col[k]
  <1>1. DOMAIN col = S
    OBVIOUS
  <1> QED
    BY <1>1 DEF AsPandasInfers

(* What pandas infers keeps the rows.                                      *)
LEMMA InferredDomain == \A col : DOMAIN AsPandasInfers(col) = DOMAIN col
  BY DEF AsPandasInfers

(* Preparing a column keeps its rows.                                      *)
LEMMA PreparedDomain ==
    ASSUME NEW j, NEW col, NEW type
    PROVE DOMAIN Exported(j, col, type) = DOMAIN col /\ DOMAIN Hashes(col) = DOMAIN col
  <1>1. DOMAIN Hashes(col) = DOMAIN col
    BY DEF Hashes, Normalized, Map
  <1>2. DOMAIN Decoded(col, type) = DOMAIN col
    BY DEF Decoded, Normalized, Map
  <1>3. \A c : DOMAIN FixInvalidDates(c) = DOMAIN c
    BY DEF FixInvalidDates, Map
  <1>4. \A c : DOMAIN Dated(j, c) = DOMAIN c
    BY <1>3 DEF Dated
  <1>5. \A c, b : DOMAIN ConvertTimeColumns(c, b) = DOMAIN c
    BY DEF ConvertTimeColumns, Map
  <1>6. \A c : DOMAIN ConvertIntegerColumns(c, type) = DOMAIN c
    BY DEF ConvertIntegerColumns, Map
  <1>7. \A c : DOMAIN ReplacePdnaWithNone(c) = DOMAIN c
    BY InferredDomain DEF ReplacePdnaWithNone
  <1>8. DOMAIN Converted(j, col, type) = DOMAIN col
    BY <1>2, <1>4, <1>5, <1>6, <1>7 DEF Converted
  <1>9. \A c : DOMAIN ToDatetimeStrSeries(c) = DOMAIN c
    BY DEF ToDatetimeStrSeries, Map
  <1>10. \A c : DOMAIN FixColumnValues(c, type) = DOMAIN c
    <2>1. \A c : /\ DOMAIN Map(c, ToInt) = DOMAIN c /\ DOMAIN Map(c, ToBool) = DOMAIN c
                 /\ DOMAIN Map(c, ToStr) = DOMAIN c
      BY DEF Map
    <2> QED
      BY <1>9, <2>1 DEF FixColumnValues
  <1>11. \A c : DOMAIN Map(Map(c, ToInt), FmtIntForCsv) = DOMAIN c
    BY DEF Map
  <1>12. DOMAIN Exported(j, col, type) = DOMAIN col
    BY <1>7, <1>8, <1>10, <1>11 DEF Exported
  <1> QED
    BY <1>1, <1>12

(* The hash of a cell.                                                     *)
LEMMA HashOfACell ==
    ASSUME NEW col, NEW k \in DOMAIN col
    PROVE Hashes(col)[k] = IF col[k].as = "view" THEN Bytes(col[k].n) ELSE col[k]
  <1>1. Hashes(col)[k] = AsText(NormalizeMemoryview(col[k]))
    BY DEF Hashes, Normalized, Map
  <1> DEFINE c == col[k]
  <1> HIDE DEF c
  <1>2. AsText(NormalizeMemoryview(c)) = IF c.as = "view" THEN Bytes(c.n) ELSE c
    BY DEF AsText, NormalizeMemoryview, Bytes
  <1> QED
    BY <1>1, <1>2 DEF c

(* The type the first batch settles.                                       *)
LEMMA TypeIsOne ==
    ASSUME NEW kind \in Kinds, NEW col, NEW existing
    PROVE /\ PromoteTypes(kind, col) \in Types
          /\ LoadPgSchema(Declared(kind), existing) \in Types
  <1>1. Declared(kind) \in Types
    BY DEF Declared, Kinds, Types
  <1> QED
    BY <1>1 DEF PromoteTypes, LoadPgSchema, Types

(* A reader of which nothing has been read promises all its rows.          *)
LEMMA NewReaderIs ==
    ASSUME NEW a \in Rows, NEW b \in Rows, a <= b, NEW size \in ReadSizes
    PROVE LET r == NewReader(a..b, size)
          IN  /\ r \in Readers /\ r.df = a..b /\ r.offset = 0 /\ r.buffer = <<>>
              /\ ~r.exhausted /\ Rest(r) = <<>>
              /\ Unserialised(r) = Pieces(a..b) /\ Pieces(a..b) \in Seq(Piece)
  <1> DEFINE r == NewReader(a..b, size)
             S == a..b
  <1>1. /\ S \subseteq Rows /\ Pieces(S) \in Seq(Piece)
        /\ Len(Pieces(S)) = 2 * Cardinality(S) /\ Cardinality(S) \in Nat
    <2>1. a \in Nat /\ b \in Nat /\ S \subseteq Rows /\ b - a + 1 \in Nat
      BY RowsAre
    <2> QED
      BY <2>1, PiecesAre
  <1>2. r = [df |-> S, start |-> 0, buffer |-> <<>>, offset |-> 0,
             exhausted |-> FALSE, size |-> size]
    BY DEF NewReader
  <1>3. /\ r.df = S /\ r.offset = 0 /\ r.buffer = <<>> /\ r.start = 0
        /\ ~r.exhausted
    BY <1>2
  <1> HIDE DEF S
  <1>4. r \in Readers
    <2>1. \A e \in BOOLEAN : [df |-> S, start |-> 0, buffer |-> <<>>, offset |-> 0,
                              exhausted |-> e, size |-> size] \in Readers
      BY SMT, <1>1 DEF Readers
    <2>2. FALSE \in BOOLEAN
      OBVIOUS
    <2> QED
      BY Zenon, <1>2, <2>1, <2>2
  <1> HIDE DEF r
  <1>5. Rest(r) = <<>>
    BY <1>3, SubSeqEmpty DEF Rest
  <1>6. Unserialised(r) = SubSeq(Pieces(S), 1, Len(Pieces(S)))
    BY <1>1, <1>3 DEF Unserialised
  <1>7. SubSeq(Pieces(S), 1, Len(Pieces(S))) = Pieces(S)
    BY <1>1, SubSeqFull
  <1> QED
    BY <1>1, <1>3, <1>4, <1>5, <1>6, <1>7 DEF r, S

(* The next batch: its rows, its types, its hashes and a reader for it.    *)
LEMMA BatchInvOnPrepare == ASSUME BatchInv, PrepareBatch PROVE BatchInv'
  <1> DEFINE taken == NextRows(unread, job.size)
             raw == [k \in taken |-> job.source[k]]
             col == AsPandasInfers(raw)
             type == IF types # "none" THEN types
                     ELSE IF job.method = "full" THEN PromoteTypes(job.kind, col)
                     ELSE LoadPgSchema(Declared(job.kind), job.existing)
  <1>1. /\ status = "read" /\ unread # {} /\ types' = type /\ unread' = unread \ taken
        /\ sent' = <<>> /\ job' = job /\ copied' = copied
        /\ \/ status' = "red" /\ UNCHANGED <<batch, hashes, reader>>
           \/ /\ status' = "copy" /\ batch' = Exported(job, col, type)
              /\ hashes' = Hashes(col)
              /\ \E size \in ReadSizes : reader' = NewReader(taken, size)
    BY DEF PrepareBatch
  <1>2. JobInv /\ RowsInv /\ ReaderInv /\ HashIsOfTheRowAlone
    BY DEF BatchInv
  <1>3. /\ job.kind \in Kinds /\ job.size \in Nat \ {0}
        /\ \A k \in Rows : IsCellOf(job.kind, job.source[k])
    BY <1>1, <1>2, JobFacts
  <1>4. PICK u \in 1..(N + 1) : unread = u..N
    BY <1>2 DEF RowsInv
  <1>5. N \in Nat /\ Rows = 1..N /\ u \in Nat /\ u \in 1..N /\ u <= N
    BY <1>1, <1>4, RowsAre
  <1>6. PICK b \in u..N : taken = u..b /\ unread \ taken = (b + 1)..N
    <2>1. PICK z \in Nat \ {0}, n \in Nat : z = job.size /\ n = N
      BY <1>3, <1>5
    <2>2. u \in Nat /\ u <= n
      BY <1>5, <2>1
    <2>3. FirstTaken(u, n, z)
      BY <2>2, NextRowsAre
    <2>4. taken = NextRows(u..n, z) /\ unread = u..n
      BY <1>4, <2>1
    <2> HIDE DEF taken
    <2> QED
      BY <2>1, <2>3, <2>4 DEF FirstTaken
  <1>7. /\ u \in Rows /\ b \in Rows /\ u <= b /\ b + 1 \in 1..(N + 1)
        /\ taken \subseteq Rows \ ((b + 1)..N) /\ (b + 1)..N \subseteq u..N
        /\ taken \subseteq u..N /\ u..N \subseteq Rows
        /\ taken \subseteq Rows
    BY <1>5, <1>6
  <1>8. type \in Types
    <2>1. types \in Types \cup {"none"}
      BY <1>2 DEF JobInv
    <2>2. /\ PromoteTypes(job.kind, col) \in Types
          /\ LoadPgSchema(Declared(job.kind), job.existing) \in Types
      BY <1>3, TypeIsOne
    <2> HIDE DEF col
    <2> QED
      BY <2>1, <2>2
  <1>9. DOMAIN col = taken /\ DOMAIN raw = taken
    <2>1. DOMAIN raw = taken
      OBVIOUS
    <2> HIDE DEF raw
    <2> QED
      BY <2>1, InferredDomain
  <1>10. job.kind # "int" => \A k \in taken : col[k] = job.source[k]
    <2> HAVE job.kind # "int"
    <2>1. \A k \in taken : raw[k] = job.source[k]
      OBVIOUS
    <2>2. \A k \in taken : ~IsNumber(raw[k])
      BY <1>3, <1>7, <2>1, NoNumber
    <2>3. raw = [k \in taken |-> raw[k]]
      OBVIOUS
    <2> HIDE DEF raw, taken
    <2>4. \A k \in taken : col[k] = raw[k]
      BY <2>2, <2>3, NothingInferred
    <2> QED
      BY <2>1, <2>4
  <1> HIDE DEF taken, raw, col, type
  <1>11. JobInv'
    BY <1>1, <1>2, <1>8 DEF JobInv
  <1>12. CASE status' = "red" /\ UNCHANGED <<batch, hashes, reader>>
    <2>1. RowsInv'
      <3>1. unread' = (b + 1)..N /\ unread' \subseteq unread
        BY <1>1, <1>4, <1>6, <1>7
      <3> QED
        BY <1>1, <1>2, <1>7, <1>12, <3>1 DEF RowsInv
    <2>2. ReaderInv'
      <3>1. <<>> \in Seq(Piece)
        OBVIOUS
      <3> QED
        BY <1>1, <1>2, <1>12, <3>1 DEF ReaderInv
    <2>3. HashIsOfTheRowAlone' /\ NothingLostInTheBuffer'
      BY <1>1, <1>2, <1>12 DEF HashIsOfTheRowAlone, NothingLostInTheBuffer
    <2> QED
      BY <1>11, <2>1, <2>2, <2>3 DEF BatchInv
  <1>13. CASE /\ status' = "copy" /\ batch' = Exported(job, col, type)
              /\ hashes' = Hashes(col)
              /\ \E size \in ReadSizes : reader' = NewReader(taken, size)
    <2>1. DOMAIN batch' = taken /\ DOMAIN hashes' = taken
      BY <1>9, <1>13, PreparedDomain
    <2>2. unread' = (b + 1)..N
      BY <1>1, <1>6
    <2>3. RowsInv'
      <3>1. DOMAIN copied = Rows \ unread
        BY <1>1, <1>2 DEF RowsInv
      <3>2. Rows \ unread = (Rows \ unread') \ taken
        BY <1>4, <1>5, <1>6, <2>2
      <3>3. DOMAIN batch' \subseteq Rows \ unread'
        BY <1>7, <2>1, <2>2
      <3>4. DOMAIN copied' = (Rows \ unread') \ DOMAIN batch'
        BY <1>1, <2>1, <3>1, <3>2
      <3>5. DOMAIN copied' \subseteq Rows
        BY <3>4
      <3>6. \E x, y \in Rows : x <= y /\ DOMAIN batch' = x..y
        BY <1>6, <1>7, <2>1
      <3>7. \E x \in 1..(N + 1) : unread' = x..N
        BY <1>7, <2>2
      <3> QED
        BY <1>13, <2>1, <3>3, <3>4, <3>5, <3>6, <3>7 DEF RowsInv
    <2>4. PICK size \in ReadSizes : reader' = NewReader(u..b, size)
      BY <1>6, <1>13
    <2>5. /\ reader' \in Readers /\ reader'.df = u..b /\ reader'.offset = 0
          /\ reader'.buffer = <<>> /\ ~reader'.exhausted /\ Rest(reader)' = <<>>
          /\ Unserialised(reader)' = Pieces(u..b) /\ Pieces(u..b) \in Seq(Piece)
      <3>1. /\ NewReader(u..b, size) \in Readers /\ NewReader(u..b, size).df = u..b
            /\ NewReader(u..b, size).offset = 0 /\ NewReader(u..b, size).buffer = <<>>
            /\ ~NewReader(u..b, size).exhausted /\ Rest(NewReader(u..b, size)) = <<>>
            /\ Unserialised(NewReader(u..b, size)) = Pieces(u..b)
            /\ Pieces(u..b) \in Seq(Piece)
        BY <1>7, NewReaderIs
      <3>2. Rest(reader)' = Rest(NewReader(u..b, size))
        BY <2>4 DEF Rest
      <3>3. Unserialised(reader)' = Unserialised(NewReader(u..b, size))
        BY <2>4 DEF Unserialised
      <3> QED
        BY <2>4, <3>1, <3>2, <3>3
    <2>6. ReaderInv'
      <3>1. <<>> \in Seq(Piece) /\ Len(<<>>) = 0
        OBVIOUS
      <3> QED
        BY <1>1, <1>6, <2>1, <2>5, <3>1 DEF ReaderInv
    <2>7. NothingLostInTheBuffer'
      <3>1. (<<>> \o <<>>) \o Pieces(u..b) = Pieces(u..b)
        BY <2>5, ConcatEmptySeq
      <3> QED
        BY <1>1, <1>6, <1>13, <2>1, <2>5, <3>1 DEF NothingLostInTheBuffer
    <2>8. HashIsOfTheRowAlone'
      <3>1. \A k \in taken : Hashes(col)[k] = IF col[k].as = "view" THEN Bytes(col[k].n) ELSE col[k]
        BY <1>9, HashOfACell
      <3> QED
        BY <1>1, <1>10, <1>13, <2>1, <3>1 DEF HashIsOfTheRowAlone
    <2> QED
      BY <1>11, <2>3, <2>6, <2>7, <2>8 DEF BatchInv
  <1> QED
    BY <1>1, <1>12, <1>13

(* A COPY that ends has sent every row of the batch.                       *)
LEMMA AllIsSent ==
    ASSUME BatchInv, status = "copy", ~Short, Rest(reader) = <<>>
    PROVE {k \in Rows : \E i \in 1..Len(sent) : sent[i] = <<k, "end">>} = DOMAIN batch
  <1>1. JobInv /\ RowsInv /\ ReaderInv /\ sent \in Seq(Piece) /\ reader \in Readers
    BY DEF BatchInv, ReaderInv
  <1>2. reader.size # 0 /\ reader.size \in Nat
    <2>1. \A x \in ReadSizes \cup {1} : x \in Nat /\ x # 0
      BY BatchAssumption DEF BatchAssumption
    <2> QED
      BY Zenon, <1>1, <2>1, ReaderFields
  <1>3. Len(Rest(reader)) = 0
    OBVIOUS
  <1>4. reader.exhausted
    BY <1>2, <1>3 DEF Short
  <1>5. Unserialised(reader) = <<>>
    <2>1. reader.start >= Cardinality(DOMAIN batch)
      BY <1>1, <1>4 DEF ReaderInv
    <2> QED
      BY <1>1, <2>1, UnserialisedIs
  <1>6. sent = Pieces(DOMAIN batch)
    <2>1. (sent \o <<>>) \o <<>> = Pieces(DOMAIN batch)
      BY <1>5 DEF BatchInv, NothingLostInTheBuffer
    <2>2. sent \o <<>> = sent
      BY <1>1, ConcatEmptySeq
    <2> QED
      BY <2>1, <2>2
  <1> DEFINE n == Cardinality(DOMAIN batch)
             p == Pieces(DOMAIN batch)
  <1>7. /\ Len(p) = 2 * n /\ DOMAIN batch \subseteq Rows
        /\ \A k \in Nat : (\E i \in 1..(2 * n) : p[i] = <<k, "end">>) <=> k \in DOMAIN batch
    BY <1>1, CopyFacts
  <1>8. Rows \subseteq Nat
    BY RowsAre
  <1> HIDE DEF n, p
  <1> QED
    BY <1>6, <1>7, <1>8 DEF p

(* The end of a COPY: its rows are copied, or the run is red.              *)
LEMMA BatchInvOnEndCopy == ASSUME BatchInv, EndCopy PROVE BatchInv'
  <1> DEFINE taken == {k \in Rows : \E i \in 1..Len(sent) : sent[i] = <<k, "end">>}
  <1>1. /\ status = "copy" /\ ~Short /\ Rest(reader) = <<>>
        /\ UNCHANGED <<job, types, unread, batch, hashes, reader, sent>>
        /\ \/ /\ DOMAIN copied' = taken \cup DOMAIN copied
              /\ status' = IF unread = {} THEN "green" ELSE "read"
           \/ status' = "red" /\ copied' = copied
    BY DEF EndCopy
  <1>2. JobInv /\ RowsInv /\ ReaderInv /\ HashIsOfTheRowAlone
    BY DEF BatchInv
  <1>3. taken = DOMAIN batch
    BY <1>1, AllIsSent
  <1> HIDE DEF taken
  <1>4. JobInv' /\ ReaderInv' /\ HashIsOfTheRowAlone'
    BY <1>1, <1>2 DEF JobInv, ReaderInv, HashIsOfTheRowAlone
  <1>5. /\ DOMAIN copied = (Rows \ unread) \ DOMAIN batch
        /\ DOMAIN batch \subseteq Rows \ unread
    BY <1>1, <1>2 DEF RowsInv
  <1>6. CASE /\ DOMAIN copied' = taken \cup DOMAIN copied
             /\ status' = IF unread = {} THEN "green" ELSE "read"
    <2>1. DOMAIN copied' = Rows \ unread
      BY <1>3, <1>5, <1>6
    <2>2. status' \in {"green", "read"} /\ (status' = "green" => unread = {})
      BY <1>6
    <2>3. RowsInv'
      BY <1>1, <1>2, <2>1, <2>2 DEF RowsInv
    <2>4. NothingLostInTheBuffer'
      BY <2>1, <2>2 DEF NothingLostInTheBuffer
    <2> QED
      BY <1>4, <2>3, <2>4 DEF BatchInv
  <1>7. CASE status' = "red" /\ copied' = copied
    <2>1. RowsInv'
      BY <1>1, <1>2, <1>7 DEF RowsInv
    <2>2. NothingLostInTheBuffer'
      BY <1>7 DEF NothingLostInTheBuffer
    <2> QED
      BY <1>4, <2>1, <2>2 DEF BatchInv
  <1> QED
    BY <1>1, <1>6, <1>7

(* The column to follow is settled.                                        *)
LEMMA BatchInvOnFollow == ASSUME BatchInv, Follow PROVE BatchInv'
  <1>1. /\ status = "idle" /\ status' = "followed"
        /\ UNCHANGED <<types, unread, batch, hashes, reader, sent, copied>>
    BY DEF Follow
  <1>2. JobInv /\ RowsInv /\ ReaderInv
    BY DEF BatchInv
  <1>3. job'.size \in BatchSizes /\ DOMAIN job'.source = Rows
    <2>1. IdleJob.size \in BatchSizes /\ DOMAIN IdleJob.source = Rows
      BY BatchAssumption DEF IdleJob, BatchAssumption
    <2>2. PICK i \in 1..Len(load.columns) :
             job' = [IdleJob EXCEPT
                !.hinted = load.names[i].word \in DateHints,
                !.existing = IF target = <<>> THEN "none" ELSE "some",
                !.method = IF load.method = "full" THEN "full" ELSE "slice"]
      BY DEF Follow
    <2>3. job'.size = IdleJob.size /\ job'.source = IdleJob.source
      BY <2>2 DEF IdleJob
    <2> QED
      BY <2>1, <2>3
  <1>4. JobInv'
    BY <1>1, <1>2, <1>3 DEF JobInv
  <1>5. RowsInv' /\ ReaderInv'
    BY <1>1, <1>2 DEF RowsInv, ReaderInv
  <1>6. HashIsOfTheRowAlone' /\ NothingLostInTheBuffer'
    <2>1. DOMAIN hashes' = {}
      BY <1>1, <1>2 DEF RowsInv
    <2> QED
      BY <1>1, <2>1 DEF HashIsOfTheRowAlone, NothingLostInTheBuffer
  <1> QED
    BY <1>4, <1>5, <1>6 DEF BatchInv

(* Its type and cells are known.                                           *)
LEMMA BatchInvOnReadColumn == ASSUME BatchInv, ReadColumn PROVE BatchInv'
  <1>1. /\ status = "followed" /\ status' = "read"
        /\ UNCHANGED <<types, unread, batch, hashes, reader, sent, copied>>
        /\ \E c \in Columns, s \in BatchSizes :
              \E cells \in [Rows -> CellsOf(c.kind)] : job' = Job(c, cells, s)
    BY DEF ReadColumn
  <1>2. JobInv /\ RowsInv /\ ReaderInv
    BY DEF BatchInv
  <1>3. job'.size \in BatchSizes /\ DOMAIN job'.source = Rows
    BY <1>1 DEF Job
  <1>4. JobInv'
    BY <1>1, <1>2, <1>3 DEF JobInv
  <1>5. RowsInv' /\ ReaderInv'
    BY <1>1, <1>2 DEF RowsInv, ReaderInv
  <1>6. HashIsOfTheRowAlone' /\ NothingLostInTheBuffer'
    <2>1. DOMAIN hashes' = {}
      BY <1>1, <1>2 DEF RowsInv
    <2> QED
      BY <1>1, <2>1 DEF HashIsOfTheRowAlone, NothingLostInTheBuffer
  <1> QED
    BY <1>4, <1>5, <1>6 DEF BatchInv

(* Before a column is followed.                                            *)
LEMMA BatchStarts == PrepInit => BatchInv
  <1> SUFFICES ASSUME Idle PROVE BatchInv
    BY DEF PrepInit
  <1>1. N \in Nat /\ Rows = 1..N
    BY RowsAre
  <1>2. JobInv
    <2>1. IdleJob.size \in BatchSizes /\ DOMAIN IdleJob.source = Rows
      BY BatchAssumption DEF IdleJob, BatchAssumption
    <2> QED
      BY <2>1 DEF Idle, JobInv
  <1>3. RowsInv
    <2>1. DOMAIN NoCells = {}
      BY DEF NoCells
    <2>2. \E u \in 1..(N + 1) : Rows = u..N
      BY <1>1
    <2> QED
      BY <2>1, <2>2 DEF Idle, RowsInv
  <1>4. ReaderInv
    <2>1. NoReader \in Readers /\ NoReader.buffer = <<>> /\ NoReader.offset = 0
      <3>1. NoReader = [df |-> {}, start |-> 0, buffer |-> <<>>, offset |-> 0,
                        exhausted |-> FALSE, size |-> 1]
        BY DEF NoReader, NewReader
      <3>2. \A e \in BOOLEAN : [df |-> {}, start |-> 0, buffer |-> <<>>, offset |-> 0,
                                exhausted |-> e, size |-> 1] \in Readers
        BY SMT DEF Readers
      <3>3. FALSE \in BOOLEAN
        OBVIOUS
      <3>4. NoReader \in Readers
        BY Zenon, <3>1, <3>2, <3>3
      <3> QED
        BY <3>1, <3>4
    <2>2. <<>> \in Seq(Piece) /\ Len(<<>>) = 0
      OBVIOUS
    <2> QED
      BY <2>1, <2>2 DEF Idle, ReaderInv
  <1>5. HashIsOfTheRowAlone /\ NothingLostInTheBuffer
    BY DEF Idle, NoCells, HashIsOfTheRowAlone, NothingLostInTheBuffer
  <1> QED
    BY <1>2, <1>3, <1>4, <1>5 DEF BatchInv

(* What BatchTypeOK says of the state.                                     *)
LEMMA BatchInvTypes == ASSUME BatchInv PROVE BatchTypeOK
  <1>1. JobInv /\ RowsInv /\ ReaderInv
    BY DEF BatchInv
  <1>2. unread \subseteq Rows
    <2>1. PICK u \in 1..(N + 1) : unread = u..N
      BY <1>1 DEF RowsInv
    <2> QED
      BY <2>1, RowsAre
  <1>3. /\ reader.size \in ReadSizes \cup {1} /\ reader.exhausted \in BOOLEAN
        /\ reader.offset \in 0..Len(reader.buffer)
    <2>1. reader \in Readers /\ reader.offset <= Len(reader.buffer)
      BY <1>1 DEF ReaderInv
    <2>2. /\ reader.size \in ReadSizes \cup {1} /\ reader.exhausted \in BOOLEAN
          /\ reader.offset \in Nat /\ reader.buffer \in Seq(Piece)
      BY <2>1, ReaderFields
    <2> QED
      BY <2>1, <2>2
  <1> QED
    BY <1>1, <1>2, <1>3 DEF BatchTypeOK, JobInv, RowsInv

(* What ColumnsTypeOK says of the state.                                   *)
LEMMA ColumnsInvTypes == ASSUME ColumnsInv PROVE ColumnsTypeOK
  <1>1. TableInv /\ LoadInv
    BY DEF ColumnsInv
  <1>2. CASE stage \in {"idle", "refused"}
    <2>1. load.method = "none" /\ load.columns = <<>> /\ load.names = <<>>
      BY <1>1, <1>2 DEF LoadInv
    <2> QED
      BY <1>1, <2>1 DEF ColumnsTypeOK, TableInv
  <1>3. CASE stage \notin {"idle", "refused"}
    <2>1. RunIsWhole
      BY <1>1, <1>3 DEF TableInv, LoadInv
    <2>2. Len(load.names) >= Len(load.columns) /\ load.method \in {"full", "incremental"}
      BY <2>1, NamesAre DEF RunIsWhole
    <2> QED
      BY <1>1, <2>2 DEF ColumnsTypeOK, TableInv
  <1> QED
    BY <1>2, <1>3

(* Through the preparation of every column, whatever the sizes of batches, *)
(* chunks and reads: the invariant of the batches.                         *)
THEOREM BatchesAreKept == PrepSpec => []BatchInv
  <1>1. PrepInit => BatchInv
    BY BatchStarts
  <1>2. BatchInv /\ [PrepNext]_colAndVars => BatchInv'
    <2> SUFFICES ASSUME BatchInv, [PrepNext]_colAndVars PROVE BatchInv'
      OBVIOUS
    <2>1. CASE Follow
      BY <2>1, BatchInvOnFollow
    <2>2. CASE ReadColumn
      BY <2>2, BatchInvOnReadColumn
    <2>3. CASE PrepareBatch
      BY <2>3, BatchInvOnPrepare
    <2>4. CASE Fill
      BY <2>4, BatchInvOnFill
    <2>5. CASE Read
      BY <2>5, BatchInvOnRead
    <2>6. CASE EndCopy
      BY <2>6, BatchInvOnEndCopy
    <2>7. CASE UNCHANGED batchVars
      BY <2>7 DEF batchVars, BatchInv, JobInv, RowsInv, ReaderInv, HashIsOfTheRowAlone,
                  NothingLostInTheBuffer, Rest, Unserialised
    <2> QED
      BY <2>1, <2>2, <2>3, <2>4, <2>5, <2>6, <2>7
         DEF PrepNext, BatchNext, Done, colAndVars
  <1> QED
    BY <1>1, <1>2, PTL DEF PrepSpec

(* PostgreSQL is sent every piece of every batch once and in order, and a  *)
(* green run has copied every row of the source.                           *)
THEOREM BufferLosesNothing == PrepSpec => []BufferInv
  <1>1. BatchInv /\ ColumnsInv => BufferInv
    BY BatchInvTypes, ColumnsInvTypes DEF BufferInv, BatchInv
  <1> QED
    BY <1>1, BatchesAreKept, ColumnsAreKept, PTL

(* The row hash of a value other than a number is that of the value the    *)
(* driver returned, in whatever batch and beside whatever values.          *)
THEOREM HashesAreOfTheRow == PrepSpec => []HashIsOfTheRowAlone
  <1>1. BatchInv => HashIsOfTheRowAlone
    BY DEF BatchInv
  <1> QED
    BY <1>1, BatchesAreKept, PTL

-----------------------------------------------------------------------------
(* The values.                                                             *)

(* What pandas makes of the rows S of the source, and what of them COPY is *)
(* given in one batch.                                                     *)
Inferred(S) == AsPandasInfers([k \in S |-> job.source[k]])

Field(S, k) == CsvField(Exported(job, Inferred(S), types)[k])

Precise(S) == job.strict => PrecisionHolds(Checked(job, Inferred(S), types), types)

First == {k \in Rows : k < 1 + job.size}

(* The type is settled by the first batch of a full load, or by the target *)
(* and the type map.                                                       *)
TypeInv ==
    /\ types = "none" => unread = Rows
    /\ types # "none" =>
          types = IF job.method = "full" THEN PromoteTypes(job.kind, Inferred(First))
                  ELSE LoadPgSchema(Declared(job.kind), job.existing)

(* Whatever batch a row was in, it has been coerced there, with its        *)
(* company, and accepted; a red run has a batch that was not.              *)
Arrived(k) ==
    \E S \in SUBSET Rows : /\ k \in S /\ Precise(S)
                           /\ Accepts(TargetType, Field(S, k))
                           /\ copied[k] = Stored(TargetType, Field(S, k))

ValueInv ==
    /\ TypeInv
    /\ status = "copy" =>
          /\ types # "none" /\ Precise(DOMAIN batch)
          /\ batch = Exported(job, Inferred(DOMAIN batch), types)
    /\ \A k \in DOMAIN copied : types # "none" /\ Arrived(k)
    /\ status = "red" =>
          /\ types # "none"
          /\ \E S \in SUBSET Rows :
                \/ ~Precise(S)
                \/ \E k \in S : ~Accepts(TargetType, Field(S, k))

(* Nothing of what a row was coerced with changes.                         *)
LEMMA StillArrived ==
    ASSUME UNCHANGED <<job, types>>, NEW k, copied'[k] = copied[k]
    PROVE Arrived(k)' <=> Arrived(k)
  <1>1. \A S, x : /\ Precise(S)' <=> Precise(S)
                  /\ Field(S, x)' = Field(S, x)
                  /\ TargetType' = TargetType
    BY DEF Precise, Field, Inferred, TargetType
  <1> QED
    BY <1>1 DEF Arrived

(* Copying changes nothing either.                                         *)
LEMMA ValueInvOnCopy ==
    ASSUME ValueInv, UNCHANGED <<job, types, unread, batch, copied, status>>
    PROVE ValueInv'
  <1>1. \A S, x : /\ Precise(S)' <=> Precise(S)
                  /\ Field(S, x)' = Field(S, x)
                  /\ TargetType' = TargetType
                  /\ Inferred(S)' = Inferred(S)
    BY DEF Precise, Field, Inferred, TargetType
  <1>2. First' = First
    BY DEF First
  <1>3. TypeInv'
    BY <1>1, <1>2 DEF ValueInv, TypeInv
  <1>4. \A k \in DOMAIN copied' : types' # "none" /\ Arrived(k)'
    BY StillArrived DEF ValueInv
  <1> QED
    BY <1>1, <1>3, <1>4 DEF ValueInv

(* Before a column is followed there is nothing to be said of.             *)
LEMMA ValueInvBefore ==
    ASSUME types = "none", unread = Rows, DOMAIN copied = {}, status \notin {"copy", "red"}
    PROVE ValueInv
  BY DEF ValueInv, TypeInv

(* The first batch settles the type; each is coerced to it.                *)
LEMMA ValueInvOnPrepare == ASSUME BatchInv, ValueInv, PrepareBatch PROVE ValueInv'
  <1> DEFINE taken == NextRows(unread, job.size)
             col == Inferred(taken)
             type == IF types # "none" THEN types
                     ELSE IF job.method = "full" THEN PromoteTypes(job.kind, col)
                     ELSE LoadPgSchema(Declared(job.kind), job.existing)
  <1>1. /\ status = "read" /\ unread # {} /\ types' = type /\ unread' = unread \ taken
        /\ job' = job /\ copied' = copied
        /\ \/ /\ status' = "red" /\ job.strict
              /\ ~PrecisionHolds(Checked(job, col, type), type)
           \/ /\ status' = "copy" /\ batch' = Exported(job, col, type)
              /\ ~(job.strict /\ ~PrecisionHolds(Checked(job, col, type), type))
    BY DEF PrepareBatch, Inferred
  <1>2. job.kind \in Kinds /\ job.size \in Nat \ {0} /\ types \in Types \cup {"none"}
    BY <1>1, JobFacts DEF BatchInv, JobInv
  <1>3. DOMAIN copied = Rows \ unread /\ unread \subseteq Rows
    <2>1. DOMAIN copied = Rows \ unread
      BY <1>1 DEF BatchInv, RowsInv
    <2>2. PICK u \in 1..(N + 1) : unread = u..N
      BY DEF BatchInv, RowsInv
    <2> QED
      BY <2>1, <2>2, RowsAre
  <1>4. taken \subseteq Rows
    BY <1>3 DEF NextRows
  <1>5. DOMAIN col = taken
    <2>1. DOMAIN [k \in taken |-> job.source[k]] = taken
      OBVIOUS
    <2> QED
      BY <2>1, InferredDomain DEF Inferred
  <1>6. type # "none"
    <2>1. /\ PromoteTypes(job.kind, col) \in Types
          /\ LoadPgSchema(Declared(job.kind), job.existing) \in Types
      BY <1>2, TypeIsOne
    <2> HIDE DEF col
    <2> QED
      BY <2>1 DEF Types
  <1>7. unread = Rows => taken = First
    <2> HAVE unread = Rows
    <2>1. N \in Nat /\ Rows = 1..N /\ 1 <= N
      BY <1>1, RowsAre
    <2>2. MinOf(Rows) = 1
      BY <2>1, MinOfInterval
    <2> QED
      BY <2>2 DEF NextRows, First
  <1> HIDE DEF taken, col, type
  <1>8. \A S : Inferred(S)' = Inferred(S)
    BY <1>1 DEF Inferred
  <1>13. PICK R \in SUBSET Rows : R = taken /\ col = Inferred(R)
    BY <1>4 DEF col
  <1>9. TypeInv'
    <2>1. First' = First
      BY <1>1 DEF First
    <2>2. CASE types # "none"
      <3>1. types' = types
        BY <1>1, <2>2 DEF type
      <3> QED
        BY <1>1, <1>8, <2>1, <2>2, <3>1 DEF ValueInv, TypeInv
    <2>3. CASE types = "none"
      <3>1. col = Inferred(First)
        BY <1>7, <2>3 DEF ValueInv, TypeInv, col
      <3>2. types' = IF job.method = "full" THEN PromoteTypes(job.kind, Inferred(First))
                     ELSE LoadPgSchema(Declared(job.kind), job.existing)
        BY <1>1, <2>3, <3>1 DEF type
      <3> QED
        BY <1>1, <1>6, <1>8, <2>1, <3>2 DEF TypeInv
    <2> QED
      BY <2>2, <2>3
  <1>10. \A k \in DOMAIN copied' : types' # "none" /\ Arrived(k)'
    <2>1. CASE types # "none"
      <3>1. types' = types
        BY <1>1, <2>1 DEF type
      <3> QED
        BY <1>1, <2>1, <3>1, StillArrived DEF ValueInv
    <2>2. CASE types = "none"
      <3>1. DOMAIN copied' = {}
        BY <1>1, <1>3, <2>2 DEF ValueInv, TypeInv
      <3> QED
        BY <3>1
    <2> QED
      BY <2>1, <2>2
  <1>11. CASE status' = "red" /\ job.strict /\ ~PrecisionHolds(Checked(job, col, type), type)
    <2>1. ~Precise(R)'
      BY <1>1, <1>8, <1>11, <1>13 DEF Precise
    <2> QED
      BY <1>1, <1>6, <1>9, <1>10, <1>11, <2>1 DEF ValueInv
  <1>12. CASE /\ status' = "copy" /\ batch' = Exported(job, col, type)
              /\ ~(job.strict /\ ~PrecisionHolds(Checked(job, col, type), type))
    <2>1. DOMAIN batch' = R
      BY <1>5, <1>12, <1>13, PreparedDomain
    <2>2. Precise(R)'
      BY <1>1, <1>8, <1>12, <1>13 DEF Precise
    <2>3. batch' = Exported(job', Inferred(R)', types')
      BY <1>1, <1>8, <1>12, <1>13
    <2> QED
      BY <1>1, <1>6, <1>9, <1>10, <1>12, <2>1, <2>2, <2>3 DEF ValueInv
  <1> QED
    BY <1>1, <1>11, <1>12

(* What is accepted is what the batch was coerced to.                      *)
LEMMA ValueInvOnEndCopy == ASSUME BatchInv, ValueInv, EndCopy PROVE ValueInv'
  <1> DEFINE D == DOMAIN batch
             taken == {k \in Rows : \E i \in 1..Len(sent) : sent[i] = <<k, "end">>}
             fields == [k \in taken |-> CsvField(batch[k])]
  <1>1. /\ status = "copy" /\ ~Short /\ Rest(reader) = <<>>
        /\ UNCHANGED <<job, types, unread, batch>>
        /\ \/ /\ \A k \in taken : Accepts(TargetType, fields[k])
              /\ copied' = [k \in taken \cup DOMAIN copied |->
                              IF k \in taken THEN Stored(TargetType, fields[k])
                              ELSE copied[k]]
              /\ status' = IF unread = {} THEN "green" ELSE "read"
           \/ /\ ~\A k \in taken : Accepts(TargetType, fields[k])
              /\ status' = "red" /\ copied' = copied
    BY DEF EndCopy
  <1>2. taken = D
    BY <1>1, AllIsSent
  <1>3. D \in SUBSET Rows
    BY DEF BatchInv, RowsInv
  <1>4. /\ types # "none" /\ Precise(D) /\ \A k \in DOMAIN copied : Arrived(k)
        /\ \A k \in D : Field(D, k) = CsvField(batch[k])
    BY <1>1 DEF ValueInv, Field
  <1>5. \A k \in D : fields[k] = Field(D, k)
    BY <1>2, <1>4
  <1> HIDE DEF D, taken, fields
  <1>6. /\ \A S, x : /\ Precise(S)' <=> Precise(S)
                     /\ Field(S, x)' = Field(S, x)
                     /\ Inferred(S)' = Inferred(S)
        /\ TargetType' = TargetType /\ First' = First
    BY <1>1 DEF Precise, Field, Inferred, TargetType, First
  <1>7. TypeInv'
    BY <1>1, <1>6 DEF ValueInv, TypeInv
  <1>8. CASE /\ \A k \in taken : Accepts(TargetType, fields[k])
             /\ copied' = [k \in taken \cup DOMAIN copied |->
                             IF k \in taken THEN Stored(TargetType, fields[k])
                             ELSE copied[k]]
             /\ status' = IF unread = {} THEN "green" ELSE "read"
    <2>1. ASSUME NEW k \in DOMAIN copied' PROVE Arrived(k)'
      <3>1. CASE k \in D
        <4>1. copied'[k] = Stored(TargetType, Field(D, k))
          BY <1>2, <1>5, <1>8, <3>1
        <4>2. Accepts(TargetType, Field(D, k))
          BY <1>2, <1>5, <1>8, <3>1
        <4> QED
          BY <1>3, <1>4, <1>6, <3>1, <4>1, <4>2 DEF Arrived
      <3>2. CASE k \notin D
        <4>1. k \in DOMAIN copied /\ copied'[k] = copied[k]
          BY <1>2, <1>8, <2>1, <3>2
        <4> QED
          BY <1>1, <1>4, <4>1, StillArrived
      <3> QED
        BY <3>1, <3>2
    <2> QED
      BY <1>1, <1>4, <1>7, <1>8, <2>1 DEF ValueInv
  <1>9. CASE /\ ~\A k \in taken : Accepts(TargetType, fields[k])
             /\ status' = "red" /\ copied' = copied
    <2>1. \E k \in D : ~Accepts(TargetType, Field(D, k))
      BY <1>2, <1>5, <1>9
    <2>2. \A k \in DOMAIN copied' : Arrived(k)'
      BY <1>1, <1>4, <1>9, StillArrived
    <2> QED
      BY <1>1, <1>3, <1>4, <1>6, <1>7, <1>9, <2>1, <2>2 DEF ValueInv
  <1> QED
    BY <1>1, <1>8, <1>9

(* Through the preparation of every column: how each value came to be.     *)
THEOREM ValuesAreKept == PrepSpec => []ValueInv
  <1>1. BatchInv /\ status \in {"idle", "followed"} =>
           types = "none" /\ unread = Rows /\ DOMAIN copied = {}
    BY DEF BatchInv, JobInv, RowsInv
  <1>2. PrepInit => ValueInv
    <2> SUFFICES ASSUME PrepInit PROVE ValueInv
      OBVIOUS
    <2>1. BatchInv /\ status = "idle"
      BY BatchStarts DEF PrepInit, Idle
    <2> QED
      BY <1>1, <2>1, ValueInvBefore
  <1>3. BatchInv /\ ValueInv /\ [PrepNext]_colAndVars => ValueInv'
    <2> SUFFICES ASSUME BatchInv, ValueInv, [PrepNext]_colAndVars PROVE ValueInv'
      OBVIOUS
    <2>1. CASE status \in {"idle", "followed"} /\ status' \in {"followed", "read"}
               /\ UNCHANGED <<types, unread, copied>>
      <3>1. ValueInv' <=> ValueInv'
        OBVIOUS
      <3>2. types' = "none" /\ unread' = Rows /\ DOMAIN copied' = {}
        BY <1>1, <2>1
      <3> QED
        BY <2>1, <3>2 DEF ValueInv, TypeInv
    <2>2. CASE Follow \/ ReadColumn
      BY <2>1, <2>2 DEF Follow, ReadColumn
    <2>3. CASE PrepareBatch
      BY <2>3, ValueInvOnPrepare
    <2>4. CASE Fill \/ Read
      BY <2>4, ValueInvOnCopy DEF Fill, Read
    <2>5. CASE EndCopy
      BY <2>5, ValueInvOnEndCopy
    <2>6. CASE UNCHANGED batchVars
      BY <2>6, ValueInvOnCopy DEF batchVars
    <2> QED
      BY <2>2, <2>3, <2>4, <2>5, <2>6 DEF PrepNext, BatchNext, Done, colAndVars
  <1> QED
    BY <1>2, <1>3, BatchesAreKept, PTL DEF PrepSpec

(* The settings of a followed column.                                      *)
LEMMA JobSettings ==
    ASSUME JobInv, status \notin {"idle", "followed"}
    PROVE /\ job.method \in {"full", "slice"}
          /\ job.existing \in {"none"} \cup TypesFor(job.kind)
          /\ job.existing = "none" => job.method = "full"
  <1>1. PICK c \in Columns, s \in BatchSizes :
           \E cells \in [Rows -> CellsOf(c.kind)] : job = Job(c, cells, s)
    BY DEF JobInv
  <1>2. PICK cells \in [Rows -> CellsOf(c.kind)] : job = Job(c, cells, s)
    BY <1>1
  <1>3. job.kind = c.kind /\ job.method = c.method /\ job.existing = c.existing
    BY <1>2 DEF Job
  <1>4. /\ c.method \in {"full", "slice"}
        /\ c.existing \in {"none"} \cup TypesFor(c.kind)
        /\ c.existing = "none" => c.method = "full"
    BY ColumnAssumption DEF ColumnAssumption
  <1> QED
    BY <1>3, <1>4

(* The types a column of each kind is loaded as and stored in.             *)
LEMMA SettledTypes ==
    ASSUME BatchInv, ValueInv, types # "none", status \notin {"idle", "followed"}
    PROVE /\ job.kind \in {"varchar", "octets"} => types = "TEXT" /\ TargetType = "TEXT"
          /\ job.kind = "enum" => types \in {"TEXT", "BOOLEAN"} /\ TargetType \in {"TEXT", "BOOLEAN"}
          /\ job.kind \in {"clock", "span"} => types = "TIME" /\ TargetType \in {"TIME", "TEXT"}
          /\ job.kind = "date" => types = "TIMESTAMP" /\ TargetType \in {"TIMESTAMP", "TEXT"}
          /\ job.kind = "int" => types \in IntegerTypes /\ TargetType \in IntegerTypes
  <1>1. /\ job.kind \in Kinds /\ job.method \in {"full", "slice"}
        /\ job.existing \in {"none"} \cup TypesFor(job.kind)
        /\ job.existing = "none" => job.method = "full"
    BY JobFacts, JobSettings DEF BatchInv
  <1>2. types = IF job.method = "full" THEN PromoteTypes(job.kind, Inferred(First))
                ELSE LoadPgSchema(Declared(job.kind), job.existing)
    BY DEF ValueInv, TypeInv
  <1> DEFINE d == Declared(job.kind)
             e == job.existing
  <1>3. CASE job.kind \in {"varchar", "octets"}
    <2>1. d = "TEXT" /\ TypesFor(job.kind) = {"TEXT"}
      BY <1>3 DEF Declared, TypesFor
    <2>2. PromoteTypes(job.kind, Inferred(First)) = d
      BY <1>3 DEF PromoteTypes
    <2> QED
      BY <1>1, <1>2, <1>3, <2>1, <2>2 DEF LoadPgSchema, TargetType
  <1>4. CASE job.kind = "enum"
    <2>1. d = "TEXT" /\ TypesFor(job.kind) = {"TEXT", "BOOLEAN"}
      BY <1>4 DEF Declared, TypesFor
    <2>2. PromoteTypes(job.kind, Inferred(First)) \in {d, "BOOLEAN"}
      BY <1>4 DEF PromoteTypes
    <2> QED
      BY <1>1, <1>2, <1>4, <2>1, <2>2 DEF LoadPgSchema, TargetType
  <1>5. CASE job.kind \in {"clock", "span"}
    <2>1. d = "TIME" /\ TypesFor(job.kind) = {"TIME", "TEXT"}
      BY <1>5 DEF Declared, TypesFor
    <2>2. PromoteTypes(job.kind, Inferred(First)) = d
      BY <1>5 DEF PromoteTypes
    <2> QED
      BY <1>1, <1>2, <1>5, <2>1, <2>2 DEF LoadPgSchema, TargetType
  <1>6. CASE job.kind = "date"
    <2>1. d = "TIMESTAMP" /\ TypesFor(job.kind) = {"TIMESTAMP", "TEXT"}
      BY <1>6 DEF Declared, TypesFor
    <2>2. PromoteTypes(job.kind, Inferred(First)) = d
      BY <1>6 DEF PromoteTypes
    <2> QED
      BY <1>1, <1>2, <1>6, <2>1, <2>2 DEF LoadPgSchema, TargetType
  <1>7. CASE job.kind = "int"
    <2>1. d = "INTEGER" /\ TypesFor(job.kind) = {"INTEGER", "BIGINT"}
      BY <1>7 DEF Declared, TypesFor
    <2>2. PromoteTypes(job.kind, Inferred(First)) \in {d, "BIGINT"}
      BY <1>7 DEF PromoteTypes
    <2> QED
      BY <1>1, <1>2, <1>7, <2>1, <2>2 DEF LoadPgSchema, TargetType, IntegerTypes
  <1> QED
    BY <1>1, <1>3, <1>4, <1>5, <1>6, <1>7

(* The same column, row by row; and one without numbers.                   *)
Same(c, d) == DOMAIN c = DOMAIN d /\ \A k \in DOMAIN d : c[k] = d[k]

NoNumbers(c) == \A k \in DOMAIN c : ~IsNumber(c[k])

(* A column without numbers stays as it is.                                *)
LEMMA InferredSame ==
    ASSUME NEW c, NoNumbers(c)
    PROVE Same(AsPandasInfers(c), c) /\ NoNumbers(AsPandasInfers(c))
  <1>1. DOMAIN AsPandasInfers(c) = DOMAIN c
    BY InferredDomain
  <1>2. \A k \in DOMAIN c : AsPandasInfers(c)[k] = c[k]
    BY DEF NoNumbers, AsPandasInfers
  <1> QED
    BY <1>1, <1>2 DEF Same, NoNumbers

(* The dtype is inferred again, and it stays as it is again.               *)
LEMMA ReplacedSame ==
    ASSUME NEW c, NoNumbers(c)
    PROVE Same(ReplacePdnaWithNone(c), c) /\ NoNumbers(ReplacePdnaWithNone(c))
  BY InferredSame DEF ReplacePdnaWithNone

(* Bytes are decoded, a memoryview first read; neither gives a number.     *)
LEMMA DecodedIs ==
    ASSUME NEW c, NEW type, type # "BYTEA", NoNumbers(c)
    PROVE /\ DOMAIN Decoded(c, type) = DOMAIN c
          /\ \A k \in DOMAIN c : Decoded(c, type)[k] = DecodeValue(NormalizeMemoryview(c[k]))
          /\ NoNumbers(Decoded(c, type))
  <1>1. /\ DOMAIN Decoded(c, type) = DOMAIN c
        /\ \A k \in DOMAIN c : Decoded(c, type)[k] = DecodeValue(NormalizeMemoryview(c[k]))
    BY DEF Decoded, Normalized, Map
  <1>2. \A x : ~IsNumber(x) => ~IsNumber(DecodeValue(NormalizeMemoryview(x)))
    <2> TAKE x
    <2> HAVE ~IsNumber(x)
    <2> DEFINE y == NormalizeMemoryview(x)
    <2>1. ~IsNumber(y)
      BY DEF NormalizeMemoryview, IsNumber, Bytes
    <2> HIDE DEF y
    <2>2. ~IsNumber(DecodeValue(y))
      BY <2>1 DEF DecodeValue, IsNumber, Letters, Digits
    <2> QED
      BY <2>2 DEF y
  <1>3. NoNumbers(Decoded(c, type))
    BY <1>1, <1>2 DEF NoNumbers
  <1> QED
    BY <1>1, <1>3

(* A text column that is taken for nothing else.                           *)
LEMMA TextConverted ==
    ASSUME NEW j, NEW c, NEW type \in {"TEXT", "BOOLEAN"}, NoNumbers(c),
           ~TakenForDates(j), j.kind \notin {"clock", "span"}
    PROVE LET f == ReplacePdnaWithNone(Converted(j, c, type))
          IN  /\ DOMAIN f = DOMAIN c
              /\ \A k \in DOMAIN c : f[k] = DecodeValue(NormalizeMemoryview(c[k]))
  <1> DEFINE d == Decoded(c, type)
             r == ReplacePdnaWithNone(d)
             s == ReplacePdnaWithNone(r)
             f == ReplacePdnaWithNone(s)
  <1>1. /\ DOMAIN d = DOMAIN c /\ NoNumbers(d)
        /\ \A k \in DOMAIN c : d[k] = DecodeValue(NormalizeMemoryview(c[k]))
    BY DecodedIs
  <1> HIDE DEF d
  <1>2. Same(r, d) /\ NoNumbers(r)
    BY <1>1, ReplacedSame
  <1> HIDE DEF r
  <1>3. Same(s, r) /\ NoNumbers(s)
    BY <1>2, ReplacedSame
  <1> HIDE DEF s
  <1>4. Same(f, s)
    BY <1>3, ReplacedSame
  <1>5. Converted(j, c, type) = s
    <2>1. Dated(j, r) = r
      BY DEF Dated
    <2>2. ~Timed(j, type) /\ type \notin IntegerTypes
      BY DEF Timed, IntegerTypes
    <2>3. Converted(j, c, type)
             = ConvertIntegerColumns(ConvertTimeColumns(
                  ReplacePdnaWithNone(Dated(j, r)), Timed(j, type)), type)
      BY DEF Converted, r, d
    <2> QED
      BY <2>1, <2>2, <2>3 DEF s, ConvertIntegerColumns, ConvertTimeColumns
  <1> HIDE DEF f
  <1>6. DOMAIN f = DOMAIN c /\ \A k \in DOMAIN c : f[k] = DecodeValue(NormalizeMemoryview(c[k]))
    BY <1>1, <1>2, <1>3, <1>4 DEF Same
  <1> QED
    BY <1>5, <1>6 DEF f

(* What is exported of it, cell by cell.                                   *)
LEMMA TextExported ==
    ASSUME NEW j, NEW c, NEW type \in {"TEXT", "BOOLEAN"}, NoNumbers(c),
           ~TakenForDates(j), j.kind \notin {"clock", "span"}, NEW k \in DOMAIN c
    PROVE Exported(j, c, type)[k] =
             IF type = "BOOLEAN" THEN ToBool(DecodeValue(NormalizeMemoryview(c[k])))
             ELSE ToStr(DecodeValue(NormalizeMemoryview(c[k])))
  <1> DEFINE f == ReplacePdnaWithNone(Converted(j, c, type))
  <1>1. DOMAIN f = DOMAIN c /\ f[k] = DecodeValue(NormalizeMemoryview(c[k]))
    BY TextConverted
  <1>2. Exported(j, c, type) = FixColumnValues(f, type)
    BY DEF Exported, IntegerTypes
  <1> HIDE DEF f
  <1>3. FixColumnValues(f, type) = IF type = "BOOLEAN" THEN Map(f, ToBool) ELSE Map(f, ToStr)
    BY DEF FixColumnValues, IntegerTypes
  <1>4. Map(f, ToBool)[k] = ToBool(f[k]) /\ Map(f, ToStr)[k] = ToStr(f[k])
    BY <1>1 DEF Map
  <1> QED
    BY <1>1, <1>2, <1>3, <1>4

(* The cells of a column that is not of numbers, in any batch.             *)
LEMMA SourceFacts ==
    ASSUME BatchInv, status \notin {"idle", "followed"}, job.kind # "int",
           NEW S \in SUBSET Rows
    PROVE /\ DOMAIN Inferred(S) = S /\ NoNumbers(Inferred(S))
          /\ \A k \in S : Inferred(S)[k] = job.source[k] /\ IsCellOf(job.kind, job.source[k])
  <1> DEFINE c == [k \in S |-> job.source[k]]
  <1>1. \A k \in Rows : IsCellOf(job.kind, job.source[k]) /\ ~IsNumber(job.source[k])
    BY JobFacts, NoNumber DEF BatchInv
  <1>2. DOMAIN c = S /\ \A k \in S : c[k] = job.source[k]
    OBVIOUS
  <1>3. Inferred(S) = AsPandasInfers(c)
    BY DEF Inferred
  <1> HIDE DEF c
  <1>4. NoNumbers(c)
    BY <1>1, <1>2 DEF NoNumbers
  <1>5. Same(Inferred(S), c) /\ NoNumbers(Inferred(S))
    BY <1>3, <1>4, InferredSame
  <1> QED
    BY <1>1, <1>2, <1>5 DEF Same

(* How a value of a green run has got to where it is.                      *)
LEMMA HasArrived ==
    ASSUME BatchInv, ValueInv, status = "green", NEW k \in Rows
    PROVE types # "none" /\ Arrived(k)
  BY DEF BatchInv, RowsInv, ValueInv

(* What a column of texts holds, once decoded.                             *)
LEMMA DecodedText ==
    ASSUME NEW kind \in {"enum", "varchar", "octets"}, NEW c, IsCellOf(kind, c)
    PROVE LET d == DecodeValue(NormalizeMemoryview(c))
          IN  /\ d = DecodeValue(c)
              /\ \/ d = Null
                 \/ /\ d.as \in {"text", "letters", "written"}
                    /\ d = [as |-> d.as, n |-> d.n]
              /\ kind = "enum" => d = c /\ d.as # "written"
  <1>1. CASE c = Null
    BY <1>1 DEF Null, NormalizeMemoryview, DecodeValue
  <1>2. CASE c # Null
    <2>1. /\ c = [as |-> c.as, n |-> c.n] /\ c.as \in Forms(kind)
      BY <1>2 DEF IsCellOf
    <2>2. /\ c.as \in {"text", "letters", "written", "bytes"}
          /\ kind = "enum" => c.as \in {"text", "letters"}
      BY <2>1 DEF Forms
    <2>3. NormalizeMemoryview(c) = c
      BY <2>2 DEF NormalizeMemoryview
    <2>4. CASE c.as = "bytes"
      BY <2>2, <2>3, <2>4 DEF DecodeValue, Letters, Digits
    <2>5. CASE c.as # "bytes"
      <3>1. DecodeValue(c) = c
        BY <2>5 DEF DecodeValue
      <3> QED
        BY <2>1, <2>2, <2>3, <2>5, <3>1
    <2> QED
      BY <2>4, <2>5
  <1> QED
    BY <1>1, <1>2

(* The promotion to BOOLEAN has seen every text of the first batch.        *)
LEMMA PromotedTexts ==
    ASSUME BatchInv, ValueInv, status \notin {"idle", "followed"},
           job.kind = "enum", job.method = "full", types = "BOOLEAN",
           NEW k \in Rows, k <= job.size
    PROVE \/ job.source[k] = Null
          \/ job.source[k].as = "text" /\ job.source[k].n \in {0, 1}
  <1> DEFINE col == Inferred(First)
  <1>1. N \in Nat /\ Rows = 1..N /\ job.size \in Nat \ {0}
    BY RowsAre, JobFacts DEF BatchInv
  <1>2. First \in SUBSET Rows /\ k \in First
    BY <1>1 DEF First
  <1>3. /\ DOMAIN col = First /\ NoNumbers(col) /\ col[k] = job.source[k]
    BY <1>2, SourceFacts
  <1>4. types = PromoteTypes("enum", col)
    BY DEF ValueInv, TypeInv
  <1> HIDE DEF col
  <1>5. Values(col) = {0, 1}
    BY <1>4 DEF PromoteTypes, Declared
  <1>6. ~HasNonNumeric(col) /\ Values(col) = {col[i].n : i \in NonNull(col)}
    BY <1>5 DEF Values
  <1>7. CASE col[k] # Null
    <2>1. k \in NonNull(col)
      BY <1>2, <1>3, <1>7 DEF NonNull
    <2>2. NumericLike(col[k]) /\ col[k].n \in {0, 1}
      BY <1>5, <1>6, <2>1 DEF HasNonNumeric
    <2> QED
      BY <1>2, <1>3, <2>2 DEF NumericLike, NoNumbers
  <1> QED
    BY <1>3, <1>7

(* Texts reach their column.                                               *)
LEMMA TextsArrive == ASSUME BatchInv, ValueInv PROVE TextSurvives
  <1> SUFFICES ASSUME status = "green", job.kind \in {"enum", "varchar", "octets"},
                      ~TakenForDates(job), NEW k \in Rows
               PROVE \/ copied[k] = DecodeValue(job.source[k])
                     \/ /\ DecodeValue(job.source[k]).as = "text"
                        /\ copied[k] \in {Bool(DecodeValue(job.source[k]).n),
                                          Word(DecodeValue(job.source[k]).n)}
                     \/ types = "BOOLEAN" /\ (k > job.size \/ job.method = "slice")
    BY DEF TextSurvives
  <1>1. types # "none" /\ Arrived(k)
    BY HasArrived
  <1>2. PICK S \in SUBSET Rows : /\ k \in S /\ Accepts(TargetType, Field(S, k))
                                 /\ copied[k] = Stored(TargetType, Field(S, k))
    BY <1>1 DEF Arrived
  <1>3. /\ types \in {"TEXT", "BOOLEAN"} /\ TargetType \in {"TEXT", "BOOLEAN"}
        /\ types = "BOOLEAN" => job.kind = "enum"
    BY <1>1, SettledTypes
  <1>4. /\ DOMAIN Inferred(S) = S /\ NoNumbers(Inferred(S))
        /\ Inferred(S)[k] = job.source[k] /\ IsCellOf(job.kind, job.source[k])
    BY <1>2, SourceFacts
  <1> DEFINE d == DecodeValue(job.source[k])
  <1>5. /\ DecodeValue(NormalizeMemoryview(job.source[k])) = d
        /\ \/ d = Null
           \/ /\ d.as \in {"text", "letters", "written"}
              /\ d = [as |-> d.as, n |-> d.n]
        /\ job.kind = "enum" => d = job.source[k]
    BY <1>4, DecodedText
  <1>6. Field(S, k) = CsvField(IF types = "BOOLEAN" THEN ToBool(d) ELSE ToStr(d))
    BY <1>2, <1>3, <1>4, <1>5, TextExported DEF Field
  <1> HIDE DEF d
  <1>7. CASE types = "TEXT"
    <2>1. ToStr(d) = d /\ CsvField(d) = d
      BY <1>5 DEF ToStr, CsvField, IsNumber, Null
    <2>2. Field(S, k) = d
      BY <1>6, <1>7, <2>1
    <2>3. CASE TargetType = "TEXT" \/ d = Null
      <3>1. copied[k] = d
        BY <1>2, <2>2, <2>3 DEF Stored
      <3> QED
        BY <3>1 DEF d
    <2>4. CASE TargetType = "BOOLEAN" /\ d # Null
      <3>1. d.as = "text"
        BY <1>2, <1>5, <2>2, <2>4 DEF Accepts
      <3>2. copied[k] = Bool(d.n)
        BY <1>2, <2>2, <2>4 DEF Stored
      <3> QED
        BY <3>1, <3>2 DEF d
    <2> QED
      BY <1>3, <2>3, <2>4
  <1>8. CASE types = "BOOLEAN"
    <2>1. CASE d.as = "text" /\ d.n \in {0, 1}
      <3>1. Field(S, k) = Word(d.n)
        BY <1>6, <1>8, <2>1 DEF ToBool, IsNumber, CsvField, Bool, Word
      <3>2. copied[k] \in {Bool(d.n), Word(d.n)}
        BY <1>2, <3>1 DEF Stored, Word, Bool
      <3> QED
        BY <2>1, <3>2 DEF d
    <2>2. CASE d = Null
      <3>1. Field(S, k) = Null
        BY <1>6, <1>8, <2>2 DEF ToBool, IsNumber, CsvField, Null
      <3>2. copied[k] = Null
        BY <1>2, <3>1 DEF Stored
      <3> QED
        BY <2>2, <3>2 DEF d
    <2>3. CASE ~(d.as = "text" /\ d.n \in {0, 1}) /\ d # Null
      <3>1. job.kind = "enum" /\ d = job.source[k] /\ job.method \in {"full", "slice"}
        BY <1>3, <1>5, <1>8, JobSettings DEF BatchInv
      <3>2. ~(job.method = "full" /\ k <= job.size)
        BY <1>8, <2>3, <3>1, PromotedTexts
      <3>3. k \in Int /\ job.size \in Int
        BY RowsAre, JobFacts DEF BatchInv
      <3> QED
        BY <1>8, <3>1, <3>2, <3>3
    <2> QED
      BY <2>1, <2>2, <2>3
  <1> QED
    BY <1>3, <1>7, <1>8

(* A column of times, cell by cell.                                        *)
LEMMA TimeExported ==
    ASSUME NEW j, NEW c, j.kind \in {"clock", "span"}, ~TakenForDates(j),
           NoNumbers(c), \A k \in DOMAIN c : IsCellOf(j.kind, c[k]), NEW k \in DOMAIN c
    PROVE Exported(j, c, "TIME")[k] = ToTimeStr(c[k])
  <1> DEFINE d == Decoded(c, "TIME")
             r == ReplacePdnaWithNone(d)
             s == ReplacePdnaWithNone(r)
             t == ConvertTimeColumns(s, TRUE)
             f == ReplacePdnaWithNone(t)
  <1>1. /\ DOMAIN d = DOMAIN c /\ NoNumbers(d)
        /\ \A i \in DOMAIN c : d[i] = DecodeValue(NormalizeMemoryview(c[i]))
    BY DecodedIs
  <1> HIDE DEF d
  <1>2. Same(r, d) /\ NoNumbers(r)
    BY <1>1, ReplacedSame
  <1> HIDE DEF r
  <1>3. Same(s, r) /\ NoNumbers(s)
    BY <1>2, ReplacedSame
  <1> HIDE DEF s
  <1>4. DOMAIN t = DOMAIN s /\ \A i \in DOMAIN s : t[i] = ToTimeStr(s[i])
    BY DEF ConvertTimeColumns, Map
  <1> HIDE DEF t
  <1>5. \A x : ~IsNumber(ToTimeStr(x))
    <2> TAKE x
    <2> QED
      BY DEF ToTimeStr, IsNumber, HourText, Null
  <1>6. NoNumbers(t)
    BY <1>4, <1>5 DEF NoNumbers
  <1>7. Same(f, t)
    BY <1>6, ReplacedSame
  <1> HIDE DEF f
  <1>8. Exported(j, c, "TIME") = f
    <2>1. Dated(j, r) = r
      BY DEF Dated
    <2>2. Timed(j, "TIME") = TRUE
      BY DEF Timed
    <2>3. Converted(j, c, "TIME")
             = ConvertIntegerColumns(ConvertTimeColumns(
                  ReplacePdnaWithNone(Dated(j, r)), Timed(j, "TIME")), "TIME")
      BY DEF Converted, r, d
    <2>4. Converted(j, c, "TIME") = t
      BY <2>1, <2>2, <2>3 DEF s, t, ConvertIntegerColumns, IntegerTypes
    <2>5. Exported(j, c, "TIME") = FixColumnValues(f, "TIME")
      BY <2>4 DEF Exported, f, IntegerTypes
    <2> QED
      BY <2>5 DEF FixColumnValues, IntegerTypes
  <1>9. DecodeValue(NormalizeMemoryview(c[k])) = c[k]
    <2>1. c[k] = Null \/ c[k].as \in {"clock", "span"}
      <3>1. IsCellOf(j.kind, c[k])
        OBVIOUS
      <3> QED
        BY <3>1 DEF IsCellOf, Forms
    <2> QED
      BY <2>1 DEF DecodeValue, NormalizeMemoryview, Null
  <1>10. /\ d[k] = c[k] /\ r[k] = d[k] /\ s[k] = r[k] /\ f[k] = t[k] /\ t[k] = ToTimeStr(s[k])
    BY <1>1, <1>2, <1>3, <1>4, <1>7, <1>9 DEF Same
  <1> QED
    BY <1>8, <1>10

(* The time a cell is written as.                                          *)
LEMMA TimeWritten ==
    ASSUME NEW kind \in {"clock", "span"}, NEW c, IsCellOf(kind, c)
    PROVE /\ CsvField(ToTimeStr(c)) = IF c = Null THEN Null ELSE HourText(c.n)
          /\ c # Null => c.n \in {0, 1} /\ (c.n = 1 => c = Span(1))
  <1>1. CASE c = Null
    BY <1>1 DEF ToTimeStr, CsvField, Null
  <1>2. CASE c # Null
    <2>1. /\ c = [as |-> c.as, n |-> c.n] /\ c.as \in {"clock", "span"}
          /\ c.as = "clock" => c.n = 0
          /\ c.as = "span" => c.n \in {0, 1}
      BY <1>2 DEF IsCellOf, Forms
    <2> QED
      BY <1>2, <2>1 DEF ToTimeStr, CsvField, HourText, Span
  <1> QED
    BY <1>1, <1>2

(* Times reach their column, and what no clock shows ends the run.         *)
LEMMA TimesArrive == ASSUME BatchInv, ValueInv PROVE TimesSurvive
  <1> SUFFICES ASSUME job.kind \in {"clock", "span"}, ~TakenForDates(job)
               PROVE /\ status = "green" =>
                           \A k \in Rows :
                              copied[k] = IF job.source[k] = Null THEN Null
                                          ELSE HourText(job.source[k].n)
                     /\ status = "red" => Span(1) \in {job.source[k] : k \in Rows}
    BY DEF TimesSurvive
  <1>1. ASSUME NEW S \in SUBSET Rows, NEW k \in S, types # "none",
               status \notin {"idle", "followed"}
        PROVE /\ Field(S, k) = IF job.source[k] = Null THEN Null
                               ELSE HourText(job.source[k].n)
              /\ job.source[k] # Null =>
                    /\ job.source[k].n \in {0, 1}
                    /\ job.source[k].n = 1 => job.source[k] = Span(1)
              /\ types = "TIME" /\ TargetType \in {"TIME", "TEXT"}
    <2>1. types = "TIME" /\ TargetType \in {"TIME", "TEXT"}
      BY <1>1, SettledTypes
    <2>2. /\ DOMAIN Inferred(S) = S /\ NoNumbers(Inferred(S))
          /\ \A i \in S : /\ Inferred(S)[i] = job.source[i]
                          /\ IsCellOf(job.kind, job.source[i])
      BY <1>1, SourceFacts
    <2> DEFINE col == Inferred(S)
    <2>3. DOMAIN col = S /\ NoNumbers(col) /\ \A i \in DOMAIN col : IsCellOf(job.kind, col[i])
      BY <2>2
    <2> HIDE DEF col
    <2>4. Exported(job, col, "TIME")[k] = ToTimeStr(col[k])
      BY <1>1, <2>3, TimeExported
    <2>5. Field(S, k) = CsvField(ToTimeStr(job.source[k]))
      BY <2>1, <2>2, <2>4 DEF Field, col
    <2>6. IsCellOf(job.kind, job.source[k])
      BY <2>2
    <2> QED
      BY <2>1, <2>5, <2>6, TimeWritten
  <1>2. ASSUME status = "green", NEW k \in Rows
        PROVE copied[k] = IF job.source[k] = Null THEN Null ELSE HourText(job.source[k].n)
    <2>1. types # "none" /\ Arrived(k)
      BY <1>2, HasArrived
    <2>2. PICK S \in SUBSET Rows : k \in S /\ copied[k] = Stored(TargetType, Field(S, k))
      BY <2>1 DEF Arrived
    <2>3. /\ Field(S, k) = IF job.source[k] = Null THEN Null
                           ELSE HourText(job.source[k].n)
          /\ TargetType \in {"TIME", "TEXT"}
      BY <1>1, <1>2, <2>1, <2>2
    <2>4. Stored(TargetType, Field(S, k)) = Field(S, k)
      BY <2>3 DEF Stored
    <2> QED
      BY <2>2, <2>3, <2>4
  <1>3. ASSUME status = "red" PROVE Span(1) \in {job.source[k] : k \in Rows}
    <2>1. types # "none"
      BY <1>3 DEF ValueInv
    <2>2. types = "TIME"
      BY <1>3, <2>1, SettledTypes
    <2>3. \A S : Precise(S)
      BY <2>2 DEF Precise, PrecisionHolds, IntegerTypes
    <2>4. PICK S \in SUBSET Rows : \E k \in S : ~Accepts(TargetType, Field(S, k))
      BY <1>3, <2>3 DEF ValueInv
    <2>5. PICK k \in S : ~Accepts(TargetType, Field(S, k))
      BY <2>4
    <2>6. /\ Field(S, k) = IF job.source[k] = Null THEN Null
                           ELSE HourText(job.source[k].n)
          /\ job.source[k] # Null =>
                /\ job.source[k].n \in {0, 1}
                /\ job.source[k].n = 1 => job.source[k] = Span(1)
          /\ TargetType \in {"TIME", "TEXT"}
      BY <1>1, <1>3, <2>1
    <2>7. Field(S, k) # Null /\ Field(S, k) # HourText(0)
      BY <2>5, <2>6 DEF Accepts
    <2>8. job.source[k] = Span(1)
      BY <2>6, <2>7
    <2> QED
      BY <2>8
  <1> QED
    BY <1>2, <1>3

(* What fix_invalid_dates leaves of a cell of a date column: a date as it  *)
(* is, and nothing of what is none, on either of its ways.                 *)
LEMMA DatesFixed ==
    ASSUME NEW c, \A k \in DOMAIN c : IsCellOf("date", c[k])
    PROVE /\ DOMAIN FixInvalidDates(c) = DOMAIN c /\ NoNumbers(FixInvalidDates(c))
          /\ \A k \in DOMAIN c :
                /\ c[k].as \in {"moment", "written"} => FixInvalidDates(c)[k] = c[k]
                /\ c[k] \in {ZeroDate, Letters, Null} => FixInvalidDates(c)[k] = Null
  <1> DEFINE s == Map(c, StripSentinelDate)
  <1>1. DOMAIN s = DOMAIN c /\ \A k \in DOMAIN c : s[k] = StripSentinelDate(c[k])
    BY DEF Map
  <1>2. FixInvalidDates(c) = IF ZonesMixed(s) THEN Map(s, CleanInvalidDate)
                             ELSE [k \in DOMAIN c |->
                                     IF k \in AcceptedAsDates(s) THEN s[k] ELSE Null]
    BY DEF FixInvalidDates
  <1> HIDE DEF s
  <1>3. DOMAIN FixInvalidDates(c) = DOMAIN c
    BY <1>1, <1>2 DEF Map
  <1>4. ASSUME NEW k \in DOMAIN c
        PROVE /\ ~IsNumber(FixInvalidDates(c)[k])
              /\ c[k].as \in {"moment", "written"} => FixInvalidDates(c)[k] = c[k]
              /\ c[k] \in {ZeroDate, Letters, Null} => FixInvalidDates(c)[k] = Null
    <2>1. IsCellOf("date", c[k])
      BY <1>4
    <2>2. \/ c[k] = Null
          \/ c[k].as \in {"moment", "far", "written", "zero", "letters"}
      BY <2>1 DEF IsCellOf, Forms
    <2>3. /\ c[k].as \in {"moment", "written"} => s[k] = c[k]
          /\ c[k] \in {ZeroDate, Letters, Null} => s[k] \in {Null, Letters}
          /\ s[k] \in {Null, c[k]}
      BY <1>1, <1>4 DEF StripSentinelDate, ZeroDate, Letters, Null
    <2>4. CASE ZonesMixed(s)
      <3>1. FixInvalidDates(c)[k] = CleanInvalidDate(s[k])
        BY <1>1, <1>2, <1>4, <2>4 DEF Map
      <3> QED
        BY <2>2, <2>3, <3>1 DEF CleanInvalidDate, IsNumber, Letters, Null
    <2>5. CASE ~ZonesMixed(s)
      <3>1. FixInvalidDates(c)[k] = IF k \in AcceptedAsDates(s) THEN s[k] ELSE Null
        BY <1>2, <1>4, <2>5
      <3>2. /\ s[k].as \in {"moment", "written"} => k \in AcceptedAsDates(s)
            /\ s[k] \in {Null, Letters} => k \notin AcceptedAsDates(s)
        BY <1>1, <1>4 DEF AcceptedAsDates, IsNumber, Null, Letters
      <3>3. ~IsNumber(FixInvalidDates(c)[k])
        BY <2>2, <2>3, <3>1 DEF IsNumber, Null
      <3>4. c[k].as \in {"moment", "written"} => FixInvalidDates(c)[k] = c[k]
        BY <2>3, <3>1, <3>2
      <3>5. c[k] \in {ZeroDate, Letters, Null} => FixInvalidDates(c)[k] = Null
        BY <2>3, <3>1, <3>2
      <3> QED
        BY <3>3, <3>4, <3>5
    <2> QED
      BY <2>4, <2>5
  <1> QED
    BY <1>3, <1>4 DEF NoNumbers

(* A column of dates, cell by cell.                                        *)
LEMMA DateExported ==
    ASSUME NEW j, NEW c, j.kind = "date", NoNumbers(c),
           \A k \in DOMAIN c : IsCellOf("date", c[k]), NEW k \in DOMAIN c
    PROVE /\ c[k].as \in {"moment", "written"} =>
                Exported(j, c, "TIMESTAMP")[k] = Written(0)
          /\ c[k] \in {ZeroDate, Letters, Null} => Exported(j, c, "TIMESTAMP")[k] = Null
  <1> DEFINE d == Decoded(c, "TIMESTAMP")
             r == ReplacePdnaWithNone(d)
             g == FixInvalidDates(r)
             s == ReplacePdnaWithNone(g)
             f == ReplacePdnaWithNone(s)
             e == ToDatetimeStrSeries(f)
  <1>1. Exported(j, c, "TIMESTAMP") = e
    <2>1. Dated(j, r) = g
      BY DEF Dated, TakenForDates
    <2>2. Timed(j, "TIMESTAMP") = FALSE
      BY DEF Timed
    <2>3. Converted(j, c, "TIMESTAMP")
             = ConvertIntegerColumns(ConvertTimeColumns(
                  ReplacePdnaWithNone(Dated(j, r)), Timed(j, "TIMESTAMP")), "TIMESTAMP")
      BY DEF Converted, r, d
    <2>4. Converted(j, c, "TIMESTAMP") = s
      BY <2>1, <2>2, <2>3 DEF s, ConvertIntegerColumns, ConvertTimeColumns, IntegerTypes
    <2>5. Exported(j, c, "TIMESTAMP") = FixColumnValues(f, "TIMESTAMP")
      BY <2>4 DEF Exported, f, IntegerTypes
    <2> HIDE DEF f
    <2> QED
      BY <2>5 DEF FixColumnValues, IntegerTypes
  <1>2. /\ DOMAIN d = DOMAIN c /\ NoNumbers(d)
        /\ \A i \in DOMAIN c : d[i] = DecodeValue(NormalizeMemoryview(c[i]))
    BY DecodedIs
  <1> HIDE DEF d
  <1>3. Same(r, d) /\ NoNumbers(r)
    BY <1>2, ReplacedSame
  <1>4. \A i \in DOMAIN c : DecodeValue(NormalizeMemoryview(c[i])) = c[i]
    <2> TAKE i \in DOMAIN c
    <2>1. IsCellOf("date", c[i])
      OBVIOUS
    <2>2. c[i] = Null \/ c[i].as \in {"moment", "far", "written", "zero", "letters"}
      BY <2>1 DEF IsCellOf, Forms
    <2> QED
      BY <2>2 DEF DecodeValue, NormalizeMemoryview, Null
  <1> HIDE DEF r
  <1>5. DOMAIN r = DOMAIN c /\ \A i \in DOMAIN c : r[i] = c[i]
    BY <1>2, <1>3, <1>4 DEF Same
  <1>6. \A i \in DOMAIN r : IsCellOf("date", r[i])
    BY <1>5
  <1>7. /\ DOMAIN g = DOMAIN r /\ NoNumbers(g)
        /\ \A i \in DOMAIN r :
              /\ r[i].as \in {"moment", "written"} => g[i] = r[i]
              /\ r[i] \in {ZeroDate, Letters, Null} => g[i] = Null
    BY <1>6, DatesFixed
  <1> HIDE DEF g
  <1>8. Same(s, g) /\ NoNumbers(s)
    BY <1>7, ReplacedSame
  <1> HIDE DEF s
  <1>9. Same(f, s)
    BY <1>8, ReplacedSame
  <1> HIDE DEF f
  <1>10. /\ DOMAIN f = DOMAIN c
         /\ c[k].as \in {"moment", "written"} => f[k] = c[k]
         /\ c[k] \in {ZeroDate, Letters, Null} => f[k] = Null
    BY <1>5, <1>7, <1>8, <1>9 DEF Same
  <1>11. CASE (\A i \in DOMAIN f : f[i] = Null \/ IsText(f[i])) /\ ~OffsetsMixed(f)
    <2>1. e[k] = FastTemporal(f[k])
      BY <1>10, <1>11 DEF ToDatetimeStrSeries, Map
    <2>2. f[k] = Null \/ IsText(f[k])
      BY <1>10, <1>11
    <2> HIDE DEF e
    <2> QED
      BY <1>1, <1>10, <2>1, <2>2 DEF FastTemporal, IsText, Null
  <1>12. CASE ~((\A i \in DOMAIN f : f[i] = Null \/ IsText(f[i])) /\ ~OffsetsMixed(f))
    <2>1. e = Map(f, ToDatetimeStr)
      BY <1>12 DEF ToDatetimeStrSeries
    <2>2. e[k] = ToDatetimeStr(f[k])
      BY <1>10, <2>1 DEF Map
    <2> HIDE DEF e
    <2> QED
      BY <1>1, <1>10, <2>2 DEF ToDatetimeStr, Null
  <1> QED
    BY <1>11, <1>12

(* Dates reach their column, and what is no date does not.                 *)
LEMMA DatesArrive == ASSUME BatchInv, ValueInv PROVE DatesSurvive
  <1> SUFFICES ASSUME status = "green", job.kind = "date", NEW k \in Rows
               PROVE /\ job.source[k].as \in {"moment", "written"} => copied[k] = Written(0)
                     /\ job.source[k] \in {ZeroDate, Letters, Null} => copied[k] = Null
    BY DEF DatesSurvive
  <1>1. types # "none" /\ Arrived(k)
    BY HasArrived
  <1>2. PICK S \in SUBSET Rows : k \in S /\ copied[k] = Stored(TargetType, Field(S, k))
    BY <1>1 DEF Arrived
  <1>3. types = "TIMESTAMP" /\ TargetType \in {"TIMESTAMP", "TEXT"}
    BY <1>1, SettledTypes
  <1>4. /\ DOMAIN Inferred(S) = S /\ NoNumbers(Inferred(S))
        /\ \A i \in S : /\ Inferred(S)[i] = job.source[i]
                        /\ IsCellOf(job.kind, job.source[i])
    BY SourceFacts
  <1> DEFINE col == Inferred(S)
  <1>5. DOMAIN col = S /\ NoNumbers(col) /\ \A i \in DOMAIN col : IsCellOf("date", col[i])
    BY <1>4
  <1> HIDE DEF col
  <1>6. /\ col[k].as \in {"moment", "written"} =>
              Exported(job, col, "TIMESTAMP")[k] = Written(0)
        /\ col[k] \in {ZeroDate, Letters, Null} => Exported(job, col, "TIMESTAMP")[k] = Null
    BY <1>2, <1>5, DateExported
  <1>7. /\ col[k] = job.source[k]
        /\ copied[k] = CsvField(Exported(job, col, "TIMESTAMP")[k])
    <2>1. copied[k] = Field(S, k)
      BY <1>2, <1>3 DEF Stored
    <2> QED
      BY <1>2, <1>3, <1>4, <2>1 DEF Field, col
  <1> QED
    BY <1>6, <1>7 DEF CsvField, Written, Null

(* The nearest float64: its own nearest one, and no nearer to zero than    *)
(* the limit.                                                              *)
LEMMA RoundedIs ==
    ASSUME NEW n \in Int
    PROVE /\ Rounded(n) \in Int /\ Rounded(Rounded(n)) = Rounded(n)
          /\ n <= FloatExact => Rounded(n) = n
          /\ n > FloatExact => Rounded(n) >= FloatExact
          /\ Rounded(n) <= FloatExact /\ n # FloatExact + 1 => n <= FloatExact
  <1>1. FloatExact \in Nat /\ FloatExact % 4 = 0
    BY CellsAssumption DEF CellsAssumption
  <1>2. CASE n <= FloatExact
    BY <1>1, <1>2 DEF Rounded
  <1>3. CASE n > FloatExact
    <2>1. CASE n % 2 = 0
      BY <1>1, <1>3, <2>1 DEF Rounded
    <2>2. CASE n % 2 # 0
      <3> DEFINE m == IF n % 4 = 1 THEN n - 1 ELSE n + 1
      <3>1. Rounded(n) = m /\ m \in Int
        BY <1>1, <1>3, <2>2 DEF Rounded
      <3>2. m % 2 = 0
        BY <2>2
      <3>3. Rounded(m) = m
        BY <3>1, <3>2 DEF Rounded
      <3>4. m >= FloatExact /\ (m <= FloatExact => n = FloatExact + 1)
        BY <1>1, <1>3
      <3> QED
        BY <1>1, <1>3, <3>1, <3>3, <3>4
    <2> QED
      BY <2>1, <2>2
  <1> QED
    BY <1>1, <1>2, <1>3

(* A cell that is a number of the source still, or its nearest float64: a  *)
(* column rounds only beside a NULL.                                       *)
Like(c, x) ==
    IF x = Null THEN c = Null
    ELSE /\ c = Int_(x.n) \/ c = Int_(Rounded(x.n)) \/ c = Float(Rounded(x.n))

Lacking(S) == \E k \in S : job.source[k] = Null

Carries(c, S) ==
    /\ DOMAIN c = S
    /\ \A k \in S : Like(c[k], job.source[k])
    /\ ~Lacking(S) => \A k \in S : c[k].n = job.source[k].n

IsInt(x) == x = Null \/ (x = Int_(x.n) /\ x.n \in Int)

Integral(S) == \A k \in S : IsInt(job.source[k])

(* What a cell like a number is.                                           *)
LEMMA LikeIs ==
    ASSUME NEW c, NEW x, IsInt(x), Like(c, x)
    PROVE /\ c = Null <=> x = Null
          /\ c # Null => IsNumber(c) /\ c.n \in {x.n, Rounded(x.n)}
          /\ c.as \in {"null", "int", "float"}
          /\ Like(ToInt(c), x) /\ ToInt(c).n = c.n
          /\ c # Null => Like(Float(Rounded(c.n)), x) /\ ToInt(c) = Int_(c.n)
  <1>1. CASE x = Null
    <2>1. c = Null
      BY <1>1 DEF Like
    <2> QED
      BY <1>1, <2>1 DEF Like, ToInt, IsNumber, Null
  <1>2. CASE x # Null
    <2>1. x.n \in Int
      BY <1>2 DEF IsInt
    <2>2. Rounded(Rounded(x.n)) = Rounded(x.n)
      BY <2>1, RoundedIs
    <2>3. c = Int_(x.n) \/ c = Int_(Rounded(x.n)) \/ c = Float(Rounded(x.n))
      BY <1>2 DEF Like
    <2>4. IsNumber(c) /\ c.n \in {x.n, Rounded(x.n)} /\ c # Null
      BY <2>3 DEF Int_, Float, IsNumber, Null
    <2>5. ToInt(c) = Int_(c.n) /\ Int_(c.n).n = c.n
      <3>1. IsNumber(c) /\ c.as # "text"
        BY <2>4 DEF IsNumber
      <3>2. ToInt(c) = Int_(c.n)
        BY <3>1 DEF ToInt
      <3>3. Int_(c.n).n = c.n
        BY DEF Int_
      <3> QED
        BY <3>2, <3>3
    <2>6. Like(ToInt(c), x)
      BY <1>2, <2>4, <2>5 DEF Like
    <2>7. Like(Float(Rounded(c.n)), x)
      BY <1>2, <2>2, <2>4 DEF Like
    <2>8. c.as \in {"null", "int", "float"}
      BY <2>4 DEF IsNumber
    <2> QED
      BY <1>2, <2>4, <2>5, <2>6, <2>7, <2>8
  <1> QED
    BY <1>1, <1>2

(* Inferring the type of a column again rounds, and only beside a NULL.    *)
LEMMA InferredCarries ==
    ASSUME NEW S, NEW c, Integral(S), Carries(c, S)
    PROVE /\ Carries(AsPandasInfers(c), S)
          /\ Lacking(S) => \A k \in S : job.source[k] # Null =>
                              AsPandasInfers(c)[k] = Float(Rounded(job.source[k].n))
  <1> DEFINE a == AsPandasInfers(c)
  <1>1. /\ DOMAIN c = S
        /\ \A k \in S : IsInt(job.source[k]) /\ Like(c[k], job.source[k])
    BY DEF Carries, Integral
  <1>2. \A k \in S : /\ c[k] = Null <=> job.source[k] = Null
                     /\ c[k] # Null => /\ IsNumber(c[k])
                                       /\ Like(Float(Rounded(c[k].n)), job.source[k])
                                       /\ c[k].n \in {job.source[k].n, Rounded(job.source[k].n)}
    BY <1>1, LikeIs
  <1>3. DOMAIN a = S
    BY <1>1, InferredDomain
  <1>4. CASE ~Lacking(S)
    <2>1. a = c
      BY <1>1, <1>2, <1>4 DEF AsPandasInfers, Lacking
    <2> HIDE DEF a
    <2> QED
      BY <1>4, <2>1 DEF a
  <1>5. CASE Lacking(S)
    <2>1. \A k \in S : a[k] = IF c[k] = Null THEN Null ELSE Float(Rounded(c[k].n))
      BY <1>1, <1>2, <1>5 DEF AsPandasInfers, Lacking
    <2> HIDE DEF a
    <2>2. \A k \in S : Like(a[k], job.source[k])
      <3> TAKE k \in S
      <3>1. CASE c[k] = Null
        BY <1>2, <2>1, <3>1 DEF Like
      <3>2. CASE c[k] # Null
        BY <1>2, <2>1, <3>2
      <3> QED
        BY <3>1, <3>2
    <2>3. \A k \in S : job.source[k] # Null => a[k] = Float(Rounded(job.source[k].n))
      <3> TAKE k \in S
      <3> HAVE job.source[k] # Null
      <3>1. job.source[k].n \in Int
        BY <1>1 DEF IsInt
      <3> QED
        BY <1>2, <2>1, <3>1, RoundedIs
    <2>4. Carries(a, S)
      BY <1>3, <1>5, <2>2 DEF Carries
    <2> QED
      BY <2>3, <2>4 DEF a
  <1> QED
    BY <1>4, <1>5

(* So does replace_pdna_with_none, which infers it anew.                   *)
LEMMA ReplacedCarries ==
    ASSUME NEW S, NEW c, Integral(S), Carries(c, S)
    PROVE Carries(ReplacePdnaWithNone(c), S)
  BY InferredCarries DEF ReplacePdnaWithNone

(* The conversion to integers keeps them.                                  *)
LEMMA ToIntCarries ==
    ASSUME NEW S, NEW c, Integral(S), Carries(c, S)
    PROVE Carries(Map(c, ToInt), S)
  <1> DEFINE m == Map(c, ToInt)
  <1>1. DOMAIN m = S /\ \A k \in S : m[k] = ToInt(c[k])
    BY DEF Carries, Map
  <1> HIDE DEF m
  <1>2. \A k \in S : Like(m[k], job.source[k]) /\ m[k].n = c[k].n
    BY <1>1, LikeIs DEF Carries, Integral
  <1>3. ~Lacking(S) => \A k \in S : m[k].n = job.source[k].n
    BY <1>2 DEF Carries
  <1>4. Carries(m, S)
    BY <1>1, <1>2, <1>3 DEF Carries
  <1> QED
    BY <1>4 DEF m

(* And so does whatever leaves the column as it is.                        *)
LEMMA SameCarries ==
    ASSUME NEW S, NEW c, NEW d, Carries(c, S), Same(d, c)
    PROVE Carries(d, S)
  BY DEF Carries, Same

(* A column of integers, up to its check.                                  *)
LEMMA NumbersConverted ==
    ASSUME NEW S, NEW c, NEW type \in IntegerTypes, job.kind = "int",
           Integral(S), Carries(c, S)
    PROVE Carries(Converted(job, c, type), S)
  <1> DEFINE d == Decoded(c, type)
             r == ReplacePdnaWithNone(d)
             g == Dated(job, r)
             s == ReplacePdnaWithNone(g)
             t == Map(s, ToInt)
  <1>1. Converted(job, c, type) = t
    <2>1. Timed(job, type) = FALSE
      BY DEF Timed, IntegerTypes
    <2>2. Converted(job, c, type)
             = ConvertIntegerColumns(ConvertTimeColumns(
                  ReplacePdnaWithNone(Dated(job, r)), Timed(job, type)), type)
      BY DEF Converted, r, d
    <2>3. Converted(job, c, type)
             = ConvertIntegerColumns(ConvertTimeColumns(s, FALSE), type)
      BY <2>1, <2>2 DEF s, g
    <2> HIDE DEF s
    <2> QED
      BY <2>3 DEF ConvertIntegerColumns, ConvertTimeColumns
  <1>2. Carries(d, S)
    <2>1. /\ DOMAIN d = DOMAIN c
          /\ \A k \in DOMAIN c : d[k] = DecodeValue(NormalizeMemoryview(c[k]))
      BY DEF Decoded, Normalized, Map, IntegerTypes
    <2>2. DOMAIN c = S /\ \A k \in S : c[k].as \in {"null", "int", "float"}
      BY LikeIs DEF Carries, Integral
    <2>3. \A k \in DOMAIN c : DecodeValue(NormalizeMemoryview(c[k])) = c[k]
      BY <2>2 DEF DecodeValue, NormalizeMemoryview
    <2> HIDE DEF d
    <2>4. Same(d, c)
      BY <2>1, <2>3 DEF Same
    <2> QED
      BY <2>4, SameCarries
  <1> HIDE DEF d
  <1>3. Carries(r, S)
    BY <1>2, ReplacedCarries
  <1> HIDE DEF r
  <1>4. Carries(g, S)
    <2>1. CASE ~TakenForDates(job)
      BY <1>3, <2>1 DEF Dated
    <2>2. CASE TakenForDates(job)
      <3> DEFINE z == Map(r, StripSentinelDate)
      <3>1. DOMAIN r = S /\ \A k \in S : IsNumber(r[k]) \/ r[k] = Null
        BY <1>3, LikeIs DEF Carries, Integral
      <3>2. DOMAIN z = S /\ \A k \in S : z[k] = r[k]
        BY <3>1 DEF Map, StripSentinelDate, ZeroDate, IsNumber, Null
      <3>3. g = IF ZonesMixed(z) THEN Map(z, CleanInvalidDate)
                ELSE [k \in DOMAIN r |-> IF k \in AcceptedAsDates(z) THEN z[k] ELSE Null]
        BY <2>2 DEF Dated, FixInvalidDates
      <3> HIDE DEF z
      <3>4. ~ZonesMixed(z)
        BY <3>1, <3>2 DEF ZonesMixed, IsNumber, Null
      <3>5. \A k \in S : z[k] # Null => k \in AcceptedAsDates(z)
        BY <3>1, <3>2 DEF AcceptedAsDates, IsNumber, Null
      <3> HIDE DEF g
      <3>6. Same(g, r)
        BY <3>1, <3>2, <3>3, <3>4, <3>5 DEF Same
      <3> QED
        BY <1>3, <3>6, SameCarries
    <2> QED
      BY <2>1, <2>2
  <1> HIDE DEF g
  <1>5. Carries(s, S)
    BY <1>4, ReplacedCarries
  <1> HIDE DEF s
  <1>6. Carries(t, S)
    BY <1>5, ToIntCarries
  <1> QED
    BY <1>1, <1>6

(* What a batch of integers is written as: each as its digits or those of  *)
(* its nearest float64, and of those only beside a NULL.                   *)
LEMMA NumberExported ==
    ASSUME NEW S, NEW c, NEW type \in IntegerTypes, job.kind = "int",
           Integral(S), Carries(c, S), NEW k \in S
    PROVE /\ job.source[k] = Null => Exported(job, c, type)[k] = Null
          /\ job.source[k] # Null =>
                \/ Exported(job, c, type)[k] = Digits(job.source[k].n)
                \/ /\ Lacking(S)
                   /\ Exported(job, c, type)[k] = Digits(Rounded(job.source[k].n))
          /\ /\ job.source[k] # Null /\ Lacking(S)
             /\ PrecisionHolds(Checked(job, c, type), type)
             => Rounded(job.source[k].n) <= FloatExact
  <1> DEFINE v == Converted(job, c, type)
             w == ReplacePdnaWithNone(v)
             x == Map(w, ToInt)
             y == Map(x, ToInt)
             e == Map(y, FmtIntForCsv)
  <1>1. Exported(job, c, type) = e /\ Checked(job, c, type) = w
    <2>1. FixColumnValues(w, type) = x
      BY DEF FixColumnValues, IntegerTypes
    <2> HIDE DEF x
    <2> QED
      BY <2>1 DEF Exported, Checked
  <1>2. Carries(v, S)
    BY NumbersConverted
  <1> HIDE DEF v
  <1>3. /\ Carries(w, S)
        /\ Lacking(S) => \A i \in S : job.source[i] # Null =>
                            w[i] = Float(Rounded(job.source[i].n))
    BY <1>2, InferredCarries DEF ReplacePdnaWithNone
  <1> HIDE DEF w
  <1>4. Carries(y, S)
    BY <1>3, ToIntCarries
  <1> HIDE DEF y
  <1>5. /\ IsInt(job.source[k]) /\ Like(y[k], job.source[k])
        /\ ~Lacking(S) => y[k].n = job.source[k].n
        /\ e[k] = FmtIntForCsv(y[k])
    BY <1>4 DEF Carries, Integral, Map
  <1> HIDE DEF e
  <1>6. /\ y[k] = Null <=> job.source[k] = Null
        /\ y[k] # Null => y[k].n \in {job.source[k].n, Rounded(job.source[k].n)}
    BY <1>5, LikeIs
  <1>7. /\ job.source[k] # Null /\ Lacking(S) /\ PrecisionHolds(w, type)
        => Rounded(job.source[k].n) <= FloatExact
    <2> HAVE job.source[k] # Null /\ Lacking(S) /\ PrecisionHolds(w, type)
    <2>1. w[k] = Float(Rounded(job.source[k].n)) /\ k \in DOMAIN w
      BY <1>3 DEF Carries
    <2>2. w[k].as = "float" /\ w[k].n = Rounded(job.source[k].n)
      BY <2>1 DEF Float
    <2> QED
      BY <2>1, <2>2 DEF PrecisionHolds
  <1> QED
    BY <1>1, <1>5, <1>6, <1>7 DEF FmtIntForCsv

(* The cells of a column of integers, in any batch.                        *)
LEMMA NumberFacts ==
    ASSUME BatchInv, status \notin {"idle", "followed"}, job.kind = "int",
           NEW S \in SUBSET Rows
    PROVE Integral(S) /\ Carries(Inferred(S), S)
  <1> DEFINE c == [k \in S |-> job.source[k]]
  <1>1. \A k \in S : IsInt(job.source[k])
    <2> TAKE k \in S
    <2>1. IsCellOf("int", job.source[k])
      BY JobFacts DEF BatchInv
    <2>2. CASE job.source[k] # Null
      <3>1. job.source[k] \in [as : {"int"}, n : Int]
        BY <2>1, <2>2 DEF IsCellOf, Forms
      <3> QED
        BY <3>1 DEF IsInt, Int_
    <2> QED
      BY <2>2 DEF IsInt
  <1>2. DOMAIN c = S /\ \A k \in S : c[k] = job.source[k]
    OBVIOUS
  <1>3. Inferred(S) = AsPandasInfers(c)
    BY DEF Inferred
  <1> HIDE DEF c
  <1>4. \A k \in S : Like(c[k], job.source[k])
    BY <1>1, <1>2 DEF Like, IsInt
  <1>5. Carries(c, S) /\ Integral(S)
    BY <1>1, <1>2, <1>4 DEF Carries, Integral
  <1> QED
    BY <1>3, <1>5, InferredCarries

(* What COPY is given of a column of integers.                             *)
LEMMA NumberField ==
    ASSUME BatchInv, ValueInv, status \notin {"idle", "followed"}, types # "none",
           job.kind = "int", NEW S \in SUBSET Rows, NEW k \in S
    PROVE /\ IsInt(job.source[k])
          /\ job.source[k] = Null => Field(S, k) = Null
          /\ job.source[k] # Null =>
                \/ Field(S, k) = Digits(job.source[k].n)
                \/ /\ Lacking(S)
                   /\ Field(S, k) = Digits(Rounded(job.source[k].n))
          /\ job.source[k] # Null /\ Lacking(S) /\ job.strict /\ Precise(S)
                => Rounded(job.source[k].n) <= FloatExact
  <1> DEFINE col == Inferred(S)
  <1>1. Integral(S) /\ Carries(col, S) /\ types \in IntegerTypes
    BY NumberFacts, SettledTypes
  <1>2. /\ Field(S, k) = CsvField(Exported(job, col, types)[k])
        /\ Precise(S) <=> (job.strict => PrecisionHolds(Checked(job, col, types), types))
    BY DEF Field, Precise
  <1> HIDE DEF col
  <1>3. /\ job.source[k] = Null => Exported(job, col, types)[k] = Null
        /\ job.source[k] # Null =>
              \/ Exported(job, col, types)[k] = Digits(job.source[k].n)
              \/ /\ Lacking(S)
                 /\ Exported(job, col, types)[k] = Digits(Rounded(job.source[k].n))
        /\ /\ job.source[k] # Null /\ Lacking(S)
           /\ PrecisionHolds(Checked(job, col, types), types)
           => Rounded(job.source[k].n) <= FloatExact
    BY <1>1, NumberExported
  <1>4. CsvField(Null) = Null /\ \A n : CsvField(Digits(n)) = Digits(n)
    BY DEF CsvField, Null, Digits
  <1>5. IsInt(job.source[k])
    BY <1>1 DEF Integral
  <1> QED
    BY <1>2, <1>3, <1>4, <1>5

(* Integers reach their column.                                            *)
LEMMA NumbersArrive == ASSUME BatchInv, ValueInv PROVE NumbersSurvive
  <1> SUFFICES ASSUME status = "green", job.kind = "int", NEW k \in Rows
               PROVE /\ job.source[k] = Null => copied[k] = Null
                     /\ \/ IsNumber(job.source[k]) /\ job.source[k].n <= FloatExact
                        \/ /\ IsNumber(job.source[k]) /\ job.strict
                           /\ job.source[k].n # FloatExact + 1
                        => copied[k] = Digits(job.source[k].n)
    BY DEF NumbersSurvive
  <1>1. types # "none" /\ Arrived(k)
    BY HasArrived
  <1>2. PICK S \in SUBSET Rows : /\ k \in S /\ Precise(S)
                                 /\ copied[k] = Stored(TargetType, Field(S, k))
    BY <1>1 DEF Arrived
  <1>3. copied[k] = Field(S, k)
    <2>1. TargetType \in IntegerTypes
      BY <1>1, SettledTypes
    <2> QED
      BY <1>2, <2>1 DEF Stored, IntegerTypes
  <1>4. /\ IsInt(job.source[k])
        /\ job.source[k] = Null => Field(S, k) = Null
        /\ job.source[k] # Null =>
              \/ Field(S, k) = Digits(job.source[k].n)
              \/ /\ Lacking(S)
                 /\ Field(S, k) = Digits(Rounded(job.source[k].n))
        /\ job.source[k] # Null /\ Lacking(S) /\ job.strict /\ Precise(S)
              => Rounded(job.source[k].n) <= FloatExact
    BY <1>1, <1>2, NumberField
  <1>5. ASSUME \/ IsNumber(job.source[k]) /\ job.source[k].n <= FloatExact
               \/ /\ IsNumber(job.source[k]) /\ job.strict
                  /\ job.source[k].n # FloatExact + 1
        PROVE Field(S, k) = Digits(job.source[k].n)
    <2>1. job.source[k] # Null /\ job.source[k].n \in Int
      BY <1>4, <1>5 DEF IsInt, IsNumber, Null
    <2>2. CASE Lacking(S)
      <3>1. job.source[k].n <= FloatExact
        BY <1>2, <1>4, <1>5, <2>1, <2>2, RoundedIs
      <3>2. Rounded(job.source[k].n) = job.source[k].n
        BY <2>1, <3>1, RoundedIs
      <3> QED
        BY <1>4, <2>1, <3>2
    <2>3. CASE ~Lacking(S)
      BY <1>4, <2>1, <2>3
    <2> QED
      BY <2>2, <2>3
  <1> QED
    BY <1>3, <1>4, <1>5

(* The promotion has made room for every number of the first batch.        *)
LEMMA PromotedNumbers ==
    ASSUME BatchInv, ValueInv, status \notin {"idle", "followed"},
           job.kind = "int", job.method = "full", types = "INTEGER",
           NEW k \in Rows, k <= job.size
    PROVE job.source[k].n <= IntPromotionThreshold
  <1> DEFINE col == Inferred(First)
  <1>1. N \in Nat /\ Rows = 1..N /\ job.size \in Nat \ {0}
    BY RowsAre, JobFacts DEF BatchInv
  <1>2. First \in SUBSET Rows /\ k \in First
    BY <1>1 DEF First
  <1>3. types = PromoteTypes("int", col)
    BY DEF ValueInv, TypeInv
  <1>4. Integral(First) /\ Carries(col, First)
    BY <1>2, NumberFacts
  <1> HIDE DEF col
  <1>5. \A n \in Values(col) : ~(n > IntPromotionThreshold)
    BY <1>3 DEF PromoteTypes
  <1>6. ~HasNonNumeric(col)
    <2>1. \A i \in First : col[i] # Null => IsNumber(col[i])
      BY <1>4, LikeIs DEF Carries, Integral
    <2> QED
      BY <1>4, <2>1 DEF HasNonNumeric, NonNull, NumericLike, Carries
  <1>7. /\ IntMax \in Nat /\ FloatExact \in Nat /\ IntMax < FloatExact
        /\ IntPromotionThreshold \in Nat /\ IntPromotionThreshold < IntMax
    BY CellsAssumption, BatchAssumption DEF CellsAssumption, BatchAssumption
  <1>8. CASE job.source[k] = Null
    BY <1>7, <1>8 DEF Null
  <1>9. CASE job.source[k] # Null
    <2>1. job.source[k].n \in Int
      BY <1>2, <1>4, <1>9 DEF Integral, IsInt
    <2>2. col[k] # Null /\ col[k].n \in {job.source[k].n, Rounded(job.source[k].n)}
      BY <1>2, <1>4, <1>9, LikeIs DEF Carries, Integral
    <2>3. col[k].n \in Values(col)
      <3>1. k \in NonNull(col)
        BY <1>2, <1>4, <2>2 DEF NonNull, Carries
      <3> QED
        BY <1>6, <3>1 DEF Values
    <2>4. ~(col[k].n > IntPromotionThreshold)
      BY <1>5, <2>3
    <2> QED
      BY <1>7, <2>1, <2>2, <2>4, RoundedIs
  <1> QED
    BY <1>8, <1>9

(* Only what came after the first batch ends a run with its own table.     *)
LEMMA PromotionCovers == ASSUME BatchInv, ValueInv PROVE PromotionCoversTheFirstBatch
  <1> SUFFICES ASSUME status = "red", job.kind = "int", job.existing = "none", ~job.strict
               PROVE /\ \A k \in Rows : k <= job.size =>
                           job.source[k].n <= IntPromotionThreshold
                     /\ \E k \in Rows : k > job.size /\ job.source[k].n > IntMax
    BY DEF PromotionCoversTheFirstBatch
  <1>1. types # "none" /\ \E S \in SUBSET Rows : \E k \in S : ~Accepts(TargetType, Field(S, k))
    BY DEF ValueInv, Precise
  <1>2. PICK S \in SUBSET Rows : \E k \in S : ~Accepts(TargetType, Field(S, k))
    BY <1>1
  <1>3. PICK k \in S : ~Accepts(TargetType, Field(S, k))
    BY <1>2
  <1>4. TargetType = types /\ types \in IntegerTypes /\ job.method = "full"
    BY <1>1, SettledTypes, JobSettings DEF TargetType, BatchInv
  <1>5. /\ IsInt(job.source[k])
        /\ job.source[k] = Null => Field(S, k) = Null
        /\ job.source[k] # Null =>
              Field(S, k) \in {Digits(job.source[k].n), Digits(Rounded(job.source[k].n))}
    BY <1>1, <1>3, NumberField
  <1>6. job.source[k] # Null /\ job.source[k].n \in Int
    BY <1>3, <1>5 DEF Accepts, IsInt
  <1>7. PICK m \in {job.source[k].n, Rounded(job.source[k].n)} : Field(S, k) = Digits(m)
    BY <1>5, <1>6
  <1>8. types = "INTEGER" /\ ~(m <= IntMax)
    BY <1>3, <1>4, <1>7 DEF Accepts, Digits, IntegerTypes
  <1>9. \A i \in Rows : i <= job.size => job.source[i].n <= IntPromotionThreshold
    BY <1>4, <1>8, PromotedNumbers
  <1>10. /\ IntMax \in Nat /\ FloatExact \in Nat /\ IntMax < FloatExact
         /\ IntPromotionThreshold \in Nat /\ IntPromotionThreshold < IntMax
         /\ k \in Rows /\ k \in Int /\ job.size \in Int
    BY RowsAre, JobFacts, CellsAssumption, BatchAssumption
       DEF CellsAssumption, BatchAssumption, BatchInv
  <1>11. job.source[k].n > IntMax
    BY <1>6, <1>8, <1>10, RoundedIs
  <1>12. k > job.size
    BY <1>6, <1>9, <1>10, <1>11
  <1> QED
    BY <1>9, <1>10, <1>11, <1>12

(* Every value the column of the target can hold survives its company.     *)
THEOREM ValuesDoSurvive == PrepSpec => []ValuesSurvive
  <1>1. BatchInv /\ ValueInv => ValuesSurvive
    BY NumbersArrive, PromotionCovers, TextsArrive, DatesArrive, TimesArrive
       DEF ValuesSurvive
  <1> QED
    BY <1>1, BatchesAreKept, ValuesAreKept, PTL
=============================================================================
