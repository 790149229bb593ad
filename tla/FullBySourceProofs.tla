------------------------- MODULE FullBySourceProofs -------------------------
(***************************************************************************)
(* The safety of full_by_source, for every number of databases, of their   *)
(* changes, of faults, and for every configuration.  The argument: until a *)
(* slice is emptied or swapped the open transaction holds nothing of its   *)
(* own (SyncInv); every slice is that of a version the source has had, and *)
(* every fingerprint in the ledger is that of a version at or before the   *)
(* one in the slice (Behind), also the one this run is about to write,     *)
(* since it was taken before the rows were read (MomentInv).               *)
(***************************************************************************)
EXTENDS FullBySource, TLAPS

BehindAt(fingerprint, held, now) ==
    fingerprint # NoFp =>
        \E v \in 0..now : fingerprint = FingerprintAt(v) /\ (held # NoRows => v <= held)

SlicedAt(exists, held, now) ==
    held # NoRows => exists /\ held <= now /\ ~IsEmpty(held)

Behind(db, at) == \A s \in Sources : BehindAt(db.ledger[s], db.slice[s], at[s])
Sliced(db, at) == \A s \in Sources : SlicedAt(db.exists, db.slice[s], at[s])
Sound(db, at) == Behind(db, at) /\ Sliced(db, at)

DbInv == Sound(committed, src) /\ Sound(session, src)

SyncInv ==
    /\ pc \notin {"finish", "index", "close"} => session = committed
    /\ \A s \in Sources : \/ session.slice[s] = committed.slice[s]
                          \/ (s = cur /\ session.slice[s] = NoRows /\ IsEmpty(est))

MomentInv ==
    /\ pc # "idle" => since <= src[cur]
    /\ pc \notin {"idle", "fingerprint"} =>
           /\ since <= fpv /\ fpv <= src[cur]
           /\ (fp = NoFp \/ fp = FingerprintAt(fpv))
    /\ pc = "check" => committed.slice[cur] <= fpv
    /\ pc = "empty" => IsEmpty(est)
    /\ pc \in {"stream", "swap"} => ~IsEmpty(est)

StagedInv ==
    pc = "swap" =>
        /\ fpv <= staged /\ staged <= src[cur] /\ ~IsEmpty(staged)
        /\ committed.ledger[cur] # NoFp =>
               \E v \in 0..staged : committed.ledger[cur] = FingerprintAt(v)

LoadedInv ==
    /\ pc = "finish" => (session.slice[cur] = NoRows \/ fpv <= session.slice[cur])
    /\ pc \in {"finish", "index"} /\ IsEmpty(est) => session.slice[cur] = NoRows
    /\ pc = "index" \/ (pc = "close" /\ result = "full_by_source") =>
           (IsEmpty(est) /\ fp # NoFp => committed.slice[cur] = NoRows)
    /\ pc \in {"finish", "index"} \/ (pc = "close" /\ result = "full_by_source") =>
           (~IsEmpty(est) => since <= committed.slice[cur] /\ committed.slice[cur] <= src[cur])

IInv == TypeOK /\ DbInv /\ SyncInv /\ MomentInv /\ StagedInv /\ LoadedInv

-----------------------------------------------------------------------------
(* Lemmas about data.                                                      *)

LEMMA Constants == /\ NumSources \in Nat \ {0} /\ MaxVersion \in Nat /\ MaxFaults \in Nat
                   /\ 1 \in Sources
                   /\ \A s \in Sources : s \in Int /\ (s < NumSources => s + 1 \in Sources)
                   /\ \A v \in Versions : v \in Int /\ 0 <= v /\ v <= MaxVersion
                   /\ 0 \in Versions
                   /\ NoRows \notin Versions /\ NoRows \in Int /\ NoRows < 0
  BY ConstantsAssumption DEF ConstantsAssumption, Sources, Versions, NoRows

LEMMA FingerprintType == ASSUME NEW v \in Versions
                         PROVE  FingerprintAt(v) \in Fingerprints /\ FingerprintAt(v) # NoFp
  BY ConstantsAssumption DEF ConstantsAssumption, FingerprintAt

LEMMA NoTargetType == /\ NoTarget \in Database
                      /\ \A s \in Sources : NoTarget.slice[s] = NoRows /\ NoTarget.ledger[s] = NoFp
  BY DEF NoTarget, Database

LEMMA SliceType ==
    ASSUME NEW db \in Database, NEW s \in Sources
    PROVE  db.slice[s] \in Versions \cup {NoRows} /\ db.slice[s] \in Int
  <1>1. db.slice \in [Sources -> Versions \cup {NoRows}]
    BY DEF Database
  <1> QED
    BY <1>1, Constants

LEMMA StillBehind ==
    ASSUME NEW f, NEW h, NEW n \in Int, NEW m \in Int, n <= m, BehindAt(f, h, n)
    PROVE  BehindAt(f, h, m)
  BY DEF BehindAt

LEMMA StillSliced ==
    ASSUME NEW e, NEW h \in Int, NEW n \in Int, NEW m \in Int, n <= m, SlicedAt(e, h, n)
    PROVE  SlicedAt(e, h, m)
  BY DEF SlicedAt

LEMMA StillSound ==
    ASSUME NEW db \in Database, NEW v \in [Sources -> Versions], NEW w \in [Sources -> Versions],
           \A s \in Sources : v[s] <= w[s], Sound(db, v)
    PROVE  Sound(db, w)
  <1>1. ASSUME NEW s \in Sources
        PROVE  BehindAt(db.ledger[s], db.slice[s], w[s]) /\ SlicedAt(db.exists, db.slice[s], w[s])
    <2>1. v[s] \in Int /\ w[s] \in Int
      BY Constants
    <2>2. db.slice[s] \in Int
      BY SliceType, Constants
    <2> QED
      BY <2>1, <2>2, StillBehind, StillSliced DEF Sound, Behind, Sliced
  <1> QED
    BY <1>1 DEF Sound, Behind, Sliced

LEMMA EmptyIsSound ==
    ASSUME NEW v \in [Sources -> Versions] PROVE Sound(NoTarget, v)
  BY NoTargetType DEF Sound, Behind, Sliced, BehindAt, SlicedAt

LEMMA FirstInv == Init => IInv
  <1> SUFFICES ASSUME Init PROVE IInv
    OBVIOUS
  <1>1. TypeOK
    <2>1. faults \in 0..MaxFaults /\ {fpv, est, staged, since} \subseteq Versions /\ cur \in Sources
      BY Constants DEF Init
    <2>2. committed \in Database /\ session \in Database
      BY NoTargetType DEF Init
    <2>3. status \in [Sources -> {"none", "unchanged", "full_by_source", "error"}]
      BY DEF Init
    <2> QED
      BY <2>1, <2>2, <2>3 DEF Init, TypeOK, Steps
  <1>2. DbInv /\ SyncInv
    BY EmptyIsSound DEF Init, DbInv, SyncInv
  <1>3. MomentInv /\ StagedInv /\ LoadedInv
    BY DEF Init, MomentInv, StagedInv, LoadedInv
  <1> QED
    BY <1>1, <1>2, <1>3 DEF IInv

-----------------------------------------------------------------------------
(* Every step keeps the invariant.                                         *)

LEMMA IntegerVars == ASSUME TypeOK
                  PROVE  /\ fpv \in Int /\ est \in Int /\ staged \in Int /\ since \in Int
                         /\ \A s \in Sources : /\ src[s] \in Int
                                               /\ committed.slice[s] \in Int
                                               /\ session.slice[s] \in Int
  <1>1. \A s \in Sources : src[s] \in Int /\ committed.slice[s] \in Int /\ session.slice[s] \in Int
    BY Constants, SliceType DEF TypeOK
  <1> QED
    BY <1>1, Constants DEF TypeOK

LEMMA ChangeKeeps == ASSUME IInv, NEW s \in Sources, Change(s) PROVE IInv'
  <1> USE DEF IInv, Change
  <1>1. /\ src' \in [Sources -> Versions]
        /\ \A r \in Sources : src[r] \in Int /\ src'[r] \in Int /\ src[r] <= src'[r]
    BY Constants DEF TypeOK, Versions
  <1>2. TypeOK'
    BY <1>1 DEF TypeOK, runVars
  <1>3. DbInv'
    BY <1>1, StillSound DEF DbInv, TypeOK
  <1>4. SyncInv'
    BY DEF SyncInv, runVars
  <1>5. MomentInv'
    BY <1>1, IntegerVars DEF MomentInv, TypeOK, runVars
  <1>6. StagedInv'
    BY <1>1, IntegerVars DEF StagedInv, TypeOK, runVars
  <1>7. LoadedInv'
    BY <1>1, IntegerVars DEF LoadedInv, TypeOK, runVars
  <1> QED
    BY <1>2, <1>3, <1>4, <1>5, <1>6, <1>7

(* What a step of the run may do to the database.                          *)

LEMMA Reshaped ==
    ASSUME NEW db \in Database, NEW new \in Database, NEW v, Sound(db, v),
           new.slice = db.slice, new.ledger = db.ledger, db.exists => new.exists
    PROVE  Sound(new, v)
  BY DEF Sound, Behind, Sliced, SlicedAt

LEMMA SliceSet ==
    ASSUME NEW db \in Database, NEW new \in Database, NEW v, NEW c \in Sources, NEW n,
           Sound(db, v), new.ledger = db.ledger, db.exists => new.exists,
           new.slice = [db.slice EXCEPT ![c] = n],
           BehindAt(db.ledger[c], n, v[c]), SlicedAt(new.exists, n, v[c])
    PROVE  Sound(new, v)
  <1>1. db.slice \in [Sources -> Versions \cup {NoRows}]
    BY DEF Database
  <1>2. ASSUME NEW s \in Sources
        PROVE  BehindAt(new.ledger[s], new.slice[s], v[s]) /\ SlicedAt(new.exists, new.slice[s], v[s])
    <2>1. CASE s = c
      BY <1>1, <2>1
    <2>2. CASE s # c
      <3>1. new.slice[s] = db.slice[s]
        BY <1>1, <2>2
      <3> QED
        BY <3>1 DEF Sound, Behind, Sliced, SlicedAt
    <2> QED
      BY <2>1, <2>2
  <1> QED
    BY <1>2 DEF Sound, Behind, Sliced

LEMMA LedgerSet ==
    ASSUME NEW db \in Database, NEW new \in Database, NEW v, NEW c \in Sources, NEW n,
           Sound(db, v), new.slice = db.slice, new.exists = db.exists,
           new.ledger = [db.ledger EXCEPT ![c] = n],
           BehindAt(n, db.slice[c], v[c])
    PROVE  Sound(new, v)
  <1>1. db.ledger \in [Sources -> Fingerprints \cup {NoFp}]
    BY DEF Database
  <1>2. ASSUME NEW s \in Sources
        PROVE  BehindAt(new.ledger[s], new.slice[s], v[s]) /\ SlicedAt(new.exists, new.slice[s], v[s])
    <2>1. CASE s = c
      BY <1>1, <2>1 DEF Sound, Sliced
    <2>2. CASE s # c
      <3>1. new.ledger[s] = db.ledger[s]
        BY <1>1, <2>2
      <3> QED
        BY <3>1 DEF Sound, Behind, Sliced
    <2> QED
      BY <2>1, <2>2
  <1> QED
    BY <1>2 DEF Sound, Behind, Sliced

(* The run begins, dies, or goes on without touching the target.           *)

LEMMA DropKeeps == ASSUME IInv, DropTarget PROVE IInv'
  <1> USE DEF IInv, DropTarget
  <1>1. committed' \in Database
    BY NoTargetType DEF TypeOK, Database, NoTarget
  <1>2. TypeOK'
    BY <1>1, Constants DEF TypeOK, runVars
  <1>3. \A s \in Sources : committed'.slice[s] = NoRows /\ committed'.ledger[s] = committed.ledger[s]
    BY NoTargetType DEF NoTarget
  <1>4. Sound(committed', src)
    BY <1>3 DEF DbInv, Sound, Behind, Sliced, BehindAt, SlicedAt
  <1> QED
    BY <1>2, <1>4 DEF DbInv, SyncInv, MomentInv, StagedInv, LoadedInv, runVars

LEMMA RunKeeps == ASSUME IInv, \/ Crash \/ (\E force \in BOOLEAN : StartRun(force))
                               \/ TakeFingerprint \/ Skip \/ DoNotSkip \/ Estimate
                               \/ StreamRows \/ StreamNothing \/ RefuseEmptyTarget
                               \/ Fail \/ CloseConnection
                  PROVE  IInv'
  <1> USE DEF IInv
  <1>1. /\ \A v \in Versions : FingerprintAt(v) \in Fingerprints
        /\ src[1] \in Versions /\ src[cur] \in Versions /\ src[1] \in Int /\ src[cur] \in Int
    BY Constants, FingerprintType DEF TypeOK
  <1>2. TypeOK'
    <2>1. CASE Crash \/ (\E force \in BOOLEAN : StartRun(force)) \/ CloseConnection \/ Fail
      BY <1>1, <2>1, Constants DEF TypeOK, Crash, StartRun, CloseConnection, Fail, Steps
    <2>2. CASE TakeFingerprint \/ Skip \/ DoNotSkip
      BY <1>1, <2>2, Constants DEF TypeOK, TakeFingerprint, Skip, DoNotSkip, Steps
    <2>3. CASE Estimate \/ StreamRows \/ StreamNothing \/ RefuseEmptyTarget
      BY <1>1, <2>3, Constants DEF TypeOK, Estimate, CountedVersion, StreamRows, StreamNothing,
         RefuseEmptyTarget, Steps
    <2> QED
      BY <2>1, <2>2, <2>3
  <1>3. /\ src' = src /\ committed' = committed /\ session' \in {session, committed}
        /\ pc' \notin {"close", "finish", "index"} => session' = session \/ session' = committed
    BY DEF Crash, StartRun, CloseConnection, Fail, TakeFingerprint, Skip, DoNotSkip, Estimate,
       StreamRows, StreamNothing, RefuseEmptyTarget
  <1>4. DbInv'
    BY <1>3 DEF DbInv
  <1>5. SyncInv'
    BY <1>3 DEF SyncInv, Crash, StartRun, CloseConnection, Fail, TakeFingerprint, Skip, DoNotSkip,
       Estimate, StreamRows, StreamNothing, RefuseEmptyTarget
  <1>6. MomentInv'
    <2>1. CASE CloseConnection \/ (\E force \in BOOLEAN : StartRun(force))
      <3>1. cur < NumSources => cur + 1 \in Sources /\ src[cur + 1] \in Int
        BY IntegerVars, Constants DEF TypeOK
      <3> QED
        BY <1>1, <2>1, <3>1 DEF MomentInv, CloseConnection, StartRun
    <2>2. CASE TakeFingerprint
      <3>1. committed.slice[cur] <= src[cur]
        BY <1>1, Constants DEF TypeOK, DbInv, Sound, Sliced, SlicedAt, NoRows
      <3> QED
        BY <2>2, <3>1, <1>1, IntegerVars DEF MomentInv, TakeFingerprint
    <2>3. CASE Estimate \/ StreamRows \/ StreamNothing \/ RefuseEmptyTarget
      BY <2>3 DEF MomentInv, Estimate, StreamRows, StreamNothing, RefuseEmptyTarget
    <2>4. CASE Crash \/ Skip \/ DoNotSkip \/ Fail
      BY <2>4 DEF MomentInv, Crash, Skip, DoNotSkip, Fail
    <2> QED
      BY <2>1, <2>2, <2>3, <2>4
  <1>7. StagedInv'
    <2>1. CASE StreamRows
      BY <1>1, <2>1 DEF StagedInv, StreamRows, MomentInv, TypeOK, DbInv, Sound, Behind, BehindAt
    <2>2. CASE ~StreamRows
      BY <2>2 DEF StagedInv, Crash, StartRun, CloseConnection, Fail, TakeFingerprint, Skip, DoNotSkip,
         Estimate, StreamNothing, RefuseEmptyTarget
    <2> QED
      BY <2>1, <2>2
  <1>8. LoadedInv'
    BY DEF LoadedInv, Crash, StartRun, CloseConnection, Fail, TakeFingerprint, Skip, DoNotSkip,
       Estimate, StreamRows, StreamNothing, RefuseEmptyTarget
  <1> QED
    BY <1>2, <1>4, <1>5, <1>6, <1>7, <1>8

(* The steps that write: each keeps the database sound, and its slice at   *)
(* or after the fingerprint.                                               *)

LEMMA CreateKeeps == ASSUME IInv, CreateEmptyTarget PROVE IInv'
  <1> USE DEF IInv, CreateEmptyTarget
  <1>1. session = committed /\ session \in Database /\ settings.partitionBySource \in BOOLEAN
    BY ConstantsAssumption DEF SyncInv, TypeOK, ConstantsAssumption, SettingsType
  <1>2. session' \in Database /\ session'.slice = session.slice /\ session'.ledger = session.ledger
    BY <1>1 DEF Database
  <1>3. Sound(session', src)
    BY <1>1, <1>2, Reshaped DEF DbInv
  <1>4. \A s \in Sources : session.slice[s] = NoRows
    BY DEF DbInv, Sound, Sliced, SlicedAt
  <1> QED
    BY <1>1, <1>2, <1>3, <1>4 DEF TypeOK, Steps, DbInv, SyncInv, MomentInv, StagedInv, LoadedInv

LEMMA EmptyKeeps == ASSUME IInv, EmptySlice PROVE IInv'
  <1> USE DEF IInv, EmptySlice
  <1>1. session = committed /\ session \in Database /\ cur \in Sources
    BY DEF SyncInv, TypeOK
  <1>2. session.slice \in [Sources -> Versions \cup {NoRows}]
    BY <1>1 DEF Database
  <1>3. /\ session'.slice = [session.slice EXCEPT ![cur] = NoRows]
        /\ session'.ledger = session.ledger /\ session'.exists = session.exists
        /\ session' \in Database
    BY <1>1, <1>2 DEF Database
  <1>4. BehindAt(session.ledger[cur], NoRows, src[cur]) /\ SlicedAt(session'.exists, NoRows, src[cur])
    BY <1>1 DEF DbInv, Sound, Behind, BehindAt, SlicedAt
  <1>5. Sound(session', src)
    BY <1>1, <1>3, <1>4, SliceSet DEF DbInv
  <1>6. TypeOK' /\ DbInv' /\ MomentInv' /\ StagedInv'
    BY <1>3, <1>5 DEF TypeOK, Steps, DbInv, MomentInv, StagedInv
  <1>7. SyncInv' /\ LoadedInv'
    BY <1>1, <1>2, <1>3 DEF SyncInv, LoadedInv, MomentInv
  <1> QED
    BY <1>6, <1>7

LEMMA SwapKeeps == ASSUME IInv, SwapSlice PROVE IInv'
  <1> USE DEF IInv, SwapSlice, CommitSlice
  <1>1. session = committed /\ session \in Database /\ cur \in Sources
        /\ settings.partitionBySource \in BOOLEAN
    BY ConstantsAssumption DEF SyncInv, TypeOK, ConstantsAssumption, SettingsType
  <1>2. session.slice \in [Sources -> Versions \cup {NoRows}] /\ staged \in Versions
    BY <1>1 DEF Database, TypeOK
  <1>3. /\ session'.slice = [session.slice EXCEPT ![cur] = staged]
        /\ session'.ledger = session.ledger /\ session'.exists
        /\ session' \in Database
    BY <1>1, <1>2 DEF Database
  <1>4. BehindAt(session.ledger[cur], staged, src[cur])
    <2>1. src[cur] \in Int /\ staged \in Int /\ staged <= src[cur]
      BY <1>1, IntegerVars DEF StagedInv
    <2> QED
      BY <1>1, <2>1 DEF StagedInv, BehindAt
  <1>5. SlicedAt(session'.exists, staged, src[cur])
    BY <1>3 DEF StagedInv, SlicedAt
  <1>6. Sound(session', src)
    BY <1>1, <1>3, <1>4, <1>5, SliceSet DEF DbInv
  <1>7. TypeOK' /\ DbInv' /\ MomentInv' /\ StagedInv'
    BY <1>3, <1>6 DEF TypeOK, Steps, DbInv, MomentInv, StagedInv
  <1>8. session'.slice[cur] = staged /\ since <= staged
    BY <1>1, <1>2, <1>3, IntegerVars DEF StagedInv, MomentInv
  <1>9. SyncInv' /\ LoadedInv'
    BY <1>8 DEF SyncInv, LoadedInv, MomentInv, StagedInv
  <1> QED
    BY <1>7, <1>9

LEMMA LedgerKeeps == ASSUME IInv, WriteFingerprint PROVE IInv'
  <1> USE DEF IInv, WriteFingerprint
  <1>1. CASE fp = NoFp
    BY <1>1 DEF TypeOK, Steps, DbInv, SyncInv, MomentInv, StagedInv, LoadedInv
  <1>2. CASE fp # NoFp
    <2>1. session \in Database /\ cur \in Sources /\ fp \in Fingerprints \cup {NoFp}
      BY DEF TypeOK
    <2>2. session.ledger \in [Sources -> Fingerprints \cup {NoFp}]
      BY <2>1 DEF Database
    <2>3. /\ session'.ledger = [session.ledger EXCEPT ![cur] = fp]
          /\ session'.slice = session.slice /\ session'.exists = session.exists
          /\ session' \in Database /\ committed' = session'
      BY <1>2, <2>1, <2>2 DEF Database, FpToWrite
    <2>4. BehindAt(fp, session.slice[cur], src[cur])
      <3>1. fpv \in 0..src[cur] /\ fp = FingerprintAt(fpv)
        BY <1>2, <2>1, IntegerVars, Constants DEF MomentInv, TypeOK
      <3>2. session.slice[cur] # NoRows => fpv <= session.slice[cur]
        BY DEF LoadedInv
      <3> QED
        BY <3>1, <3>2 DEF BehindAt
    <2>5. Sound(session', src)
      BY <2>1, <2>3, <2>4, LedgerSet DEF DbInv
    <2>6. TypeOK' /\ DbInv' /\ SyncInv' /\ MomentInv' /\ StagedInv'
      BY <2>3, <2>5 DEF TypeOK, Steps, DbInv, SyncInv, MomentInv, StagedInv
    <2>7. LoadedInv'
      BY <2>1, <2>3 DEF LoadedInv, SyncInv
    <2> QED
      BY <2>6, <2>7
  <1> QED
    BY <1>1, <1>2

LEMMA IndexKeeps == ASSUME IInv, IndexPlain \/ IndexPartitioned PROVE IInv'
  <1> USE DEF IInv
  <1>1. session \in Database /\ committed \in Database /\ faults \in 0..MaxFaults /\ MaxFaults \in Nat
    BY Constants DEF TypeOK
  <1>2. /\ session' \in Database /\ committed' \in Database
        /\ \/ session'.slice = session.slice /\ session'.ledger = session.ledger
                /\ session'.exists = session.exists
           \/ session' = committed
        /\ committed' = committed \/ committed' = session'
    BY <1>1 DEF IndexPlain, IndexPartitioned, IndexAfterBuild, Database
  <1>3. faults' \in 0..MaxFaults
    BY <1>1 DEF IndexPlain, IndexPartitioned
  <1>4. TypeOK'
    BY <1>2, <1>3 DEF TypeOK, Steps, IndexPlain, IndexPartitioned
  <1>5. Sound(session', src)
    BY <1>1, <1>2, Reshaped DEF DbInv
  <1>6. DbInv' /\ MomentInv' /\ StagedInv'
    BY <1>2, <1>5 DEF DbInv, MomentInv, StagedInv, IndexPlain, IndexPartitioned
  <1>7. SyncInv'
    BY <1>2 DEF SyncInv, IndexPlain, IndexPartitioned
  <1>8. LoadedInv'
    <2>1. cur \in Sources
      BY DEF TypeOK
    <2>2. committed'.slice[cur] = committed.slice[cur] \/ (committed'.slice[cur] = NoRows /\ IsEmpty(est))
      BY <1>2, <2>1 DEF SyncInv
    <2> QED
      BY <2>2 DEF LoadedInv, IndexPlain, IndexPartitioned
  <1> QED
    BY <1>4, <1>6, <1>7, <1>8

LEMMA StepInv == IInv /\ [Next]_vars => IInv'
  <1> SUFFICES ASSUME IInv, [Next]_vars PROVE IInv'
    OBVIOUS
  <1>1. CASE UNCHANGED vars
    BY <1>1 DEF vars, runVars, IInv, TypeOK, DbInv, SyncInv, MomentInv, StagedInv, LoadedInv
  <1>2. CASE Next
    BY <1>2, ChangeKeeps, DropKeeps, RunKeeps, CreateKeeps, EmptyKeeps, SwapKeeps, LedgerKeeps,
       IndexKeeps DEF Next, Progress
  <1> QED
    BY <1>1, <1>2

LEMMA InvariantHolds == Spec => []IInv
  BY FirstInv, StepInv, PTL DEF Spec

-----------------------------------------------------------------------------
(* Theorems.                                                               *)

(* The variables of full_by_source keep their types, whatever fails.       *)
THEOREM FullBySourceTypeCorrect == Spec => []TypeOK
  <1>1. IInv => TypeOK
    BY DEF IInv
  <1> QED
    BY <1>1, InvariantHolds, PTL

(* A lost run costs a reload and never a wrong skip: the ledger row is     *)
(* that of a version at or before the one in the slice (write_fingerprint, *)
(* called with the fingerprint taken before the transfer).                 *)
THEOREM LedgerStaysBehind == Spec => []LedgerBehindSlice
  <1>1. IInv => LedgerBehindSlice
    <2> SUFFICES ASSUME IInv, NEW s \in Sources,
                        committed.ledger[s] # NoFp, committed.slice[s] # NoRows
                 PROVE  \E v \in 0..committed.slice[s] : committed.ledger[s] = FingerprintAt(v)
      BY DEF LedgerBehindSlice
    <2>1. committed.slice[s] \in Int
      BY IntegerVars DEF IInv
    <2>2. PICK v \in 0..src[s] : committed.ledger[s] = FingerprintAt(v) /\ v <= committed.slice[s]
      BY DEF IInv, DbInv, Sound, Behind, BehindAt
    <2>3. v \in 0..committed.slice[s]
      BY <2>1, <2>2, IntegerVars DEF IInv
    <2> QED
      BY <2>2, <2>3
  <1> QED
    BY <1>1, InvariantHolds, PTL

(* What a successful turn reports as loaded everybody can see, and it is   *)
(* of this run: the slice is committed, and stays when the index or a      *)
(* later database fails (_replace_slice, _finish).                         *)
THEOREM LoadedSlicesAreFresh == Spec => []LoadedSliceIsFresh
  <1>1. IInv => LoadedSliceIsFresh
    <2> SUFFICES ASSUME IInv, pc = "close", result = "full_by_source", ~IsEmpty(est)
                 PROVE  committed.slice[cur] \in since..src[cur]
      BY DEF LoadedSliceIsFresh
    <2>1. since <= committed.slice[cur] /\ committed.slice[cur] <= src[cur]
      BY DEF IInv, LoadedInv
    <2>2. since \in Int /\ committed.slice[cur] \in Int /\ src[cur] \in Int
      BY IntegerVars DEF IInv, TypeOK
    <2> QED
      BY <2>1, <2>2
  <1> QED
    BY <1>1, InvariantHolds, PTL

(* Every slice that loses its rows was counted empty, and every one that   *)
(* was counted empty loses them with its ledger row.                       *)
THEOREM SlicesAreEmptiedAsCounted == Spec => EmptiedAsCounted
  <1>1. IInv /\ [Next]_vars => [EmptiedOnlyWhenCountedEmpty /\ EmptiedSliceDisappears]_vars
    <2> SUFFICES ASSUME IInv, Next PROVE EmptiedOnlyWhenCountedEmpty /\ EmptiedSliceDisappears
      BY DEF vars
    <2>1. EmptiedSliceDisappears
      BY DEF EmptiedSliceDisappears, HoldsNoRows, CloseConnection, IInv, LoadedInv
    <2>2. EmptiedOnlyWhenCountedEmpty
      <3> SUFFICES ASSUME NEW s \in Sources, committed.slice[s] # NoRows, committed'.exists,
                          HoldsNoRows(committed', s)
                   PROVE  cur = s /\ IsEmpty(est)
        BY DEF EmptiedOnlyWhenCountedEmpty
      <3>1. committed \in Database /\ session \in Database
        BY DEF IInv, TypeOK
      <3>2. ~IsEmpty(committed.slice[s]) /\ committed.exists
        BY DEF IInv, DbInv, Sound, Sliced, SlicedAt
      <3>3. committed'.slice[s] # committed.slice[s]
        BY <3>2 DEF HoldsNoRows
      <3>4. \/ CreateEmptyTarget \/ SwapSlice \/ WriteFingerprint \/ IndexPlain \/ DropTarget
        BY <3>3 DEF Next, Progress, Change, Crash, StartRun, TakeFingerprint, Skip, DoNotSkip,
           Estimate, RefuseEmptyTarget, EmptySlice, StreamRows, StreamNothing, IndexPartitioned,
           CloseConnection, Fail
      <3>5. ~DropTarget
        BY DEF DropTarget, NoTarget
      <3>6. ASSUME CreateEmptyTarget PROVE FALSE
        BY <3>1, <3>2, <3>6 DEF CreateEmptyTarget, IInv, SyncInv
      <3>7. ASSUME SwapSlice PROVE FALSE
        <4>1. session = committed /\ ~IsEmpty(staged) /\ staged \in Versions
          BY <3>7 DEF SwapSlice, IInv, SyncInv, StagedInv, TypeOK
        <4>2. session.slice \in [Sources -> Versions \cup {NoRows}]
          BY <3>1 DEF Database
        <4>3. committed'.slice = [session.slice EXCEPT ![cur] = staged]
          BY <3>7, <3>1, <4>2 DEF SwapSlice, CommitSlice, Database
        <4>4. committed'.slice[s] = staged
          BY <3>3, <4>1, <4>2, <4>3
        <4> QED
          BY <4>1, <4>4, Constants DEF HoldsNoRows
      <3>8. CASE WriteFingerprint \/ IndexPlain
        <4>1. committed'.slice = session.slice
          BY <3>1, <3>3, <3>8 DEF WriteFingerprint, IndexPlain, Database
        <4> QED
          BY <3>3, <4>1 DEF IInv, SyncInv
      <3> QED
        BY <3>4, <3>5, <3>6, <3>7, <3>8
    <2> QED
      BY <2>1, <2>2
  <1> QED
    BY <1>1, InvariantHolds, PTL DEF Spec, EmptiedAsCounted

(* Fingerprints that do not return: between two versions with the same     *)
(* fingerprint nothing has changed.  The source's own weakness is taken    *)
(* out of the statement; what is left is the order of the protocol.        *)
NeverReturns ==
    \A u, v, w \in Versions :
        u <= v /\ v <= w /\ FingerprintAt(u) = FingerprintAt(w) => Content[v] = Content[w]

SkipInv == IInv /\ SkipIsSound /\ (pc = "index" => result = "full_by_source")

(* With such fingerprints no database is skipped whose slice is not what   *)
(* the fingerprint was computed over, wherever earlier runs have failed    *)
(* between the slice and its ledger row.                                   *)
THEOREM SkipsAreSound == ASSUME NeverReturns PROVE Spec => []SkipIsSound
  <1>1. Init => SkipInv
    BY FirstInv DEF SkipInv, SkipIsSound, Init
  <1>2. SkipInv /\ [Next]_vars => SkipInv'
    <2> SUFFICES ASSUME SkipInv, [Next]_vars, IInv' PROVE SkipIsSound' /\ (pc = "index" => result = "full_by_source")'
      BY StepInv DEF SkipInv
    <2>1. CASE Skip
      <3>1. session = committed /\ cur \in Sources /\ committed.slice[cur] # NoRows
        BY <2>1 DEF Skip, CanSkip, HoldsSource, SkipInv, IInv, SyncInv, TypeOK
      <3>2. fp = FingerprintAt(fpv) /\ committed.ledger[cur] = fp /\ fp # NoFp
            /\ committed.slice[cur] <= fpv /\ fpv \in Versions
        BY <2>1, <3>1 DEF Skip, CanSkip, SkipInv, IInv, MomentInv, TypeOK
      <3>3. PICK v \in 0..src[cur] : fp = FingerprintAt(v) /\ v <= committed.slice[cur]
        BY <3>1, <3>2 DEF SkipInv, IInv, DbInv, Sound, Behind, BehindAt
      <3>4. committed.slice[cur] \in Versions
        BY <3>1, SliceType DEF SkipInv, IInv, TypeOK
      <3>5. v \in Versions
        <4>1. src[cur] \in Versions
          BY <3>1 DEF SkipInv, IInv, TypeOK
        <4>2. src[cur] \in Int /\ src[cur] <= MaxVersion /\ MaxVersion \in Int
          BY <4>1, Constants
        <4>3. v \in Int /\ 0 <= v /\ v <= MaxVersion
          BY <4>2
        <4> QED
          BY <4>2, <4>3 DEF Versions
      <3>6. Content[committed.slice[cur]] = Content[fpv]
        <4>1. \A x, y, z \in Versions :
                 x <= y /\ y <= z /\ FingerprintAt(x) = FingerprintAt(z) => Content[y] = Content[z]
          BY DEF NeverReturns
        <4>2. FingerprintAt(v) = FingerprintAt(fpv)
          BY <3>2, <3>3
        <4> QED
          BY <4>1, <4>2, <3>2, <3>3, <3>4, <3>5
      <3> QED
        BY <2>1, <3>2, <3>4, <3>6, Constants DEF SkipIsSound, SameRows, Skip
    <2>2. CASE WriteFingerprint \/ IndexPlain \/ IndexPartitioned
      BY <2>2 DEF SkipInv, SkipIsSound, WriteFingerprint, IndexPlain, IndexPartitioned
    <2>3. CASE Crash \/ DropTarget \/ CloseConnection \/ Fail \/ StreamNothing \/ RefuseEmptyTarget
      BY <2>3 DEF SkipIsSound, Crash, DropTarget, CloseConnection, Fail, StreamNothing,
         RefuseEmptyTarget, runVars
    <2>4. CASE \/ UNCHANGED vars \/ (\E s \in Sources : Change(s))
               \/ (\E force \in BOOLEAN : StartRun(force)) \/ TakeFingerprint \/ DoNotSkip
               \/ Estimate \/ CreateEmptyTarget \/ EmptySlice \/ StreamRows \/ SwapSlice
      BY <2>4 DEF SkipInv, SkipIsSound, SameRows, Change, StartRun, TakeFingerprint, DoNotSkip,
         Estimate, CreateEmptyTarget, EmptySlice, StreamRows, SwapSlice, vars, runVars
    <2> QED
      BY <2>1, <2>2, <2>3, <2>4 DEF Next, Progress
  <1>3. SkipInv => SkipIsSound
    BY DEF SkipInv
  <1> QED
    BY <1>1, <1>2, <1>3, PTL DEF Spec
=============================================================================
