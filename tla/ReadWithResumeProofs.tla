------------------------ MODULE ReadWithResumeProofs ------------------------
(***************************************************************************)
(* The reader, for every number of keys, batch size and number of attempts.*)
(*                                                                         *)
(* That no row is skipped and none invented needs no assumption (CoverInv):*)
(* the key a resume starts from lies in the last batch, and all that the   *)
(* server has not sent yet is above the whole batch.  That no row comes    *)
(* twice needs the key to be the last one of its batch, which is so when   *)
(* pandas orders the keys as the server does (OrderInv).                   *)
(***************************************************************************)
EXTENDS ReadWithResume, TLAPS

-----------------------------------------------------------------------------
(* Nothing is skipped.                                                     *)

(* What the flags of the generator say of the rows handed over.            *)
FlagsInv ==
    /\ sawRow => HasKey /\ lastKey \in got
    /\ HasKey /\ ~sawRow => got = {}
    /\ ~yielded => got = {}
    /\ phase = "query" /\ ~sawRow => got = {}

(* The history of the source brackets its present.                         *)
HistoryInv ==
    /\ stable \subseteq rows
    /\ phase \in {"query", "stream"} => rows \subseteq appeared

(* The open query holds all that is missing, and selected rows only.       *)
QueryInv ==
    phase = "stream" =>
        /\ pending \subseteq appeared
        /\ \A k \in pending : Selected(k)
        /\ stable \cap window \subseteq got \cup pending

(* Up to the last key, nothing that was there all along is missing.        *)
PrefixInv ==
    HasKey /\ sawRow => \A k \in stable \cap window : k <= lastKey => k \in got

CoverInv ==
    /\ ReadTypeOK
    /\ FlagsInv
    /\ HistoryInv
    /\ QueryInv
    /\ PrefixInv
    /\ NothingSkipped
    /\ NothingInvented

LEMMA FirstValues == 1 \in 1..Attempts /\ 0 \in 0..MaxKey
  BY ReadAssumption DEF ReadAssumption

LEMMA CoverInit == ReadInit => CoverInv
  <1> SUFFICES ASSUME ReadInit PROVE CoverInv
    OBVIOUS
  <1>1. ReadTypeOK
    BY FirstValues DEF ReadInit, ReadTypeOK
  <1> QED
    BY <1>1 DEF ReadInit, CoverInv, FlagsInv, HistoryInv, QueryInv, PrefixInv, NothingSkipped,
       NothingInvented

LEMMA SourceStepCover == CoverInv /\ SourceStep => CoverInv'
  <1> SUFFICES ASSUME CoverInv, SourceStep PROVE CoverInv'
    OBVIOUS
  <1> USE DEF CoverInv, ReadTypeOK, FlagsInv, HistoryInv, QueryInv, PrefixInv, NothingSkipped,
              NothingInvented, Selected, readVars
  <1>1. ASSUME NEW k \in Keys, Insert(k) PROVE CoverInv'
    BY <1>1 DEF Insert
  <1>2. ASSUME NEW k \in Keys, Delete(k) PROVE CoverInv'
    BY <1>2 DEF Delete
  <1> QED
    BY <1>1, <1>2 DEF SourceStep

LEMMA BeginCover == ASSUME NEW where \in SUBSET Keys, CoverInv, Begin(where)
                    PROVE  CoverInv'
  <1>1. ReadTypeOK'
    BY FirstValues DEF CoverInv, ReadTypeOK, Begin
  <1> QED
    BY <1>1 DEF Begin, CoverInv, FlagsInv, HistoryInv, QueryInv, PrefixInv, NothingSkipped,
       NothingInvented

LEMMA OpenQueryCover == CoverInv /\ OpenQuery => CoverInv'
  <1> SUFFICES ASSUME CoverInv, OpenQuery PROVE CoverInv'
    OBVIOUS
  <1> USE DEF CoverInv, OpenQuery, sourceVars, Keys
  <1>1. ReadTypeOK' /\ FlagsInv' /\ HistoryInv' /\ PrefixInv' /\ NothingSkipped'
          /\ NothingInvented'
    BY DEF ReadTypeOK, FlagsInv, HistoryInv, PrefixInv, NothingSkipped, NothingInvented
  <1>2. \A k \in pending' : Selected(k)'
    BY DEF Selected
  <1>3. (pending \subseteq appeared)'
    BY DEF HistoryInv
  <1>4. (stable \cap window \subseteq got \cup pending)'
    <2> SUFFICES ASSUME NEW k \in stable \cap window, k \notin got
                 PROVE  k \in rows /\ Selected(k)
      OBVIOUS
    <2>1. k \in rows /\ k \in Int
      BY DEF HistoryInv, ReadTypeOK
    <2>2. ASSUME sawRow PROVE k > lastKey
      <3>1. ~(k <= lastKey)
        BY <2>2 DEF FlagsInv, PrefixInv
      <3> QED
        BY <2>1, <3>1 DEF ReadTypeOK
    <2> QED
      BY <2>1, <2>2 DEF Selected
  <1> QED
    BY <1>1, <1>2, <1>3, <1>4 DEF QueryInv

(* The key kept from a batch is one of its rows, and the rows that are     *)
(* still to come are above it.                                             *)
LEMMA BatchKey == ASSUME CoverInv, NEW b \in SUBSET pending, Deliver(b), HasKey
                  PROVE  /\ sawRow' = TRUE
                         /\ lastKey' \in b
                         /\ \A k \in pending \ b : lastKey' < k
  BY DEF Deliver, IsBatch, LargestInPandas

LEMMA DeliverTypes == ASSUME CoverInv, NEW b \in SUBSET pending, Deliver(b)
                      PROVE  ReadTypeOK'
  <1> USE DEF Keys
  <1>1. b \subseteq Keys /\ 1..MaxKey \subseteq 0..MaxKey
    BY ReadAssumption DEF CoverInv, ReadTypeOK, ReadAssumption
  <1>2. lastKey' \in 0..MaxKey /\ sawRow' \in BOOLEAN
    <2>1. CASE HasKey
      BY <1>1, <2>1, BatchKey
    <2>2. CASE ~HasKey
      BY <2>2 DEF Deliver, CoverInv, ReadTypeOK
    <2> QED
      BY <2>1, <2>2
  <1>3. /\ rows' \subseteq Keys /\ window' \subseteq Keys /\ pending' \subseteq Keys
        /\ got' \subseteq Keys /\ repeated' \subseteq Keys
        /\ stable' \subseteq Keys /\ appeared' \subseteq Keys
    BY <1>1 DEF Deliver, CoverInv, ReadTypeOK, sourceVars
  <1>4. /\ phase' \in {"off", "query", "stream", "done", "failed"}
        /\ attempt' \in 1..Attempts /\ started' \in BOOLEAN /\ yielded' \in BOOLEAN
    BY DEF Deliver, CoverInv, ReadTypeOK
  <1> QED
    BY <1>2, <1>3, <1>4 DEF ReadTypeOK

LEMMA DeliverCover == ASSUME CoverInv, NEW b \in SUBSET pending, Deliver(b)
                      PROVE  CoverInv'
  <1>1. ReadTypeOK'
    BY DeliverTypes
  <1>2. /\ phase = "stream" /\ phase' = phase /\ window' = window
        /\ got' = got \cup b /\ pending' = pending \ b /\ yielded' = TRUE
        /\ rows' = rows /\ stable' = stable /\ appeared' = appeared
    BY DEF Deliver, sourceVars
  <1>3. FlagsInv'
    <2>1. CASE HasKey
      BY <1>2, <2>1, BatchKey DEF FlagsInv
    <2>2. CASE ~HasKey
      BY <1>2, <2>2 DEF FlagsInv, CoverInv, Deliver
    <2> QED
      BY <2>1, <2>2
  <1>4. HistoryInv' /\ NothingSkipped'
    BY <1>2 DEF CoverInv, HistoryInv, NothingSkipped
  <1>5. QueryInv'
    <2>1. \A k \in pending' : Selected(k)'
      <3> SUFFICES ASSUME NEW k \in pending' PROVE Selected(k)'
        OBVIOUS
      <3>1. k \in pending \ b /\ Selected(k) /\ k \in Int
        BY <1>2 DEF CoverInv, QueryInv, ReadTypeOK, Keys
      <3>2. CASE HasKey
        <4>1. lastKey' < k
          BY <3>1, <3>2, BatchKey
        <4>2. lastKey' \in Int
          BY <1>1 DEF ReadTypeOK
        <4> QED
          BY <1>2, <3>1, <4>1, <4>2 DEF Selected
      <3>3. CASE ~HasKey
        BY <1>2, <3>1, <3>3 DEF Selected, Deliver
      <3> QED
        BY <3>2, <3>3
    <2>2. (pending \subseteq appeared /\ stable \cap window \subseteq got \cup pending)'
      BY <1>2 DEF CoverInv, QueryInv
    <2> QED
      BY <2>1, <2>2 DEF QueryInv
  <1>6. PrefixInv'
    <2> SUFFICES ASSUME HasKey, NEW k \in (stable \cap window)', k <= lastKey', k \notin got'
                 PROVE  FALSE
      BY Zenon DEF PrefixInv
    <2>1. k \in pending \ b
      BY <1>2 DEF CoverInv, QueryInv
    <2>2. lastKey' < k
      BY <2>1, BatchKey
    <2>3. k \in Int /\ lastKey' \in Int
      BY <1>1, <2>1 DEF CoverInv, ReadTypeOK, Keys
    <2> QED
      BY <2>2, <2>3
  <1>7. NothingInvented'
    BY <1>2 DEF CoverInv, QueryInv, NothingInvented, Selected
  <1> QED
    BY <1>1, <1>3, <1>4, <1>5, <1>6, <1>7 DEF CoverInv

LEMMA FrameCover == CoverInv /\ DeliverEmptyFrame => CoverInv'
  BY DEF CoverInv, ReadTypeOK, FlagsInv, HistoryInv, QueryInv, PrefixInv, NothingSkipped,
     NothingInvented, Selected, DeliverEmptyFrame, sourceVars

LEMMA ExhaustCover == CoverInv /\ Exhaust => CoverInv'
  BY DEF CoverInv, ReadTypeOK, FlagsInv, HistoryInv, QueryInv, PrefixInv, NothingSkipped,
     NothingInvented, Exhaust, sourceVars

LEMMA ReadStepCover == CoverInv /\ ReadStep => CoverInv'
  BY OpenQueryCover, DeliverCover, FrameCover, ExhaustCover DEF ReadStep

LEMMA SourceErrorCover == ASSUME NEW temporary \in BOOLEAN, CoverInv, SourceError(temporary)
                          PROVE  CoverInv'
  <1> USE DEF CoverInv, SourceError, CanResume, sourceVars
  <1>1. ReadTypeOK'
    BY ReadAssumption DEF ReadAssumption, ReadTypeOK
  <1>2. FlagsInv' /\ HistoryInv' /\ QueryInv' /\ PrefixInv' /\ NothingSkipped'
          /\ NothingInvented'
    BY DEF FlagsInv, HistoryInv, QueryInv, PrefixInv, NothingSkipped, NothingInvented
  <1> QED
    BY <1>1, <1>2

LEMMA AbandonCover == CoverInv /\ Abandon => CoverInv'
  BY DEF CoverInv, ReadTypeOK, FlagsInv, HistoryInv, QueryInv, PrefixInv, NothingSkipped,
     NothingInvented, Abandon, sourceVars

LEMMA IdleCover == CoverInv /\ UNCHANGED allReadVars => CoverInv'
  BY DEF CoverInv, ReadTypeOK, FlagsInv, HistoryInv, QueryInv, PrefixInv, NothingSkipped,
     NothingInvented, Selected, allReadVars, readVars, sourceVars

LEMMA ReadNextCover == CoverInv /\ [ReadNext]_allReadVars => CoverInv'
  BY SourceStepCover, BeginCover, ReadStepCover, SourceErrorCover, AbandonCover, IdleCover
     DEF ReadNext

(* Every state of a reader satisfies CoverInv.                             *)
THEOREM ReaderCovers == ReadSpec => []CoverInv
  <1>1. ReadInit => CoverInv
    BY CoverInit
  <1>2. CoverInv /\ [ReadNext]_allReadVars => CoverInv'
    BY ReadNextCover
  <1> QED
    BY <1>1, <1>2, PTL DEF ReadSpec

(* The variables of a reader keep their types.                             *)
THEOREM ReadTypeCorrect == ReadSpec => []ReadTypeOK
  <1>1. CoverInv => ReadTypeOK
    BY DEF CoverInv
  <1> QED
    BY <1>1, ReaderCovers, PTL

(* A read that ends normally has handed over every row that was there all  *)
(* along and passes its condition, for any order of the keys in pandas.    *)
THEOREM NoRowIsSkipped == ReadSpec => []NothingSkipped
  <1>1. CoverInv => NothingSkipped
    BY DEF CoverInv
  <1> QED
    BY <1>1, ReaderCovers, PTL

(* Only rows the source has held during the read are handed over.          *)
THEOREM NoRowIsInvented == ReadSpec => []NothingInvented
  <1>1. CoverInv => NothingInvented
    BY DEF CoverInv
  <1> QED
    BY <1>1, ReaderCovers, PTL

-----------------------------------------------------------------------------
(* Nothing comes twice, when pandas agrees with the server.                *)

(* Without this a resume may repeat rows: the key it starts from is then   *)
(* not the last one the server has sent.                                   *)
OrdersAgree == \A j, k \in Keys : PyRank[j] <= PyRank[k] => j <= k

OrderInv ==
    /\ CoverInv
    /\ sawRow => \A k \in got : k <= lastKey
    /\ phase = "stream" => pending \cap got = {}
    /\ NeverRepeated

LEMMA DeliverOrder == ASSUME OrdersAgree, OrderInv, NEW b \in SUBSET pending, Deliver(b)
                      PROVE  OrderInv'
  <1>1. CoverInv'
    BY DeliverCover DEF OrderInv
  <1>2. b \subseteq Int /\ b \subseteq Keys /\ got \subseteq Int /\ lastKey \in Int
    BY DEF OrderInv, CoverInv, ReadTypeOK, Keys
  <1>3. phase = "stream" /\ got' = got \cup b /\ pending' = pending \ b
          /\ repeated' = repeated \cup (got \cap b)
    BY DEF Deliver
  <1>4. ASSUME HasKey PROVE \A k \in got' : k <= lastKey'
    <2>1. lastKey' \in b /\ \A k \in b : k <= lastKey'
      BY <1>2, <1>4 DEF OrdersAgree, Deliver, LargestInPandas
    <2>2. ASSUME NEW k \in got PROVE k <= lastKey'
      <3>1. sawRow /\ k <= lastKey
        BY <1>4 DEF OrderInv, CoverInv, FlagsInv
      <3>2. lastKey' > lastKey
        <4>1. Selected(lastKey')
          BY <1>3, <2>1 DEF OrderInv, CoverInv, QueryInv
        <4> QED
          BY <3>1, <4>1 DEF Selected
      <3> QED
        BY <1>2, <2>1, <3>1, <3>2
    <2> QED
      BY <1>3, <2>1, <2>2
  <1>5. sawRow' => HasKey
    BY <1>1 DEF CoverInv, FlagsInv
  <1>6. got \cap b = {}
    BY <1>3 DEF OrderInv
  <1>7. NeverRepeated' /\ pending' \cap got' = {}
    BY <1>3, <1>6 DEF OrderInv, NeverRepeated
  <1> QED
    BY <1>1, <1>4, <1>5, <1>7 DEF OrderInv

LEMMA OpenQueryOrder == OrderInv /\ OpenQuery => OrderInv'
  <1> SUFFICES ASSUME OrderInv, OpenQuery PROVE OrderInv'
    OBVIOUS
  <1>1. CoverInv'
    BY OpenQueryCover DEF OrderInv
  <1>2. pending' \cap got = {}
    <2> SUFFICES ASSUME NEW k \in got, Selected(k) PROVE FALSE
      BY DEF OpenQuery
    <2>1. sawRow
      BY DEF OrderInv, CoverInv, FlagsInv, OpenQuery
    <2>2. k > lastKey /\ k <= lastKey
      BY <2>1 DEF Selected, OrderInv
    <2>3. k \in Int /\ lastKey \in Int
      BY DEF OrderInv, CoverInv, ReadTypeOK, Keys
    <2> QED
      BY <2>2, <2>3
  <1> QED
    BY <1>1, <1>2 DEF OrderInv, OpenQuery, NeverRepeated

LEMMA ReadNextOrder == ASSUME OrdersAgree, OrderInv, [ReadNext]_allReadVars PROVE OrderInv'
  <1>1. CoverInv'
    BY ReadNextCover DEF OrderInv
  <1> USE DEF OrderInv, NeverRepeated
  <1>2. CASE SourceStep
    BY <1>1, <1>2 DEF SourceStep, Insert, Delete, readVars
  <1>3. ASSUME NEW where \in SUBSET Keys, Begin(where) PROVE OrderInv'
    BY <1>1, <1>3 DEF Begin
  <1>4. CASE OpenQuery
    BY <1>4, OpenQueryOrder
  <1>5. ASSUME NEW b \in SUBSET pending, Deliver(b) PROVE OrderInv'
    BY <1>5, DeliverOrder
  <1>6. CASE DeliverEmptyFrame \/ Exhaust
    BY <1>1, <1>6 DEF DeliverEmptyFrame, Exhaust
  <1>7. ASSUME NEW temporary \in BOOLEAN, SourceError(temporary) PROVE OrderInv'
    BY <1>1, <1>7 DEF SourceError
  <1>8. CASE Abandon
    BY <1>1, <1>8 DEF Abandon
  <1>9. CASE UNCHANGED allReadVars
    BY <1>1, <1>9 DEF allReadVars, readVars, sourceVars
  <1> QED
    BY <1>2, <1>3, <1>4, <1>5, <1>6, <1>7, <1>8, <1>9 DEF ReadNext, ReadStep

(* With agreeing orders every state of a reader satisfies OrderInv.        *)
THEOREM ReaderIsOrdered == ASSUME OrdersAgree PROVE ReadSpec => []OrderInv
  <1>1. ReadInit => OrderInv
    BY CoverInit DEF OrderInv, ReadInit, NeverRepeated
  <1>2. OrderInv /\ [ReadNext]_allReadVars => OrderInv'
    BY ReadNextOrder
  <1> QED
    BY <1>1, <1>2, PTL DEF ReadSpec

(* No row is handed over twice, across any number of resumes.              *)
THEOREM NoRowIsRepeated == ASSUME OrdersAgree PROVE ReadSpec => []NeverRepeated
  <1>1. OrderInv => NeverRepeated
    BY DEF OrderInv
  <1>2. ReadSpec => []OrderInv
    BY ReaderIsOrdered
  <1> QED
    BY <1>1, <1>2, PTL

(* What a reader has handed over at any moment is a prefix of the read.    *)
THEOREM PrefixHandedOver == ASSUME OrdersAgree PROVE ReadSpec => []HandedOverIsAPrefix
  <1>1. OrderInv => HandedOverIsAPrefix
    <2> SUFFICES ASSUME OrderInv, HasKey,
                        NEW k \in stable \cap window, NEW j \in got, k <= j
                 PROVE  k \in got
      BY DEF HandedOverIsAPrefix
    <2>1. sawRow /\ j <= lastKey
      BY DEF OrderInv, CoverInv, FlagsInv
    <2>2. k <= lastKey
      BY <2>1 DEF OrderInv, CoverInv, ReadTypeOK, Keys
    <2> QED
      BY <2>1, <2>2 DEF OrderInv, CoverInv, PrefixInv
  <1>2. ReadSpec => []OrderInv
    BY ReaderIsOrdered
  <1> QED
    BY <1>1, <1>2, PTL
=============================================================================
