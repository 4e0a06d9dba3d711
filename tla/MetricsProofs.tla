--------------------------- MODULE MetricsProofs ---------------------------
(***************************************************************************)
(* What the counters promise (Metrics), for every finite set of streams,   *)
(* every number of packets, of picks of a packet and of summaries.         *)
(***************************************************************************)
EXTENDS Metrics, FiniteSetTheorems, SequenceTheorems, TLAPS

---------------------------------------------------------------------------
(* Sums of counters                                                        *)

\* The things counted are finitely many, and the sum is a number.
LEMMA TotalIsNat ==
  ASSUME NEW K, IsFiniteSet(K), NEW map \in [K -> Nat]
  PROVE  IsFiniteSet(Counted(map)) /\ TotalOf(map) \in Nat
<1>. DEFINE Of(key) == {key} \X (1 .. map[key])
            parts == {Of(key) : key \in K}
<1>1. ASSUME NEW key \in K
      PROVE  IsFiniteSet(Of(key))
  <2>1. IsFiniteSet({key})
    BY FS_Singleton
  <2>2. IsFiniteSet(1 .. map[key])
    BY FS_Interval
  <2>. QED
    BY <2>1, <2>2, FS_Product
<1>2. \A part \in parts : IsFiniteSet(part)
  BY <1>1
<1>3. IsFiniteSet(parts)
  <2>. DEFINE of == [key \in K |-> Of(key)]
  <2>1. of \in Surjection(K, parts)
    BY DEF Surjection
  <2>. QED
    BY <2>1, FS_Surjection
<1>4. Counted(map) = UNION parts
  BY DEF Counted
<1>5. IsFiniteSet(Counted(map))
  <2>. HIDE DEF parts
  <2>. QED
    BY <1>2, <1>3, <1>4, FS_UNION
<1>. QED
  BY <1>5, FS_CardinalityType DEF TotalOf

\* Counters that only grew have a sum that only grew.
LEMMA TotalIsMonotone ==
  ASSUME NEW K, NEW L, IsFiniteSet(L), K \subseteq L,
         NEW map \in [K -> Nat], NEW grown \in [L -> Nat],
         \A key \in K : map[key] <= grown[key]
  PROVE  TotalOf(map) <= TotalOf(grown)
<1>1. ASSUME NEW unit \in Counted(map)
      PROVE  unit \in Counted(grown)
  <2>1. PICK key \in K : unit \in {key} \X (1 .. map[key])
    BY DEF Counted
  <2>2. map[key] \in Nat /\ grown[key] \in Nat /\ map[key] <= grown[key]
    OBVIOUS
  <2>3. 1 .. map[key] \subseteq 1 .. grown[key]
    BY <2>2
  <2>4. unit \in {key} \X (1 .. grown[key])
    BY <2>1, <2>3
  <2>. QED
    BY <2>4 DEF Counted
<1>2. IsFiniteSet(Counted(grown))
  BY TotalIsNat
<1>3. Counted(map) \in SUBSET Counted(grown)
  BY <1>1
<1>. QED
  BY <1>2, <1>3, FS_Subset DEF TotalOf

\* What is added to one counter is added to the sum.
LEMMA TotalOfAddition ==
  ASSUME NEW K, IsFiniteSet(K), NEW map \in [K -> Nat], NEW key \in K, NEW n \in Nat
  PROVE  TotalOf([map EXCEPT ![key] = @ + n]) = TotalOf(map) + n
<1>. DEFINE new == {key} \X (map[key] + 1 .. map[key] + n)
            after == [map EXCEPT ![key] = @ + n]
<1>1. map[key] \in Nat
  OBVIOUS
<1>2. IsFiniteSet(new) /\ Cardinality(new) = n
  <2>1. IsFiniteSet({key}) /\ Cardinality({key}) = 1
    BY FS_Singleton
  <2>2. /\ IsFiniteSet(map[key] + 1 .. map[key] + n)
        /\ Cardinality(map[key] + 1 .. map[key] + n) = n
    <3>1. map[key] + 1 \in Int /\ map[key] + n \in Int
      BY <1>1
    <3>2. (map[key] + n) - (map[key] + 1) + 1 = n /\ map[key] + 1 > map[key] + n <=> n = 0
      BY <1>1
    <3>. QED
      BY <3>1, <3>2, FS_Interval
  <2>3. /\ IsFiniteSet(new)
        /\ Cardinality(new)
             = Cardinality({key}) * Cardinality(map[key] + 1 .. map[key] + n)
    BY <2>1, <2>2, FS_Product
  <2>. QED
    BY <2>1, <2>2, <2>3
<1>3. Counted(after) = Counted(map) \cup new
  <2>1. 1 .. after[key] = 1 .. map[key] \cup map[key] + 1 .. map[key] + n
    BY <1>1
  <2>2. {key} \X (1 .. after[key]) = ({key} \X (1 .. map[key])) \cup new
    BY <2>1
  <2>3. \A k \in K \ {key} : {k} \X (1 .. after[k]) = {k} \X (1 .. map[k])
    OBVIOUS
  <2>4. DOMAIN map = K /\ DOMAIN after = K
    OBVIOUS
  <2>. HIDE DEF new, after
  <2>. QED
    BY <2>2, <2>3, <2>4 DEF Counted
<1>4. Counted(map) \cap new = {}
  <2>1. SUFFICES ASSUME NEW unit \in Counted(map), unit \in new
                 PROVE  FALSE
    OBVIOUS
  <2>2. PICK k \in K : unit \in {k} \X (1 .. map[k])
    BY DEF Counted
  <2>. QED
    BY <1>1, <2>1, <2>2
<1>5. IsFiniteSet(Counted(map)) /\ TotalOf(map) \in Nat
  BY TotalIsNat
<1>. HIDE DEF new, after
<1>6. Cardinality(Counted(map) \cup new)
        = Cardinality(Counted(map)) + Cardinality(new) - Cardinality(Counted(map) \cap new)
  BY <1>2, <1>5, FS_Union
<1>7. Cardinality(Counted(map) \cap new) = 0
  BY <1>4, FS_EmptySet
<1>8. Cardinality(Counted(after)) = Cardinality(Counted(map)) + n
  BY <1>2, <1>3, <1>5, <1>6, <1>7 DEF TotalOf
<1>. QED
  BY <1>8 DEF TotalOf, after

---------------------------------------------------------------------------
(* Counters and their keys                                                 *)

Keys == {ToKeyName(s) : s \in Streams}
Counters == UNION {[K -> Nat] : K \in SUBSET Keys}

\* Two streams never share a counter: a key of three words lacks the location
\* code, and one of four has it (toKeyName).
LEMMA KeysTellStreamsApart ==
  ASSUME NEW s \in Streams, NEW t \in Streams, ToKeyName(s) = ToKeyName(t)
  PROVE  s = t
<1>1. /\ s \in Seq(STRING) /\ Len(s) = 4
      /\ t \in Seq(STRING) /\ Len(t) = 4
  BY MetricsAssumption
<1>2. /\ Len(SubSeq(s, 1, 3)) = 3 /\ \A i \in 1 .. 3 : SubSeq(s, 1, 3)[i] = s[i]
      /\ Len(SubSeq(t, 1, 3)) = 3 /\ \A i \in 1 .. 3 : SubSeq(t, 1, 3)[i] = t[i]
  BY <1>1, SubSeqProperties
<1>3. CASE s[4] = "" /\ t[4] = ""
  <2>1. SubSeq(s, 1, 3) = SubSeq(t, 1, 3)
    BY <1>3 DEF ToKeyName
  <2>2. \A i \in 1 .. 4 : i \in 1 .. 3 \/ i = 4
    OBVIOUS
  <2>3. \A i \in 1 .. 4 : s[i] = t[i]
    BY <1>2, <1>3, <2>1, <2>2
  <2>. QED
    BY <1>1, <2>3, SeqEqual
<1>4. CASE s[4] # "" /\ t[4] # ""
  BY <1>4 DEF ToKeyName
<1>5. Len(s) # Len(SubSeq(t, 1, 3)) /\ Len(t) # Len(SubSeq(s, 1, 3))
  BY <1>1, <1>2
<1>. QED
  BY <1>3, <1>4, <1>5 DEF ToKeyName

\* Counters are numbers under finitely many keys.
LEMMA CountersAreFinite ==
  ASSUME NEW map \in Counters
  PROVE  /\ DOMAIN map \subseteq Keys /\ IsFiniteSet(DOMAIN map)
         /\ map \in [DOMAIN map -> Nat]
         /\ TotalOf(map) \in Nat
         /\ \A key : CountOf(map, key) \in Nat
<1>1. PICK K \in SUBSET Keys : map \in [K -> Nat]
  BY DEF Counters
<1>2. DOMAIN map = K
  BY <1>1
<1>3. IsFiniteSet(Keys)
  <2>. DEFINE name == [s \in Streams |-> ToKeyName(s)]
  <2>1. name \in Surjection(Streams, Keys)
    BY DEF Surjection, Keys
  <2>. QED
    BY <2>1, MetricsAssumption, FS_Surjection
<1>4. IsFiniteSet(K)
  BY <1>1, <1>3, FS_Subset
<1>5. TotalOf(map) \in Nat
  BY <1>1, <1>4, TotalIsNat
<1>6. \A key : CountOf(map, key) \in Nat
  BY <1>1, <1>2 DEF CountOf
<1>. QED
  BY <1>1, <1>2, <1>4, <1>5, <1>6

\* Counters that only grew: every count, and the sum.
LEMMA GrownCounters ==
  ASSUME NEW map \in Counters, NEW grown \in Counters,
         DOMAIN map \subseteq DOMAIN grown,
         \A key \in DOMAIN map : map[key] <= grown[key]
  PROVE  /\ \A key : CountOf(map, key) <= CountOf(grown, key)
         /\ TotalOf(map) <= TotalOf(grown)
<1>1. /\ map \in [DOMAIN map -> Nat]
      /\ \A key : CountOf(map, key) \in Nat
  BY CountersAreFinite
<1>2. /\ grown \in [DOMAIN grown -> Nat] /\ IsFiniteSet(DOMAIN grown)
      /\ \A key : CountOf(grown, key) \in Nat
  BY CountersAreFinite
<1>3. TotalOf(map) <= TotalOf(grown)
  BY <1>1, <1>2, TotalIsMonotone
<1>4. ASSUME NEW key
      PROVE  CountOf(map, key) <= CountOf(grown, key)
  <2>1. CASE key \in DOMAIN map
    BY <2>1 DEF CountOf
  <2>2. CASE key \notin DOMAIN map
    <3>1. CountOf(map, key) = 0
      BY <2>2 DEF CountOf
    <3>2. CountOf(grown, key) \in Nat
      BY <1>2
    <3>. QED
      BY <3>1, <3>2
  <2>. QED
    BY <2>1, <2>2
<1>. QED
  BY <1>3, <1>4

\* Counting moves one counter and the sum, and takes nothing back.
LEMMA IncrementedCounters ==
  ASSUME NEW map \in Counters, NEW key \in Keys, NEW n \in Nat
  PROVE  /\ Incremented(map, key, n) \in Counters
         /\ \A k : CountOf(Incremented(map, key, n), k)
                      = CountOf(map, k) + (IF k = key THEN n ELSE 0)
         /\ \A k : CountOf(map, k) <= CountOf(Incremented(map, key, n), k)
         /\ TotalOf(map) <= TotalOf(Incremented(map, key, n))
<1>. DEFINE new == Incremented(map, key, n)
            K   == DOMAIN map \cup {key}
<1>1. /\ DOMAIN map \subseteq Keys /\ map \in [DOMAIN map -> Nat]
      /\ \A k : CountOf(map, k) \in Nat
  BY CountersAreFinite
<1>2. /\ DOMAIN new = K
      /\ \A k \in K : new[k] = CountOf(map, k) + (IF k = key THEN n ELSE 0)
  BY DEF Incremented
<1>3. \A k \in K : CountOf(map, k) + (IF k = key THEN n ELSE 0) \in Nat
  BY <1>1
<1>4. new \in [K -> Nat]
  BY <1>3 DEF Incremented
<1>5. new \in Counters
  <2>1. K \in SUBSET Keys
    BY <1>1
  <2>. HIDE DEF new, K
  <2>. QED
    BY <1>4, <2>1 DEF Counters
<1>. HIDE DEF new
<1>6. ASSUME NEW k
      PROVE  CountOf(new, k) = CountOf(map, k) + (IF k = key THEN n ELSE 0)
  <2>1. CASE k \in K
    BY <1>2, <2>1 DEF CountOf
  <2>2. CASE k \notin K
    BY <1>2, <2>2 DEF CountOf
  <2>. QED
    BY <2>1, <2>2
<1>7. \A k \in DOMAIN map : map[k] <= new[k]
  <2>1. ASSUME NEW k \in DOMAIN map
        PROVE  map[k] <= new[k]
    <3>1. new[k] = CountOf(map, k) + (IF k = key THEN n ELSE 0)
      BY <1>2
    <3>2. CountOf(map, k) = map[k] /\ map[k] \in Nat
      BY <1>1 DEF CountOf
    <3>. QED
      BY <3>1, <3>2
  <2>. QED
    BY <2>1
<1>8. /\ \A k : CountOf(map, k) <= CountOf(new, k)
      /\ TotalOf(map) <= TotalOf(new)
  BY <1>2, <1>5, <1>7, GrownCounters
<1>. QED
  BY <1>5, <1>6, <1>8 DEF new

---------------------------------------------------------------------------
(* The inductive invariant.  Beside the types:                             *)
(*  - CountInv, what CountersMatchPicks says of each stream;               *)
(*  - BacklogInv, that picks made and not offered are those of the packet  *)
(*    under way, which getPicks is about to return;                        *)
(*  - SentInv, that nothing is queued or sent that was not offered.        *)

MapTypes ==
    /\ mResetsCounterMap \in Counters
    /\ mPicksCounterMap \in Counters
    /\ counters \in Counters
    /\ observed \in Counters

StreamTypes ==
    /\ stream \in Streams
    /\ mOutputPicks \in [Streams -> Nat]
    /\ made \in [Streams -> Nat]
    /\ resets \in [Streams -> Nat]
    /\ offered \in [Streams -> Nat]
    /\ queued \in Nat /\ mPicksSentCounter \in Nat

ReportTypes ==
    /\ nPicks \in Nat /\ mPicksLastReport \in Nat /\ reportedPicks \in Nat
    /\ nResets \in Nat /\ mDetectorResetsLastReport \in Nat /\ reportedResets \in Nat

CountInv ==
    \A s \in Streams :
        /\ CountOf(mPicksCounterMap, ToKeyName(s)) = made[s] - Uncounted(s)
        /\ CountOf(mResetsCounterMap, ToKeyName(s)) = resets[s]

\* The picks of the packet under way that getPicks is about to return.
Unoffered(s) ==
    IF dataPc \in {"count", "enqueue"} /\ stream = s THEN mOutputPicks[s] ELSE 0
BacklogInv == \A s \in Streams : made[s] <= offered[s] + Unoffered(s)

SentInv == mPicksSentCounter + queued <= TotalOf(offered)

MetricsInv ==
    /\ MapTypes /\ StreamTypes /\ ReportTypes
    /\ CountInv /\ BacklogInv /\ SentInv
    /\ ReportsAddUp

\* The invariant is stronger than what was to be proved.
LEMMA InvGivesCounters == MetricsInv => CountersMatchPicks
<1>. SUFFICES ASSUME MetricsInv PROVE CountersMatchPicks
  OBVIOUS
<1>1. ASSUME NEW s \in Streams, dataPc = "pop"
      PROVE  made[s] <= offered[s]
  <2>1. Unoffered(s) = 0
    BY <1>1 DEF Unoffered
  <2>2. made[s] \in Nat /\ offered[s] \in Nat
    BY DEF MetricsInv, StreamTypes
  <2>. QED
    BY <2>1, <2>2 DEF MetricsInv, BacklogInv
<1>. QED
  BY <1>1 DEF MetricsInv, CountInv, SentInv, CountersMatchPicks

\* The application starts with no counters.
LEMMA MetricsInit == Init => MetricsInv
<1>. SUFFICES ASSUME Init PROVE MetricsInv
  OBVIOUS
<1>1. NoCounters \in Counters /\ \A key : CountOf(NoCounters, key) = 0
  <2>1. {} \in SUBSET Keys /\ NoCounters \in [{} -> Nat] /\ DOMAIN NoCounters = {}
    BY DEF NoCounters
  <2>. QED
    BY <2>1 DEF Counters, CountOf
<1>2. MapTypes
  BY <1>1 DEF MapTypes, Init
<1>3. StreamTypes
  BY DEF StreamTypes, Init
<1>4. ReportTypes
  BY DEF ReportTypes, Init
<1>5. \A s \in Streams : made[s] = 0 /\ offered[s] = 0 /\ resets[s] = 0
                         /\ Uncounted(s) = 0 /\ Unoffered(s) = 0
  BY DEF Init, Uncounted, Unoffered
<1>6. CountInv
  BY <1>1, <1>5 DEF CountInv, Init
<1>7. BacklogInv
  BY <1>5 DEF BacklogInv
<1>8. TotalOf(offered) \in Nat
  BY <1>3, MetricsAssumption, TotalIsNat DEF StreamTypes
<1>9. SentInv
  BY <1>8 DEF SentInv, Init
<1>10. TotalOf(NoCounters) \in Nat /\ DOMAIN NoCounters = {}
  BY <1>1, CountersAreFinite DEF NoCounters
<1>11. ReportsAddUp
  BY <1>10 DEF ReportsAddUp, SumPicks, SumDetectorResets, Init
<1>. QED
  BY <1>2, <1>3, <1>4, <1>6, <1>7, <1>9, <1>11 DEF MetricsInv

\* What one conjunct of the invariant reads may stay as it is.
LEMMA UnchangedCounters ==
  ASSUME MetricsInv,
         UNCHANGED <<mResetsCounterMap, mPicksCounterMap, mainVars, exporterVars>>
  PROVE  MapTypes' /\ ReportTypes' /\ ReportsAddUp'
BY DEF MetricsInv, MapTypes, ReportTypes, ReportsAddUp, mainVars, exporterVars,
       SumPicks, SumDetectorResets

\* The counters only grow, which takes no report back.
LEMMA CountersGrow ==
  ASSUME MetricsInv, mResetsCounterMap' \in Counters, mPicksCounterMap' \in Counters,
         SumPicks <= SumPicks', SumDetectorResets <= SumDetectorResets',
         \A key : CountOf(mPicksCounterMap, key) <= CountOf(mPicksCounterMap', key),
         UNCHANGED <<mainVars, exporterVars>>
  PROVE  MapTypes' /\ ReportTypes' /\ ReportsAddUp'
<1>1. MapTypes' /\ ReportTypes'
  BY DEF MetricsInv, MapTypes, ReportTypes, mainVars, exporterVars
<1>2. SumPicks \in Nat /\ SumPicks' \in Nat /\ SumDetectorResets \in Nat
      /\ SumDetectorResets' \in Nat
  BY CountersAreFinite DEF MetricsInv, MapTypes, SumPicks, SumDetectorResets
<1>3. nPicks' <= SumPicks' /\ nResets' <= SumDetectorResets'
  BY <1>2 DEF MetricsInv, ReportTypes, ReportsAddUp, mainVars
<1>4. ASSUME NEW key \in DOMAIN counters'
      PROVE  counters'[key] <= CountOf(mPicksCounterMap', key)
  <2>1. counters' = counters /\ counters \in [DOMAIN counters -> Nat]
    BY CountersAreFinite DEF MetricsInv, MapTypes, exporterVars
  <2>2. counters[key] <= CountOf(mPicksCounterMap, key)
    BY <1>4, <2>1 DEF MetricsInv, ReportsAddUp
  <2>3. /\ CountOf(mPicksCounterMap, key) \in Nat /\ CountOf(mPicksCounterMap', key) \in Nat
        /\ CountOf(mPicksCounterMap, key) <= CountOf(mPicksCounterMap', key)
    BY CountersAreFinite DEF MetricsInv, MapTypes
  <2>4. counters[key] \in Nat
    BY <1>4, <2>1
  <2>. QED
    BY <2>1, <2>2, <2>3, <2>4
<1>5. /\ reportedPicks' = mPicksLastReport' /\ mPicksLastReport' <= nPicks'
      /\ reportedResets' = mDetectorResetsLastReport'
      /\ mDetectorResetsLastReport' <= nResets'
      /\ \A key \in DOMAIN observed' : observed'[key] <= CountOf(counters', key)
  BY DEF MetricsInv, ReportsAddUp, mainVars, exporterVars
<1>6. ReportsAddUp'
  BY <1>3, <1>4, <1>5 DEF ReportsAddUp
<1>. QED
  BY <1>1, <1>6

\* Reading the counters, in the main thread or the exporter, changes none.
LEMMA UnchangedStreams ==
  ASSUME MetricsInv, UNCHANGED <<counterVars, dataVars, queued>>
  PROVE  StreamTypes' /\ CountInv' /\ BacklogInv' /\ SentInv'
<1>1. StreamTypes'
  BY DEF MetricsInv, StreamTypes, counterVars, dataVars
<1>2. CountInv'
  BY DEF MetricsInv, CountInv, Uncounted, counterVars, dataVars
<1>3. BacklogInv'
  BY DEF MetricsInv, BacklogInv, Unoffered, dataVars
<1>4. SentInv'
  BY DEF MetricsInv, SentInv, counterVars, dataVars
<1>. QED
  BY <1>1, <1>2, <1>3, <1>4

\* Every step of every thread keeps the invariant.
LEMMA MetricsStep == MetricsInv /\ [Next]_vars => MetricsInv'
<1>. SUFFICES ASSUME MetricsInv, [Next]_vars PROVE MetricsInv'
  OBVIOUS
<1>. DEFINE Streamwise == StreamTypes' /\ CountInv' /\ BacklogInv' /\ SentInv'
            Reportwise == MapTypes' /\ ReportTypes' /\ ReportsAddUp'
<1>1. ASSUME Streamwise, Reportwise
      PROVE  MetricsInv'
  BY <1>1 DEF MetricsInv
<1>. HIDE DEF Streamwise, Reportwise
<1>2. \A s \in Streams : made[s] \in Nat /\ offered[s] \in Nat /\ resets[s] \in Nat
                         /\ mOutputPicks[s] \in Nat /\ Uncounted(s) \in Nat
  BY DEF MetricsInv, StreamTypes, Uncounted
<1>3. stream \in Streams /\ ToKeyName(stream) \in Keys
  BY DEF MetricsInv, StreamTypes, Keys
<1>4. ASSUME NEW identifier \in Streams, Pop(identifier)
      PROVE  Streamwise /\ Reportwise
  <2>1. StreamTypes'
    BY <1>4 DEF Pop, MetricsInv, StreamTypes, counterVars
  <2>2. \A s \in Streams : Uncounted(s) = 0 /\ Uncounted(s)' = 0 /\ Unoffered(s) = 0
    BY <1>4 DEF Pop, Uncounted, Unoffered
  <2>3. CountInv'
    BY <1>4, <2>2 DEF Pop, MetricsInv, CountInv, counterVars
  <2>4. \A s \in Streams : Unoffered(s)' \in Nat
    BY <2>1 DEF StreamTypes, Unoffered
  <2>5. BacklogInv'
    BY <1>2, <1>4, <2>2, <2>4 DEF Pop, MetricsInv, BacklogInv
  <2>6. SentInv'
    BY <1>4 DEF Pop, MetricsInv, SentInv, counterVars
  <2>7. Reportwise
    BY <1>4, UnchangedCounters DEF Pop, counterVars, Reportwise
  <2>. QED
    BY <2>1, <2>3, <2>5, <2>6, <2>7 DEF Streamwise
<1>5. CASE Reset
  <2>1. /\ mResetsCounterMap' \in Counters
        /\ \A k : CountOf(mResetsCounterMap', k)
                    = CountOf(mResetsCounterMap, k) + (IF k = ToKeyName(stream) THEN 1 ELSE 0)
        /\ TotalOf(mResetsCounterMap) <= TotalOf(mResetsCounterMap')
    BY <1>3, <1>5, IncrementedCounters
       DEF Reset, IncrementDetectorResetsCounter, MetricsInv, MapTypes
  <2>2. StreamTypes'
    BY <1>3, <1>5 DEF Reset, MetricsInv, StreamTypes
  <2>3. ASSUME NEW s \in Streams
        PROVE  CountOf(mResetsCounterMap', ToKeyName(s)) = resets'[s]
    <3>1. CountOf(mResetsCounterMap, ToKeyName(s)) = resets[s]
      BY DEF MetricsInv, CountInv
    <3>2. ToKeyName(s) = ToKeyName(stream) <=> s = stream
      BY <1>3, KeysTellStreamsApart
    <3>3. resets'[s] = resets[s] + (IF s = stream THEN 1 ELSE 0)
      BY <1>5, <1>2 DEF Reset, MetricsInv, StreamTypes
    <3>. QED
      BY <2>1, <3>1, <3>2, <3>3
  <2>4. \A s \in Streams : Uncounted(s) = 0 /\ Uncounted(s)' = 0 /\ Unoffered(s) = 0
    BY <1>5 DEF Reset, Uncounted, Unoffered
  <2>5. CountInv'
    BY <1>5, <2>3, <2>4 DEF Reset, MetricsInv, CountInv
  <2>6. \A s \in Streams : Unoffered(s)' \in Nat
    BY <2>2 DEF StreamTypes, Unoffered
  <2>7. BacklogInv'
    BY <1>2, <1>5, <2>4, <2>6 DEF Reset, MetricsInv, BacklogInv
  <2>8. SentInv'
    BY <1>5 DEF Reset, MetricsInv, SentInv
  <2>9. /\ mPicksCounterMap' = mPicksCounterMap
        /\ mPicksCounterMap \in Counters
        /\ SumPicks' = SumPicks
        /\ UNCHANGED <<mainVars, exporterVars>>
    BY <1>5 DEF Reset, MetricsInv, MapTypes, SumPicks
  <2>10. /\ SumPicks <= SumPicks' /\ SumDetectorResets <= SumDetectorResets'
         /\ \A k : CountOf(mPicksCounterMap, k) <= CountOf(mPicksCounterMap', k)
    BY <2>1, <2>9, CountersAreFinite DEF SumPicks, SumDetectorResets
  <2>11. Reportwise
    BY <2>1, <2>9, <2>10, CountersGrow DEF Reportwise
  <2>. QED
    BY <1>1, <2>2, <2>5, <2>7, <2>8, <2>11 DEF Streamwise
<1>6. ASSUME NEW n \in 0 .. MaxPicks, Detect(n)
      PROVE  Streamwise /\ Reportwise
  <2>1. n \in Nat
    BY MetricsAssumption
  <2>2. StreamTypes'
    BY <1>3, <1>6, <2>1 DEF Detect, MetricsInv, StreamTypes, counterVars
  <2>3. ASSUME NEW s \in Streams
        PROVE  /\ Uncounted(s) = 0 /\ Unoffered(s) = 0
               /\ Uncounted(s)' = (IF s = stream THEN n ELSE 0)
               /\ Unoffered(s)' = (IF s = stream THEN n ELSE 0)
               /\ made'[s] = made[s] + (IF s = stream THEN n ELSE 0)
    <3>1. Uncounted(s) = 0 /\ Unoffered(s) = 0
      BY <1>6 DEF Detect, Uncounted, Unoffered
    <3>2. made'[s] = made[s] + (IF s = stream THEN n ELSE 0)
      BY <1>2, <1>6 DEF Detect, MetricsInv, StreamTypes
    <3>3. stream' = stream /\ (s = stream => mOutputPicks'[s] = n)
      BY <1>6 DEF Detect, MetricsInv, StreamTypes
    <3>4. Uncounted(s)' = (IF s = stream THEN n ELSE 0)
      BY <1>6, <3>3 DEF Detect, Uncounted
    <3>5. Unoffered(s)' = (IF s = stream THEN n ELSE 0)
      BY <1>6, <3>3 DEF Detect, Unoffered
    <3>. QED
      BY <3>1, <3>2, <3>4, <3>5
  <2>4. CountInv'
    <3>1. /\ UNCHANGED <<mPicksCounterMap, mResetsCounterMap, resets>>
      BY <1>6 DEF Detect, counterVars
    <3>2. ASSUME NEW s \in Streams
          PROVE  /\ CountOf(mPicksCounterMap, ToKeyName(s)) = made'[s] - Uncounted(s)'
                 /\ CountOf(mResetsCounterMap, ToKeyName(s)) = resets[s]
      BY <1>2, <2>1, <2>3 DEF MetricsInv, CountInv
    <3>. QED
      BY <3>1, <3>2 DEF CountInv
  <2>5. BacklogInv'
    <3>1. ASSUME NEW s \in Streams
          PROVE  made'[s] <= offered[s] + Unoffered(s)'
      BY <1>2, <2>1, <2>3 DEF MetricsInv, BacklogInv
    <3>2. offered' = offered
      BY <1>6 DEF Detect
    <3>. QED
      BY <3>1, <3>2 DEF BacklogInv
  <2>6. SentInv'
    BY <1>6 DEF Detect, MetricsInv, SentInv, counterVars
  <2>7. Reportwise
    BY <1>6, UnchangedCounters DEF Detect, counterVars, Reportwise
  <2>. QED
    BY <2>2, <2>4, <2>5, <2>6, <2>7 DEF Streamwise
<1>7. CASE Count
  <2>. DEFINE n == mOutputPicks[stream]
  <2>1. n \in Nat
    BY <1>2, <1>3
  <2>2. /\ mPicksCounterMap' \in Counters
        /\ \A k : CountOf(mPicksCounterMap', k)
                    = CountOf(mPicksCounterMap, k) + (IF k = ToKeyName(stream) THEN n ELSE 0)
        /\ \A k : CountOf(mPicksCounterMap, k) <= CountOf(mPicksCounterMap', k)
        /\ TotalOf(mPicksCounterMap) <= TotalOf(mPicksCounterMap')
    <3>1. mPicksCounterMap \in Counters
      BY DEF MetricsInv, MapTypes
    <3>2. CASE n = 0
      <4>1. mPicksCounterMap' = mPicksCounterMap
        BY <1>7, <3>2 DEF Count, IncrementPicksCounter
      <4>. QED
        BY <3>1, <3>2, <4>1, CountersAreFinite
    <3>3. CASE n # 0
      <4>1. mPicksCounterMap' = Incremented(mPicksCounterMap, ToKeyName(stream), n)
        BY <1>7, <3>3 DEF Count, IncrementPicksCounter
      <4>. HIDE DEF n
      <4>. QED
        BY <1>3, <2>1, <3>1, <4>1, IncrementedCounters
    <3>. QED
      BY <3>2, <3>3
  <2>3. StreamTypes'
    BY <1>7 DEF Count, MetricsInv, StreamTypes
  <2>4. ASSUME NEW s \in Streams
        PROVE  /\ Uncounted(s) = (IF s = stream THEN n ELSE 0) /\ Uncounted(s)' = 0
               /\ Unoffered(s)' = Unoffered(s)
    BY <1>7 DEF Count, Uncounted, Unoffered
  <2>5. UNCHANGED <<made, offered, resets, mResetsCounterMap, mPicksSentCounter, queued>>
    BY <1>7 DEF Count
  <2>. HIDE DEF n
  <2>6. CountInv'
    <3>1. ASSUME NEW s \in Streams
          PROVE  CountOf(mPicksCounterMap', ToKeyName(s)) = made[s] - Uncounted(s)'
      <4>1. CountOf(mPicksCounterMap, ToKeyName(s)) = made[s] - Uncounted(s)
        BY DEF MetricsInv, CountInv
      <4>2. ToKeyName(s) = ToKeyName(stream) <=> s = stream
        BY <1>3, KeysTellStreamsApart
      <4>. QED
        BY <1>2, <2>1, <2>2, <2>4, <4>1, <4>2
    <3>. QED
      BY <2>5, <3>1 DEF MetricsInv, CountInv
  <2>7. BacklogInv'
    BY <2>4, <2>5 DEF MetricsInv, BacklogInv
  <2>8. SentInv'
    BY <2>5 DEF MetricsInv, SentInv
  <2>9. /\ mResetsCounterMap \in Counters
        /\ SumDetectorResets' = SumDetectorResets
        /\ UNCHANGED <<mainVars, exporterVars>>
    BY <1>7 DEF Count, MetricsInv, MapTypes, SumDetectorResets
  <2>10. SumPicks <= SumPicks' /\ SumDetectorResets <= SumDetectorResets'
    BY <2>2, <2>9, CountersAreFinite DEF SumPicks, SumDetectorResets
  <2>11. Reportwise
    BY <2>2, <2>5, <2>9, <2>10, CountersGrow DEF Reportwise
  <2>. QED
    BY <1>1, <2>3, <2>6, <2>7, <2>8, <2>11 DEF Streamwise
<1>8. CASE Enqueue
  <2>. DEFINE n == mOutputPicks[stream]
  <2>1. n \in Nat
    BY <1>2, <1>3
  <2>2. StreamTypes'
    BY <1>3, <1>8, <2>1 DEF Enqueue, MetricsInv, StreamTypes, counterVars
  <2>3. \A s \in Streams :
           /\ Uncounted(s) = 0 /\ Uncounted(s)' = 0
           /\ Unoffered(s) = (IF s = stream THEN n ELSE 0) /\ Unoffered(s)' = 0
           /\ offered'[s] = offered[s] + (IF s = stream THEN n ELSE 0)
    BY <1>2, <1>8 DEF Enqueue, Uncounted, Unoffered, MetricsInv, StreamTypes
  <2>4. UNCHANGED <<made, resets, counterVars, mainVars, exporterVars>>
    BY <1>8 DEF Enqueue
  <2>5. CountInv'
    BY <2>3, <2>4 DEF MetricsInv, CountInv, counterVars
  <2>6. TotalOf(offered') = TotalOf(offered) + n /\ queued' = queued + n
    <3>1. offered' = [offered EXCEPT ![stream] = @ + n] /\ queued' = queued + n
      BY <1>8 DEF Enqueue
    <3>2. offered \in [Streams -> Nat] /\ IsFiniteSet(Streams)
      BY MetricsAssumption DEF MetricsInv, StreamTypes
    <3>. HIDE DEF n
    <3>. QED
      BY <1>3, <2>1, <3>1, <3>2, TotalOfAddition
  <2>7. TotalOf(offered) \in Nat
    BY MetricsAssumption, TotalIsNat DEF MetricsInv, StreamTypes
  <2>. HIDE DEF n
  <2>8. BacklogInv'
    <3>1. ASSUME NEW s \in Streams
          PROVE  made[s] <= offered'[s] + Unoffered(s)'
      BY <1>2, <2>1, <2>3 DEF MetricsInv, BacklogInv
    <3>. QED
      BY <2>4, <3>1 DEF BacklogInv
  <2>9. SentInv'
    <3>1. mPicksSentCounter \in Nat /\ queued \in Nat
      BY DEF MetricsInv, StreamTypes
    <3>. QED
      BY <2>1, <2>4, <2>6, <2>7, <3>1 DEF MetricsInv, SentInv, counterVars
  <2>10. Reportwise
    BY <2>4, UnchangedCounters DEF counterVars, Reportwise
  <2>. QED
    BY <1>1, <2>2, <2>5, <2>8, <2>9, <2>10 DEF Streamwise
<1>9. CASE Send
  <2>1. StreamTypes'
    BY <1>9 DEF Send, MetricsInv, StreamTypes, dataVars
  <2>2. CountInv' /\ BacklogInv'
    BY <1>9 DEF Send, MetricsInv, CountInv, BacklogInv, Uncounted, Unoffered, dataVars
  <2>3. SentInv'
    <3>1. mPicksSentCounter \in Nat /\ queued \in Nat
      BY DEF MetricsInv, StreamTypes
    <3>2. mPicksSentCounter' + queued' <= mPicksSentCounter + queued
      <4>1. /\ queued' = queued - 1
            /\ mPicksSentCounter' = mPicksSentCounter
                  \/ mPicksSentCounter' = mPicksSentCounter + 1
        BY <1>9 DEF Send
      <4>. QED
        BY <3>1, <4>1
    <3>3. mPicksSentCounter' + queued' \in Int
      BY <2>1 DEF StreamTypes
    <3>4. TotalOf(offered) \in Nat /\ offered' = offered
      BY <1>9, MetricsAssumption, TotalIsNat DEF MetricsInv, StreamTypes, Send, dataVars
    <3>. QED
      BY <3>1, <3>2, <3>3, <3>4 DEF MetricsInv, SentInv
  <2>4. Reportwise
    BY <1>9, UnchangedCounters DEF Send, Reportwise
  <2>. QED
    BY <1>1, <2>1, <2>2, <2>3, <2>4 DEF Streamwise
<1>10. CASE PrintSummary
  <2>1. UNCHANGED <<counterVars, dataVars, queued, exporterVars>>
    BY <1>10 DEF PrintSummary, ReadPicks, ReadResets, Report
  <2>2. Streamwise
    BY <2>1, UnchangedStreams DEF Streamwise
  <2>3. MapTypes'
    BY <2>1 DEF MetricsInv, MapTypes, counterVars, exporterVars
  <2>4. SumPicks \in Nat /\ SumDetectorResets \in Nat
    BY CountersAreFinite DEF MetricsInv, MapTypes, SumPicks, SumDetectorResets
  <2>5. SumPicks' = SumPicks /\ SumDetectorResets' = SumDetectorResets
    BY <2>1 DEF SumPicks, SumDetectorResets, counterVars
  <2>6. /\ \A key \in DOMAIN observed' : observed'[key] <= CountOf(counters', key)
        /\ \A key \in DOMAIN counters' : counters'[key] <= CountOf(mPicksCounterMap', key)
    BY <2>1 DEF MetricsInv, ReportsAddUp, counterVars, exporterVars
  <2>7. /\ ReportTypes'
        /\ reportedPicks' = mPicksLastReport' /\ mPicksLastReport' <= nPicks'
        /\ reportedResets' = mDetectorResetsLastReport'
        /\ mDetectorResetsLastReport' <= nResets'
        /\ nPicks' <= SumPicks /\ nResets' <= SumDetectorResets
    <3>. USE DEF MetricsInv, ReportTypes, ReportsAddUp
    <3>1. CASE ReadPicks
      BY <2>4, <3>1 DEF ReadPicks
    <3>2. CASE ReadResets
      BY <2>4, <3>2 DEF ReadResets
    <3>3. CASE Report
      BY <2>4, <3>3 DEF Report
    <3>. QED
      BY <1>10, <3>1, <3>2, <3>3 DEF PrintSummary
  <2>8. ReportsAddUp'
    BY <2>5, <2>6, <2>7 DEF ReportsAddUp
  <2>. QED
    BY <1>1, <2>2, <2>3, <2>7, <2>8 DEF Reportwise
<1>11. CASE ObservePicks
  <2>1. UNCHANGED <<counterVars, dataVars, queued, mainVars>>
    BY <1>11 DEF ObservePicks, CopyCounters, ObserveCounters
  <2>2. Streamwise
    BY <2>1, UnchangedStreams DEF Streamwise
  <2>3. MapTypes' /\ ReportTypes'
    BY <1>11, <2>1 DEF ObservePicks, CopyCounters, ObserveCounters, MetricsInv, MapTypes,
                       ReportTypes, counterVars, mainVars
  <2>4. /\ reportedPicks' = mPicksLastReport' /\ mPicksLastReport' <= nPicks'
        /\ reportedResets' = mDetectorResetsLastReport'
        /\ mDetectorResetsLastReport' <= nResets'
        /\ nPicks' <= SumPicks' /\ nResets' <= SumDetectorResets'
    BY <2>1 DEF MetricsInv, ReportsAddUp, mainVars, counterVars, SumPicks,
                SumDetectorResets
  <2>5. /\ \A key \in DOMAIN observed' : observed'[key] <= CountOf(counters', key)
        /\ \A key \in DOMAIN counters' : counters'[key] <= CountOf(mPicksCounterMap', key)
    <3>1. CASE CopyCounters
      <4>1. /\ observed' = observed /\ counters' = mPicksCounterMap
            /\ mPicksCounterMap' = mPicksCounterMap
        BY <3>1 DEF CopyCounters, counterVars
      <4>2. /\ mPicksCounterMap \in [DOMAIN mPicksCounterMap -> Nat]
            /\ observed \in [DOMAIN observed -> Nat]
            /\ \A key : CountOf(mPicksCounterMap, key) \in Nat /\ CountOf(counters, key) \in Nat
        BY CountersAreFinite DEF MetricsInv, MapTypes
      <4>3. ASSUME NEW key \in DOMAIN mPicksCounterMap
            PROVE  mPicksCounterMap[key] <= CountOf(mPicksCounterMap, key)
        BY <4>2 DEF CountOf
      <4>4. ASSUME NEW key \in DOMAIN observed
            PROVE  observed[key] <= CountOf(mPicksCounterMap, key)
        <5>1. observed[key] <= CountOf(counters, key) /\ observed[key] \in Nat
          BY <4>2 DEF MetricsInv, ReportsAddUp
        <5>2. CountOf(counters, key) <= CountOf(mPicksCounterMap, key)
          <6>1. CASE key \in DOMAIN counters
            BY <6>1 DEF MetricsInv, ReportsAddUp, CountOf
          <6>2. CASE key \notin DOMAIN counters
            <7>1. CountOf(counters, key) = 0
              BY <6>2 DEF CountOf
            <7>. QED
              BY <4>2, <7>1
          <6>. QED
            BY <6>1, <6>2
        <5>. QED
          BY <4>2, <5>1, <5>2
      <4>. QED
        BY <4>1, <4>3, <4>4
    <3>2. CASE ObserveCounters
      <4>1. /\ observed' = counters /\ counters' = counters
            /\ mPicksCounterMap' = mPicksCounterMap
        BY <3>2 DEF ObserveCounters, counterVars
      <4>2. counters \in [DOMAIN counters -> Nat]
        BY CountersAreFinite DEF MetricsInv, MapTypes
      <4>3. \A key \in DOMAIN counters : counters[key] <= CountOf(counters, key)
        BY <4>2 DEF CountOf
      <4>. QED
        BY <4>1, <4>3 DEF MetricsInv, ReportsAddUp
    <3>. QED
      BY <1>11, <3>1, <3>2 DEF ObservePicks
  <2>6. ReportsAddUp'
    BY <2>4, <2>5 DEF ReportsAddUp
  <2>. QED
    BY <1>1, <2>2, <2>3, <2>6 DEF Reportwise
<1>12. CASE UNCHANGED vars
  <2>1. UNCHANGED <<counterVars, dataVars, queued, mainVars, exporterVars>>
    BY <1>12 DEF vars
  <2>. QED
    BY <1>1, <2>1, UnchangedStreams, UnchangedCounters
       DEF counterVars, Streamwise, Reportwise
<1>. QED
  BY <1>1, <1>4, <1>5, <1>6, <1>7, <1>8, <1>9, <1>10, <1>11, <1>12 DEF Next, DataNext

LEMMA MetricsInvariant == Spec => []MetricsInv
BY MetricsInit, MetricsStep, PTL DEF Spec

---------------------------------------------------------------------------
(* The promises                                                            *)

\* The counters of a stream are its own picks and resets, to the packet under
\* way, and nothing is counted as sent that was not offered (metrics.cpp:54-93).
THEOREM CountersAreTheStreams == Spec => []CountersMatchPicks
BY MetricsInvariant, InvGivesCounters, PTL

\* The summaries add up to what the last of them read, and neither they nor
\* the exporter ever takes a count back (filterPicker.cpp:550-570).
THEOREM NothingIsReportedTwice == Spec => []ReportsAddUp
<1>1. MetricsInv => ReportsAddUp
  BY DEF MetricsInv
<1>. QED
  BY <1>1, MetricsInvariant, PTL

=============================================================================
