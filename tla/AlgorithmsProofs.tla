--------------------------- MODULE AlgorithmsProofs ---------------------------
(***************************************************************************)
(* Proofs about the sequential algorithms on measurements, for every value *)
(* of the constants: the statistic of a timing test is the sample of its   *)
(* rank and its verdict right, no cost wraps, the search finds exactly the *)
(* sets of each system call, the D-cache attack books every eviction, and  *)
(* the search for a key has evidence for what it examines.                 *)
(***************************************************************************)
EXTENDS Algorithms, WellFoundedInduction, FiniteSetTheorems, SequenceTheorems, TLAPS

\* A set of numbers has a least member.
LEMMA LeastMember ==
  ASSUME NEW S \in SUBSET Nat, S # {}
  PROVE  \E x \in S : \A y \in S : x <= y
<1>1. PICK x \in S : \A y \in S : ~(<<y, x>> \in OpToRel(<, Nat))
  <2>1. IsWellFoundedOn(OpToRel(<, Nat), Nat)
    BY NatLessThanWellFounded
  <2>2. QED
    BY <2>1, WFMin, Zenon
<1>2. ASSUME NEW y \in Nat, NEW z \in Nat, y < z
      PROVE  <<y, z>> \in OpToRel(<, Nat)
  <2>1. <<y, z>> \in Nat \X Nat /\ <<y, z>>[1] = y /\ <<y, z>>[2] = z
    OBVIOUS
  <2>2. QED
    BY <1>2, <2>1, Zenon DEF OpToRel
<1>3. \A y \in S : ~(y < x)
  BY <1>1, <1>2
<1>4. QED
  BY <1>3

LEMMA MinFacts ==
  ASSUME NEW S \in SUBSET Nat, S # {}
  PROVE  Min(S) \in S /\ \A y \in S : Min(S) <= y
<1>1. \E x \in S : \A y \in S : x <= y
  BY LeastMember
<1>2. QED
  BY <1>1, Zenon DEF Min

-----------------------------------------------------------------------------
(* The timing test *)

\* What an undisturbed access takes in this test.
RightTime == IF evicted THEN MemoryTime ELSE CacheTime

\* The histogram counts the samples of this test, and no others.
Histogram ==
  /\ atMost[0] = 0
  /\ \A b \in Bucket \ {0} : atMost[b] = atMost[b - 1] + data[b]
  /\ data[0] + atMost[TIME_MAX - 1] = taken

\* Samples that are not disturbed fall on the right time.
Disturbed ==
  \A b \in Bucket : IF RightTime <= b THEN taken - odd <= atMost[b]
                                      ELSE atMost[b] <= odd

TimeInv ==
  /\ TimeTypeOK
  /\ Histogram
  /\ Disturbed
  /\ Tested => taken = walk.checkTimes
  /\ StatisticIsExact

LEMMA TimeFacts ==
  /\ TIME_MAX \in Nat /\ TIME_MAX - 1 \in Bucket \ {0} /\ 0 \in Bucket
  /\ CacheTime \in Nat /\ MemoryTime \in Nat /\ L3_THRESHOLD \in Nat
  /\ CacheTime \in Bucket \ {0} /\ MemoryTime \in Bucket \ {0}
  /\ CacheTime <= L3_THRESHOLD /\ L3_THRESHOLD < MemoryTime
  /\ OddTimes \subseteq Int
  /\ \A b \in Bucket \ {0} : b - 1 \in Bucket
  /\ \A w \in Walks : w.checkTimes \in Nat \ {0} /\ w.percentile \in 0..99
BY TimeStatsAssumption DEF Bucket

\* How far a sum over the buckets has come is a matter of atMost.
LEMMA CountIsTaken ==
  ASSUME TimeTypeOK, Histogram
  PROVE  Count = taken
<1> USE TimeFacts
<1> DEFINE sum[b \in Bucket] == IF b = 0 THEN data[0] ELSE sum[b - 1] + data[b]
<1>1. Count = sum[TIME_MAX - 1]
  BY DEF Count
<1> DEFINE known == [b \in Bucket |-> data[0] + atMost[b]]
<1>2. known = [b \in Bucket |-> IF b = 0 THEN data[0] ELSE known[b - 1] + data[b]]
  BY DEF Histogram, TimeTypeOK
<1>3. sum = [b \in Bucket |-> IF b = 0 THEN data[0] ELSE sum[b - 1] + data[b]]
  BY <1>2, Zenon
<1> HIDE DEF sum
<1>4. \A b \in Bucket : sum[b] = data[0] + atMost[b]
  <2> DEFINE other == {b \in Bucket : sum[b] # data[0] + atMost[b]}
  <2> SUFFICES ASSUME other # {} PROVE FALSE
    OBVIOUS
  <2>1. other \in SUBSET Nat
    BY DEF Bucket
  <2> HIDE DEF other
  <2>2. PICK b \in other : \A c \in other : b <= c
    BY <2>1, LeastMember
  <2>3. b \in Bucket /\ b \in Nat /\ sum[b] # data[0] + atMost[b]
    BY <2>1 DEF other
  <2>4. CASE b = 0
    BY <1>3, <2>3, <2>4 DEF Histogram, TimeTypeOK
  <2>5. CASE b # 0
    <3>1. b - 1 \in Bucket /\ b - 1 \notin other
      BY <2>1, <2>2, <2>3, <2>5
    <3>2. sum[b - 1] = data[0] + atMost[b - 1]
      BY <3>1 DEF other
    <3>3. sum[b] = sum[b - 1] + data[b]
      BY <1>3, <2>3, <2>5
    <3>4. QED
      BY <2>3, <2>5, <3>1, <3>2, <3>3 DEF Histogram, TimeTypeOK
  <2>6. QED
    BY <2>4, <2>5
<1>5. QED
  BY <1>1, <1>4 DEF Histogram, TimeTypeOK

\* The loop ends at the first bucket that takes the rank below zero.
LEMMA ExhaustsFacts ==
  ASSUME TimeTypeOK, Histogram, NEW c \in Nat
  PROVE  /\ Exhausts(c) \in Bucket
         /\ IF Exhausts(c) = 0 THEN atMost[TIME_MAX - 1] <= c
            ELSE atMost[Exhausts(c) - 1] <= c /\ atMost[Exhausts(c)] > c
<1> USE TimeFacts
<1> DEFINE left[b \in Bucket] == IF b = 0 THEN c ELSE left[b - 1] - data[b]
           below == {b \in Bucket \ {0} : left[b] < 0}
<1>1. Exhausts(c) = IF below = {} THEN 0 ELSE Min(below)
  BY DEF Exhausts
<1> DEFINE known == [b \in Bucket |-> c - atMost[b]]
<1>2. known = [b \in Bucket |-> IF b = 0 THEN c ELSE known[b - 1] - data[b]]
  BY DEF Histogram, TimeTypeOK
<1>3. left = [b \in Bucket |-> IF b = 0 THEN c ELSE left[b - 1] - data[b]]
  BY <1>2, Zenon
<1> HIDE DEF left
<1>4. \A b \in Bucket : left[b] = c - atMost[b]
  <2> DEFINE other == {b \in Bucket : left[b] # c - atMost[b]}
  <2> SUFFICES ASSUME other # {} PROVE FALSE
    OBVIOUS
  <2>1. other \in SUBSET Nat
    BY DEF Bucket
  <2> HIDE DEF other
  <2>2. PICK b \in other : \A x \in other : b <= x
    BY <2>1, LeastMember
  <2>3. b \in Bucket /\ b \in Nat /\ left[b] # c - atMost[b]
    BY <2>1 DEF other
  <2>4. CASE b = 0
    BY <1>3, <2>3, <2>4 DEF Histogram, TimeTypeOK
  <2>5. CASE b # 0
    <3>1. b - 1 \in Bucket /\ b - 1 \notin other
      BY <2>1, <2>2, <2>3, <2>5
    <3>2. left[b - 1] = c - atMost[b - 1]
      BY <3>1 DEF other
    <3>3. left[b] = left[b - 1] - data[b]
      BY <1>3, <2>3, <2>5
    <3>4. QED
      BY <2>3, <2>5, <3>1, <3>2, <3>3 DEF Histogram, TimeTypeOK
  <2>6. QED
    BY <2>4, <2>5
<1>5. below = {b \in Bucket \ {0} : atMost[b] > c}
  <2>1. \A b \in Bucket : left[b] < 0 <=> atMost[b] > c
    BY <1>4 DEF TimeTypeOK
  <2>2. QED
    BY <2>1, Zenon
<1>6. CASE below = {}
  BY <1>1, <1>5, <1>6 DEF TimeTypeOK
<1>7. CASE below # {}
  <2>1. below \in SUBSET Nat
    BY DEF Bucket
  <2>2. Min(below) \in below /\ \A y \in below : Min(below) <= y
    BY <1>7, <2>1, MinFacts
  <2> DEFINE m == Min(below)
  <2> HIDE DEF m, below
  <2>3. m \in Bucket \ {0} /\ atMost[m] > c /\ m - 1 \in Bucket /\ m \in Nat
    BY <1>5, <2>1, <2>2 DEF m
  <2>4. atMost[m - 1] <= c
    <3>1. CASE m - 1 = 0
      BY <3>1 DEF Histogram
    <3>2. CASE m - 1 # 0
      BY <1>5, <2>2, <2>3, <3>2 DEF m, TimeTypeOK
    <3>3. QED
      BY <3>1, <3>2
  <2>5. QED
    BY <1>1, <1>7, <2>3, <2>4 DEF m
<1>8. QED
  BY <1>6, <1>7

LEMMA RankFacts == walk \in Walks => Rank \in Nat
<1> SUFFICES ASSUME walk \in Walks PROVE Rank \in Nat
  OBVIOUS
<1>1. walk.checkTimes \in Nat /\ walk.percentile \in Nat
  BY TimeFacts
<1>2. \A n \in Nat : (n + 1) \div 2 \in Nat /\ (n + 50) \div 100 \in Nat
  OBVIOUS
<1>3. walk.checkTimes * walk.percentile \in Nat
  BY <1>1
<1>4. QED
  BY <1>1, <1>2, <1>3 DEF Rank

LEMMA InitTimeInv == TimeInit => TimeInv
<1> SUFFICES ASSUME TimeInit PROVE TimeInv
  OBVIOUS
<1> USE TimeFacts DEF TimeInit
<1>1. TimeTypeOK
  <2>1. walk.checkTimes \in Nat
    BY TimeFacts
  <2>2. data \in [Bucket -> 0..walk.checkTimes] /\ atMost \in [Bucket -> 0..taken]
    BY <2>1 DEF Empty
  <2>3. evicted \in BOOLEAN
    BY Zenon
  <2>4. taken \in 0..walk.checkTimes /\ odd \in 0..taken /\ time \in Bucket
    BY <2>1
  <2> QED
    BY <2>2, <2>3, <2>4, Zenon DEF TimeTypeOK
<1>2. Histogram /\ Disturbed
  BY DEF Histogram, Disturbed, Empty, RightTime, Bucket
<1>3. ~Tested
  BY DEF Tested
<1> QED
  BY <1>1, <1>2, <1>3 DEF TimeInv, StatisticIsExact

LEMMA WalkBeginInv == TimeInv /\ WalkBegin => TimeInv'
BY TimeFacts DEF WalkBegin, ts_alloc, TimeInv, TimeTypeOK, Histogram, Disturbed, Tested,
   StatisticIsExact, Empty, RightTime

LEMMA WalkSampleInv == TimeInv /\ WalkSample => TimeInv'
<1> SUFFICES ASSUME TimeInv, WalkSample PROVE TimeInv'
  OBVIOUS
<1> USE TimeFacts
<1>1. PICK tm \in {RightTime} \cup OddTimes :
        /\ ts_add(tm)
        /\ atMost' = [b \in Bucket |-> atMost[b] + IF tm \in 1..b THEN 1 ELSE 0]
        /\ odd' = IF tm = RightTime THEN odd ELSE odd + 1
  BY DEF WalkSample, RightTime
<1>2. /\ walkPc = "sampling" /\ taken < walk.checkTimes /\ taken' = taken + 1
      /\ UNCHANGED <<walk, walkPc, evicted, time>>
  BY DEF WalkSample
<1>3. tm \in Int /\ RightTime \in Bucket \ {0} /\ RightTime' = RightTime
  BY <1>2 DEF RightTime, Bucket
<1>4. /\ taken \in Nat /\ odd \in 0..taken /\ walk \in Walks /\ walk.checkTimes \in Nat
      /\ data \in [Bucket -> 0..walk.checkTimes] /\ atMost \in [Bucket -> 0..taken]
  BY DEF TimeInv, TimeTypeOK
<1> DEFINE k == IF tm \in Bucket THEN tm ELSE 0
<1>5. k \in Bucket /\ data' = [data EXCEPT ![k] = @ + 1]
  BY <1>1 DEF ts_add
<1>6. \A b \in Bucket : /\ atMost'[b] = atMost[b] + IF tm \in 1..b THEN 1 ELSE 0
                        /\ data'[b] = data[b] + IF b = k THEN 1 ELSE 0
                        /\ atMost[b] \in Nat /\ atMost[b] <= taken /\ data[b] \in Nat /\ b \in Nat
  <2> SUFFICES ASSUME NEW b \in Bucket
               PROVE  /\ atMost'[b] = atMost[b] + IF tm \in 1..b THEN 1 ELSE 0
                      /\ data'[b] = data[b] + IF b = k THEN 1 ELSE 0
                      /\ atMost[b] \in Nat /\ atMost[b] <= taken /\ data[b] \in Nat /\ b \in Nat
    OBVIOUS
  <2>1. atMost[b] \in Nat /\ atMost[b] <= taken /\ data[b] \in Nat /\ b \in Nat
    BY <1>4 DEF Bucket
  <2>2. atMost'[b] = atMost[b] + IF tm \in 1..b THEN 1 ELSE 0
    BY <1>1, Zenon
  <2> HIDE DEF k
  <2>3. data'[b] = data[b] + IF b = k THEN 1 ELSE 0
    <3>1. CASE b = k
      BY <1>4, <1>5, <3>1
    <3>2. CASE b # k
      BY <1>4, <1>5, <2>1, <3>2
    <3> QED
      BY <3>1, <3>2
  <2> QED
    BY <2>1, <2>2, <2>3
<1>7. Histogram'
  <2>1. \A b \in Bucket \ {0} : atMost'[b] = atMost'[b - 1] + data'[b]
    <3> SUFFICES ASSUME NEW b \in Bucket \ {0} PROVE atMost'[b] = atMost'[b - 1] + data'[b]
      OBVIOUS
    <3>1. atMost[b] = atMost[b - 1] + data[b] /\ b - 1 \in Bucket /\ b \in Nat
      BY <1>6 DEF TimeInv, Histogram
    <3>2. b = k <=> (tm \in 1..b /\ tm \notin 1..(b - 1))
      BY <1>3, <3>1 DEF Bucket
    <3>3. tm \in 1..(b - 1) => tm \in 1..b
      BY <1>3, <3>1
    <3> QED
      BY <1>6, <3>1, <3>2, <3>3
  <2>2. data'[0] + atMost'[TIME_MAX - 1] = taken'
    <3>1. k = 0 <=> tm \notin 1..(TIME_MAX - 1)
      BY <1>3 DEF Bucket
    <3> QED
      BY <1>2, <1>4, <1>6, <3>1 DEF TimeInv, Histogram
  <2>3. atMost'[0] = 0
    BY <1>3, <1>6 DEF TimeInv, Histogram
  <2> QED
    BY <2>1, <2>2, <2>3 DEF Histogram
<1>8. Disturbed'
  <2> SUFFICES ASSUME NEW b \in Bucket
               PROVE  IF RightTime <= b THEN taken' - odd' <= atMost'[b] ELSE atMost'[b] <= odd'
    BY <1>3 DEF Disturbed
  <2>1. IF RightTime <= b THEN taken - odd <= atMost[b] ELSE atMost[b] <= odd
    BY DEF TimeInv, Disturbed
  <2>2. b \in Nat /\ RightTime \in Nat /\ RightTime >= 1
    BY <1>3, <1>6 DEF Bucket
  <2> QED
    BY <1>1, <1>2, <1>3, <1>4, <1>6, <2>1, <2>2
<1>9. TimeTypeOK'
  <2>1. atMost' \in [Bucket -> 0..taken']
    BY <1>1, <1>2, <1>4
  <2>2. \A b \in Bucket : data'[b] \in 0..walk.checkTimes
    <3> SUFFICES ASSUME NEW b \in Bucket PROVE data'[b] \in 0..walk.checkTimes
      OBVIOUS
    <3>1. data'[b] \in Nat
      BY <1>6
    <3>2. CASE b = 0
      <4>1. atMost'[TIME_MAX - 1] \in 0..taken'
        BY <2>1
      <4> QED
        BY <1>2, <1>4, <1>7, <3>1, <3>2, <4>1 DEF Histogram
    <3>3. CASE b # 0
      <4>1. atMost'[b] \in 0..taken' /\ atMost'[b - 1] \in 0..taken'
        BY <2>1, <3>3
      <4> QED
        BY <1>2, <1>4, <1>7, <3>1, <3>3, <4>1 DEF Histogram
    <3> QED
      BY <3>2, <3>3
  <2>3. data' \in [Bucket -> 0..walk.checkTimes]
    BY <1>4, <1>5, <2>2
  <2>4. odd' \in 0..taken' /\ taken' \in 0..walk.checkTimes
    BY <1>1, <1>2, <1>4
  <2> QED
    BY <1>2, <2>1, <2>3, <2>4 DEF TimeInv, TimeTypeOK
<1> QED
  BY <1>2, <1>7, <1>8, <1>9 DEF TimeInv, Tested, StatisticIsExact

LEMMA WalkEndInv == TimeInv /\ WalkEnd => TimeInv'
<1> SUFFICES ASSUME TimeInv, WalkEnd PROVE TimeInv'
  OBVIOUS
<1>1. /\ taken = walk.checkTimes /\ UNCHANGED <<walk, data, evicted, taken, odd, atMost>>
      /\ walkPc' = "idle"
  BY DEF WalkEnd
<1>2. Rank \in Nat
  BY RankFacts DEF TimeInv, TimeTypeOK
<1>3. Count = taken
  BY CountIsTaken DEF TimeInv
<1>4. time' = Exhausts(Rank)
  BY <1>1, <1>3 DEF WalkEnd, ts_median, ts_percentile, Rank
<1>5. /\ Exhausts(Rank) \in Bucket
      /\ IF Exhausts(Rank) = 0 THEN atMost[TIME_MAX - 1] <= Rank
         ELSE atMost[Exhausts(Rank) - 1] <= Rank /\ atMost[Exhausts(Rank)] > Rank
  BY <1>2, ExhaustsFacts DEF TimeInv
<1>6. Rank' = Rank
  BY <1>1 DEF Rank
<1>7. StatisticIsExact'
  BY <1>1, <1>4, <1>5, <1>6 DEF StatisticIsExact
<1>8. TimeTypeOK'
  BY <1>1, <1>4, <1>5 DEF TimeInv, TimeTypeOK
<1> QED
  BY <1>1, <1>7, <1>8 DEF TimeInv, Histogram, Disturbed, RightTime

LEMMA NextTimeInv == TimeInv /\ [TimeNext]_timeVars => TimeInv'
<1>1. TimeInv /\ UNCHANGED timeVars => TimeInv'
  BY DEF timeVars, TimeInv, TimeTypeOK, Histogram, Disturbed, RightTime, Tested,
     StatisticIsExact, Rank
<1> QED
  BY <1>1, WalkBeginInv, WalkSampleInv, WalkEndInv DEF TimeNext

\* A statistic that leaves more ranks on either side than samples are disturbed
\* lies on the right side of the threshold.
LEMMA VerdictFollows == TimeInv => VerdictRight
<1> SUFFICES ASSUME TimeInv, Tested, odd <= Tolerance PROVE checkevict <=> evicted
  BY DEF VerdictRight, checkevict, TimeInv, TimeTypeOK
<1> USE TimeFacts
<1>1. /\ taken = walk.checkTimes /\ taken \in Nat /\ odd \in Nat /\ time \in Bucket
      /\ time \in Nat /\ evicted \in BOOLEAN /\ Rank \in Nat
      /\ \A b \in Bucket : atMost[b] \in Nat
  BY RankFacts DEF TimeInv, TimeTypeOK, Bucket
<1>2. odd <= Rank /\ odd <= taken - Rank - 1
  <2> DEFINE S == {Rank, walk.checkTimes - Rank - 1}
  <2>1. \E x \in S : \A y \in S : x <= y
    BY <1>1
  <2>2. Min(S) \in S /\ \A y \in S : Min(S) <= y
    BY <2>1, Zenon DEF Min
  <2> QED
    BY <1>1, <2>2 DEF Tolerance
<1>3. \A b \in Bucket : /\ RightTime <= b => atMost[b] > Rank
                        /\ b < RightTime => atMost[b] <= Rank
  <2>1. RightTime \in Nat
    BY DEF RightTime
  <2> QED
    BY <1>1, <1>2, <2>1 DEF TimeInv, Disturbed, Bucket
<1>4. IF time = 0 THEN atMost[TIME_MAX - 1] <= Rank
      ELSE atMost[time - 1] <= Rank /\ atMost[time] > Rank
  BY DEF TimeInv, StatisticIsExact
<1>5. RightTime \in Bucket \ {0} /\ RightTime \in Nat /\ RightTime <= TIME_MAX - 1
  BY DEF RightTime, Bucket
<1>6. time # 0
  BY <1>1, <1>3, <1>4, <1>5
<1>7. time = RightTime
  BY <1>1, <1>3, <1>4, <1>5, <1>6
<1> QED
  BY <1>1, <1>7 DEF checkevict, RightTime

-----------------------------------------------------------------------------
(* The search for the sets of a system call: vlists *)

\* A vlist of distinct cache sets, with its spare room.
Vlist(vl) ==
  /\ vl \in [len: Nat, data: Seq(ProbeSet \cup {Junk})]
  /\ vl.len <= Len(vl.data) /\ Len(vl.data) >= 1
  /\ \A k \in 1..vl.len : vl.data[k] \in ProbeSet
  /\ \A j, k \in 1..vl.len : vl.data[j] = vl.data[k] => j = k

Members(vl) == {vl.data[k] : k \in 1..vl.len}

LEMMA SearchFacts ==
  /\ ProbeSets \in Nat \ {0} /\ TEST_COUNT \in Nat \ {0} /\ VLIST_DEF_SIZE \in Nat \ {0}
  /\ FalseHits \in Nat /\ FalseMisses \in Nat
  /\ \A f \in Footprints :
       /\ f.api[1] \subseteq ProbeSet /\ f.api[2] \subseteq ProbeSet
       /\ f.api[3] \subseteq ProbeSet /\ f.own \subseteq ProbeSet
BY KernelSetsAssumption

\* A function on an initial segment is a sequence of that length.
LEMMA SeqOfFun ==
  ASSUME NEW S, NEW n \in Nat, NEW f \in [1..n -> S]
  PROVE  f \in Seq(S) /\ Len(f) = n
OBVIOUS

LEMMA NewVlist == Vlist(vl_new) /\ Members(vl_new) = {} /\ vl_new.len = 0
<1> DEFINE fresh == [k \in 1..VLIST_DEF_SIZE |-> Junk]
<1>1. fresh \in [1..VLIST_DEF_SIZE -> ProbeSet \cup {Junk}]
  OBVIOUS
<1>2. fresh \in Seq(ProbeSet \cup {Junk}) /\ Len(fresh) = VLIST_DEF_SIZE
  BY <1>1, SearchFacts, SeqOfFun
<1>3. vl_new = [len |-> 0, data |-> fresh]
  BY DEF vl_new
<1> HIDE DEF fresh
<1> QED
  BY <1>2, <1>3, SearchFacts DEF Vlist, Members

\* Pushing a set that is not there adds it, in the old array or in a new one.
LEMMA PushFacts ==
  ASSUME NEW vl, Vlist(vl), NEW dat \in ProbeSet, dat \notin Members(vl)
  PROVE  /\ Vlist(vl_push(vl, dat))
         /\ Members(vl_push(vl, dat)) = Members(vl) \cup {dat}
<1> DEFINE D == ProbeSet \cup {Junk}
           grown == [k \in 1..(2 * vl.len) |-> IF k <= Len(vl.data) THEN vl.data[k] ELSE Junk]
           room == IF vl.len = Len(vl.data) THEN vl_setsize(vl, 2 * vl.len) ELSE vl
           new == room.data
           n == vl.len + 1
<1>1. /\ vl.len \in Nat /\ vl.data \in Seq(D) /\ Len(vl.data) \in Nat
      /\ vl.data \in [1..Len(vl.data) -> D]
      /\ vl.len <= Len(vl.data) /\ Len(vl.data) >= 1
  BY LenProperties DEF Vlist
<1>2. CASE vl.len = Len(vl.data)
  <2>1. grown \in [1..(2 * vl.len) -> D]
    BY <1>1
  <2>2. grown \in Seq(D) /\ Len(grown) = 2 * vl.len
    <3>1. 2 * vl.len \in Nat
      BY <1>1
    <3> HIDE DEF grown, D
    <3>2. QED
      BY <2>1, <3>1, SeqOfFun
  <2>3. new = grown
    BY <1>2 DEF vl_setsize, Vlist
  <2> QED
    <3>1. new \in Seq(D) /\ n <= Len(new)
      BY <1>1, <1>2, <2>2, <2>3
    <3>2. \A k \in 1..vl.len : new[k] = vl.data[k]
      BY <1>1, <1>2, <2>3
    <3>3. vl_push(vl, dat) = [len |-> n, data |-> [new EXCEPT ![n] = dat]]
      BY DEF vl_push
    <3> HIDE DEF new, grown, room
    <3> DEFINE pushed == [new EXCEPT ![n] = dat]
    <3>4. Len(new) \in Nat /\ new \in [1..Len(new) -> D] /\ n \in 1..Len(new)
      BY <1>1, <3>1, LenProperties
    <3>5. /\ pushed \in [1..Len(new) -> D] /\ pushed[n] = dat
          /\ \A k \in 1..vl.len : pushed[k] = vl.data[k]
      BY <1>1, <3>2, <3>4
    <3>6. pushed \in Seq(D) /\ Len(pushed) = Len(new)
      BY <3>4, <3>5, SeqOfFun
    <3> HIDE DEF pushed
    <3>7. vl_push(vl, dat).len = n /\ vl_push(vl, dat).data = pushed
      BY <3>3 DEF pushed
    <3>8. \A k \in 1..n : k \in 1..vl.len \/ k = n
      BY <1>1
    <3>9. Vlist(vl_push(vl, dat))
      <4>1. vl_push(vl, dat) \in [len: Nat, data: Seq(D)]
        BY <1>1, <3>3, <3>6 DEF pushed
      <4>2. \A k \in 1..vl.len : vl.data[k] \in ProbeSet /\ vl.data[k] # dat
        BY DEF Vlist, Members
      <4>3. \A j, k \in 1..vl.len : vl.data[j] = vl.data[k] => j = k
        BY DEF Vlist
      <4>4. \A k \in 1..n : pushed[k] \in ProbeSet
        BY <3>5, <3>8, <4>2
      <4>5. \A j, k \in 1..n : pushed[j] = pushed[k] => j = k
        BY <3>5, <3>8, <4>2, <4>3
      <4> QED
        BY <3>4, <3>6, <3>7, <4>1, <4>4, <4>5, <1>1 DEF Vlist
    <3>10. Members(vl_push(vl, dat)) = Members(vl) \cup {dat}
      <4>1. \A k \in 1..vl.len : k \in 1..n
        BY <1>1
      <4> QED
        <5>1. n \in 1..n
          BY <1>1
        <5>2. ASSUME NEW y
              PROVE  y \in {pushed[k] : k \in 1..n}
                       <=> y \in {vl.data[k] : k \in 1..vl.len} \/ y = dat
          BY <3>5, <3>8, <4>1, <5>1, Zenon
        <5>3. {pushed[k] : k \in 1..n} = {vl.data[k] : k \in 1..vl.len} \cup {dat}
          BY <5>2, Zenon
        <5> QED
          BY <3>7, <5>3 DEF Members
    <3> QED
      BY <3>9, <3>10
<1>3. CASE vl.len # Len(vl.data)
  <2>1. new = vl.data
    BY <1>3
  <2>2. vl_push(vl, dat) = [len |-> n, data |-> [vl.data EXCEPT ![n] = dat]]
    BY <1>3 DEF vl_push
  <2> QED
    BY <1>1, <1>3, <2>2 DEF Vlist, Members
<1> QED
  BY <1>2, <1>3

\* Deleting moves the last set into the hole, and no other.
LEMMA DelFacts ==
  ASSUME NEW vl, Vlist(vl), NEW ind \in Nat, ind < vl.len
  PROVE  /\ Vlist(vl_del(vl, ind))
         /\ Members(vl_del(vl, ind)) = Members(vl) \ {vl.data[ind + 1]}
         /\ vl_del(vl, ind).len = vl.len - 1
         /\ \A k \in 1..(vl.len - 1) :
              k # ind + 1 => vl_del(vl, ind).data[k] = vl.data[k]
<1> DEFINE new == [vl.data EXCEPT ![ind + 1] = vl.data[vl.len]]
           D == ProbeSet \cup {Junk}
<1>1. /\ vl.len \in Nat /\ vl.data \in Seq(D) /\ Len(vl.data) \in Nat
      /\ vl.data \in [1..Len(vl.data) -> D]
      /\ vl.len <= Len(vl.data) /\ Len(vl.data) >= 1
      /\ \A k \in 1..vl.len : vl.data[k] \in ProbeSet
      /\ \A j, k \in 1..vl.len : vl.data[j] = vl.data[k] => j = k
  BY LenProperties DEF Vlist
<1>2. vl_del(vl, ind) = [len |-> vl.len - 1, data |-> new]
  BY DEF vl_del
<1>3. /\ new \in [1..Len(vl.data) -> D]
      /\ \A k \in 1..vl.len : new[k] = IF k = ind + 1 THEN vl.data[vl.len] ELSE vl.data[k]
  BY <1>1
<1>4. new \in Seq(D) /\ Len(new) = Len(vl.data)
  BY <1>1, <1>3, SeqOfFun
<1> HIDE DEF new
<1>5. Vlist(vl_del(vl, ind))
  <2>1. vl_del(vl, ind).len = vl.len - 1 /\ vl_del(vl, ind).data = new
    BY <1>2
  <2>2. /\ vl.len - 1 \in Nat /\ vl.len - 1 <= Len(new) /\ Len(new) >= 1
        /\ 1..(vl.len - 1) \subseteq 1..vl.len /\ vl.len \in 1..vl.len
        /\ vl.len \notin 1..(vl.len - 1)
    BY <1>1, <1>4
  <2>3. \A k \in 1..(vl.len - 1) : new[k] \in ProbeSet
    BY <1>1, <1>3, <2>2
  <2>4. \A j, k \in 1..(vl.len - 1) : new[j] = new[k] => j = k
    BY <1>1, <1>3, <2>2
  <2> QED
    BY <1>2, <1>4, <2>1, <2>2, <2>3, <2>4 DEF Vlist
<1>6. Members(vl_del(vl, ind)) = Members(vl) \ {vl.data[ind + 1]}
  <2>1. ASSUME NEW k \in 1..(vl.len - 1)
        PROVE  \E j \in 1..vl.len : j # ind + 1 /\ new[k] = vl.data[j]
    <3>1. CASE k = ind + 1
      BY <1>1, <1>3, <3>1
    <3>2. CASE k # ind + 1
      BY <1>1, <1>3, <3>2
    <3> QED
      BY <3>1, <3>2
  <2>2. ASSUME NEW k \in 1..vl.len, k # ind + 1
        PROVE  \E j \in 1..(vl.len - 1) : new[j] = vl.data[k]
    <3>1. CASE k = vl.len
      BY <1>1, <1>3, <2>2, <3>1
    <3>2. CASE k # vl.len
      BY <1>1, <1>3, <2>2, <3>2
    <3> QED
      BY <3>1, <3>2
  <2>3. Members(vl_del(vl, ind)) = {new[k] : k \in 1..(vl.len - 1)}
    BY <1>2 DEF Members
  <2>4. ind + 1 \in 1..vl.len
    BY <1>1
  <2>5. \A x : x \in {new[k] : k \in 1..(vl.len - 1)}
               <=> \E j \in 1..vl.len : j # ind + 1 /\ x = vl.data[j]
    BY <2>1, <2>2
  <2>6. \A x : x \in Members(vl) \ {vl.data[ind + 1]}
               <=> \E j \in 1..vl.len : j # ind + 1 /\ x = vl.data[j]
    BY <1>1, <2>4 DEF Members
  <2> QED
    BY <2>3, <2>5, <2>6
<1> QED
  BY <1>1, <1>2, <1>3, <1>5, <1>6

\* The length of a vlist is the number of its members.
LEMMA VlistCount ==
  ASSUME NEW vl, Vlist(vl)
  PROVE  /\ vl.len = Cardinality(Members(vl))
         /\ {Elements(vl)[k] : k \in 1..vl.len} = Members(vl)
         /\ Elements(vl) \in Seq(ProbeSet)
<1> DEFINE n == vl.len
           f == [k \in 1..n |-> vl.data[k]]
<1>1. n \in Nat /\ \A k \in 1..n : vl.data[k] \in ProbeSet
  BY DEF Vlist
<1>2. f \in Bijection(1..n, Members(vl))
  BY DEF Vlist, Members, Bijection, Injection, Surjection, IsInjective
<1>3. Cardinality(Members(vl)) = n
  BY <1>1, <1>2, FS_CountingElements DEF ExistsBijection
<1>4. /\ Elements(vl) \in Seq(ProbeSet)
      /\ \A k \in 1..n : Elements(vl)[k] = vl.data[k]
  <2>1. /\ SubSeq(vl.data, 1, n) \in Seq(ProbeSet)
        /\ \A k \in 1..(n - 1 + 1) : SubSeq(vl.data, 1, n)[k] = vl.data[1 + k - 1]
    BY <1>1, SubSeqProperties
  <2> QED
    BY <1>1, <2>1 DEF Elements
<1> QED
  BY <1>3, <1>4 DEF Members

-----------------------------------------------------------------------------
(* The search for the sets of a system call: one test *)

\* Clearing the lowest bit three times leaves one if there were four.
LEMMA CollisionCounts ==
  ASSUME NEW c, c \subseteq Nat, IsFiniteSet(c)
  PROVE  Collision(c) <=> Cardinality(c) >= 4
<1> DEFINE Clear(x) == x \ {y \in x : \A z \in x : y <= z}
<1>1. ASSUME NEW x, x \subseteq Nat, IsFiniteSet(x)
      PROVE  /\ Clear(x) \subseteq Nat /\ IsFiniteSet(Clear(x))
             /\ Cardinality(x) \in Nat /\ Cardinality(Clear(x)) \in Nat
             /\ Cardinality(Clear(x)) = IF Cardinality(x) = 0 THEN 0 ELSE Cardinality(x) - 1
  <2>1. Cardinality(x) \in Nat /\ (Cardinality(x) = 0 <=> x = {})
    BY <1>1, FS_CardinalityType, FS_EmptySet
  <2>2. CASE x = {}
    BY <2>1, <2>2, FS_EmptySet
  <2>3. CASE x # {}
    <3>1. PICK m \in x : \A z \in x : m <= z
      BY <1>1, <2>3, LeastMember
    <3>2. Clear(x) = x \ {m}
      <4>1. \A y \in x : (\A z \in x : y <= z) <=> y = m
        BY <1>1, <3>1
      <4> QED
        BY <4>1
    <3> HIDE DEF Clear
    <3>3. IsFiniteSet(x \ {m}) /\ Cardinality(x \ {m}) = Cardinality(x) - 1
      BY <1>1, <3>1, FS_RemoveElement
    <3> QED
      BY <1>1, <2>1, <2>3, <3>2, <3>3
  <2> QED
    BY <2>2, <2>3
<1>2. Collision(c) <=> Clear(Clear(Clear(c))) # {}
  BY DEF Collision
<1> HIDE DEF Clear
<1> DEFINE one == Clear(c)
           two == Clear(one)
           three == Clear(two)
<1>3. /\ one \subseteq Nat /\ IsFiniteSet(one) /\ Cardinality(one) \in Nat
      /\ Cardinality(c) \in Nat
      /\ Cardinality(one) = IF Cardinality(c) = 0 THEN 0 ELSE Cardinality(c) - 1
  BY <1>1
<1> HIDE DEF one
<1>4. /\ two \subseteq Nat /\ IsFiniteSet(two) /\ Cardinality(two) \in Nat
      /\ Cardinality(two) = IF Cardinality(one) = 0 THEN 0 ELSE Cardinality(one) - 1
  BY <1>1, <1>3
<1> HIDE DEF two
<1>5. /\ IsFiniteSet(three) /\ Cardinality(three) \in Nat
      /\ Cardinality(three) = IF Cardinality(two) = 0 THEN 0 ELSE Cardinality(two) - 1
  BY <1>1, <1>4
<1>6. three = {} <=> Cardinality(three) = 0
  BY <1>5, FS_EmptySet
<1> QED
  BY <1>2, <1>3, <1>4, <1>5, <1>6 DEF one, two

\* A shift and perhaps an increment.
LEMMA ShiftCounts ==
  ASSUME NEW c, NEW n \in Nat, c \subseteq 0..(n - 1), NEW miss \in BOOLEAN,
         NEW d, d = {b + 1 : b \in c} \cup (IF miss THEN {0} ELSE {})
  PROVE  /\ d \subseteq 0..n /\ IsFiniteSet(c) /\ Cardinality(c) \in Nat
         /\ Cardinality(d) = Cardinality(c) + IF miss THEN 1 ELSE 0
<1> DEFINE e == {b + 1 : b \in c}
           f == [b \in c |-> b + 1]
<1>1. c \subseteq Nat /\ e \subseteq 1..n
  OBVIOUS
<1>2. IsFiniteSet(c) /\ Cardinality(c) \in Nat
  <2>1. IsFiniteSet(0..(n - 1))
    BY FS_Interval
  <2>2. IsFiniteSet(c)
    BY <2>1, FS_Subset, Zenon
  <2> QED
    BY <2>2, FS_CardinalityType
<1>3. f \in Bijection(c, e)
  BY <1>1 DEF Bijection, Injection, Surjection, IsInjective
<1>4. IsFiniteSet(e) /\ Cardinality(e) = Cardinality(c)
  BY <1>2, <1>3, FS_Bijection DEF ExistsBijection
<1> HIDE DEF e
<1>5. CASE miss
  <2>1. d = e \cup {0} /\ 0 \notin e
    BY <1>1, <1>5 DEF e
  <2> QED
    <3>1. Cardinality(d) = Cardinality(e) + 1
      BY <1>4, <2>1, FS_AddElement, Zenon
    <3> QED
      BY <1>1, <1>2, <1>4, <1>5, <2>1, <3>1
<1>6. CASE ~miss
  BY <1>1, <1>2, <1>4, <1>6 DEF e
<1> QED
  BY <1>5, <1>6

-----------------------------------------------------------------------------
(* The search for the sets of a system call: the invariant *)

\* What a test cannot blame on itself.
Wanted(x) == foot.api[x] \ foot.own

\* The members of list x when pass p of the removal begins; 4 is the end.
Before(p, x) ==
  IF x = 1 \/ p = 1 THEN Wanted(x)
  ELSE IF x = 2 THEN Wanted(2) \ Wanted(1)
  ELSE IF p = 2 THEN Wanted(3)
  ELSE IF p = 3 THEN Wanted(3) \ (Wanted(2) \ Wanted(1))
  ELSE (Wanted(3) \ (Wanted(2) \ Wanted(1))) \ Wanted(1)

SetTypes ==
  /\ SetTypeOK
  /\ probed = [x \in 1..3 |-> probed[x]]
  /\ \A x \in 1..3 : Vlist(probed[x])

\* What a test has seen so far, and what the tests before it have found.
Testing ==
  /\ Cardinality(count) = IF Evicted THEN shifted - wrong ELSE wrong
  /\ wrong <= IF Evicted THEN FalseMisses ELSE FalseHits
  /\ recv = 1 => set \notin foot.own
  /\ \A x \in 1..3 :
       Members(probed[x]) = {y \in Wanted(x) : x < a \/ (x = a /\ y < set)}
  /\ pass = 1 /\ ia = 0 /\ ib = 0

\* One list loses what the other has, and nothing else: the sets before ia are
\* gone, the set at ia is not before ib.
Removing ==
  /\ \A x \in 1..3 : x # pb => Members(probed[x]) = Before(pass, x)
  /\ Members(probed[pb]) \subseteq Before(pass, pb)
  /\ Before(pass, pb) \ Members(probed[pa]) \subseteq Members(probed[pb])
  /\ ia <= probed[pa].len
  /\ \A k \in 1..ia : probed[pa].data[k] \notin Members(probed[pb])
  /\ ia < probed[pa].len =>
       \A k \in 1..probed[pb].len :
         k <= ib => probed[pb].data[k] # probed[pa].data[ia + 1]

Removed == \A x \in 1..3 : Members(probed[x]) = Before(4, x)

SetInv ==
  /\ SetTypes
  /\ ksPc = "test" => Testing
  /\ ksPc = "remove" => Removing
  /\ ksPc = "done" => Removed

LEMMA PairFacts ==
  ASSUME pass \in 1..3
  PROVE  /\ pa \in 1..3 /\ pb \in 1..3 /\ pa # pb
         /\ pass = 1 => pa = 1 /\ pb = 2
         /\ pass = 2 => pa = 2 /\ pb = 3
         /\ pass = 3 => pa = 1 /\ pb = 3
<1>1. pass = 1 \/ pass = 2 \/ pass = 3
  OBVIOUS
<1> QED
  BY <1>1 DEF pa, pb, PairOf

LEMMA InitSetInv == SetInit => SetInv
<1> SUFFICES ASSUME SetInit PROVE SetInv
  OBVIOUS
<1>1. /\ foot \in Footprints /\ ksPc = "test" /\ a = 1 /\ set = 0 /\ recv = 0
      /\ count = {} /\ shifted = 0 /\ wrong = 0 /\ pass = 1 /\ ia = 0 /\ ib = 0
      /\ probed = [x \in 1..3 |-> vl_new]
  BY DEF SetInit
<1>2. \A x \in 1..3 : Vlist(probed[x]) /\ Members(probed[x]) = {}
  BY <1>1, NewVlist
<1>3. SetTypes
  BY <1>1, <1>2, SearchFacts, VlistCount DEF SetTypes, SetTypeOK, ProbeSet
<1>4. Testing
  <2>1. ~(set \in foot.own /\ recv = 1)
    BY <1>1
  <2>2. \A x \in 1..3 : {y \in Wanted(x) : x < a \/ (x = a /\ y < set)} = {}
    <3>1. \A x \in 1..3 : Wanted(x) \subseteq ProbeSet
      BY <1>1, SearchFacts DEF Wanted
    <3> QED
      BY <1>1, <3>1, SearchFacts DEF ProbeSet
  <2>3. Cardinality(count) = 0
    BY <1>1, FS_EmptySet
  <2> QED
    BY <1>1, <1>2, <2>2, <2>3, SearchFacts DEF Testing
<1> QED
  BY <1>1, <1>3, <1>4 DEF SetInv

LEMMA ProbeOnceInv == SetInv /\ ProbeOnce => SetInv'
<1> SUFFICES ASSUME SetInv, ProbeOnce PROVE SetInv'
  OBVIOUS
<1>1. PICK miss \in BOOLEAN :
        /\ wrong' = IF miss = Evicted THEN wrong ELSE wrong + 1
        /\ wrong' <= IF Evicted THEN FalseMisses ELSE FalseHits
        /\ count' = {b + 1 : b \in count} \cup (IF miss THEN {0} ELSE {})
  BY DEF ProbeOnce
<1>2. /\ ksPc = "test" /\ shifted < TEST_COUNT /\ shifted' = shifted + 1
      /\ UNCHANGED <<foot, ksPc, a, set, recv, probed, pass, ia, ib>>
  BY DEF ProbeOnce
<1>3. /\ count \subseteq 0..(shifted - 1) /\ shifted \in Nat /\ wrong \in 0..shifted
      /\ TEST_COUNT \in Nat
  BY SearchFacts DEF SetInv, SetTypes, SetTypeOK
<1>4. /\ count' \subseteq 0..shifted /\ Cardinality(count) \in Nat
      /\ Cardinality(count') = Cardinality(count) + IF miss THEN 1 ELSE 0
  BY <1>1, <1>3, ShiftCounts
<1>5. Evicted' <=> Evicted
  BY <1>2 DEF Evicted
<1>6. SetTypes'
  <2>1. wrong' \in 0..shifted' /\ shifted' \in 0..TEST_COUNT
    BY <1>1, <1>2, <1>3
  <2>2. count' \subseteq 0..(shifted' - 1)
    BY <1>2, <1>3, <1>4
  <2> QED
    BY <1>2, <2>1, <2>2 DEF SetInv, SetTypes, SetTypeOK
<1>7. Testing'
  <2>1. Cardinality(count) = IF Evicted THEN shifted - wrong ELSE wrong
    BY <1>2 DEF SetInv, Testing
  <2>2. Cardinality(count') = IF Evicted THEN shifted' - wrong' ELSE wrong'
    <3>1. Evicted \in BOOLEAN
      BY DEF Evicted
    <3>2. CASE Evicted
      <4>1. wrong' = IF miss THEN wrong ELSE wrong + 1
        BY <1>1, <3>1, <3>2, Zenon
      <4> QED
        BY <1>2, <1>3, <1>4, <2>1, <3>2, <4>1
    <3>3. CASE ~Evicted
      <4>1. wrong' = IF miss THEN wrong + 1 ELSE wrong
        BY <1>1, <3>1, <3>3, Zenon
      <4> QED
        BY <1>2, <1>3, <1>4, <2>1, <3>3, <4>1
    <3> QED
      BY <3>2, <3>3
  <2> QED
    BY <1>1, <1>2, <1>5, <2>2 DEF SetInv, Testing, Wanted
<1> QED
  BY <1>2, <1>6, <1>7 DEF SetInv

\* What a test tells, if it is disturbed no more often than it tolerates.
LEMMA CollisionDecides ==
  ASSUME SetInv, Tolerable, ksPc = "test", shifted = TEST_COUNT
  PROVE  Collision(count) <=> Evicted
<1>1. count \subseteq Nat /\ IsFiniteSet(count)
  <2>1. count \subseteq 0..(shifted - 1) /\ shifted \in Nat
    BY DEF SetInv, SetTypes, SetTypeOK
  <2>2. IsFiniteSet(0..(shifted - 1))
    BY <2>1, FS_Interval
  <2>3. IsFiniteSet(count)
    BY <2>1, <2>2, FS_Subset, Zenon
  <2> QED
    BY <2>1, <2>3
<1>2. Collision(count) <=> Cardinality(count) >= 4
  BY <1>1, CollisionCounts
<1>3. /\ Cardinality(count) = IF Evicted THEN shifted - wrong ELSE wrong
      /\ wrong <= IF Evicted THEN FalseMisses ELSE FalseHits
      /\ wrong \in Nat
  BY DEF SetInv, Testing, SetTypes, SetTypeOK
<1> QED
  BY <1>2, <1>3, SearchFacts DEF Tolerable

LEMMA EndTestInv == Tolerable /\ SetInv /\ EndTest => SetInv'
<1> SUFFICES ASSUME Tolerable, SetInv, EndTest PROVE SetInv'
  OBVIOUS
<1>1. /\ ksPc = "test" /\ shifted = TEST_COUNT
      /\ count' = {} /\ shifted' = 0 /\ wrong' = 0
      /\ UNCHANGED <<foot, pass, ia, ib>>
  BY DEF EndTest
<1>2. Testing /\ SetTypes
  BY <1>1 DEF SetInv
<1>3. Collision(count) <=> set \in foot.own \/ (recv = 1 /\ set \in foot.api[a])
  BY <1>1, CollisionDecides DEF Evicted
<1>4. /\ foot \in Footprints /\ a \in 1..3 /\ set \in ProbeSet /\ recv \in 0..1
      /\ pass = 1 /\ ia = 0 /\ ib = 0
      /\ set \in Nat /\ ProbeSets \in Nat \ {0}
      /\ \A x \in 1..3 : Wanted(x) \subseteq ProbeSet
  <2>1. /\ foot \in Footprints /\ a \in 1..3 /\ set \in ProbeSet /\ recv \in 0..1
        /\ pass = 1 /\ ia = 0 /\ ib = 0
    BY <1>2 DEF SetTypes, SetTypeOK, Testing
  <2>2. ProbeSets \in Nat \ {0} /\ ProbeSet \subseteq Nat
    BY SearchFacts DEF ProbeSet
  <2>3. \A x \in 1..3 : Wanted(x) \subseteq ProbeSet
    BY <2>1, SearchFacts DEF Wanted
  <2> QED
    BY <2>1, <2>2, <2>3
<1>5. \A x : Wanted(x)' = Wanted(x)
  BY <1>1 DEF Wanted
<1>6. Cardinality(count') = 0
  BY <1>1, FS_EmptySet
<1>7. CASE recv = 0 /\ ~Collision(count)
  <2>1. recv' = 1 /\ UNCHANGED <<ksPc, a, set, probed>>
    BY <1>7 DEF EndTest
  <2>2. SetTypes'
    BY <1>1, <1>2, <2>1, SearchFacts DEF SetTypes, SetTypeOK
  <2>3. Testing'
    BY <1>1, <1>2, <1>3, <1>5, <1>6, <1>7, <2>1, SearchFacts DEF Testing, Wanted
  <2> QED
    BY <1>1, <2>1, <2>2, <2>3 DEF SetInv
<1>8. CASE ~(recv = 0 /\ ~Collision(count))
  <2>1. /\ recv' = 0 /\ NextSet
        /\ probed' = IF recv = 1 /\ Collision(count)
                     THEN [probed EXCEPT ![a] = vl_push(@, set)] ELSE probed
    BY <1>8 DEF EndTest
  <2>2. recv = 1 /\ Collision(count) <=> set \in Wanted(a)
    BY <1>2, <1>3, <1>4, <1>8 DEF Testing, Wanted
  <2>3. set \notin Members(probed[a])
    BY <1>2, <1>4 DEF Testing
  <2>4. /\ probed' = [x \in 1..3 |-> probed'[x]]
        /\ \A x \in 1..3 :
             /\ Vlist(probed'[x])
             /\ Members(probed'[x]) = IF x = a /\ set \in Wanted(a)
                                      THEN Members(probed[x]) \cup {set}
                                      ELSE Members(probed[x])
    <3>1. CASE set \in Wanted(a)
      <4>1. /\ Vlist(vl_push(probed[a], set))
            /\ Members(vl_push(probed[a], set)) = Members(probed[a]) \cup {set}
        BY <1>2, <1>4, <2>3, PushFacts DEF SetTypes
      <4>2. /\ probed' = [x \in 1..3 |-> probed'[x]]
            /\ \A x \in 1..3 : probed'[x] = IF x = a THEN vl_push(probed[a], set)
                                                     ELSE probed[x]
        BY <1>2, <1>4, <2>1, <2>2, <3>1 DEF SetTypes
      <4> QED
        BY <1>2, <3>1, <4>1, <4>2 DEF SetTypes
    <3>2. CASE set \notin Wanted(a)
      BY <1>2, <2>1, <2>2, <3>2 DEF SetTypes
    <3> QED
      BY <3>1, <3>2
  <2>5. \A x \in 1..3 :
          Members(probed'[x]) = {y \in Wanted(x) : x < a \/ (x = a /\ y <= set)}
    <3> SUFFICES ASSUME NEW x \in 1..3, NEW y
                 PROVE  y \in Members(probed'[x])
                          <=> y \in Wanted(x) /\ (x < a \/ (x = a /\ y <= set))
      OBVIOUS
    <3>1. y \in Members(probed[x]) <=> y \in Wanted(x) /\ (x < a \/ (x = a /\ y < set))
      BY <1>2 DEF Testing
    <3>2. y \in Wanted(x) => y \in Nat
      BY <1>4 DEF ProbeSet
    <3> QED
      BY <1>4, <2>4, <3>1, <3>2
  <2>6. \A x \in 1..3 : Elements(probed'[x]) \in Seq(ProbeSet)
    BY <2>4, VlistCount
  <2>7. CASE set + 1 < ProbeSets
    <3>1. set' = set + 1 /\ UNCHANGED <<ksPc, a>> /\ set' \in ProbeSet
      BY <1>4, <2>1, <2>7 DEF NextSet, ProbeSet
    <3>2. SetTypes'
      BY <1>1, <1>2, <1>4, <2>1, <2>4, <2>6, <3>1, SearchFacts DEF SetTypes, SetTypeOK
    <3>3. \A x \in 1..3 :
            Members(probed'[x]) = {y \in Wanted(x) : x < a' \/ (x = a' /\ y < set')}
      BY <1>4, <2>5, <3>1 DEF ProbeSet
    <3>4. Testing'
      BY <1>1, <1>4, <1>5, <1>6, <2>1, <3>3, SearchFacts DEF Testing
    <3> QED
      BY <1>1, <3>1, <3>2, <3>4 DEF SetInv
  <2>8. CASE ~(set + 1 < ProbeSets)
    <3>1. set' = 0 /\ set' \in ProbeSet /\ set = ProbeSets - 1
      BY <1>4, <2>1, <2>8 DEF NextSet, ProbeSet
    <3>2. \A x \in 1..3 : Members(probed'[x]) = {y \in Wanted(x) : x <= a}
      <4>1. \A x \in 1..3 : \A y \in Wanted(x) : y \in Nat /\ y <= set
        BY <1>4, <3>1 DEF ProbeSet
      <4> QED
        BY <1>4, <2>5, <4>1
    <3>3. CASE a < 3
      <4>1. a' = a + 1 /\ UNCHANGED ksPc
        BY <2>1, <2>8, <3>3 DEF NextSet
      <4>2. SetTypes'
        BY <1>1, <1>2, <1>4, <2>1, <2>4, <2>6, <3>1, <3>3, <4>1, SearchFacts
           DEF SetTypes, SetTypeOK
      <4>3. \A x \in 1..3 :
              Members(probed'[x]) = {y \in Wanted(x) : x < a' \/ (x = a' /\ y < set')}
        <5>1. \A x \in 1..3 : \A y \in Wanted(x) : ~(y < 0)
          BY <1>4 DEF ProbeSet
        <5> QED
          BY <1>4, <3>1, <3>2, <4>1, <5>1
      <4>4. Testing'
        BY <1>1, <1>4, <1>5, <1>6, <2>1, <4>3, SearchFacts DEF Testing
      <4> QED
        BY <1>1, <4>1, <4>2, <4>4 DEF SetInv
    <3>4. CASE ~(a < 3)
      <4>1. ksPc' = "remove" /\ UNCHANGED a
        BY <2>1, <2>8, <3>4 DEF NextSet
      <4>2. SetTypes'
        BY <1>1, <1>2, <1>4, <2>1, <2>4, <2>6, <3>1, <4>1, SearchFacts DEF SetTypes, SetTypeOK
      <4>3. \A x \in 1..3 : Members(probed'[x]) = Wanted(x)
        BY <1>4, <3>2, <3>4
      <4>4. pa' = 1 /\ pb' = 2 /\ pass' = 1 /\ ia' = 0 /\ ib' = 0
        BY <1>1, <1>4 DEF pa, pb, PairOf
      <4>5. \A x \in 1..3 : Before(1, x)' = Wanted(x)
        BY <1>5 DEF Before
      <4>6. probed'[1].len \in Nat /\ probed'[2].len \in Nat
        BY <2>4 DEF Vlist
      <4>7. Removing'
        BY <4>3, <4>4, <4>5, <4>6 DEF Removing
      <4> QED
        BY <4>1, <4>2, <4>7 DEF SetInv
    <3> QED
      BY <3>3, <3>4
  <2> QED
    BY <2>7, <2>8
<1> QED
  BY <1>7, <1>8

LEMMA RemoveStepInv == SetInv /\ RemoveStep => SetInv'
<1> SUFFICES ASSUME SetInv, RemoveStep PROVE SetInv'
  OBVIOUS
<1>1. /\ ksPc = "remove" /\ ia < probed[pa].len /\ ib < probed[pb].len
      /\ ib' = ib + 1
      /\ UNCHANGED <<foot, ksPc, a, set, recv, count, shifted, wrong, pass, ia>>
      /\ probed' = IF vl_get(probed[pa], ia) = vl_get(probed[pb], ib)
                   THEN [probed EXCEPT ![pb] = vl_del(@, ib)] ELSE probed
  BY DEF RemoveStep
<1>2. SetTypes /\ Removing
  BY <1>1 DEF SetInv
<1>3. /\ pa \in 1..3 /\ pb \in 1..3 /\ pa # pb /\ pa' = pa /\ pb' = pb
      /\ ia \in Nat /\ ib \in Nat
      /\ \A x : Before(pass, x)' = Before(pass, x)
  BY <1>1, <1>2, PairFacts DEF SetTypes, SetTypeOK, pa, pb, Before, Wanted
<1> DEFINE A == probed[pa]
           B == probed[pb]
<1>4. /\ Vlist(A) /\ Vlist(B) /\ A.len \in Nat /\ B.len \in Nat
      /\ \A k \in 1..A.len : A.data[k] \in Members(A)
      /\ \A j, k \in 1..B.len : B.data[j] = B.data[k] => j = k
  BY <1>2, <1>3 DEF SetTypes, Vlist, Members
<1>5. CASE A.data[ia + 1] = B.data[ib + 1]
  <2> DEFINE C == vl_del(B, ib)
  <2>1. probed' = [probed EXCEPT ![pb] = C]
    BY <1>1, <1>5 DEF vl_get
  <2>2. /\ Vlist(C) /\ Members(C) = Members(B) \ {B.data[ib + 1]} /\ C.len = B.len - 1
        /\ \A k \in 1..(B.len - 1) : k # ib + 1 => C.data[k] = B.data[k]
    BY <1>1, <1>3, <1>4, DelFacts
  <2>3. C.data[ib + 1] \in Members(C) \/ ib + 1 > C.len
    BY <1>3, <1>4, <2>2 DEF Members
  <2> HIDE DEF C
  <2>4. /\ probed' = [x \in 1..3 |-> probed'[x]]
        /\ probed'[pb] = C /\ \A x \in 1..3 : x # pb => probed'[x] = probed[x]
    BY <1>2, <1>3, <2>1 DEF SetTypes
  <2>5. SetTypes'
    <3>1. \A x \in 1..3 : Vlist(probed'[x])
      BY <1>2, <2>2, <2>4 DEF SetTypes
    <3>2. \A x \in 1..3 : Elements(probed'[x]) \in Seq(ProbeSet)
      BY <3>1, VlistCount
    <3> QED
      BY <1>1, <1>2, <1>3, <2>4, <3>1, <3>2 DEF SetTypes, SetTypeOK
  <2>6. A.data[ia + 1] \in Members(A) /\ A.data[ia + 1] \notin Members(C)
    BY <1>1, <1>3, <1>4, <1>5, <2>2
  <2>7. \A k \in 1..C.len : k <= ib + 1 => C.data[k] # A.data[ia + 1]
    BY <2>6 DEF Members
  <2>8. Removing'
    BY <1>1, <1>2, <1>3, <1>5, <2>2, <2>4, <2>6, <2>7 DEF Removing
  <2> QED
    BY <1>1, <2>5, <2>8 DEF SetInv
<1>6. CASE A.data[ia + 1] # B.data[ib + 1]
  <2>1. probed' = probed
    BY <1>1, <1>6 DEF vl_get
  <2>2. SetTypes'
    <3>1. SetTypeOK'
      <4>1. ib' \in Nat /\ \A x \in 1..3 : Elements(probed'[x]) = Elements(probed[x])
        BY <1>1, <1>3, <2>1
      <4> QED
        BY <1>1, <1>2, <2>1, <4>1 DEF SetTypes, SetTypeOK
    <3> QED
      BY <1>2, <2>1, <3>1 DEF SetTypes
  <2>3. \A k \in 1..B.len : k <= ib + 1 => B.data[k] # A.data[ia + 1]
    <3>1. \A k \in 1..B.len : k <= ib => B.data[k] # A.data[ia + 1]
      BY <1>1, <1>2 DEF Removing
    <3> QED
      BY <1>3, <1>6, <3>1
  <2>4. Removing'
    BY <1>1, <1>2, <1>3, <2>1, <2>3 DEF Removing
  <2> QED
    BY <1>1, <2>2, <2>4 DEF SetInv
<1> QED
  BY <1>5, <1>6

LEMMA RemoveNextInv == SetInv /\ RemoveNext => SetInv'
<1> SUFFICES ASSUME SetInv, RemoveNext PROVE SetInv'
  OBVIOUS
<1>1. /\ ksPc = "remove" /\ (ia >= probed[pa].len \/ ib >= probed[pb].len)
      /\ ib' = 0
      /\ IF ia < probed[pa].len THEN ia' = ia + 1 /\ UNCHANGED <<ksPc, pass>>
         ELSE /\ ia' = 0
              /\ IF pass < 3 THEN pass' = pass + 1 /\ UNCHANGED ksPc
                             ELSE ksPc' = "done" /\ UNCHANGED pass
      /\ UNCHANGED <<foot, a, set, recv, count, shifted, wrong, probed>>
  BY DEF RemoveNext
<1>2. SetTypes /\ Removing
  BY <1>1 DEF SetInv
<1>3. /\ pass \in 1..3 /\ pa \in 1..3 /\ pb \in 1..3 /\ pa # pb /\ ia \in Nat /\ ib \in Nat
      /\ \A x : Wanted(x)' = Wanted(x)
  BY <1>1, <1>2, PairFacts DEF SetTypes, SetTypeOK, Wanted
<1>4. SetTypes'
  BY <1>1, <1>2, <1>3 DEF SetTypes, SetTypeOK
<1> DEFINE A == probed[pa]
           B == probed[pb]
<1>5. Vlist(A) /\ Vlist(B) /\ A.len \in Nat /\ B.len \in Nat
  BY <1>2, <1>3 DEF SetTypes, Vlist
<1>6. CASE ia < A.len
  <2>1. ia' = ia + 1 /\ UNCHANGED <<ksPc, pass>> /\ pa' = pa /\ pb' = pb
    BY <1>1, <1>6 DEF pa, pb
  <2>2. \A x : Before(pass, x)' = Before(pass, x)
    BY <1>3, <2>1 DEF Before
  <2>3. A.data[ia + 1] \notin Members(B)
    <3>1. \A k \in 1..B.len : k <= ib => B.data[k] # A.data[ia + 1]
      BY <1>2, <1>6 DEF Removing
    <3> QED
      BY <1>1, <1>3, <1>5, <1>6, <3>1 DEF Members
  <2>4. \A k \in 1..(ia + 1) : A.data[k] \notin Members(B)
    <3>1. \A k \in 1..ia : A.data[k] \notin Members(B)
      BY <1>2 DEF Removing
    <3>2. \A k \in 1..(ia + 1) : k \in 1..ia \/ k = ia + 1
      BY <1>3
    <3> QED
      BY <2>3, <3>1, <3>2
  <2>5. Removing'
    BY <1>1, <1>2, <1>3, <1>5, <1>6, <2>1, <2>2, <2>4 DEF Removing
  <2> QED
    BY <1>1, <1>4, <2>1, <2>5 DEF SetInv
<1>7. CASE ~(ia < A.len)
  <2>1. ia = A.len
    BY <1>2, <1>3, <1>5, <1>7 DEF Removing
  <2>2. Members(B) = Before(pass, pb) \ Before(pass, pa)
    <3>1. Members(A) = Before(pass, pa)
      BY <1>2, <1>3 DEF Removing
    <3>2. \A y \in Members(A) : y \notin Members(B)
      BY <1>2, <2>1 DEF Removing, Members
    <3> QED
      BY <1>2, <3>1, <3>2 DEF Removing
  <2>3. \A x \in 1..3 : Members(probed[x]) = Before(pass + 1, x)
    <3>1. \A x \in 1..3 : x # pb => Members(probed[x]) = Before(pass, x)
      BY <1>2 DEF Removing
    <3>2. CASE pass = 1
      BY <2>2, <3>1, <3>2, PairFacts DEF Before
    <3>3. CASE pass = 2
      BY <2>2, <3>1, <3>3, PairFacts DEF Before
    <3>4. CASE pass = 3
      BY <2>2, <3>1, <3>4, PairFacts DEF Before
    <3> QED
      BY <1>3, <3>2, <3>3, <3>4
  <2>4. CASE pass < 3
    <3>1. /\ ia' = 0 /\ ib' = 0 /\ pass' = pass + 1 /\ ksPc' = ksPc /\ probed' = probed
          /\ pass' \in 1..3
      BY <1>1, <1>3, <1>7, <2>4
    <3>2. pa' \in 1..3 /\ pb' \in 1..3 /\ pa' # pb'
      BY <1>3, <2>4, <3>1 DEF pa, pb, PairOf
    <3>3. \A x \in 1..3 : Members(probed'[x]) = Before(pass, x)'
      BY <1>3, <2>3, <3>1 DEF Before
    <3>4. probed'[pa'].len \in Nat /\ probed'[pb'].len \in Nat
      BY <1>2, <3>1, <3>2 DEF SetTypes, Vlist
    <3>5. Removing'
      BY <3>1, <3>2, <3>3, <3>4 DEF Removing
    <3> QED
      BY <1>1, <1>4, <3>1, <3>5 DEF SetInv
  <2>5. CASE ~(pass < 3)
    <3>1. pass = 3 /\ ksPc' = "done" /\ probed' = probed
      BY <1>1, <1>3, <1>7, <2>5
    <3>2. \A x : Before(4, x)' = Before(4, x)
      BY <1>3 DEF Before
    <3>3. Removed'
      BY <2>3, <3>1, <3>2 DEF Removed
    <3> QED
      BY <1>4, <3>1, <3>3 DEF SetInv
  <2> QED
    BY <2>4, <2>5
<1> QED
  BY <1>6, <1>7

LEMMA NextSetInv == Tolerable /\ SetInv /\ [SetNext]_setVars => SetInv'
<1> SUFFICES ASSUME Tolerable, SetInv, [SetNext]_setVars PROVE SetInv'
  OBVIOUS
<1>1. CASE UNCHANGED setVars
  <2>1. pa' = pa /\ pb' = pb /\ (Evicted' <=> Evicted)
    BY <1>1 DEF setVars, pa, pb, Evicted
  <2>2. (\A x : Wanted(x)' = Wanted(x)) /\ \A k, x : Before(k, x)' = Before(k, x)
    BY <1>1 DEF setVars, Before, Wanted
  <2>3. SetTypes' /\ (Testing => Testing') /\ (Removing => Removing') /\ (Removed => Removed')
    BY <1>1, <2>1, <2>2 DEF setVars, SetInv, SetTypes, SetTypeOK, Testing, Removing, Removed
  <2> QED
    BY <1>1, <2>3 DEF setVars, SetInv
<1>2. CASE SetNext
  BY <1>2, ProbeOnceInv, EndTestInv, RemoveStepInv, RemoveNextInv DEF SetNext
<1> QED
  BY <1>1, <1>2

LEMMA SearchFollows == SetInv => SearchIsExact
<1> SUFFICES ASSUME SetInv PROVE SearchIsExact
  OBVIOUS
<1>1. foot \in Footprints /\ \A x \in 1..3 : Vlist(probed[x])
  BY DEF SetInv, SetTypes, SetTypeOK
<1>2. \A x \in 1..3 : /\ Found(x) = Members(probed[x])
                      /\ probed[x].len = Cardinality(Found(x))
  BY <1>1, VlistCount DEF Found
<1>3. ASSUME ksPc = "test", NEW x \in 1..3
      PROVE  Found(x) = {y \in foot.api[x] \ foot.own : x < a \/ (x = a /\ y < set)}
  BY <1>2, <1>3 DEF SetInv, Testing, Wanted
<1>4. ASSUME ksPc = "done", NEW x \in 1..3
      PROVE  Found(x) = (foot.api[x] \ foot.own) \ UNION {foot.api[y] : y \in 1..(x - 1)}
  <2>1. Found(x) = Before(4, x)
    BY <1>2, <1>4 DEF SetInv, Removed
  <2>2. CASE x = 1
    BY <2>1, <2>2 DEF Before, Wanted
  <2>3. CASE x = 2
    <3>1. 1..(x - 1) = {1}
      BY <2>3
    <3> QED
      BY <2>1, <2>3, <3>1 DEF Before, Wanted
  <2>4. CASE x = 3
    <3>1. 1..(x - 1) = {1, 2}
      BY <2>4
    <3> QED
      BY <2>1, <2>4, <3>1 DEF Before, Wanted
  <2> QED
    BY <2>2, <2>3, <2>4
<1> QED
  BY <1>2, <1>3, <1>4 DEF SearchIsExact
-----------------------------------------------------------------------------
(* The overhead of reading the clock *)

\* An array whose neighbours agree is constant.
LEMMA StableIsConstant ==
  ASSUME NEW f \in [Run -> Nat], stable(f)
  PROVE  \A r \in Run : f[r] = f[0]
<1> DEFINE other == {r \in Run : f[r] # f[0]}
<1> SUFFICES ASSUME other # {}
             PROVE  FALSE
  OBVIOUS
<1>1. other \in SUBSET Nat
  BY DEF Run
<1> HIDE DEF other
<1>2. PICK r \in other : \A q \in other : r <= q
  BY <1>1, LeastMember
<1>3. r \in Run /\ f[r] # f[0] /\ r # 0 /\ r \in Nat
  BY <1>1 DEF other
<1>4. r - 1 \in Run /\ ~(r <= r - 1)
  BY <1>3, OverheadsAssumption DEF Run
<1>5. f[r - 1] = f[0]
  BY <1>2, <1>4 DEF other
<1>6. f[r] = f[r - 1]
  BY <1>3 DEF stable
<1>7. QED
  BY <1>3, <1>5, <1>6

\* The samples of an array that is full, or of the part that is.
FilledRuns(d) ==
  IF d < dest \/ ovPc \in {"choose", "record"} \/ (d = dest /\ (round > 0 \/ ovPc = "check"))
  THEN Run
  ELSE IF d = dest THEN 0..(run - 1) ELSE {}

\* A disturbance only adds to a sample.
SamplesAbove ==
  \A d \in 1..arrays : \A r \in FilledRuns(d) : Stub[d] <= overhead_of[d][r]

\* The types, and what is known of the counters at each statement.
OverheadTypes ==
  /\ OverheadTypeOK
  /\ ovPc = "sample" => run \in Run
  /\ overhead_of \in [1..2 -> [Run -> Nat]]
  /\ IF ovPc = "record" THEN overhead \in Nat ELSE cost = 0 /\ elapsed = 0

\* OverheadIsLeast, and the cost that was computed from it.
Subtracted ==
  /\ OverheadIsLeast
  /\ CostExact

OverheadInv == OverheadTypes /\ SamplesAbove /\ Subtracted

LEMMA OverheadFacts ==
  /\ OverheadRuns \in Nat \ {0} /\ OverheadRetries \in Nat \ {0}
  /\ Stub[1] \in Nat /\ Stub[2] \in Nat /\ \A d \in 1..2 : Stub[d] \in Nat
  /\ CycleMod \in Nat \ {0}
  /\ \A d \in 1..2, x \in Delay : Stub[d] + x \in Sampled
  /\ \A x \in Delay : x \in Nat
  /\ \A op \in OpTimes : op \in Nat
  /\ \A op \in OpTimes, x \in Delay : op + Stub[1] + x < CycleMod
  /\ 0 \in Run /\ Run \subseteq Nat
BY OverheadsAssumption DEF Run, Sampled

LEMMA InitOverheadInv == OverheadInit => OverheadInv
<1> SUFFICES ASSUME OverheadInit
             PROVE  OverheadInv
  OBVIOUS
<1> USE DEF OverheadInit
<1>1. OverheadTypes
  BY OverheadFacts DEF OverheadTypes, OverheadTypeOK, Run
<1>2. SamplesAbove
  BY DEF SamplesAbove, FilledRuns
<1>3. Subtracted
  BY DEF Subtracted, OverheadIsLeast, CostExact
<1>4. QED
  BY <1>1, <1>2, <1>3 DEF OverheadInv

LEMMA SampleOverheadInv == OverheadInv /\ Sample => OverheadInv'
<1> SUFFICES ASSUME OverheadInv, Sample
             PROVE  OverheadInv'
  OBVIOUS
<1> USE DEF OverheadInv
<1>1. PICK x \in Delay :
        overhead_of' = [overhead_of EXCEPT ![dest][run] = Stub[dest] + x]
  BY DEF Sample
<1>2. /\ ovPc = "sample" /\ run' = run + 1
      /\ ovPc' = IF run' = OverheadRuns THEN "check" ELSE "sample"
      /\ UNCHANGED <<arrays, dest, round, overhead, cost, elapsed>>
  BY DEF Sample
<1>3. dest \in 1..2 /\ run \in Run /\ x \in Nat /\ Stub[dest] \in Nat
  BY <1>2, OverheadFacts DEF OverheadTypes, OverheadTypeOK
<1>4. OverheadTypes'
  <2>1. /\ overhead_of' \in [1..2 -> [Run -> Nat]]
        /\ overhead_of' \in [1..2 -> [Run -> {0} \cup Sampled]]
    <3>1. Stub[dest] + x \in Sampled /\ Stub[dest] + x \in Nat
      BY <1>3, OverheadFacts
    <3>2. QED
      BY <1>1, <1>3, <3>1 DEF OverheadTypes, OverheadTypeOK
  <2>2. run' \in 0..OverheadRuns
    BY <1>2, <1>3, OverheadFacts DEF Run
  <2>3. ovPc' = "sample" => run' \in Run
    BY <1>2, <2>2, OverheadFacts DEF Run
  <2>4. arrays' \in 1..2 /\ dest' \in 1..arrays' /\ round' \in 0..(OverheadRetries - 1)
    BY <1>2 DEF OverheadTypes, OverheadTypeOK
  <2>5. /\ cost' = 0 /\ elapsed' = 0 /\ ovPc' \in {"sample", "check"}
        /\ cost' \in 0..(CycleMod - 1) /\ overhead' \in {0} \cup Sampled
    BY <1>2, OverheadFacts DEF OverheadTypes, OverheadTypeOK
  <2>6. QED
    BY <2>1, <2>2, <2>3, <2>4, <2>5 DEF OverheadTypes, OverheadTypeOK
<1>5. /\ overhead_of'[dest][run] = Stub[dest] + x
      /\ \A d \in 1..2, r \in Run :
           d # dest \/ r # run => overhead_of'[d][r] = overhead_of[d][r]
  BY <1>1, <1>3 DEF OverheadTypes, OverheadTypeOK
<1>6. \A d \in 1..arrays : \A r \in FilledRuns(d)' :
        r \in Run /\ (r \in FilledRuns(d) \/ (d = dest /\ r = run))
  BY <1>2, <1>3, OverheadFacts DEF OverheadTypes, OverheadTypeOK, FilledRuns, Run
<1>7. SamplesAbove'
  <2> SUFFICES ASSUME NEW d \in 1..arrays, NEW r \in FilledRuns(d)'
               PROVE  Stub[d] <= overhead_of'[d][r]
    BY <1>2 DEF SamplesAbove
  <2>1. CASE d = dest /\ r = run
    BY <1>3, <1>5, <2>1
  <2>2. CASE ~(d = dest /\ r = run)
    BY <1>5, <1>6, <2>2 DEF SamplesAbove, OverheadTypes, OverheadTypeOK
  <2>3. QED
    BY <2>1, <2>2
<1>8. Subtracted'
  BY <1>2 DEF Subtracted, OverheadIsLeast, CostExact
<1>9. QED
  BY <1>4, <1>7, <1>8

LEMMA CheckOverheadInv == OverheadInv /\ Check => OverheadInv'
<1> SUFFICES ASSUME OverheadInv, Check
             PROVE  OverheadInv'
  OBVIOUS
<1> USE DEF OverheadInv
<1>1. /\ ovPc = "check" /\ run' = 0
      /\ IF ~stable(overhead_of[dest]) /\ round + 1 < OverheadRetries
         THEN round' = round + 1 /\ ovPc' = "sample" /\ UNCHANGED dest
         ELSE /\ round' = 0
              /\ IF dest < arrays THEN dest' = dest + 1 /\ ovPc' = "sample"
                                  ELSE ovPc' = "choose" /\ UNCHANGED dest
      /\ UNCHANGED <<arrays, overhead_of, overhead, cost, elapsed>>
  BY DEF Check
<1>2. OverheadTypes'
  <2>1. arrays' \in 1..2 /\ dest' \in 1..arrays' /\ round' \in 0..(OverheadRetries - 1)
    BY <1>1, OverheadFacts DEF OverheadTypes, OverheadTypeOK
  <2>2. run' \in 0..OverheadRuns /\ run' \in Run
    BY <1>1, OverheadFacts DEF Run
  <2>3. /\ cost' = 0 /\ elapsed' = 0 /\ ovPc' \in {"sample", "choose"}
        /\ cost' \in 0..(CycleMod - 1) /\ overhead' \in {0} \cup Sampled
    BY <1>1, OverheadFacts DEF OverheadTypes, OverheadTypeOK
  <2>4. /\ overhead_of' \in [1..2 -> [Run -> Nat]]
        /\ overhead_of' \in [1..2 -> [Run -> {0} \cup Sampled]]
    BY <1>1 DEF OverheadTypes, OverheadTypeOK
  <2>5. QED
    BY <2>1, <2>2, <2>3, <2>4 DEF OverheadTypes, OverheadTypeOK
<1>3. \A d \in 1..arrays : \A r \in FilledRuns(d)' : r \in FilledRuns(d)
  BY <1>1, OverheadFacts DEF OverheadTypes, OverheadTypeOK, FilledRuns
<1>4. SamplesAbove'
  BY <1>1, <1>3 DEF SamplesAbove
<1>5. Subtracted'
  BY <1>1 DEF Subtracted, OverheadIsLeast, CostExact
<1>6. QED
  BY <1>2, <1>4, <1>5

\* Whichever way the overhead is chosen, it is a sample, and no sample is less.
LEMMA Chosen ==
  ASSUME OverheadInv, Choose
  PROVE  /\ overhead' \in Nat
         /\ \A d \in 1..arrays, r \in Run : overhead' <= overhead_of[d][r]
         /\ \E d \in 1..arrays, r \in Run : overhead' = overhead_of[d][r]
<1> DEFINE least(d) == minimum(overhead_of[d])
<1>1. \A d \in 1..2 : /\ least(d) \in Nat
                      /\ \A r \in Run : least(d) <= overhead_of[d][r]
                      /\ \E r \in Run : least(d) = overhead_of[d][r]
  <2> SUFFICES ASSUME NEW d \in 1..2
               PROVE  /\ least(d) \in Nat
                      /\ \A r \in Run : least(d) <= overhead_of[d][r]
                      /\ \E r \in Run : least(d) = overhead_of[d][r]
    OBVIOUS
  <2> DEFINE S == {overhead_of[d][r] : r \in Run}
  <2>1. S \in SUBSET Nat /\ S # {}
    BY OverheadFacts DEF OverheadInv, OverheadTypes, OverheadTypeOK
  <2>2. least(d) = Min(S)
    BY DEF minimum
  <2> HIDE DEF S, least
  <2>3. Min(S) \in S /\ \A y \in S : Min(S) <= y
    BY <2>1, MinFacts
  <2>4. QED
    BY <2>1, <2>2, <2>3 DEF S
<1>2. overhead' = IF arrays = 2 THEN Min({least(1), least(2)})
                  ELSE IF stable(overhead_of[1]) THEN overhead_of[1][0]
                                                 ELSE least(1)
  BY DEF Choose
<1> HIDE DEF least
<1>3. CASE arrays = 2
  <2>1. {least(1), least(2)} \in SUBSET Nat /\ {least(1), least(2)} # {}
    BY <1>1
  <2>2. /\ overhead' \in {least(1), least(2)}
        /\ overhead' <= least(1) /\ overhead' <= least(2)
    BY <1>2, <1>3, <2>1, MinFacts
  <2>3. \A d \in 1..2, r \in Run : overhead' <= overhead_of[d][r]
    <3> SUFFICES ASSUME NEW d \in 1..2, NEW r \in Run
                 PROVE  overhead' <= overhead_of[d][r]
      OBVIOUS
    <3>1. least(d) <= overhead_of[d][r] /\ least(d) \in Nat /\ overhead' <= least(d)
      BY <1>1, <2>2
    <3>2. overhead_of[d][r] \in Nat /\ overhead' \in Nat
      BY <1>1, <2>2 DEF OverheadInv, OverheadTypes, OverheadTypeOK
    <3>3. QED
      BY <3>1, <3>2
  <2>4. \E d \in 1..2, r \in Run : overhead' = overhead_of[d][r]
    BY <1>1, <2>2
  <2>5. QED
    BY <1>1, <1>3, <2>2, <2>3, <2>4
<1>4. CASE arrays # 2
  <2>1. arrays = 1
    BY <1>4 DEF OverheadInv, OverheadTypes, OverheadTypeOK
  <2>2. CASE stable(overhead_of[1])
    <3>1. overhead' = overhead_of[1][0]
      BY <1>2, <2>1, <2>2
    <3>2. \A r \in Run : overhead_of[1][r] = overhead_of[1][0]
      <4>1. overhead_of[1] \in [Run -> Nat]
        BY DEF OverheadInv, OverheadTypes, OverheadTypeOK
      <4>2. QED
        BY <2>2, <4>1, StableIsConstant
    <3>3. QED
      BY <2>1, <3>1, <3>2, OverheadFacts DEF OverheadInv, OverheadTypes, OverheadTypeOK
  <2>3. CASE ~stable(overhead_of[1])
    BY <1>1, <1>2, <2>1, <2>3
  <2>4. QED
    BY <2>2, <2>3
<1>5. QED
  BY <1>3, <1>4

LEMMA ChooseOverheadInv == OverheadInv /\ Choose => OverheadInv'
<1> SUFFICES ASSUME OverheadInv, Choose
             PROVE  OverheadInv'
  OBVIOUS
<1> USE DEF OverheadInv
<1>1. /\ ovPc = "choose" /\ ovPc' = "record"
      /\ UNCHANGED <<arrays, dest, round, run, overhead_of, cost, elapsed>>
  BY DEF Choose
<1>2. /\ overhead' \in Nat
      /\ \A d \in 1..arrays, r \in Run : overhead' <= overhead_of[d][r]
      /\ \E d \in 1..arrays, r \in Run : overhead' = overhead_of[d][r]
  BY Chosen
<1>3. OverheadTypes'
  <2>1. \A d \in 1..arrays, r \in Run : overhead_of[d][r] \in {0} \cup Sampled
    BY DEF OverheadTypes, OverheadTypeOK
  <2>2. overhead' \in {0} \cup Sampled
    BY <1>2, <2>1
  <2>3. QED
    BY <1>1, <1>2, <2>2 DEF OverheadTypes, OverheadTypeOK
<1>4. SamplesAbove'
  BY <1>1 DEF SamplesAbove, FilledRuns
<1>5. \A d \in 1..arrays, r \in Run : Stub[d] <= overhead_of[d][r]
  BY <1>1 DEF SamplesAbove, FilledRuns
<1>6. OverheadIsLeast'
  BY <1>1, <1>2, <1>5 DEF OverheadIsLeast
<1>7. CostExact'
  BY <1>1, OverheadFacts DEF OverheadTypes, OverheadTypeOK, CostExact
<1>8. QED
  BY <1>3, <1>4, <1>6, <1>7 DEF Subtracted

LEMMA RecordOverheadInv == OverheadInv /\ Record => OverheadInv'
<1> SUFFICES ASSUME OverheadInv, Record
             PROVE  OverheadInv'
  OBVIOUS
<1> USE DEF OverheadInv
<1>1. PICK op \in OpTimes, x \in Delay :
        /\ elapsed' = op + x
        /\ cost' = (op + x + Stub[1] - overhead) % CycleMod
  BY DEF Record
<1>2. /\ ovPc = "record"
      /\ UNCHANGED <<arrays, ovPc, dest, round, run, overhead_of, overhead>>
  BY DEF Record
<1>3. OverheadTypes' /\ SamplesAbove'
  <2>1. op \in Nat /\ x \in Nat /\ Stub[1] \in Nat /\ overhead \in Nat
    BY <1>2, OverheadFacts DEF OverheadTypes, OverheadTypeOK
  <2>2. \A n \in Int : n % CycleMod \in 0..(CycleMod - 1)
    BY OverheadFacts
  <2>3. cost' \in 0..(CycleMod - 1) /\ elapsed' \in Nat
    BY <1>1, <2>1, <2>2
  <2>4. QED
    BY <1>2, <2>3 DEF OverheadTypes, OverheadTypeOK, SamplesAbove, FilledRuns
<1>4. OverheadIsLeast'
  BY <1>2 DEF Subtracted, OverheadIsLeast
<1>5. /\ op \in Nat /\ x \in Nat /\ Stub[1] \in Nat /\ overhead \in Nat
      /\ op + Stub[1] + x < CycleMod /\ CycleMod \in Nat
  BY <1>2, OverheadFacts DEF OverheadTypes, OverheadTypeOK
<1>6. ASSUME NEW r \in Run, overhead_of[1][r] = Stub[1]
      PROVE  /\ cost' >= elapsed' /\ (arrays = 1 => cost' = elapsed')
             /\ cost' <= elapsed' + Stub[1]
  <2>1. overhead <= Stub[1]
    BY <1>2, <1>6 DEF Subtracted, OverheadIsLeast, OverheadTypes, OverheadTypeOK
  <2>2. arrays = 1 => Stub[1] <= overhead
    BY <1>2 DEF Subtracted, OverheadIsLeast
  <2> DEFINE n == op + x + Stub[1] - overhead
  <2>3. n \in 0..(CycleMod - 1)
    BY <1>5, <2>1
  <2>4. n % CycleMod = n
    <3> HIDE DEF n
    <3>1. QED
      BY <1>5, <2>3
  <2>5. cost' = n
    BY <1>1, <2>4
  <2>6. QED
    BY <1>1, <1>5, <2>1, <2>2, <2>5
<1>7. CostExact'
  BY <1>2, <1>6 DEF CostExact
<1>8. QED
  BY <1>3, <1>4, <1>7 DEF Subtracted

LEMMA NextOverheadInv ==
  ASSUME OverheadInv, [OverheadNext]_overheadVars
  PROVE  OverheadInv'
<1>1. CASE OverheadNext
  BY <1>1, SampleOverheadInv, CheckOverheadInv, ChooseOverheadInv,
     RecordOverheadInv DEF OverheadNext
<1>2. CASE UNCHANGED overheadVars
  BY <1>2 DEF overheadVars, OverheadInv, OverheadTypes, OverheadTypeOK,
     SamplesAbove, FilledRuns, Subtracted, OverheadIsLeast, CostExact
<1>3. QED
  BY <1>1, <1>2

-----------------------------------------------------------------------------
(* The lists of the D-cache attack *)

Ways == 0..(DcWays - 1)
Spot == 1..DcWays
DcSet == 0..(DcSets - 1)

\* The random order of the lists: at[k][j] is the way at place j of set k.
Orders == [DcSet -> [Spot -> Ways]]
Place(at, k, j) == <<k, at[k][j]>>
First(at, k) == Place(at, k, 1)
Final(at, k) == Place(at, k, DcWays)

Permuted(at, k) ==
  /\ \A i, j \in Spot : at[k][i] = at[k][j] => i = j
  /\ \A w \in Ways : \E j \in Spot : at[k][j] = w

\* The first n places of a set are linked.
Chained(at, k, n) ==
  \A j \in 1..n :
    /\ node[Place(at, k, j)].prev = IF j = 1 THEN NIL ELSE Place(at, k, j - 1)
    /\ node[Place(at, k, j)].next = IF j = n THEN NIL ELSE Place(at, k, j + 1)

\* A head leads to the next tail and a tail to the next head, over m sets.
Crossed(at, k, m) ==
  /\ node[First(at, k)].next_set = IF k + 1 = m THEN NIL ELSE Final(at, k + 1)
  /\ node[Final(at, k)].next_set = IF k + 1 = m THEN NIL ELSE First(at, k + 1)

Entered(at) == set0 = [head |-> First(at, 0), tail |-> Final(at, 0)]

Linked(at, m) ==
  /\ \A k \in 0..(m - 1) :
       Permuted(at, k) /\ Chained(at, k, DcWays) /\ Crossed(at, k, m)
  /\ m > 0 => Entered(at)

\* buffer_init: s sets are linked, and n ways of the next one.
Linking(at, n) ==
  /\ n \in 0..DcWays
  /\ Linked(at, s)
  /\ s > 0 => prevHead = First(at, s - 1) /\ prevTail = Final(at, s - 1)
  /\ \A x \in DcLine :
       /\ x[1] >= s => node[x].next_set = NIL
       /\ x[1] > s \/ (x[1] = s /\ x[2] \notin bit_mask) => node[x].next = NIL
  /\ s = DcSets => n = 0
  /\ bit_mask = {at[s][j] : j \in 1..n}
  /\ IsFiniteSet(bit_mask) /\ Cardinality(bit_mask) = n
  /\ \A i, j \in 1..n : at[s][i] = at[s][j] => i = j
  /\ Chained(at, s, n)
  /\ l = IF n = 0 THEN NIL ELSE Place(at, s, n)
  /\ n > 0 => setHead = First(at, s)
  /\ n = DcWays => setTail = Final(at, s)

\* The walk that primes stands at place j of set k; it goes up.
PrimedTo(at, k, j) ==
  /\ l = Place(at, k, j)
  /\ \A c \in DcSet, b \in Spot :
       c < k \/ (c = k /\ b < j) => Place(at, c, b) \in cached

Priming(at) ==
  IF l = NIL THEN cached = DcLine
  ELSE \E k \in DcSet, j \in Spot : PrimedTo(at, k, j)

\* The lines of set k that the encryption evicted, and those of them that a
\* walk going down to place j has behind it.
Out(out, k) == {c \in out : c[1] = k}
Behind(at, out, k, j) ==
  {c \in Out(out, k) : \E b \in (j + 1)..DcWays : c = Place(at, k, b)}

\* The sets before k have their time.
TimedTo(at, out, k) ==
  \A c \in 0..(k - 1) : node[First(at, c)].time = Cardinality(Out(out, c))

\* The walk that probes stands at place j of set k; it goes down.
ProbedTo(at, out, k, j) ==
  /\ l = Place(at, k, j)
  /\ TimedTo(at, out, k)
  /\ elapsed_s = Cardinality(Behind(at, out, k, j))
  /\ elapsed_s \in 0..(DcWays - j)
  /\ \A c \in DcSet, b \in Spot :
       IF c < k \/ (c = k /\ b > j) THEN Place(at, c, b) \in cached
       ELSE Place(at, c, b) \in cached <=> Place(at, c, b) \notin out

Probing(at, out) ==
  IF l = NIL THEN cached = DcLine /\ TimedTo(at, out, DcSets)
  ELSE \E k \in DcSet, j \in Spot : ProbedTo(at, out, k, j)

\* What the tables lack at set y of byte b.
Booked(out, b, y) ==
  \A i \in Byte, p \in PlainBytes, x \in DcSet :
    evictions[i][p][x] =
      table[i][p][x] + IF p = text[i] /\ (i > b \/ (i = b /\ x >= y))
                       THEN Cardinality(Out(out, x)) ELSE 0

Recording(at, out) ==
  /\ cached = DcLine
  /\ TimedTo(at, out, DcSets)
  /\ Booked(out, byte, s)
  /\ byte > AES_MSG_SIZE => s = 0
  /\ s < DcSets => \E j \in Spot : l = Place(at, s, j)

NodeType ==
  [prev : Pointer, next : Pointer, next_set : Pointer, time : 0..DcWays]
Tables == [Byte -> [PlainBytes -> [DcSet -> Nat]]]

DcTypes ==
  /\ dcPc \in {"init", "prime", "probe", "record", "end"}
  /\ node \in [DcLine -> NodeType]
  /\ set0 \in [head : Pointer, tail : Pointer]
  /\ setHead \in Pointer /\ setTail \in Pointer
  /\ prevHead \in Pointer /\ prevTail \in Pointer
  /\ l \in Pointer
  /\ bit_mask \in SUBSET Ways
  /\ s \in 0..DcSets /\ elapsed_s \in 0..DcWays
  /\ byte \in 1..(AES_MSG_SIZE + 1) /\ tests \in 0..N_D_TESTS
  /\ text \in [Byte -> PlainBytes] /\ cached \in SUBSET DcLine
  /\ table \in Tables /\ evictions \in Tables
  /\ dcPc # "end" => tests < N_D_TESTS

Walking(at) ==
  /\ dcPc = "init" => \E n \in 0..DcWays : Linking(at, n)
  /\ dcPc # "init" => Linked(at, DcSets)
  /\ dcPc = "prime" => Priming(at)
  /\ dcPc = "probe" =>
       \E out \in SUBSET DcLine : Probing(at, out) /\ Booked(out, 0, 0)
  /\ dcPc = "record" => \E out \in SUBSET DcLine : Recording(at, out)
  /\ dcPc \in {"init", "prime", "end"} => table = evictions

DcacheInv == DcTypes /\ \E at \in Orders : Walking(at)

LEMMA DcFacts ==
  /\ DcSets \in Nat \ {0} /\ DcWays \in Nat \ {0, 1}
  /\ AES_MSG_SIZE \in Nat /\ N_D_TESTS \in Nat \ {0}
  /\ 1 \in Spot /\ DcWays \in Spot /\ Spot \subseteq Nat
  /\ 0 \in DcSet /\ DcSet \subseteq Nat
  /\ NIL \in Pointer /\ NIL \notin DcLine
  /\ DcLine = DcSet \X Ways
  /\ DcLine \subseteq Pointer /\ \A x \in Pointer : x # NIL => x \in DcLine
  /\ Patterns \subseteq SUBSET DcLine
  /\ IsFiniteSet(Ways) /\ Cardinality(Ways) = DcWays
<1>1. IsFiniteSet(Ways) /\ Cardinality(Ways) = DcWays
  <2>1. 0 \in Int /\ DcWays - 1 \in Int
    BY DcacheAssumption
  <2>2. IsFiniteSet(Ways) /\ Cardinality(Ways) = (IF 0 > DcWays - 1 THEN 0 ELSE DcWays - 1 - 0 + 1)
    BY <2>1, FS_Interval DEF Ways
  <2>3. QED
    BY <2>2, DcacheAssumption
<1>2. QED
  BY <1>1, DcacheAssumption DEF Spot, DcSet, Ways, DcLine, Pointer

\* A place is a line, and two places of the sets that are in order are two.
LEMMA PlaceFacts ==
  ASSUME NEW at \in Orders, NEW k \in DcSet, NEW j \in Spot
  PROVE  /\ Place(at, k, j) \in DcLine /\ Place(at, k, j) # NIL
         /\ Place(at, k, j)[1] = k /\ Place(at, k, j)[2] = at[k][j]
         /\ at[k][j] \in Ways
<1>1. at[k][j] \in Ways
  BY DEF Orders
<1>2. QED
  BY <1>1, DcFacts DEF Place

LEMMA PlacesDiffer ==
  ASSUME NEW at \in Orders, NEW k \in DcSet, NEW j \in Spot,
         NEW c \in DcSet, NEW b \in Spot, Permuted(at, k),
         Place(at, k, j) = Place(at, c, b)
  PROVE  c = k /\ b = j
<1>1. c = k
  BY PlaceFacts
<1>2. at[k][j] = at[k][b]
  BY <1>1, PlaceFacts
<1>3. QED
  BY <1>1, <1>2 DEF Permuted

\* Every line is a place.
LEMMA LineIsPlace ==
  ASSUME NEW at \in Orders, NEW x \in DcLine, Permuted(at, x[1])
  PROVE  x[1] \in DcSet /\ \E j \in Spot : x = Place(at, x[1], j)
<1>1. x[1] \in DcSet /\ x[2] \in Ways /\ x = <<x[1], x[2]>>
  BY DcFacts
<1>2. PICK j \in Spot : at[x[1]][j] = x[2]
  BY <1>1 DEF Permuted
<1>3. QED
  BY <1>1, <1>2 DEF Place

LEMMA InitDcacheInv == DcacheInit => DcacheInv
<1> SUFFICES ASSUME DcacheInit
             PROVE  DcacheInv
  OBVIOUS
<1> USE DEF DcacheInit
<1>1. DcTypes
  <2>1. node \in [DcLine -> NodeType]
    BY DcFacts DEF NodeType
  <2>2. (CHOOSE p \in PlainBytes : TRUE) \in PlainBytes
    BY DcacheAssumption
  <2>3. text \in [Byte -> PlainBytes]
    BY <2>2
  <2>4. Zero \in Tables
    BY DEF Zero, Tables, DcSet
  <2>5. set0 \in [head : Pointer, tail : Pointer]
    BY DcFacts
  <2>6. QED
    BY <2>1, <2>3, <2>4, <2>5, DcFacts DEF DcTypes
<1> DEFINE at == [k \in DcSet |-> [j \in Spot |-> 0]]
<1>2. at \in Orders
  BY DcFacts DEF Orders, Ways
<1>3. Linking(at, 0)
  <2>1. Linked(at, s)
    BY DEF Linked
  <2>2. \A x \in DcLine : node[x].next_set = NIL /\ node[x].next = NIL
    OBVIOUS
  <2>3. IsFiniteSet(bit_mask) /\ Cardinality(bit_mask) = 0
    BY FS_EmptySet
  <2>4. bit_mask = {at[s][j] : j \in 1..0}
    OBVIOUS
  <2>5. Chained(at, s, 0)
    BY DEF Chained
  <2>6. QED
    BY <2>1, <2>2, <2>3, <2>4, <2>5, DcFacts DEF Linking
<1>4. Walking(at)
  BY <1>3, DcFacts DEF Walking
<1>5. QED
  BY <1>1, <1>2, <1>4, Zenon DEF DcacheInv

\* Not every way is connected: there is one more place.
LEMMA PlaceLeft ==
  ASSUME DcTypes, NEW at \in Orders, NEW n \in 0..DcWays, Linking(at, n)
  PROVE  bit_mask = Ways <=> n = DcWays
<1>1. bit_mask \in SUBSET Ways /\ Cardinality(bit_mask) = n
  BY DEF DcTypes, Linking
<1>2. bit_mask # Ways => Cardinality(bit_mask) # Cardinality(Ways)
  BY <1>1, DcFacts, FS_Subset, Zenon
<1>3. QED
  BY <1>1, <1>2, DcFacts

\* The order, with way w at the next place of set s.
LEMMA OrderExtended ==
  ASSUME NEW at \in Orders, NEW k \in DcSet, NEW n \in 0..DcWays, n < DcWays,
         NEW w \in Ways
  PROVE  \E to \in Orders :
           /\ to[k][n + 1] = w
           /\ \A c \in DcSet, b \in Spot :
                c # k \/ b # n + 1 => to[c][b] = at[c][b]
<1> DEFINE to == [at EXCEPT ![k] = [at[k] EXCEPT ![n + 1] = w]]
<1>1. n + 1 \in Spot
  BY DcFacts DEF Spot
<1>2. at \in [DcSet -> [Spot -> Ways]] /\ at[k] \in [Spot -> Ways]
  BY DEF Orders
<1>3. [at[k] EXCEPT ![n + 1] = w] \in [Spot -> Ways]
  BY <1>2
<1>4. to \in Orders
  BY <1>2, <1>3 DEF Orders
<1>5. to[k][n + 1] = w
  BY <1>1, <1>2
<1>6. \A c \in DcSet, b \in Spot : c # k \/ b # n + 1 => to[c][b] = at[c][b]
  BY <1>1, <1>2
<1>7. QED
  BY <1>4, <1>5, <1>6, Zenon

LEMMA ConnectWayInv == DcacheInv /\ ConnectWay => DcacheInv'
<1> SUFFICES ASSUME DcacheInv, ConnectWay
             PROVE  DcacheInv'
  OBVIOUS
<1>1. DcTypes
  BY DEF DcacheInv
<1>2. /\ dcPc = "init" /\ s < DcSets /\ bit_mask # Ways /\ s \in DcSet
      /\ dcPc' = "init"
      /\ UNCHANGED <<set0, prevHead, prevTail, s, elapsed_s, byte, text,
                     cached, table, tests, evictions>>
  BY <1>1, DcFacts DEF ConnectWay, Ways, DcTypes, DcSet
<1>3. PICK at \in Orders, n \in 0..DcWays : Linking(at, n)
  BY <1>2 DEF DcacheInv, Walking
<1>4. table = evictions
  BY <1>2 DEF DcacheInv, Walking
<1>5. n \in Nat /\ n < DcWays /\ n + 1 \in Spot /\ (\A j \in 1..n : j \in Spot) /\ s \in Nat
  BY <1>1, <1>2, <1>3, PlaceLeft, DcFacts DEF Spot
<1>6. PICK w \in Ways \ bit_mask :
        /\ node' = [x \in DcLine |->
             IF x = <<s, w>> THEN [node[x] EXCEPT !.prev = l]
             ELSE IF x = l THEN [node[x] EXCEPT !.next = <<s, w>>] ELSE node[x]]
        /\ bit_mask' = bit_mask \cup {w}
        /\ setHead' = IF bit_mask = {} THEN <<s, w>> ELSE setHead
        /\ setTail' = IF bit_mask' = Ways THEN <<s, w>> ELSE setTail
        /\ l' = <<s, w>>
  BY DEF ConnectWay, Ways
<1> DEFINE new == <<s, w>>
<1>7. new \in DcLine /\ new[1] = s /\ new[2] = w
  BY <1>2, <1>6, DcFacts
<1>8. /\ node'[new].prev = l /\ node'[new].next = node[new].next
      /\ node'[new].next_set = node[new].next_set
      /\ node' \in [DcLine -> NodeType]
  <2>1. node \in [DcLine -> NodeType] /\ l \in Pointer /\ new \in Pointer
    BY <1>1, <1>7, DcFacts DEF DcTypes
  <2>2. \A x \in DcLine : node[x] \in NodeType
    BY <2>1
  <2>3. \A x \in DcLine : /\ [node[x] EXCEPT !.prev = l] \in NodeType
                          /\ [node[x] EXCEPT !.next = new] \in NodeType
    BY <2>1, <2>2 DEF NodeType
  <2>4. node'[new] = [node[new] EXCEPT !.prev = l]
    BY <1>6, <1>7
  <2>5. QED
    BY <1>6, <1>7, <2>1, <2>2, <2>3, <2>4 DEF NodeType
<1>9. \A x \in DcLine : x # new =>
        /\ node'[x].prev = node[x].prev /\ node'[x].next_set = node[x].next_set
        /\ node'[x].next = IF x = l THEN new ELSE node[x].next
        /\ node'[x].time = node[x].time
  <2> SUFFICES ASSUME NEW x \in DcLine, x # new
               PROVE  /\ node'[x].prev = node[x].prev
                      /\ node'[x].next_set = node[x].next_set
                      /\ node'[x].next = IF x = l THEN new ELSE node[x].next
                      /\ node'[x].time = node[x].time
    OBVIOUS
  <2>1. node[x] \in NodeType
    BY <1>1 DEF DcTypes
  <2>2. node'[x] = IF x = l THEN [node[x] EXCEPT !.next = new] ELSE node[x]
    BY <1>6
  <2>3. QED
    BY <2>1, <2>2 DEF NodeType
<1>10. PICK to \in Orders :
         /\ to[s][n + 1] = w
         /\ \A c \in DcSet, b \in Spot :
              c # s \/ b # n + 1 => to[c][b] = at[c][b]
  BY <1>2, <1>5, <1>6, OrderExtended
<1>11. /\ Place(to, s, n + 1) = new
       /\ \A c \in DcSet, b \in Spot :
            c # s \/ b # n + 1 => Place(to, c, b) = Place(at, c, b)
  BY <1>10 DEF Place
\* The places that are connected are not the new one.
<1>12. \A c \in DcSet, b \in Spot :
         c < s \/ (c = s /\ b <= n) => /\ Place(at, c, b) \in DcLine
                                       /\ Place(at, c, b) # new
                                       /\ Place(to, c, b) = Place(at, c, b)
  <2> SUFFICES ASSUME NEW c \in DcSet, NEW b \in Spot,
                      c < s \/ (c = s /\ b <= n)
               PROVE  /\ Place(at, c, b) \in DcLine
                      /\ Place(at, c, b) # new
                      /\ Place(to, c, b) = Place(at, c, b)
    OBVIOUS
  <2>1. c # s \/ b # n + 1
    BY <1>5, DcFacts
  <2>2. /\ Place(at, c, b) \in DcLine /\ Place(at, c, b)[1] = c
        /\ Place(at, c, b)[2] = at[c][b]
    BY PlaceFacts
  <2>3. c = s => at[c][b] \in bit_mask
    BY <1>3, <1>5, DcFacts DEF Linking, Spot
  <2>4. c < s => c # s
    BY <1>2, DcFacts
  <2>5. QED
    BY <1>6, <1>7, <1>11, <2>1, <2>2, <2>3, <2>4
<1>13. l # NIL => n > 0 /\ l = Place(at, s, n) /\ n \in Spot
  BY <1>3, <1>5 DEF Linking, Spot
<1>14. Linked(to, s)'
  <2>1. ASSUME NEW k \in 0..(s - 1)
        PROVE  Permuted(to, k) /\ Chained(to, k, DcWays)' /\ Crossed(to, k, s)'
    <3>1. k \in DcSet /\ k < s /\ k # s /\ \A c \in 0..(s - 1) : c \in DcSet /\ c < s
      BY <1>2, DcFacts DEF DcSet
    <3>2. Permuted(at, k) /\ Chained(at, k, DcWays) /\ Crossed(at, k, s)
      BY <1>3 DEF Linking, Linked
    <3>3. Permuted(to, k)
      <4>1. \A b \in Spot : to[k][b] = at[k][b]
        BY <1>10, <3>1
      <4>2. QED
        BY <3>2, <4>1 DEF Permuted
    <3>4. Chained(to, k, DcWays)'
      <4> SUFFICES ASSUME NEW j \in Spot
                   PROVE  /\ node'[Place(to, k, j)].prev =
                               IF j = 1 THEN NIL ELSE Place(to, k, j - 1)
                          /\ node'[Place(to, k, j)].next =
                               IF j = DcWays THEN NIL ELSE Place(to, k, j + 1)
        BY DEF Chained, Spot
      <4>1. /\ Place(at, k, j) \in DcLine /\ Place(at, k, j) # new
            /\ Place(to, k, j) = Place(at, k, j)
        BY <1>12, <3>1
      <4>2. /\ node[Place(at, k, j)].prev = IF j = 1 THEN NIL ELSE Place(at, k, j - 1)
            /\ node[Place(at, k, j)].next = IF j = DcWays THEN NIL ELSE Place(at, k, j + 1)
        BY <3>2 DEF Chained, Spot
      <4>3. Place(at, k, j) # l
        <5>1. Place(at, k, j)[1] = k /\ Place(at, k, j) # NIL
          BY <3>1, PlaceFacts
        <5>2. l # NIL => l[1] = s
          BY <1>2, <1>13, PlaceFacts
        <5>3. QED
          BY <3>1, <5>1, <5>2
      <4>4. /\ j # 1 => Place(to, k, j - 1) = Place(at, k, j - 1)
            /\ j # DcWays => Place(to, k, j + 1) = Place(at, k, j + 1)
        <5>1. (j # 1 => j - 1 \in Spot) /\ (j # DcWays => j + 1 \in Spot)
          BY DcFacts DEF Spot
        <5>2. QED
          BY <1>12, <3>1, <5>1
      <4>5. QED
        BY <1>9, <4>1, <4>2, <4>3, <4>4
    <3>5. Crossed(to, k, s)'
      <4>1. \A c \in 0..(s - 1) : /\ First(to, c) = First(at, c) /\ First(at, c) # new
                                  /\ Final(to, c) = Final(at, c) /\ Final(at, c) # new
                                  /\ First(at, c) \in DcLine /\ Final(at, c) \in DcLine
        BY <1>12, <3>1, DcFacts DEF First, Final
      <4>2. k + 1 = s \/ k + 1 \in 0..(s - 1)
        BY <1>5
      <4>3. /\ node'[First(to, k)].next_set = node[First(at, k)].next_set
            /\ node'[Final(to, k)].next_set = node[Final(at, k)].next_set
        BY <1>9, <4>1
      <4>4. QED
        BY <1>2, <3>2, <4>1, <4>2, <4>3 DEF Crossed
    <3>6. QED
      BY <3>3, <3>4, <3>5
  <2>2. s > 0 => Entered(to)'
    <3> SUFFICES ASSUME s > 0
                 PROVE  Entered(to)'
      OBVIOUS
    <3>1. Entered(at)
      BY <1>3 DEF Linking, Linked
    <3>2. First(to, 0) = First(at, 0) /\ Final(to, 0) = Final(at, 0)
      BY <1>12, DcFacts DEF First, Final
    <3>3. QED
      BY <1>2, <3>1, <3>2 DEF Entered
  <2>3. QED
    BY <1>2, <2>1, <2>2 DEF Linked
<1>15. Chained(to, s, n + 1)'
  <2> SUFFICES ASSUME NEW j \in 1..(n + 1)
               PROVE  /\ node'[Place(to, s, j)].prev =
                           IF j = 1 THEN NIL ELSE Place(to, s, j - 1)
                      /\ node'[Place(to, s, j)].next =
                           IF j = n + 1 THEN NIL ELSE Place(to, s, j + 1)
    BY <1>2 DEF Chained
  <2>1. CASE j = n + 1
    <3>1. node'[Place(to, s, j)].next = NIL
      BY <1>3, <1>6, <1>7, <1>8, <1>11, <2>1 DEF Linking
    <3>2. node'[Place(to, s, j)].prev = IF n = 0 THEN NIL ELSE Place(at, s, n)
      BY <1>3, <1>8, <1>11, <2>1 DEF Linking
    <3>3. n # 0 => Place(to, s, n) = Place(at, s, n)
      <4>1. n # 0 => n \in Spot
        BY <1>5 DEF Spot
      <4>2. QED
        BY <1>2, <1>5, <1>12, <4>1
    <3>4. QED
      BY <1>5, <2>1, <3>1, <3>2, <3>3
  <2>2. CASE j # n + 1
    <3>1. j \in Spot /\ j \in 1..n /\ j <= n
      BY <1>5, <2>2 DEF Spot
    <3>2. /\ Place(at, s, j) \in DcLine /\ Place(at, s, j) # new
          /\ Place(to, s, j) = Place(at, s, j)
      BY <1>2, <1>12, <3>1
    <3>3. /\ node[Place(at, s, j)].prev = IF j = 1 THEN NIL ELSE Place(at, s, j - 1)
          /\ node[Place(at, s, j)].next = IF j = n THEN NIL ELSE Place(at, s, j + 1)
      BY <1>3, <3>1 DEF Linking, Chained
    <3>4. Place(at, s, j) = l <=> j = n
      <4>1. n \in Spot /\ n # 0 /\ l = Place(at, s, n)
        BY <1>3, <1>5, <3>1 DEF Linking, Spot
      <4>2. Place(at, s, j) = Place(at, s, n) => at[s][j] = at[s][n]
        BY <1>2, <3>1, <4>1, PlaceFacts
      <4>3. at[s][j] = at[s][n] => j = n
        BY <1>3, <3>1, <4>1 DEF Linking
      <4>4. QED
        BY <4>1, <4>2, <4>3
    <3>5. /\ j # 1 => Place(to, s, j - 1) = Place(at, s, j - 1)
          /\ j # n => Place(to, s, j + 1) = Place(at, s, j + 1)
      <4>1. /\ j # 1 => j - 1 \in Spot /\ j - 1 <= n
            /\ j # n => j + 1 \in Spot /\ j + 1 <= n
        BY <1>5, <3>1 DEF Spot
      <4>2. QED
        BY <1>2, <1>12, <4>1
    <3>6. node'[Place(to, s, j)].prev = IF j = 1 THEN NIL ELSE Place(to, s, j - 1)
      BY <1>9, <3>2, <3>3, <3>5
    <3>7. node'[Place(to, s, j)].next =
            IF j = n THEN new ELSE Place(to, s, j + 1)
      BY <1>9, <3>2, <3>3, <3>4, <3>5
    <3>8. QED
      BY <1>11, <2>2, <3>6, <3>7
  <2>3. QED
    BY <2>1, <2>2
<1>16. /\ bit_mask' = {to[s][j] : j \in 1..(n + 1)}
       /\ IsFiniteSet(bit_mask') /\ Cardinality(bit_mask') = n + 1
       /\ \A i, j \in 1..(n + 1) : to[s][i] = to[s][j] => i = j
  <2>1. /\ bit_mask = {at[s][j] : j \in 1..n}
        /\ IsFiniteSet(bit_mask) /\ Cardinality(bit_mask) = n
        /\ \A i, j \in 1..n : at[s][i] = at[s][j] => i = j
    BY <1>3 DEF Linking
  <2>2. \A j \in 1..n : to[s][j] = at[s][j] /\ to[s][j] # w
    BY <1>2, <1>5, <1>6, <1>10, <2>1
  <2>3. bit_mask' = {to[s][j] : j \in 1..(n + 1)}
    <3>1. ASSUME NEW v
          PROVE  v \in bit_mask' <=> \E j \in 1..(n + 1) : v = to[s][j]
      <4>1. v \in bit_mask <=> \E j \in 1..n : v = to[s][j]
        BY <2>1, <2>2
      <4>2. n + 1 \in 1..(n + 1) /\ \A j \in 1..(n + 1) : j = n + 1 \/ j \in 1..n
        BY <1>5
      <4>3. \A j \in 1..n : j \in 1..(n + 1)
        BY <1>5
      <4>4. v \in bit_mask' <=> v \in bit_mask \/ v = w
        BY <1>6
      <4>5. QED
        BY <1>10, <4>1, <4>2, <4>3, <4>4, Zenon
    <3>2. QED
      BY <3>1, Zenon
  <2>4. IsFiniteSet(bit_mask') /\ Cardinality(bit_mask') = n + 1
    BY <1>6, <2>1, FS_AddElement
  <2>5. \A i, j \in 1..(n + 1) : to[s][i] = to[s][j] => i = j
    <3>1. \A j \in 1..(n + 1) : j = n + 1 \/ j \in 1..n
      BY <1>5
    <3>2. QED
      BY <1>10, <2>1, <2>2, <3>1, Zenon
  <2>6. QED
    BY <2>3, <2>4, <2>5
<1>17. Linking(to, n + 1)'
  <2>1. n + 1 \in 0..DcWays /\ s # DcSets /\ n + 1 # 0 /\ (n + 1) - 1 = n
    BY <1>1, <1>2, <1>5, DcFacts DEF DcTypes
  <2>2. s > 0 => prevHead' = First(to, s - 1) /\ prevTail' = Final(to, s - 1)
    <3> SUFFICES ASSUME s > 0
                 PROVE  prevHead' = First(to, s - 1) /\ prevTail' = Final(to, s - 1)
      OBVIOUS
    <3>1. s - 1 \in DcSet /\ s - 1 < s
      BY <1>2, DcFacts DEF DcSet
    <3>2. First(to, s - 1) = First(at, s - 1) /\ Final(to, s - 1) = Final(at, s - 1)
      BY <1>12, <3>1, DcFacts DEF First, Final
    <3>3. QED
      BY <1>2, <1>3, <3>2 DEF Linking
  <2>3. \A x \in DcLine :
          /\ x[1] >= s => node'[x].next_set = NIL
          /\ x[1] > s \/ (x[1] = s /\ x[2] \notin bit_mask') => node'[x].next = NIL
    <3> SUFFICES ASSUME NEW x \in DcLine
                 PROVE  /\ x[1] >= s => node'[x].next_set = NIL
                        /\ x[1] > s \/ (x[1] = s /\ x[2] \notin bit_mask')
                             => node'[x].next = NIL
      OBVIOUS
    <3>1. /\ x[1] >= s => node[x].next_set = NIL
          /\ x[1] > s \/ (x[1] = s /\ x[2] \notin bit_mask) => node[x].next = NIL
      BY <1>3 DEF Linking
    <3>2. node'[x].next_set = node[x].next_set
      BY <1>8, <1>9
    <3>3. ASSUME x[1] > s \/ (x[1] = s /\ x[2] \notin bit_mask')
          PROVE  node'[x].next = node[x].next
      <4>1. x # new
        BY <1>2, <1>6, <1>7, <3>3, DcFacts
      <4>2. l # NIL => l[1] = s /\ l[2] \in bit_mask
        <5>1. l # NIL => l[1] = s /\ l[2] = at[s][n] /\ n \in 1..n
          BY <1>2, <1>5, <1>13, PlaceFacts
        <5>2. QED
          BY <1>3, <5>1 DEF Linking
      <4>3. x # l
        BY <1>2, <1>6, <3>3, <4>2, DcFacts
      <4>4. QED
        BY <1>9, <4>1, <4>3
    <3>4. QED
      BY <1>6, <3>1, <3>2, <3>3
  <2>4. l' = Place(to, s, n + 1)
    BY <1>6, <1>11
  <2>5. setHead' = First(to, s)
    <3>1. n = 0 <=> bit_mask = {}
      BY <1>3, <1>5, FS_EmptySet DEF Linking
    <3>2. CASE n = 0
      BY <1>6, <1>11, <3>1, <3>2 DEF First
    <3>3. CASE n # 0
      <4>1. 1 \in Spot /\ 1 <= n /\ n > 0
        BY <1>5, <3>3, DcFacts
      <4>2. setHead = First(at, s) /\ First(to, s) = First(at, s)
        BY <1>2, <1>3, <1>12, <4>1 DEF Linking, First
      <4>3. QED
        BY <1>6, <3>1, <3>3, <4>2
    <3>4. QED
      BY <3>2, <3>3
  <2>6. n + 1 = DcWays => setTail' = Final(to, s)
    <3> SUFFICES ASSUME n + 1 = DcWays
                 PROVE  setTail' = Final(to, s)
      OBVIOUS
    <3>1. bit_mask' \in SUBSET Ways
      BY <1>1, <1>6 DEF DcTypes
    <3>2. bit_mask' = Ways
      <4>1. Cardinality(bit_mask') = Cardinality(Ways)
        BY <1>16, DcFacts
      <4>2. QED
        BY <3>1, <4>1, DcFacts, FS_Subset, Zenon
    <3>3. QED
      BY <1>6, <1>11, <3>2 DEF Final
  <2>7. QED
    BY <1>2, <1>14, <1>15, <1>16, <2>1, <2>2, <2>3, <2>4, <2>5, <2>6 DEF Linking
<1>18. DcTypes'
  <2>1. /\ setHead' \in Pointer /\ setTail' \in Pointer /\ l' \in Pointer
        /\ bit_mask' \in SUBSET Ways
    BY <1>1, <1>6, <1>7, DcFacts DEF DcTypes
  <2>2. QED
    BY <1>1, <1>2, <1>8, <2>1 DEF DcTypes
<1>19. Walking(to)'
  <2>1. n + 1 \in 0..DcWays
    BY <1>5, DcFacts
  <2>2. QED
    BY <1>2, <1>4, <1>17, <2>1 DEF Walking
<1>20. QED
  BY <1>10, <1>18, <1>19, Zenon DEF DcacheInv

LEMMA ConnectSetInv == DcacheInv /\ ConnectSet => DcacheInv'
<1> SUFFICES ASSUME DcacheInv, ConnectSet
             PROVE  DcacheInv'
  OBVIOUS
<1>1. DcTypes
  BY DEF DcacheInv
<1>2. /\ dcPc = "init" /\ s < DcSets /\ bit_mask = Ways
      /\ IF s = 0
         THEN set0' = [head |-> setHead, tail |-> setTail] /\ UNCHANGED node
         ELSE node' = Cross /\ UNCHANGED set0
      /\ prevHead' = setHead /\ prevTail' = setTail
      /\ bit_mask' = {} /\ l' = NIL /\ s' = s + 1
      /\ UNCHANGED <<dcPc, setHead, setTail, elapsed_s, byte, text, cached,
                     table, tests, evictions>>
  BY DEF ConnectSet, Ways
<1>3. PICK at \in Orders, n \in 0..DcWays : Linking(at, n)
  BY <1>2 DEF DcacheInv, Walking
<1>4. table = evictions
  BY <1>2 DEF DcacheInv, Walking
<1>5. /\ n = DcWays /\ 1..n = Spot /\ s \in Nat /\ s \in DcSet
      /\ DcSets \in Nat /\ DcWays \in Nat \ {0, 1}
  BY <1>1, <1>2, <1>3, PlaceLeft, DcFacts DEF DcTypes, Spot, DcSet
<1> PICK m \in Nat : m = s + 1
  BY <1>5
<1>6. Permuted(at, s)
  <2>1. Ways = {at[s][j] : j \in Spot}
    BY <1>2, <1>3, <1>5 DEF Linking
  <2>2. \A w \in Ways : \E j \in Spot : at[s][j] = w
    BY <2>1
  <2>3. QED
    BY <1>3, <1>5, <2>2 DEF Linking, Permuted
<1>7. /\ setHead = First(at, s) /\ setTail = Final(at, s)
      /\ setHead \in DcLine /\ setTail \in DcLine
      /\ setHead[1] = s /\ setTail[1] = s
  BY <1>3, <1>5, PlaceFacts, DcFacts DEF Linking, First, Final
<1>8. s # 0 => /\ s - 1 \in DcSet /\ s - 1 \in 0..(s - 1)
               /\ prevHead = First(at, s - 1) /\ prevTail = Final(at, s - 1)
               /\ prevHead \in DcLine /\ prevTail \in DcLine
               /\ prevHead[1] = s - 1 /\ prevTail[1] = s - 1
               /\ prevHead # prevTail
  <2> SUFFICES ASSUME s # 0
               PROVE  /\ s - 1 \in DcSet /\ s - 1 \in 0..(s - 1)
                      /\ prevHead = First(at, s - 1) /\ prevTail = Final(at, s - 1)
                      /\ prevHead \in DcLine /\ prevTail \in DcLine
                      /\ prevHead[1] = s - 1 /\ prevTail[1] = s - 1
                      /\ prevHead # prevTail
    OBVIOUS
  <2>1. s > 0 /\ s - 1 \in DcSet /\ s - 1 \in 0..(s - 1)
    BY <1>5 DEF DcSet
  <2>2. prevHead = First(at, s - 1) /\ prevTail = Final(at, s - 1)
    BY <1>3, <2>1 DEF Linking
  <2>3. Permuted(at, s - 1)
    BY <1>3, <2>1 DEF Linking, Linked
  <2>4. First(at, s - 1) # Final(at, s - 1)
    BY <1>5, <2>1, <2>3, PlacesDiffer, DcFacts DEF First, Final
  <2>5. QED
    BY <2>1, <2>2, <2>4, PlaceFacts, DcFacts DEF First, Final
<1>9. node' \in [DcLine -> NodeType]
      /\ \A x \in DcLine :
           /\ node'[x].prev = node[x].prev /\ node'[x].next = node[x].next
           /\ node'[x].next_set =
                IF s # 0 /\ x = prevHead THEN setTail
                ELSE IF s # 0 /\ x = prevTail THEN setHead ELSE node[x].next_set
  <2>1. node \in [DcLine -> NodeType] /\ setHead \in Pointer /\ setTail \in Pointer
    BY <1>1 DEF DcTypes
  <2>2. CASE s = 0
    BY <1>2, <2>1, <2>2
  <2>3. CASE s # 0
    <3>1. node' = [node EXCEPT ![prevHead].next_set = setTail,
                               ![prevTail].next_set = setHead]
      BY <1>2, <2>3 DEF Cross
    <3>2. \A x \in DcLine : node[x] \in NodeType
      BY <2>1
    <3>3. \A x \in DcLine, y \in Pointer :
            /\ [node[x] EXCEPT !.next_set = y] \in NodeType
            /\ [node[x] EXCEPT !.next_set = y].prev = node[x].prev
            /\ [node[x] EXCEPT !.next_set = y].next = node[x].next
            /\ [node[x] EXCEPT !.next_set = y].next_set = y
      BY <3>2 DEF NodeType
    <3>4. \A x \in DcLine :
            node'[x] = IF x = prevHead THEN [node[x] EXCEPT !.next_set = setTail]
                       ELSE IF x = prevTail THEN [node[x] EXCEPT !.next_set = setHead]
                       ELSE node[x]
      BY <1>8, <2>1, <2>3, <3>1
    <3>5. node' \in [DcLine -> NodeType]
      <4>1. \A x \in DcLine : node'[x] \in NodeType
        <5> SUFFICES ASSUME NEW x \in DcLine
                     PROVE  node'[x] \in NodeType
          OBVIOUS
        <5>1. /\ [node[x] EXCEPT !.next_set = setTail] \in NodeType
              /\ [node[x] EXCEPT !.next_set = setHead] \in NodeType
          BY <2>1, <3>3
        <5>2. node[x] \in NodeType
          BY <3>2
        <5>3. QED
          BY <3>4, <5>1, <5>2, Zenon
      <4>2. node' = [x \in DcLine |-> node'[x]]
        BY <2>1, <3>1
      <4>3. QED
        BY <4>1, <4>2
    <3>6. QED
      <4> SUFFICES ASSUME NEW x \in DcLine
                   PROVE  /\ node'[x].prev = node[x].prev /\ node'[x].next = node[x].next
                          /\ node'[x].next_set =
                               IF s # 0 /\ x = prevHead THEN setTail
                               ELSE IF s # 0 /\ x = prevTail THEN setHead
                               ELSE node[x].next_set
        BY <3>5
      <4>1. /\ [node[x] EXCEPT !.next_set = setTail].prev = node[x].prev
            /\ [node[x] EXCEPT !.next_set = setTail].next = node[x].next
            /\ [node[x] EXCEPT !.next_set = setTail].next_set = setTail
            /\ [node[x] EXCEPT !.next_set = setHead].prev = node[x].prev
            /\ [node[x] EXCEPT !.next_set = setHead].next = node[x].next
            /\ [node[x] EXCEPT !.next_set = setHead].next_set = setHead
        BY <2>1, <3>3
      <4>2. CASE x = prevHead
        BY <2>3, <3>4, <4>1, <4>2, Zenon
      <4>3. CASE x # prevHead /\ x = prevTail
        BY <2>3, <3>4, <4>1, <4>3, Zenon
      <4>4. CASE x # prevHead /\ x # prevTail
        BY <2>3, <3>4, <4>4, Zenon
      <4>5. QED
        BY <4>2, <4>3, <4>4, Zenon
  <2>4. QED
    BY <2>2, <2>3
<1>10. Linked(at, m)'
  <2>1. ASSUME NEW k \in 0..s
        PROVE  Permuted(at, k) /\ Chained(at, k, DcWays)' /\ Crossed(at, k, m)'
    <3>1. k \in DcSet /\ k \in Nat /\ (k = s \/ k \in 0..(s - 1))
      BY <1>5 DEF DcSet
    <3>2. Permuted(at, k) /\ Chained(at, k, DcWays)
      BY <1>3, <1>5, <1>6, <3>1 DEF Linking, Linked
    <3>3. Chained(at, k, DcWays)'
      <4>1. \A j \in 1..DcWays : Place(at, k, j) \in DcLine
        BY <3>1, PlaceFacts DEF Spot
      <4>2. QED
        BY <1>9, <3>2, <4>1 DEF Chained
    <3>4. Crossed(at, k, m)'
      <4>1. /\ First(at, k) \in DcLine /\ First(at, k)[1] = k
            /\ Final(at, k) \in DcLine /\ Final(at, k)[1] = k
        BY <3>1, PlaceFacts, DcFacts DEF First, Final
      <4>2. CASE k = s
        <5>1. /\ node'[First(at, k)].next_set = node[First(at, k)].next_set
              /\ node'[Final(at, k)].next_set = node[Final(at, k)].next_set
          BY <1>5, <1>8, <1>9, <4>1, <4>2
        <5>2. node[First(at, k)].next_set = NIL /\ node[Final(at, k)].next_set = NIL
          BY <1>3, <1>5, <4>1, <4>2 DEF Linking
        <5>3. QED
          BY <1>2, <4>2, <5>1, <5>2 DEF Crossed
      <4>3. CASE k # s /\ k + 1 = s
        <5>1. s # 0 /\ s - 1 = k
          BY <1>5, <3>1, <4>3
        <5>2. prevHead = First(at, k) /\ prevTail = Final(at, k) /\ prevHead # prevTail
          BY <1>8, <5>1
        <5>3. /\ node'[First(at, k)].next_set = Final(at, s)
              /\ node'[Final(at, k)].next_set = First(at, s)
          BY <1>7, <1>9, <4>1, <5>1, <5>2
        <5>4. k + 1 # m
          BY <1>5, <4>3
        <5>5. QED
          BY <1>2, <4>3, <5>3, <5>4 DEF Crossed
      <4>4. CASE k # s /\ k + 1 # s
        <5>1. k \in 0..(s - 1) /\ k + 1 # m /\ k # s - 1
          BY <1>5, <3>1, <4>4
        <5>2. /\ node'[First(at, k)].next_set = node[First(at, k)].next_set
              /\ node'[Final(at, k)].next_set = node[Final(at, k)].next_set
          BY <1>8, <1>9, <4>1, <5>1
        <5>3. Crossed(at, k, s)
          BY <1>3, <5>1 DEF Linking, Linked
        <5>4. QED
          BY <1>2, <4>4, <5>1, <5>2, <5>3 DEF Crossed
      <4>5. QED
        BY <4>2, <4>3, <4>4
    <3>5. QED
      BY <3>2, <3>3, <3>4
  <2>2. Entered(at)'
    <3>1. CASE s = 0
      BY <1>2, <1>7, <3>1 DEF Entered
    <3>2. CASE s # 0
      <4>1. s > 0
        BY <1>5, <3>2
      <4>2. QED
        BY <1>2, <1>3, <3>2, <4>1 DEF Linking, Linked, Entered
    <3>3. QED
      BY <3>1, <3>2
  <2>3. m - 1 = s
    BY <1>5
  <2>4. QED
    BY <1>2, <2>1, <2>2, <2>3 DEF Linked
<1>11. Linking(at, 0)'
  <2>1. prevHead' = First(at, s' - 1) /\ prevTail' = Final(at, s' - 1)
    <3>1. s' - 1 = s
      BY <1>2, <1>5
    <3>2. QED
      BY <1>2, <1>7, <3>1
  <2>2. \A x \in DcLine :
          /\ x[1] >= s + 1 => node'[x].next_set = NIL
          /\ x[1] >= s + 1 => node'[x].next = NIL
    <3> SUFFICES ASSUME NEW x \in DcLine, x[1] >= s + 1
                 PROVE  node'[x].next_set = NIL /\ node'[x].next = NIL
      OBVIOUS
    <3>1. x[1] \in Nat /\ x[1] >= s /\ x[1] > s /\ x[1] # s - 1
      <4>1. x[1] \in Nat
        BY DcFacts
      <4>2. QED
        BY <1>5, <4>1
    <3>2. node[x].next_set = NIL /\ node[x].next = NIL
      BY <1>3, <3>1 DEF Linking
    <3>3. s # 0 => x # prevHead /\ x # prevTail
      BY <1>8, <3>1
    <3>4. QED
      BY <1>9, <3>2, <3>3
  <2>3. \A x \in DcLine :
          /\ x[1] >= s' => node'[x].next_set = NIL
          /\ x[1] > s' \/ (x[1] = s' /\ x[2] \notin bit_mask') => node'[x].next = NIL
    <3>1. \A x \in DcLine : x[1] \in Nat
      BY DcFacts
    <3>2. QED
      BY <1>2, <1>5, <2>2, <3>1
  <2>4. Chained(at, s, 0)'
    BY DEF Chained
  <2>5. IsFiniteSet(bit_mask') /\ Cardinality(bit_mask') = 0
    BY <1>2, FS_EmptySet
  <2>6. bit_mask' = {at[s'][j] : j \in 1..0}
    BY <1>2
  <2>7. \A i, j \in 1..0 : at[s'][i] = at[s'][j] => i = j
    OBVIOUS
  <2>8. 0 \in 0..DcWays /\ ~(0 > 0) /\ 0 # DcWays
    BY <1>5
  <2>9. Linked(at, s)'
    BY <1>2, <1>10 DEF Linked, Crossed, Chained, Entered
  <2>10. l' = NIL
    BY <1>2
  <2>11. QED
    BY <2>1, <2>3, <2>4, <2>5, <2>6, <2>7, <2>8, <2>9, <2>10 DEF Linking
<1>12. DcTypes'
  <2>1. /\ prevHead' \in Pointer /\ prevTail' \in Pointer /\ l' \in Pointer
        /\ bit_mask' \in SUBSET Ways /\ s' \in 0..DcSets
        /\ set0' \in [head : Pointer, tail : Pointer]
    BY <1>1, <1>2, <1>5, DcFacts DEF DcTypes
  <2>2. QED
    BY <1>1, <1>2, <1>9, <2>1 DEF DcTypes
<1>13. Walking(at)'
  <2>1. 0 \in 0..DcWays
    BY <1>5
  <2>2. QED
    BY <1>2, <1>4, <1>11, <2>1 DEF Walking
<1>14. QED
  BY <1>3, <1>12, <1>13, Zenon DEF DcacheInv

LEMMA BeginPrimeInv == DcacheInv /\ BeginPrime => DcacheInv'
<1> SUFFICES ASSUME DcacheInv, BeginPrime
             PROVE  DcacheInv'
  OBVIOUS
<1>1. DcTypes
  BY DEF DcacheInv
<1>2. /\ dcPc = "init" /\ s = DcSets
      /\ dcPc' = "prime" /\ l' = set0.head /\ s' = 0
      /\ UNCHANGED <<initVars, node, elapsed_s, byte, text, cached, table,
                     tests, evictions>>
  BY DEF BeginPrime
<1>3. PICK at \in Orders, n \in 0..DcWays : Linking(at, n)
  BY <1>2 DEF DcacheInv, Walking
<1>4. table = evictions
  BY <1>2 DEF DcacheInv, Walking
<1>5. Linked(at, DcSets)
  BY <1>2, <1>3 DEF Linking
<1>6. l' = Place(at, 0, 1) /\ l' # NIL /\ l' \in DcLine
  <2>1. Entered(at)
    BY <1>5, DcFacts DEF Linked
  <2>2. l' = Place(at, 0, 1)
    BY <1>2, <2>1 DEF Entered, First
  <2>3. QED
    BY <2>2, PlaceFacts, DcFacts
<1>7. Linked(at, DcSets)'
  BY <1>2, <1>5 DEF Linked, Permuted, Chained, Crossed, Entered, initVars
<1>8. PrimedTo(at, 0, 1)'
  <2>1. \A c \in DcSet, b \in Spot : ~(c < 0 \/ (c = 0 /\ b < 1))
    BY DcFacts DEF DcSet, Spot
  <2>2. QED
    BY <1>6, <2>1 DEF PrimedTo
<1>9. Priming(at)'
  BY <1>6, <1>8, DcFacts DEF Priming
<1>10. DcTypes'
  BY <1>1, <1>2, <1>6, DcFacts DEF DcTypes, initVars
<1>11. Walking(at)'
  BY <1>2, <1>4, <1>7, <1>9 DEF Walking
<1>12. QED
  BY <1>3, <1>10, <1>11, Zenon DEF DcacheInv

\* Where the links of a place lead.
LEMMA LinkFacts ==
  ASSUME NEW at \in Orders, Linked(at, DcSets), NEW k \in DcSet, NEW j \in Spot
  PROVE  /\ node[Place(at, k, j)].prev = IF j = 1 THEN NIL ELSE Place(at, k, j - 1)
         /\ node[Place(at, k, j)].next = IF j = DcWays THEN NIL ELSE Place(at, k, j + 1)
         /\ j = 1 => node[Place(at, k, j)].next_set =
                       IF k + 1 = DcSets THEN NIL ELSE Place(at, k + 1, DcWays)
         /\ j = DcWays => node[Place(at, k, j)].next_set =
                            IF k + 1 = DcSets THEN NIL ELSE Place(at, k + 1, 1)
         /\ j # 1 => j - 1 \in Spot
         /\ j # DcWays => j + 1 \in Spot
         /\ k + 1 # DcSets => k + 1 \in DcSet
         /\ Permuted(at, k)
<1>1. k \in 0..(DcSets - 1) /\ j \in 1..DcWays /\ DcSets \in Nat /\ DcWays \in Nat
  BY DcFacts DEF DcSet, Spot
<1>2. Permuted(at, k) /\ Chained(at, k, DcWays) /\ Crossed(at, k, DcSets)
  BY <1>1 DEF Linked
<1>3. /\ j # 1 => j - 1 \in Spot
      /\ j # DcWays => j + 1 \in Spot
      /\ k + 1 # DcSets => k + 1 \in DcSet
  BY <1>1 DEF DcSet, Spot
<1>4. QED
  BY <1>1, <1>2, <1>3 DEF Chained, Crossed, First, Final

LEMMA LinksKept ==
  ASSUME NEW at \in Orders, Linked(at, DcSets), UNCHANGED set0,
         \A x \in DcLine : /\ node'[x].prev = node[x].prev
                           /\ node'[x].next = node[x].next
                           /\ node'[x].next_set = node[x].next_set
  PROVE  Linked(at, DcSets)'
<1>1. ASSUME NEW k \in 0..(DcSets - 1)
      PROVE  Chained(at, k, DcWays)' /\ Crossed(at, k, DcSets)'
  <2>1. k \in DcSet /\ Chained(at, k, DcWays) /\ Crossed(at, k, DcSets)
    BY DEF Linked, DcSet
  <2>2. \A j \in 1..DcWays : Place(at, k, j) \in DcLine
    BY <2>1, PlaceFacts DEF Spot
  <2>3. First(at, k) \in DcLine /\ Final(at, k) \in DcLine
    BY <2>1, PlaceFacts, DcFacts DEF First, Final
  <2>4. QED
    BY <2>1, <2>2, <2>3 DEF Chained, Crossed
<1>2. QED
  BY <1>1 DEF Linked, Entered

\* Every line has been visited when every place has.
LEMMA AllVisited ==
  ASSUME NEW at \in Orders, Linked(at, DcSets), NEW S \in SUBSET DcLine,
         \A c \in DcSet, b \in Spot : Place(at, c, b) \in S
  PROVE  S = DcLine
<1>1. ASSUME NEW x \in DcLine
      PROVE  x \in S
  <2>1. x[1] \in DcSet
    BY DcFacts
  <2>2. Permuted(at, x[1])
    BY <2>1 DEF Linked, DcSet
  <2>3. QED
    BY <2>1, <2>2, LineIsPlace
<1>2. QED
  BY <1>1

LEMMA PrimeLineInv == DcacheInv /\ PrimeLine => DcacheInv'
<1> SUFFICES ASSUME DcacheInv, PrimeLine
             PROVE  DcacheInv'
  OBVIOUS
<1>1. DcTypes
  BY DEF DcacheInv
<1>2. /\ dcPc = "prime" /\ l # NIL
      /\ cached' = cached \cup {l}
      /\ l' = IF node[l].next # NIL THEN node[l].next ELSE node[l].next_set
      /\ UNCHANGED <<initVars, dcPc, node, s, elapsed_s, byte, text, table,
                     tests, evictions>>
  BY DEF PrimeLine
<1>3. PICK at \in Orders : Linked(at, DcSets) /\ Priming(at) /\ table = evictions
  BY <1>2 DEF DcacheInv, Walking
<1>4. PICK k \in DcSet, j \in Spot : PrimedTo(at, k, j)
  BY <1>2, <1>3 DEF Priming
<1>5. /\ l = Place(at, k, j) /\ l \in DcLine
      /\ k \in Nat /\ j \in Nat /\ j <= DcWays /\ k < DcSets /\ DcWays \in Nat
      /\ DcSets \in Nat
  BY <1>4, PlaceFacts, DcFacts DEF PrimedTo, DcSet, Spot
<1>6. \A c \in DcSet, b \in Spot :
        c < k \/ (c = k /\ b <= j) => Place(at, c, b) \in cached'
  <2>1. \A c \in DcSet, b \in Spot :
          c < k \/ (c = k /\ b < j) => Place(at, c, b) \in cached
    BY <1>4 DEF PrimedTo
  <2>2. \A b \in Spot : b <= j => b < j \/ b = j
    BY <1>5, DcFacts
  <2>3. QED
    BY <1>2, <1>5, <2>1, <2>2
<1>7. cached' \in SUBSET DcLine
  BY <1>1, <1>2, <1>5 DEF DcTypes
<1>8. /\ node[l].next = IF j = DcWays THEN NIL ELSE Place(at, k, j + 1)
      /\ j = DcWays => node[l].next_set =
                         IF k + 1 = DcSets THEN NIL ELSE Place(at, k + 1, 1)
      /\ j # DcWays => j + 1 \in Spot
      /\ k + 1 # DcSets => k + 1 \in DcSet
  BY <1>3, <1>5, LinkFacts
<1>9. Priming(at)' /\ l' \in Pointer
  <2>1. CASE j # DcWays
    <3>1. l' = Place(at, k, j + 1) /\ l' # NIL /\ l' \in DcLine
      BY <1>2, <1>8, <2>1, PlaceFacts
    <3>2. \A b \in Spot : b < j + 1 => b <= j
      BY <1>5, DcFacts
    <3>3. PrimedTo(at, k, j + 1)'
      BY <1>6, <3>1, <3>2 DEF PrimedTo
    <3>4. QED
      BY <1>8, <2>1, <3>1, <3>3, DcFacts DEF Priming
  <2>2. CASE j = DcWays /\ k + 1 # DcSets
    <3>1. l' = Place(at, k + 1, 1) /\ l' # NIL /\ l' \in DcLine
      BY <1>2, <1>8, <2>2, PlaceFacts, DcFacts
    <3>2. \A c \in DcSet, b \in Spot :
            c < k + 1 \/ (c = k + 1 /\ b < 1) => c < k \/ (c = k /\ b <= j)
      BY <1>5, <2>2, DcFacts DEF DcSet, Spot
    <3>3. PrimedTo(at, k + 1, 1)'
      BY <1>6, <3>1, <3>2 DEF PrimedTo
    <3>4. QED
      BY <1>8, <2>2, <3>1, <3>3, DcFacts DEF Priming
  <2>3. CASE j = DcWays /\ k + 1 = DcSets
    <3>1. l' = NIL
      BY <1>2, <1>8, <2>3
    <3>2. \A c \in DcSet, b \in Spot : c < k \/ (c = k /\ b <= j)
      BY <1>5, <2>3 DEF DcSet, Spot
    <3>3. cached' = DcLine
      BY <1>3, <1>6, <1>7, <3>2, AllVisited
    <3>4. QED
      BY <3>1, <3>3, DcFacts DEF Priming
  <2>4. QED
    BY <2>1, <2>2, <2>3
<1>10. Linked(at, DcSets)'
  BY <1>2, <1>3, LinksKept DEF initVars
<1>11. DcTypes'
  BY <1>1, <1>2, <1>7, <1>9 DEF DcTypes, initVars
<1>12. Walking(at)'
  BY <1>2, <1>3, <1>9, <1>10 DEF Walking
<1>13. QED
  BY <1>3, <1>11, <1>12, Zenon DEF DcacheInv

LEMMA OutIsFinite ==
  ASSUME NEW out \in SUBSET DcLine, NEW k \in DcSet
  PROVE  IsFiniteSet(Out(out, k)) /\ Cardinality(Out(out, k)) \in Nat
<1>1. IsFiniteSet(DcLine)
  <2>1. IsFiniteSet(DcSet)
    BY FS_Interval, DcFacts DEF DcSet
  <2>2. QED
    BY <2>1, DcFacts, FS_Product
<1>2. Out(out, k) \in SUBSET DcLine
  BY DEF Out
<1>3. IsFiniteSet(Out(out, k))
  BY <1>1, <1>2, FS_Subset
<1>4. QED
  BY <1>3, FS_CardinalityType

LEMMA EncryptInv == DcacheInv /\ Encrypt => DcacheInv'
<1> SUFFICES ASSUME DcacheInv, Encrypt
             PROVE  DcacheInv'
  OBVIOUS
<1>1. DcTypes
  BY DEF DcacheInv
<1>2. /\ dcPc = "prime" /\ l = NIL
      /\ text' \in [Byte -> PlainBytes]
      /\ dcPc' = "probe" /\ l' = set0.tail /\ elapsed_s' = 0
      /\ UNCHANGED <<initVars, node, s, byte, table, tests>>
  BY DEF Encrypt
<1>3. PICK out \in Patterns :
        /\ cached' = cached \ out
        /\ evictions' = [k \in Byte |-> [p \in PlainBytes |-> [x \in DcSet |->
             evictions[k][p][x] + IF p = text'[k] THEN Cardinality(Out(out, x))
                                  ELSE 0]]]
  BY DEF Encrypt, Out, DcSet
<1>4. PICK at \in Orders : Linked(at, DcSets) /\ Priming(at) /\ table = evictions
  BY <1>2 DEF DcacheInv, Walking
<1>5. cached = DcLine /\ out \in SUBSET DcLine
  BY <1>2, <1>4, DcFacts DEF Priming
<1>6. l' = Place(at, 0, DcWays) /\ l' # NIL /\ l' \in DcLine
  <2>1. Entered(at)
    BY <1>4, DcFacts DEF Linked
  <2>2. l' = Place(at, 0, DcWays)
    BY <1>2, <2>1 DEF Entered, Final
  <2>3. QED
    BY <2>2, PlaceFacts, DcFacts
<1>7. \A x \in DcSet : Cardinality(Out(out, x)) \in Nat
  BY <1>5, OutIsFinite
<1>8. evictions \in Tables
  BY <1>1 DEF DcTypes
<1>9. evictions' \in Tables
  <2>1. \A i \in Byte, p \in PlainBytes, x \in DcSet :
          evictions[i][p][x] + (IF p = text'[i] THEN Cardinality(Out(out, x)) ELSE 0) \in Nat
    BY <1>7, <1>8 DEF Tables
  <2>2. QED
    BY <1>3, <2>1 DEF Tables
<1>10. Booked(out, 0, 0)'
  <2>1. \A i \in Byte : i > 0
    BY DEF Byte
  <2>2. table' = evictions
    BY <1>2, <1>4
  <2>3. \A i \in Byte, p \in PlainBytes, x \in DcSet :
          evictions'[i][p][x] = evictions[i][p][x] +
            IF p = text'[i] THEN Cardinality(Out(out, x)) ELSE 0
    BY <1>3
  <2>4. QED
    BY <2>1, <2>2, <2>3 DEF Booked
<1>11. ProbedTo(at, out, 0, DcWays)'
  <2>1. \A c \in 0..(0 - 1) : FALSE
    OBVIOUS
  <2>2. TimedTo(at, out, 0)'
    BY <2>1 DEF TimedTo
  <2>3. Behind(at, out, 0, DcWays) = {}
    <3>1. \A b \in (DcWays + 1)..DcWays : FALSE
      BY DcFacts
    <3>2. QED
      BY <3>1 DEF Behind
  <2>4. elapsed_s' = Cardinality(Behind(at, out, 0, DcWays))
    BY <1>2, <2>3, FS_EmptySet
  <2>5. elapsed_s' \in 0..(DcWays - DcWays)
    BY <1>2, DcFacts
  <2>6. \A c \in DcSet, b \in Spot : ~(c < 0 \/ (c = 0 /\ b > DcWays))
    BY DcFacts DEF DcSet, Spot
  <2>7. \A c \in DcSet, b \in Spot :
          Place(at, c, b) \in cached' <=> Place(at, c, b) \notin out
    BY <1>3, <1>5, PlaceFacts
  <2>8. QED
    BY <1>6, <2>2, <2>4, <2>5, <2>6, <2>7 DEF ProbedTo
<1>12. Probing(at, out)'
  BY <1>6, <1>11, DcFacts DEF Probing
<1>13. Linked(at, DcSets)'
  BY <1>2, <1>4, LinksKept DEF initVars
<1>14. DcTypes'
  <2>1. cached' \in SUBSET DcLine
    BY <1>3, <1>5
  <2>2. elapsed_s' \in 0..DcWays /\ l' \in Pointer
    BY <1>2, <1>6, DcFacts
  <2>3. QED
    BY <1>1, <1>2, <1>9, <2>1, <2>2 DEF DcTypes, initVars
<1>15. Walking(at)'
  BY <1>2, <1>5, <1>10, <1>12, <1>13 DEF Walking
<1>16. QED
  BY <1>4, <1>14, <1>15, Zenon DEF DcacheInv

\* The misses behind a walk, one place further on.
LEMMA BehindFacts ==
  ASSUME NEW at \in Orders, NEW out \in SUBSET DcLine, NEW k \in DcSet,
         NEW j \in Spot, Permuted(at, k)
  PROVE  /\ Cardinality(Behind(at, out, k, j)) \in Nat
         /\ Cardinality(Behind(at, out, k, j - 1)) =
              Cardinality(Behind(at, out, k, j)) +
              IF Place(at, k, j) \in out THEN 1 ELSE 0
         /\ Cardinality(Behind(at, out, k, DcWays)) = 0
         /\ Behind(at, out, k, 0) = Out(out, k)
<1>1. j \in Nat /\ DcWays \in Nat /\ 1 <= j /\ j <= DcWays
  BY DcFacts DEF Spot
<1>2. IsFiniteSet(Behind(at, out, k, j))
  <2>1. Behind(at, out, k, j) \in SUBSET Out(out, k)
    BY DEF Behind
  <2>2. QED
    BY <2>1, OutIsFinite, FS_Subset
<1>3. Place(at, k, j) \notin Behind(at, out, k, j)
  <2>1. \A b \in (j + 1)..DcWays : b \in Spot /\ b # j
    BY <1>1 DEF Spot
  <2>2. QED
    BY <2>1, PlacesDiffer DEF Behind
<1>4. Place(at, k, j) \in DcLine /\ Place(at, k, j)[1] = k
  BY PlaceFacts
<1>5. ASSUME NEW x
      PROVE  x \in Behind(at, out, k, j - 1)
               <=> x \in Behind(at, out, k, j) \/ (x \in out /\ x = Place(at, k, j))
  <2>1. \A b : b \in ((j - 1) + 1)..DcWays <=> b = j \/ b \in (j + 1)..DcWays
    BY <1>1
  <2>2. QED
    BY <1>4, <2>1 DEF Behind, Out
<1>6. Cardinality(Behind(at, out, k, DcWays)) = 0
  <2>1. \A b \in (DcWays + 1)..DcWays : FALSE
    BY <1>1
  <2>2. Behind(at, out, k, DcWays) = {}
    BY <2>1 DEF Behind
  <2>3. QED
    BY <2>2, FS_EmptySet
<1>7. Behind(at, out, k, 0) = Out(out, k)
  <2>1. (0 + 1)..DcWays = Spot
    BY DEF Spot
  <2>2. ASSUME NEW x \in Out(out, k)
        PROVE  \E b \in Spot : x = Place(at, k, b)
    <3>1. x \in DcLine /\ x[1] = k
      BY DEF Out
    <3>2. QED
      BY <3>1, LineIsPlace
  <2>3. QED
    BY <2>1, <2>2 DEF Behind
<1>8. CASE Place(at, k, j) \in out
  <2>1. Behind(at, out, k, j - 1) = Behind(at, out, k, j) \cup {Place(at, k, j)}
    BY <1>5, <1>8
  <2>2. QED
    BY <1>2, <1>3, <1>8, <1>6, <1>7, <2>1, FS_AddElement, FS_CardinalityType
<1>9. CASE Place(at, k, j) \notin out
  <2>1. Behind(at, out, k, j - 1) = Behind(at, out, k, j)
    BY <1>5, <1>9
  <2>2. QED
    BY <1>2, <1>9, <1>6, <1>7, <2>1, FS_CardinalityType
<1>10. QED
  BY <1>8, <1>9

LEMMA ProbeLineInv == DcacheInv /\ ProbeLine => DcacheInv'
<1> SUFFICES ASSUME DcacheInv, ProbeLine
             PROVE  DcacheInv'
  OBVIOUS
<1>1. DcTypes
  BY DEF DcacheInv
<1> DEFINE t == elapsed_s + IF l \in cached THEN 0 ELSE 1
<1>2. /\ dcPc = "probe" /\ l # NIL
      /\ cached' = cached \cup {l}
      /\ IF node[l].prev # NIL
         THEN elapsed_s' = t /\ l' = node[l].prev /\ UNCHANGED node
         ELSE /\ elapsed_s' = 0 /\ l' = node[l].next_set
              /\ node' = [node EXCEPT ![l].time = t]
      /\ UNCHANGED <<initVars, dcPc, s, byte, text, table, tests, evictions>>
  BY DEF ProbeLine, TimedLine
<1>3. PICK at \in Orders, out \in SUBSET DcLine :
        Linked(at, DcSets) /\ Probing(at, out) /\ Booked(out, 0, 0)
  BY <1>2 DEF DcacheInv, Walking
<1>4. PICK k \in DcSet, j \in Spot : ProbedTo(at, out, k, j)
  BY <1>2, <1>3 DEF Probing
<1>5. /\ l = Place(at, k, j) /\ l \in DcLine
      /\ k \in Nat /\ j \in Nat /\ 1 <= j /\ j <= DcWays /\ k < DcSets
      /\ DcWays \in Nat /\ DcSets \in Nat
  BY <1>4, PlaceFacts, DcFacts DEF ProbedTo, DcSet, Spot
<1>6. /\ node[l].prev = IF j = 1 THEN NIL ELSE Place(at, k, j - 1)
      /\ j = 1 => node[l].next_set =
                    IF k + 1 = DcSets THEN NIL ELSE Place(at, k + 1, DcWays)
      /\ j # 1 => j - 1 \in Spot
      /\ k + 1 # DcSets => k + 1 \in DcSet
      /\ Permuted(at, k)
  BY <1>3, <1>5, LinkFacts
<1>7. /\ t = Cardinality(Behind(at, out, k, j - 1))
      /\ t \in 0..(DcWays - (j - 1))
  <2>1. l \in cached <=> l \notin out
    <3>1. ~(k < k \/ (k = k /\ j > j))
      BY <1>5
    <3>2. QED
      BY <1>4, <1>5, <3>1 DEF ProbedTo
  <2>2. /\ elapsed_s = Cardinality(Behind(at, out, k, j))
        /\ elapsed_s \in 0..(DcWays - j)
    BY <1>4 DEF ProbedTo
  <2>3. Cardinality(Behind(at, out, k, j - 1)) =
          Cardinality(Behind(at, out, k, j)) + IF l \in out THEN 1 ELSE 0
    BY <1>5, <1>6, BehindFacts
  <2>4. QED
    BY <1>5, <2>1, <2>2, <2>3
<1> HIDE DEF t
<1>8. \A c \in DcSet, b \in Spot :
        IF c < k \/ (c = k /\ b >= j) THEN Place(at, c, b) \in cached'
        ELSE Place(at, c, b) \in cached' <=> Place(at, c, b) \notin out
  <2> SUFFICES ASSUME NEW c \in DcSet, NEW b \in Spot
               PROVE  IF c < k \/ (c = k /\ b >= j) THEN Place(at, c, b) \in cached'
                      ELSE Place(at, c, b) \in cached' <=> Place(at, c, b) \notin out
    OBVIOUS
  <2>1. IF c < k \/ (c = k /\ b > j) THEN Place(at, c, b) \in cached
        ELSE Place(at, c, b) \in cached <=> Place(at, c, b) \notin out
    BY <1>4 DEF ProbedTo
  <2>2. CASE c = k /\ b = j
    BY <1>2, <1>5, <2>2
  <2>3. CASE ~(c = k /\ b = j)
    <3>1. Place(at, c, b) # l
      BY <1>5, <1>6, <2>3, PlacesDiffer
    <3>2. c = k => (b >= j <=> b > j)
      BY <1>5, <2>3, DcFacts
    <3>3. Place(at, c, b) \in cached' <=> Place(at, c, b) \in cached
      BY <1>2, <3>1
    <3>4. QED
      BY <2>1, <3>2, <3>3
  <2>4. QED
    BY <2>2, <2>3
<1>9. cached' \in SUBSET DcLine
  BY <1>1, <1>2, <1>5 DEF DcTypes
<1>10. node \in [DcLine -> NodeType] /\ \A x \in DcLine : node[x] \in NodeType
  BY <1>1 DEF DcTypes
<1>11. TimedTo(at, out, k)
  BY <1>4 DEF ProbedTo
<1>12. /\ Probing(at, out)'
       /\ l' \in Pointer /\ elapsed_s' \in 0..DcWays
       /\ node' \in [DcLine -> NodeType]
       /\ \A x \in DcLine : /\ node'[x].prev = node[x].prev
                            /\ node'[x].next = node[x].next
                            /\ node'[x].next_set = node[x].next_set
  <2>1. CASE j # 1
    <3>1. /\ l' = Place(at, k, j - 1) /\ l' # NIL /\ l' \in DcLine
          /\ elapsed_s' = t /\ node' = node
      BY <1>2, <1>6, <2>1, PlaceFacts
    <3>2. \A c \in DcSet, b \in Spot : (b > j - 1 <=> b >= j)
      BY <1>5, DcFacts
    <3>3. TimedTo(at, out, k)'
      BY <1>11, <3>1 DEF TimedTo
    <3>4. ProbedTo(at, out, k, j - 1)'
      BY <1>7, <1>8, <3>1, <3>2, <3>3 DEF ProbedTo
    <3>5. t \in 0..DcWays
      BY <1>5, <1>7
    <3>6. QED
      BY <1>6, <1>10, <2>1, <3>1, <3>4, <3>5, DcFacts DEF Probing
  <2>2. CASE j = 1
    <3>1. /\ elapsed_s' = 0
          /\ l' = IF k + 1 = DcSets THEN NIL ELSE Place(at, k + 1, DcWays)
          /\ node' = [node EXCEPT ![l].time = t]
      BY <1>2, <1>6, <2>2
    <3>2. t = Cardinality(Out(out, k)) /\ t \in 0..DcWays
      <4>1. j - 1 = 0 /\ DcWays - (j - 1) = DcWays
        BY <1>5, <2>2
      <4>2. QED
        BY <1>6, <1>7, <4>1, BehindFacts
    <3>3. \A x \in DcLine : node'[x] = IF x = l THEN [node[x] EXCEPT !.time = t]
                                       ELSE node[x]
      BY <1>5, <1>10, <3>1
    <3>4. \A x \in DcLine :
            /\ [node[x] EXCEPT !.time = t] \in NodeType
            /\ [node[x] EXCEPT !.time = t].prev = node[x].prev
            /\ [node[x] EXCEPT !.time = t].next = node[x].next
            /\ [node[x] EXCEPT !.time = t].next_set = node[x].next_set
            /\ [node[x] EXCEPT !.time = t].time = t
      BY <1>10, <3>2 DEF NodeType
    <3>5. node' \in [DcLine -> NodeType]
      <4>1. \A x \in DcLine : node'[x] \in NodeType
        BY <1>10, <3>3, <3>4
      <4>2. node' = [x \in DcLine |-> node'[x]]
        BY <1>10, <3>1
      <4>3. QED
        BY <4>1, <4>2
    <3>6. \A x \in DcLine : /\ node'[x].prev = node[x].prev
                            /\ node'[x].next = node[x].next
                            /\ node'[x].next_set = node[x].next_set
      BY <3>3, <3>4
    <3>7. TimedTo(at, out, k + 1)'
      <4> SUFFICES ASSUME NEW c \in 0..((k + 1) - 1)
                   PROVE  node'[First(at, c)].time = Cardinality(Out(out, c))
        BY DEF TimedTo
      <4>1. c \in DcSet /\ (c = k \/ c \in 0..(k - 1)) /\ c \in Nat
        BY <1>5 DEF DcSet
      <4>2. First(at, c) \in DcLine /\ First(at, c)[1] = c
        BY <4>1, PlaceFacts, DcFacts DEF First
      <4>3. CASE c = k
        <5>1. First(at, c) = l
          BY <1>5, <2>2, <4>3 DEF First
        <5>2. node'[l] = [node[l] EXCEPT !.time = t]
          BY <1>5, <3>3
        <5>3. [node[l] EXCEPT !.time = t].time = t
          BY <1>5, <3>4
        <5>4. QED
          BY <3>2, <4>3, <5>1, <5>2, <5>3
      <4>4. CASE c # k
        <5>1. First(at, c) # l
          BY <1>5, <4>2, <4>4, PlaceFacts
        <5>2. c \in 0..(k - 1)
          BY <4>1, <4>4
        <5>3. QED
          BY <1>11, <3>3, <4>2, <5>1, <5>2 DEF TimedTo
      <4>5. QED
        BY <4>3, <4>4
    <3>8. CASE k + 1 # DcSets
      <4>1. l' = Place(at, k + 1, DcWays) /\ l' # NIL /\ l' \in DcLine /\ k + 1 \in DcSet
        BY <1>6, <3>1, <3>8, PlaceFacts, DcFacts
      <4>2. Cardinality(Behind(at, out, k + 1, DcWays)) = 0
        BY <1>3, <4>1, LinkFacts, BehindFacts, DcFacts
      <4>3. \A c \in DcSet, b \in Spot :
              c < k + 1 \/ (c = k + 1 /\ b > DcWays) <=> c < k \/ (c = k /\ b >= j)
        BY <1>5, <2>2, DcFacts DEF DcSet, Spot
      <4>4. elapsed_s' \in 0..(DcWays - DcWays)
        BY <1>5, <3>1
      <4>5. ProbedTo(at, out, k + 1, DcWays)'
        BY <1>8, <3>1, <3>7, <4>1, <4>2, <4>3, <4>4 DEF ProbedTo
      <4>6. QED
        BY <1>5, <3>1, <3>5, <3>6, <4>1, <4>5, DcFacts DEF Probing
    <3>9. CASE k + 1 = DcSets
      <4>1. l' = NIL
        BY <3>1, <3>9
      <4>2. \A c \in DcSet, b \in Spot : c < k \/ (c = k /\ b >= j)
        BY <1>5, <2>2, <3>9 DEF DcSet, Spot
      <4>3. cached' = DcLine
        BY <1>3, <1>8, <1>9, <4>2, AllVisited
      <4>4. QED
        BY <1>5, <3>1, <3>5, <3>6, <3>7, <3>9, <4>1, <4>3, DcFacts DEF Probing
    <3>10. QED
      BY <3>8, <3>9
  <2>3. QED
    BY <2>1, <2>2
<1>13. Linked(at, DcSets)'
  BY <1>2, <1>3, <1>12, LinksKept DEF initVars
<1>14. Booked(out, 0, 0)'
  BY <1>2, <1>3 DEF Booked
<1>15. DcTypes'
  BY <1>1, <1>2, <1>9, <1>12 DEF DcTypes, initVars
<1>16. Walking(at)'
  BY <1>2, <1>12, <1>13, <1>14 DEF Walking
<1>17. QED
  BY <1>3, <1>15, <1>16, Zenon DEF DcacheInv

LEMMA BeginRecordInv == DcacheInv /\ BeginRecord => DcacheInv'
<1> SUFFICES ASSUME DcacheInv, BeginRecord
             PROVE  DcacheInv'
  OBVIOUS
<1>1. DcTypes
  BY DEF DcacheInv
<1>2. /\ dcPc = "probe" /\ l = NIL
      /\ dcPc' = "record" /\ byte' = 1 /\ s' = 0 /\ l' = set0.tail
      /\ UNCHANGED <<initVars, node, elapsed_s, text, cached, table, tests,
                     evictions>>
  BY DEF BeginRecord
<1>3. PICK at \in Orders, out \in SUBSET DcLine :
        Linked(at, DcSets) /\ Probing(at, out) /\ Booked(out, 0, 0)
  BY <1>2 DEF DcacheInv, Walking
<1>4. cached = DcLine /\ TimedTo(at, out, DcSets)
  BY <1>2, <1>3 DEF Probing
<1>5. l' = Place(at, 0, DcWays) /\ l' \in DcLine
  <2>1. Entered(at)
    BY <1>3, DcFacts DEF Linked
  <2>2. l' = Place(at, 0, DcWays)
    BY <1>2, <2>1 DEF Entered, Final
  <2>3. QED
    BY <2>2, PlaceFacts, DcFacts
<1>6. Recording(at, out)'
  <2>1. TimedTo(at, out, DcSets)'
    BY <1>2, <1>4 DEF TimedTo
  <2>2. \A i \in Byte, x \in DcSet :
          /\ i > 0 \/ (i = 0 /\ x >= 0)
          /\ i > 1 \/ (i = 1 /\ x >= 0)
    BY DcFacts DEF Byte, DcSet
  <2>3. Booked(out, byte, s)'
    BY <1>2, <1>3, <2>2 DEF Booked
  <2>4. \E j \in Spot : l' = Place(at, s', j)
    BY <1>2, <1>5, DcFacts
  <2>5. cached' = DcLine /\ s' = 0
    BY <1>2, <1>4
  <2>6. QED
    BY <2>1, <2>3, <2>4, <2>5 DEF Recording
<1>7. Linked(at, DcSets)'
  BY <1>2, <1>3, LinksKept DEF initVars
<1>8. DcTypes'
  <2>1. s' \in 0..DcSets /\ byte' \in 1..(AES_MSG_SIZE + 1) /\ l' \in Pointer
    BY <1>2, <1>5, DcFacts
  <2>2. QED
    BY <1>1, <1>2, <2>1 DEF DcTypes, initVars
<1>9. Walking(at)'
  BY <1>2, <1>6, <1>7 DEF Walking
<1>10. QED
  BY <1>3, <1>8, <1>9, Zenon DEF DcacheInv

LEMMA RecordLineInv == DcacheInv /\ RecordLine => DcacheInv'
<1> SUFFICES ASSUME DcacheInv, RecordLine
             PROVE  DcacheInv'
  OBVIOUS
<1>1. DcTypes
  BY DEF DcacheInv
<1>2. /\ dcPc = "record" /\ byte <= AES_MSG_SIZE /\ s < DcSets
      /\ IF node[l].prev # NIL
         THEN l' = node[l].prev /\ UNCHANGED <<table, s>>
         ELSE /\ table' = [table EXCEPT ![byte][text[byte]][s] = @ + node[l].time]
              /\ l' = node[l].next_set /\ s' = s + 1
      /\ UNCHANGED <<initVars, dcPc, node, elapsed_s, byte, text, cached,
                     tests, evictions>>
  BY DEF RecordLine
<1>3. PICK at \in Orders, out \in SUBSET DcLine :
        Linked(at, DcSets) /\ Recording(at, out)
  BY <1>2 DEF DcacheInv, Walking
<1>4. PICK j \in Spot : l = Place(at, s, j)
  BY <1>2, <1>3 DEF Recording
<1>5. /\ s \in DcSet /\ s \in Nat /\ DcSets \in Nat /\ byte \in Byte /\ byte \in Nat
      /\ text[byte] \in PlainBytes /\ l \in DcLine /\ AES_MSG_SIZE \in Nat
  <2>1. s \in DcSet /\ byte \in Byte
    BY <1>1, <1>2, DcFacts DEF DcTypes, DcSet, Byte
  <2>2. QED
    BY <1>1, <1>4, <2>1, PlaceFacts, DcFacts DEF DcTypes, Byte
<1>6. /\ node[l].prev = IF j = 1 THEN NIL ELSE Place(at, s, j - 1)
      /\ j = 1 => node[l].next_set =
                    IF s + 1 = DcSets THEN NIL ELSE Place(at, s + 1, DcWays)
      /\ j # 1 => j - 1 \in Spot
      /\ s + 1 # DcSets => s + 1 \in DcSet
  BY <1>3, <1>4, <1>5, LinkFacts
<1>7. TimedTo(at, out, DcSets)' /\ cached' = DcLine
  BY <1>2, <1>3 DEF Recording, TimedTo
<1>8. Recording(at, out)' /\ l' \in Pointer /\ s' \in 0..DcSets /\ table' \in Tables
  <2>1. CASE j # 1
    <3>1. l' = Place(at, s, j - 1) /\ l' \in DcLine /\ UNCHANGED <<table, s>>
      BY <1>2, <1>5, <1>6, <2>1, PlaceFacts
    <3>2. Booked(out, byte, s)'
      BY <1>2, <1>3, <3>1 DEF Recording, Booked
    <3>3. QED
      BY <1>1, <1>2, <1>3, <1>5, <1>6, <1>7, <2>1, <3>1, <3>2, DcFacts
         DEF Recording, DcTypes
  <2>2. CASE j = 1
    <3>1. /\ table' = [table EXCEPT ![byte][text[byte]][s] = @ + node[l].time]
          /\ l' = IF s + 1 = DcSets THEN NIL ELSE Place(at, s + 1, DcWays)
          /\ s' = s + 1
      BY <1>2, <1>6, <2>2
    <3>2. node[l].time = Cardinality(Out(out, s)) /\ node[l].time \in Nat
      <4>1. s \in 0..(DcSets - 1) /\ l = First(at, s)
        BY <1>4, <1>5, <2>2 DEF DcSet, First
      <4>2. QED
        BY <1>3, <1>5, <4>1, OutIsFinite DEF Recording, TimedTo
    <3>3. table \in Tables
      BY <1>1 DEF DcTypes
    <3>4. \A i \in Byte, p \in PlainBytes, x \in DcSet :
            table'[i][p][x] = IF i = byte /\ p = text[byte] /\ x = s
                              THEN table[i][p][x] + node[l].time
                              ELSE table[i][p][x]
      BY <1>5, <3>1, <3>3 DEF Tables
    <3>5. table' \in Tables
      BY <1>5, <3>1, <3>2, <3>3 DEF Tables
    <3>6. Booked(out, byte, s)'
      <4> SUFFICES ASSUME NEW i \in Byte, NEW p \in PlainBytes, NEW x \in DcSet
                   PROVE  evictions[i][p][x] = table'[i][p][x] +
                            IF p = text[i] /\ (i > byte \/ (i = byte /\ x >= s + 1))
                            THEN Cardinality(Out(out, x)) ELSE 0
        BY <1>2, <3>1 DEF Booked
      <4>1. evictions[i][p][x] = table[i][p][x] +
              IF p = text[i] /\ (i > byte \/ (i = byte /\ x >= s))
              THEN Cardinality(Out(out, x)) ELSE 0
        BY <1>3 DEF Recording, Booked
      <4>2. table[i][p][x] \in Nat /\ Cardinality(Out(out, x)) \in Nat /\ x \in Nat
        BY <3>3, OutIsFinite, DcFacts DEF Tables
      <4>3. CASE i = byte /\ p = text[byte] /\ x = s
        <5>1. ~(x >= s + 1) /\ x >= s /\ ~(i > byte)
          BY <1>5, <4>3
        <5>2. QED
          BY <3>2, <3>4, <4>1, <4>2, <4>3, <5>1
      <4>4. CASE ~(i = byte /\ p = text[byte] /\ x = s)
        <5>1. i = byte /\ p = text[i] => (x >= s <=> x >= s + 1)
          BY <1>5, <4>2, <4>4
        <5>2. table'[i][p][x] = table[i][p][x]
          BY <3>4, <4>4
        <5>3. QED
          BY <4>1, <5>1, <5>2
      <4>5. QED
        BY <4>3, <4>4
    <3>7. s' < DcSets => \E b \in Spot : l' = Place(at, s', b)
      BY <1>5, <3>1, DcFacts
    <3>8. l' \in Pointer
      BY <1>6, <3>1, PlaceFacts, DcFacts
    <3>9. ~(byte' > AES_MSG_SIZE) /\ s' \in 0..DcSets
      BY <1>2, <1>5, <3>1
    <3>10. QED
      BY <1>7, <3>5, <3>6, <3>7, <3>8, <3>9 DEF Recording
  <2>3. QED
    BY <2>1, <2>2
<1>9. Linked(at, DcSets)'
  BY <1>2, <1>3, LinksKept DEF initVars
<1>10. DcTypes'
  BY <1>1, <1>2, <1>8 DEF DcTypes, initVars
<1>11. Walking(at)'
  BY <1>2, <1>8, <1>9 DEF Walking
<1>12. QED
  BY <1>3, <1>10, <1>11, Zenon DEF DcacheInv

LEMMA RecordByteInv == DcacheInv /\ RecordByte => DcacheInv'
<1> SUFFICES ASSUME DcacheInv, RecordByte
             PROVE  DcacheInv'
  OBVIOUS
<1>1. DcTypes
  BY DEF DcacheInv
<1>2. /\ dcPc = "record" /\ byte <= AES_MSG_SIZE /\ s = DcSets
      /\ byte' = byte + 1 /\ s' = 0 /\ l' = set0.tail
      /\ UNCHANGED <<initVars, dcPc, node, elapsed_s, text, cached, table,
                     tests, evictions>>
  BY DEF RecordByte
<1>3. PICK at \in Orders, out \in SUBSET DcLine :
        Linked(at, DcSets) /\ Recording(at, out)
  BY <1>2 DEF DcacheInv, Walking
<1>4. l' = Place(at, 0, DcWays) /\ l' \in DcLine
  <2>1. Entered(at)
    BY <1>3, DcFacts DEF Linked
  <2>2. l' = Place(at, 0, DcWays)
    BY <1>2, <2>1 DEF Entered, Final
  <2>3. QED
    BY <2>2, PlaceFacts, DcFacts
<1>5. byte \in Nat /\ byte' \in 1..(AES_MSG_SIZE + 1)
  BY <1>1, <1>2, DcFacts DEF DcTypes
<1>6. Recording(at, out)'
  <2>1. TimedTo(at, out, DcSets)' /\ cached' = DcLine
    BY <1>2, <1>3 DEF Recording, TimedTo
  <2>2. \A i \in Byte, x \in DcSet :
          i > byte \/ (i = byte /\ x >= DcSets)
            <=> i > byte + 1 \/ (i = byte + 1 /\ x >= 0)
    BY <1>5, DcFacts DEF Byte, DcSet
  <2>3. Booked(out, byte, s)'
    BY <1>2, <1>3, <2>2 DEF Recording, Booked
  <2>4. \E j \in Spot : l' = Place(at, s', j)
    BY <1>2, <1>4, DcFacts
  <2>5. QED
    BY <1>2, <2>1, <2>3, <2>4 DEF Recording
<1>7. Linked(at, DcSets)'
  BY <1>2, <1>3, LinksKept DEF initVars
<1>8. DcTypes'
  <2>1. s' \in 0..DcSets /\ l' \in Pointer
    BY <1>2, <1>4, DcFacts
  <2>2. QED
    BY <1>1, <1>2, <1>5, <2>1 DEF DcTypes, initVars
<1>9. Walking(at)'
  BY <1>2, <1>6, <1>7 DEF Walking
<1>10. QED
  BY <1>3, <1>8, <1>9, Zenon DEF DcacheInv

\* Behind the last byte of the message nothing is missing.
LEMMA AllBooked ==
  ASSUME DcTypes, NEW out \in SUBSET DcLine, Booked(out, byte, s),
         byte > AES_MSG_SIZE
  PROVE  table = evictions
<1>1. table \in Tables /\ evictions \in Tables /\ byte \in Nat
  BY DEF DcTypes
<1>2. \A i \in Byte : ~(i > byte) /\ i # byte
  BY <1>1, DcFacts DEF Byte
<1>3. \A i \in Byte, p \in PlainBytes, x \in DcSet :
        table[i][p][x] \in Nat /\ evictions[i][p][x] = table[i][p][x] + 0
  BY <1>1, <1>2 DEF Booked, Tables
<1>4. \A i \in Byte, p \in PlainBytes, x \in DcSet :
        evictions[i][p][x] = table[i][p][x]
  BY <1>3
<1>5. \A i \in Byte, p \in PlainBytes : evictions[i][p] = table[i][p]
  BY <1>1, <1>4 DEF Tables
<1>6. \A i \in Byte : evictions[i] = table[i]
  BY <1>1, <1>5 DEF Tables
<1>7. QED
  BY <1>1, <1>6 DEF Tables

LEMMA EndRunInv == DcacheInv /\ EndRun => DcacheInv'
<1> SUFFICES ASSUME DcacheInv, EndRun
             PROVE  DcacheInv'
  OBVIOUS
<1>1. DcTypes
  BY DEF DcacheInv
<1>2. /\ dcPc = "record" /\ byte > AES_MSG_SIZE
      /\ tests' = tests + 1
      /\ byte' = 1
      /\ IF tests' < N_D_TESTS THEN dcPc' = "prime" /\ l' = set0.head
                               ELSE dcPc' = "end" /\ UNCHANGED l
      /\ UNCHANGED <<initVars, node, s, elapsed_s, text, cached, table,
                     evictions>>
  BY DEF EndRun
<1>3. PICK at \in Orders, out \in SUBSET DcLine :
        Linked(at, DcSets) /\ Recording(at, out)
  BY <1>2 DEF DcacheInv, Walking
<1>4. table' = evictions'
  BY <1>1, <1>2, <1>3, AllBooked DEF Recording
<1>5. tests' \in 0..N_D_TESTS /\ byte' \in 1..(AES_MSG_SIZE + 1)
      /\ (dcPc' # "end" => tests' < N_D_TESTS)
  BY <1>1, <1>2, DcFacts DEF DcTypes
<1>6. dcPc' = "prime" => l' = Place(at, 0, 1) /\ l' # NIL /\ l' \in DcLine
  <2>1. Entered(at)
    BY <1>3, DcFacts DEF Linked
  <2>2. dcPc' = "prime" => l' = Place(at, 0, 1)
    BY <1>2, <2>1 DEF Entered, First
  <2>3. QED
    BY <2>2, PlaceFacts, DcFacts
<1>7. dcPc' = "prime" => Priming(at)'
  <2> SUFFICES ASSUME dcPc' = "prime"
               PROVE  Priming(at)'
    OBVIOUS
  <2>1. \A c \in DcSet, b \in Spot : ~(c < 0 \/ (c = 0 /\ b < 1))
    BY DcFacts DEF DcSet, Spot
  <2>2. PrimedTo(at, 0, 1)'
    BY <1>6, <2>1 DEF PrimedTo
  <2>3. QED
    BY <1>6, <2>2, DcFacts DEF Priming
<1>8. Linked(at, DcSets)'
  BY <1>2, <1>3, LinksKept DEF initVars
<1>9. DcTypes'
  <2>1. l' \in Pointer /\ dcPc' \in {"prime", "end"}
    BY <1>1, <1>2, <1>6, DcFacts DEF DcTypes
  <2>2. QED
    BY <1>1, <1>2, <1>5, <2>1 DEF DcTypes, initVars
<1>10. Walking(at)'
  BY <1>2, <1>4, <1>7, <1>8 DEF Walking
<1>11. QED
  BY <1>3, <1>9, <1>10, Zenon DEF DcacheInv

LEMMA NextDcacheInv ==
  ASSUME DcacheInv, [DcacheNext]_dcacheVars
  PROVE  DcacheInv'
<1>1. CASE DcacheNext
  BY <1>1, ConnectWayInv, ConnectSetInv, BeginPrimeInv, PrimeLineInv, EncryptInv,
     ProbeLineInv, BeginRecordInv, RecordLineInv, RecordByteInv, EndRunInv
     DEF DcacheNext
<1>2. CASE UNCHANGED dcacheVars
  <2>1. PICK at \in Orders : Walking(at)
    BY DEF DcacheInv
  <2>2. DcTypes'
    BY <1>2 DEF dcacheVars, DcacheInv, DcTypes
  <2>3. Walking(at)'
    <3>1. /\ node' = node /\ set0' = set0 /\ bit_mask' = bit_mask /\ s' = s
          /\ setHead' = setHead /\ setTail' = setTail /\ prevHead' = prevHead
          /\ prevTail' = prevTail /\ l' = l /\ cached' = cached /\ dcPc' = dcPc
          /\ elapsed_s' = elapsed_s /\ table' = table /\ evictions' = evictions
          /\ text' = text /\ byte' = byte
      BY <1>2 DEF dcacheVars
    <3>2. ASSUME NEW n \in 0..DcWays, Linking(at, n)
          PROVE  Linking(at, n)'
      BY <3>1, <3>2 DEF Linking, Linked, Permuted, Chained, Crossed, Entered
    <3>3. Linked(at, DcSets) => Linked(at, DcSets)'
      BY <3>1 DEF Linked, Permuted, Chained, Crossed, Entered
    <3>4. Priming(at) => Priming(at)'
      BY <3>1 DEF Priming, PrimedTo
    <3>5. ASSUME NEW out \in SUBSET DcLine
          PROVE  /\ Probing(at, out) => Probing(at, out)'
                 /\ Booked(out, 0, 0) => Booked(out, 0, 0)'
                 /\ Recording(at, out) => Recording(at, out)'
      BY <3>1 DEF Probing, ProbedTo, TimedTo, Booked, Recording
    <3>6. QED
      BY <2>1, <3>1, <3>2, <3>3, <3>4, <3>5 DEF Walking
  <2>4. QED
    BY <2>1, <2>2, <2>3, Zenon DEF DcacheInv
<1>3. QED
  BY <1>1, <1>2

LEMMA TableFollows ==
  ASSUME DcacheInv
  PROVE  TableExact /\ DcacheTypeOK
<1>1. DcTypes
  BY DEF DcacheInv
<1>2. PICK at \in Orders : Walking(at)
  BY DEF DcacheInv
<1>3. dcPc = "record" \/ (dcPc = "prime" /\ l = NIL) => cached = DcLine
  BY <1>2, DcFacts DEF Walking, Priming, Recording
<1>4. dcPc = "end" => table = evictions
  BY <1>2 DEF Walking
<1>5. dcPc = "record" /\ byte > AES_MSG_SIZE => table = evictions
  BY <1>1, <1>2, AllBooked DEF Walking, Recording
<1>6. DcacheTypeOK
  <2>1. \A x \in DcLine : /\ {node[x].prev, node[x].next, node[x].next_set} \subseteq Pointer
                          /\ node[x].time \in 0..DcWays
    BY <1>1 DEF DcTypes, NodeType
  <2>2. {set0.head, set0.tail, setHead, setTail, prevHead, prevTail, l} \subseteq Pointer
    BY <1>1 DEF DcTypes
  <2>3. QED
    BY <1>1, <2>1, <2>2 DEF DcacheTypeOK, DcTypes, Ways
<1>7. QED
  BY <1>3, <1>4, <1>5, <1>6 DEF TableExact

-----------------------------------------------------------------------------
(* The search for a key *)

KeyInv == KeyTypeOK /\ OwnEvidence /\ OneRun

LEMMA KeyFacts ==
  /\ Targets \in Nat \ {0} /\ ALLOWEDMISSES \in Nat /\ RECORDLEN \in Nat
  /\ SEARCHLEN \in 1..RECORDLEN /\ GAPLEN \in Nat \ {0} /\ mask \in Seq(Samples)
  /\ Miss # Hit /\ Miss # Nul /\ Hit # Nul
BY KeySearchAssumption DEF KeySearchAssumption, Miss, Hit, Nul

\* A record with a Nul at its last place.
Terminated(r) == r \in Records /\ r[RECORDLEN] = Nul

LEMMA EarliestFacts ==
  ASSUME NEW S \in SUBSET Nat, S # {}
  PROVE  Earliest(S) \in S /\ \A y \in S : Earliest(S) <= y
<1>1. \E x \in S : \A y \in S : x <= y
  BY LeastMember
<1>2. QED
  BY <1>1, Zenon DEF Earliest

LEMMA EndFacts ==
  ASSUME NEW r, Terminated(r), NEW k \in RecordPlace
  PROVE  /\ End(r, k) \in k..RECORDLEN /\ r[End(r, k)] = Nul
         /\ \A j \in k..(End(r, k) - 1) : r[j] # Nul
<1> DEFINE N == {e \in k..RECORDLEN : r[e] = Nul}
<1>1. N \in SUBSET Nat /\ RECORDLEN \in N
  BY KeyFacts DEF RecordPlace, Terminated
<1>2. PICK e \in N : \A y \in N : e <= y
  BY <1>1, LeastMember
<1>3. e \in k..RECORDLEN /\ r[e] = Nul /\ \A j \in k..(e - 1) : r[j] # Nul
  BY <1>2, KeyFacts DEF RecordPlace
<1>4. QED
  BY <1>3, Zenon DEF End

\* The distance to the last miss before a place, or to the start.
LEMMA BitFacts ==
  ASSUME NEW r, NEW from \in Nat, NEW k \in Nat, from < k
  PROVE  \E j \in from..(k - 1) :
           /\ BitLength(r, from, k) = k - 1 - j
           /\ \A b \in (j + 1)..(k - 1) : r[b] # Miss
<1> DEFINE before == {j \in from..(k - 1) : j = from \/ r[j] = Miss}
           back == {n \in 0..k : k - n \in before}
<1>1. back \in SUBSET Nat /\ k - from \in back
  OBVIOUS
<1>2. PICK n \in back : \A m \in back : n <= m
  BY <1>1, LeastMember
<1>3. /\ k - n \in before
      /\ \A b \in before : b <= k - n
  <2>1. SUFFICES ASSUME NEW b \in before
                 PROVE  b <= k - n
    BY <1>2
  <2>2. k - b \in back
    OBVIOUS
  <2>3. n <= k - b
    BY <1>2, <2>2
  <2>4. QED
    BY <2>3
<1> DEFINE j == CHOOSE b \in before : \A c \in before : c <= b
<1>4. j \in before /\ \A c \in before : c <= j
  BY <1>3, Zenon
<1>5. BitLength(r, from, k) = k - 1 - j
  BY DEF BitLength
<1> HIDE DEF j
<1>6. \A b \in (j + 1)..(k - 1) : r[b] # Miss
  BY <1>4
<1>7. QED
  BY <1>4, <1>5, <1>6

LEMMA SampleFacts ==
  ASSUME NEW r, Terminated(r), NEW n \in 1..RECORDLEN, NEW f \in [1..n -> Samples]
  PROVE  /\ Terminated(sample(r, f))
         /\ \A k \in 0..(n - 1) : sample(r, f)[k] # Nul
<1>1. Len(f) = n
  BY SeqOfFun, KeyFacts
<1>2. sample(r, f) = [k \in RecordPlace |-> IF k < n THEN f[k + 1]
                                            ELSE IF k = n THEN Nul ELSE r[k]]
  BY <1>1 DEF sample
<1>3. \A k \in 0..(n - 1) : /\ f[k + 1] \in Samples
                            /\ sample(r, f)[k] = f[k + 1]
  BY <1>2, KeyFacts DEF RecordPlace
<1>4. sample(r, f) \in Records
  BY <1>2, KeyFacts DEF Records, RecordPlace, Terminated
<1>5. sample(r, f)[RECORDLEN] = Nul
  BY <1>2, KeyFacts DEF RecordPlace, Terminated
<1>6. QED
  BY <1>3, <1>4, <1>5, KeyFacts DEF Terminated, Samples

LEMMA CleanupFacts ==
  ASSUME NEW r, Terminated(r)
  PROVE  Terminated(cleanup(r))
<1>1. End(r, 0) \in Nat /\ End(r, 0) <= RECORDLEN
  BY EndFacts, KeyFacts DEF RecordPlace
<1> DEFINE erased(k) ==
      /\ k < End(r, 0)
      /\ States(r)[k] \in {"one", "oneone", "oneonezero"} \/ Lone(r, k)
<1>2. cleanup(r) = [k \in RecordPlace |-> IF erased(k) THEN Hit ELSE r[k]]
  BY DEF cleanup
<1>3. ~erased(RECORDLEN)
  BY <1>1, KeyFacts
<1> HIDE DEF erased
<1>4. QED
  BY <1>2, <1>3, KeyFacts DEF Terminated, Records, RecordPlace, Samples

\* What findend does: either there is no gap behind the start, or it ends the
\* string in front of the first one.
LEMMA FindendFacts ==
  ASSUME NEW r, Terminated(r), NEW from \in RecordPlace, r[from] = Miss
  PROVE  /\ Terminated(findend(r, from))
         /\ \/ /\ findend(r, from) = r
               /\ \A k \in (from + 1)..End(r, from) :
                    k > from + GAPLEN => ~Gap(r, k, GAPLEN)
            \/ \E p \in from..RECORDLEN :
                 /\ p + GAPLEN + 1 <= End(r, from)
                 /\ findend(r, from) = [r EXCEPT ![p] = Nul]
                 /\ \A k \in (from + 1)..(p + GAPLEN) :
                      k > from + GAPLEN => ~Gap(r, k, GAPLEN)
<1> DEFINE ends == {k \in (from + 1)..End(r, from) :
                      k > from + GAPLEN /\ Gap(r, k, GAPLEN)}
<1>1. findend(r, from) = IF ends = {} THEN r
                         ELSE [r EXCEPT ![Earliest(ends) - GAPLEN - 1] = Nul]
  BY DEF findend
<1>2. End(r, from) \in from..RECORDLEN /\ from \in Nat
  BY EndFacts, KeyFacts DEF RecordPlace
<1>3. CASE ends = {}
  <2>1. findend(r, from) = r
    BY <1>1, <1>3
  <2>2. ASSUME NEW k \in (from + 1)..End(r, from), k > from + GAPLEN
        PROVE  ~Gap(r, k, GAPLEN)
    BY <1>3, <2>2
  <2>3. QED
    BY <2>1, <2>2
<1>4. CASE ends # {}
  <2>1. ends \in SUBSET Nat
    BY <1>2
  <2> DEFINE m == Earliest(ends)
             p == m - GAPLEN - 1
  <2>2. m \in ends /\ \A k \in ends : m <= k
    BY <1>4, <2>1, EarliestFacts
  <2>3. findend(r, from) = [r EXCEPT ![p] = Nul]
    BY <1>1, <1>4
  <2> HIDE DEF m
  <2>4. p \in from..RECORDLEN /\ m = p + GAPLEN + 1 /\ m <= End(r, from)
    BY <1>2, <2>2, KeyFacts
  <2>5. ASSUME NEW k \in (from + 1)..(p + GAPLEN), k > from + GAPLEN
        PROVE  ~Gap(r, k, GAPLEN)
    BY <1>2, <2>2, <2>4, <2>5, KeyFacts
  <2>6. Terminated(findend(r, from))
    BY <2>3, <2>4, <1>2, KeyFacts DEF Terminated, Records, RecordPlace
  <2>7. QED
    BY <2>3, <2>4, <2>5, <2>6
<1>5. QED
  BY <1>3, <1>4

\* A bit as long as a gap would have been found by findend.
LEMMA NoGapLeft ==
  ASSUME NEW r, Terminated(r), NEW from \in RecordPlace, from < RECORDLEN,
         r[from] = Miss, findend(r, from)[from] # Nul,
         NEW k \in BitPlaces(findend(r, from), from)
  PROVE  BitLength(findend(r, from), from, k) < GAPLEN
<1> DEFINE cut == findend(r, from)
<1>1. Terminated(cut) /\ from \in Nat /\ RECORDLEN \in Nat /\ GAPLEN \in Nat
  BY FindendFacts, KeyFacts DEF RecordPlace
<1>2. /\ k \in (from + 1)..(End(cut, from + 1) - 1)
      /\ End(cut, from + 1) \in (from + 1)..RECORDLEN
      /\ \A j \in (from + 1)..(End(cut, from + 1) - 1) : cut[j] # Nul
  <2>1. from + 1 \in RecordPlace
    BY <1>1 DEF RecordPlace
  <2>2. QED
    BY <1>1, <2>1, EndFacts DEF BitPlaces
<1>3. PICK j \in from..(k - 1) :
        /\ BitLength(cut, from, k) = k - 1 - j
        /\ \A b \in (j + 1)..(k - 1) : cut[b] # Miss
  <2>1. k \in Nat /\ from < k
    BY <1>1, <1>2
  <2>2. QED
    BY <1>1, <2>1, BitFacts
<1>4. SUFFICES ASSUME k - 1 - j >= GAPLEN
               PROVE  FALSE
  BY <1>1, <1>2, <1>3
<1>5. \A b \in (k - GAPLEN)..(k - 1) : cut[b] = Hit
  <2> SUFFICES ASSUME NEW b \in (k - GAPLEN)..(k - 1)
               PROVE  cut[b] = Hit
    OBVIOUS
  <2>1. b \in (j + 1)..(k - 1) /\ b \in (from + 1)..(End(cut, from + 1) - 1)
        /\ b \in RecordPlace
    BY <1>1, <1>2, <1>4 DEF RecordPlace
  <2>2. cut[b] # Miss /\ cut[b] # Nul /\ cut[b] \in Samples \cup {Nul}
    BY <1>1, <1>2, <1>3, <2>1 DEF Terminated, Records
  <2>3. QED
    BY <2>2 DEF Samples
<1>6. k > from + GAPLEN /\ k <= RECORDLEN
  BY <1>1, <1>2, <1>4
<1>7. CASE /\ cut = r
           /\ \A n \in (from + 1)..End(r, from) :
                n > from + GAPLEN => ~Gap(r, n, GAPLEN)
  <2>1. Gap(r, k, GAPLEN)
    BY <1>1, <1>2, <1>5, <1>6, <1>7 DEF Gap
  <2>2. /\ End(r, from) \in from..RECORDLEN /\ r[End(r, from)] = Nul
    BY EndFacts
  <2>3. End(r, from) # from
    BY <2>2, KeyFacts
  <2>4. k <= End(r, from)
    BY <1>1, <1>2, <1>7, <2>2, <2>3
  <2>5. QED
    BY <1>1, <1>2, <1>6, <1>7, <2>1, <2>2, <2>4
<1>8. ASSUME NEW p \in from..RECORDLEN,
             cut = [r EXCEPT ![p] = Nul],
             \A n \in (from + 1)..(p + GAPLEN) :
               n > from + GAPLEN => ~Gap(r, n, GAPLEN)
      PROVE  FALSE
  <2>1. cut[p] = Nul /\ p \in RecordPlace /\ \A b \in RecordPlace \ {p} : cut[b] = r[b]
    BY <1>1, <1>8 DEF Terminated, Records, RecordPlace
  <2>2. p # from
    BY <2>1
  <2>3. k < p
    BY <1>1, <1>2, <2>1, <2>2
  <2>4. Gap(r, k, GAPLEN)
    <3>1. \A b \in (k - GAPLEN)..(k - 1) : b \in RecordPlace \ {p}
      BY <1>1, <1>2, <1>6, <2>3 DEF RecordPlace
    <3>2. QED
      BY <1>1, <1>2, <1>5, <1>6, <2>1, <3>1 DEF Gap
  <2>5. QED
    BY <1>1, <1>2, <1>6, <1>8, <2>3, <2>4
<1>9. QED
  BY <1>7, <1>8, FindendFacts

LEMMA NextTargetType ==
  ASSUME NextTarget, target \in 1..Targets
  PROVE  target' \in 1..Targets /\ stage' \in {"search", "done"}
BY KeyFacts DEF NextTarget

LEMMA InitKeyInv == KeyInit => KeyInv
<1> SUFFICES ASSUME KeyInit
             PROVE  KeyInv
  OBVIOUS
<1>1. record \in Records /\ record[RECORDLEN] = Nul /\ 0 \in RecordPlace
  BY KeyFacts DEF KeyInit, Records, RecordPlace
<1>2. target \in 1..Targets /\ stage = "search" /\ start = 0 /\ found = FALSE
  BY KeyFacts DEF KeyInit
<1>3. QED
  BY <1>1, <1>2 DEF KeyInv, KeyTypeOK, OwnEvidence, OneRun

LEMMA SearchKeyInv == KeyInv /\ Search => KeyInv'
<1> SUFFICES ASSUME KeyInv, Search
             PROVE  KeyInv'
  OBVIOUS
<1>1. PICK f \in [1..SEARCHLEN -> Samples] : record' = sample(record, f)
  BY DEF Search
<1>2. Terminated(record')
  BY <1>1, SampleFacts, KeyFacts DEF KeyInv, KeyTypeOK, Terminated
<1>3. target' \in 1..Targets /\ stage' \in {"search", "done", "probe"}
  BY NextTargetType DEF Search, KeyInv, KeyTypeOK
<1>4. start' = start /\ found' = found
  BY DEF Search
<1>5. QED
  BY <1>2, <1>3, <1>4 DEF KeyInv, KeyTypeOK, OwnEvidence, OneRun, Terminated

LEMMA ProbeKeyInv == KeyInv /\ Probe => KeyInv'
<1> SUFFICES ASSUME KeyInv, Probe
             PROVE  KeyInv'
  OBVIOUS
<1>1. PICK f \in [1..RECORDLEN -> Samples] : record' = sample(record, f)
  BY DEF Probe
<1>2. RECORDLEN \in 1..RECORDLEN
  BY KeyFacts
<1>3. Terminated(record') /\ \A k \in 0..(RECORDLEN - 1) : record'[k] # Nul
  BY <1>1, <1>2, SampleFacts DEF KeyInv, KeyTypeOK, Terminated
<1>4. /\ target' \in 1..Targets
      /\ stage' \in {"search", "done", "clean"}
      /\ stage' = "clean" => ~(matchcount(record') < Threshold)
  BY NextTargetType DEF Probe, KeyInv, KeyTypeOK
<1>5. start' = start /\ found' = found
  BY DEF Probe
<1>6. End(record', 0) = RECORDLEN
  <2>1. 0 \in RecordPlace /\ RECORDLEN \in Nat
    BY KeyFacts DEF RecordPlace
  <2>2. End(record', 0) \in 0..RECORDLEN /\ record'[End(record', 0)] = Nul
    BY <1>3, <2>1, EndFacts
  <2>3. QED
    BY <1>3, <2>1, <2>2
<1> DEFINE near == {k \in 0..(RECORDLEN - 1) : misses(record', k) <= ALLOWEDMISSES}
<1>7. Cardinality(near) \in Nat
  <2>1. IsFiniteSet(0..(RECORDLEN - 1))
    BY KeyFacts, FS_Interval
  <2>2. IsFiniteSet(near)
    BY <2>1, FS_Subset
  <2>3. QED
    BY <2>2, FS_CardinalityType
<1>8. Threshold \in Int
  <2>1. Len(mask) \in Nat \ {0} /\ SEARCHLEN \in Nat
    BY KeySearchAssumption, KeyFacts, EmptySeq DEF KeySearchAssumption
  <2>2. (SEARCHLEN * 2) \div Len(mask) \in Int
    BY <2>1
  <2>3. QED
    BY <2>2 DEF Threshold
<1>9. matchcount(record') = Cardinality(near)
  BY DEF matchcount
<1> HIDE DEF near
<1>10. stage' = "clean" => Cardinality(near) >= Threshold
  BY <1>4, <1>7, <1>8, <1>9
<1>11. OwnEvidence'
  BY <1>6, <1>10 DEF OwnEvidence, near
<1>12. QED
  BY <1>3, <1>4, <1>5, <1>11 DEF KeyInv, KeyTypeOK, OneRun, Terminated

LEMMA CleanKeyInv == KeyInv /\ Clean => KeyInv'
<1> SUFFICES ASSUME KeyInv, Clean
             PROVE  KeyInv'
  OBVIOUS
<1>1. Terminated(record')
  BY CleanupFacts DEF Clean, KeyInv, KeyTypeOK, Terminated
<1>2. QED
  BY <1>1 DEF Clean, KeyInv, KeyTypeOK, OwnEvidence, OneRun, Terminated

LEMMA CutKeyInv == KeyInv /\ Cut => KeyInv'
<1> SUFFICES ASSUME KeyInv, Cut
             PROVE  KeyInv'
  OBVIOUS
<1>1. Terminated(record) /\ target' = target /\ found' = found
  BY DEF KeyInv, KeyTypeOK, Terminated, Cut
<1>2. CASE Starts(record) = {}
  BY <1>1, <1>2 DEF Cut, KeyInv, KeyTypeOK, OwnEvidence, OneRun
<1>3. CASE Starts(record) # {}
  <2>1. /\ start' = Earliest(Starts(record))
        /\ record' = findend(record, start') /\ stage' = "count"
    BY <1>3 DEF Cut
  <2>2. End(record, 0) \in 0..RECORDLEN
    BY <1>1, EndFacts, KeyFacts DEF RecordPlace
  <2>3. Starts(record) \in SUBSET Nat
    BY <2>2, KeyFacts DEF Starts
  <2>4. start' \in Starts(record)
    BY <1>3, <2>1, <2>3, EarliestFacts
  <2>5. start' \in RecordPlace /\ start' < RECORDLEN /\ record[start'] = Miss
    BY <2>2, <2>4, KeyFacts DEF Starts, RecordPlace
  <2>6. Terminated(record')
    BY <1>1, <2>1, <2>5, FindendFacts
  <2>7. OneRun'
    <3> SUFFICES ASSUME record'[start'] # Nul, NEW k \in BitPlaces(record', start')
                 PROVE  BitLength(record', start', k) < GAPLEN
      BY DEF OneRun
    <3>1. QED
      BY <1>1, <2>1, <2>5, NoGapLeft
  <2>8. QED
    BY <1>1, <2>1, <2>5, <2>6, <2>7 DEF KeyInv, KeyTypeOK, OwnEvidence, Terminated
<1>4. QED
  BY <1>2, <1>3

LEMMA CountBitsKeyInv == KeyInv /\ CountBits => KeyInv'
<1> SUFFICES ASSUME KeyInv, CountBits
             PROVE  KeyInv'
  OBVIOUS
<1>1. target' \in 1..Targets /\ stage' \in {"search", "done"}
  BY NextTargetType DEF CountBits, KeyInv, KeyTypeOK
<1>2. found' \in BOOLEAN
  BY DEF CountBits, KeyInv, KeyTypeOK
<1>3. record' = record /\ start' = 0
  BY DEF CountBits
<1>4. QED
  BY <1>1, <1>2, <1>3, KeyFacts DEF KeyInv, KeyTypeOK, OwnEvidence, OneRun, RecordPlace

LEMMA NextKeyInv == KeyInv /\ [KeyNext]_keyVars => KeyInv'
<1>1. KeyInv /\ UNCHANGED keyVars => KeyInv'
  BY DEF KeyInv, keyVars, KeyTypeOK, OwnEvidence, OneRun
<1>2. QED
  BY <1>1, SearchKeyInv, ProbeKeyInv, CleanKeyInv, CutKeyInv, CountBitsKeyInv DEF KeyNext

-----------------------------------------------------------------------------
(* All five *)

\* An algorithm's own steps are its next-state relation; those of another
\* algorithm leave it alone.
LEMMA PartInit ==
  AlgorithmInit => TimeInit /\ OverheadInit /\ SetInit /\ DcacheInit /\ KeyInit
BY DEF AlgorithmInit

LEMMA PartNext ==
  [AlgorithmNext]_algorithmVars =>
    /\ [TimeNext]_timeVars /\ [OverheadNext]_overheadVars
    /\ [SetNext]_setVars /\ [DcacheNext]_dcacheVars /\ [KeyNext]_keyVars
<1>1. CASE UNCHANGED algorithmVars
  <2>1. UNCHANGED timeVars /\ UNCHANGED overheadVars /\ UNCHANGED setVars
        /\ UNCHANGED dcacheVars /\ UNCHANGED keyVars
    BY <1>1 DEF algorithmVars
  <2>2. QED
    BY <2>1, Zenon
<1>2. CASE AlgorithmNext
  BY <1>2, Zenon DEF AlgorithmNext
<1>3. QED
  BY <1>1, <1>2

LEMMA AlwaysTimeInv == AlgorithmSpec => []TimeInv
<1>1. AlgorithmInit => TimeInv
  BY PartInit, InitTimeInv
<1>2. TimeInv /\ [AlgorithmNext]_algorithmVars => TimeInv'
  BY PartNext, NextTimeInv
<1>3. QED
  BY <1>1, <1>2, PTL DEF AlgorithmSpec

LEMMA AlwaysOverheadInv == AlgorithmSpec => []OverheadInv
<1>1. AlgorithmInit => OverheadInv
  BY PartInit, InitOverheadInv
<1>2. OverheadInv /\ [AlgorithmNext]_algorithmVars => OverheadInv'
  BY PartNext, NextOverheadInv
<1>3. QED
  BY <1>1, <1>2, PTL DEF AlgorithmSpec

LEMMA AlwaysSetInv == ASSUME Tolerable PROVE AlgorithmSpec => []SetInv
<1>1. AlgorithmInit => SetInv
  BY PartInit, InitSetInv
<1>2. SetInv /\ [AlgorithmNext]_algorithmVars => SetInv'
  BY PartNext, NextSetInv
<1>3. QED
  BY <1>1, <1>2, PTL DEF AlgorithmSpec

LEMMA AlwaysDcacheInv == AlgorithmSpec => []DcacheInv
<1>1. AlgorithmInit => DcacheInv
  BY PartInit, InitDcacheInv
<1>2. DcacheInv /\ [AlgorithmNext]_algorithmVars => DcacheInv'
  BY PartNext, NextDcacheInv
<1>3. QED
  BY <1>1, <1>2, PTL DEF AlgorithmSpec

LEMMA AlwaysKeyInv == AlgorithmSpec => []KeyInv
<1>1. AlgorithmInit => KeyInv
  BY PartInit, InitKeyInv
<1>2. KeyInv /\ [AlgorithmNext]_algorithmVars => KeyInv'
  BY PartNext, NextKeyInv
<1>3. QED
  BY <1>1, <1>2, PTL DEF AlgorithmSpec

\* The median or percentile that a timing test computes from its histogram is
\* the sample of that rank, of this test and no other, whatever the outliers
\* (timestats.c:35-92, l3_arm.c:207-231).
THEOREM StatisticCorrect == AlgorithmSpec => []StatisticIsExact
<1>1. TimeInv => StatisticIsExact
  BY DEF TimeInv
<1>2. QED
  BY <1>1, AlwaysTimeInv, PTL

\* A timing test tells a list that evicts from one that does not, as long as
\* the disturbed samples are no more than the rank tolerates, whatever they
\* measured (l3_arm.c:207-231).
THEOREM VerdictCorrect == AlgorithmSpec => []VerdictRight
<1>1. TimeInv => VerdictRight
  BY VerdictFollows
<1>2. QED
  BY <1>1, AlwaysTimeInv, PTL

\* What a benchmark records is the operation's own time, with what disturbs it,
\* and never a wrapped or a negative one: for every clock, number of samples
\* and rounds (bench_helper.h:84-100, ipc_test.c:93-141, cache_flush.c:68).
THEOREM CostsAreExact == AlgorithmSpec => []CostExact
<1>1. OverheadInv => CostExact
  BY DEF OverheadInv, Subtracted
<1>2. QED
  BY <1>1, AlwaysOverheadInv, PTL

\* The search finds exactly the sets that each system call evicts and the test
\* does not, and the removal of the common ones leaves each set on one list:
\* for every number of sets and tests and all footprints, if the disturbances
\* are too few to fake or to hide three evictions (low.h:493-560, 665-676).
THEOREM SearchCorrect == Tolerable => (AlgorithmSpec => []SearchIsExact)
<1> SUFFICES ASSUME Tolerable
             PROVE  AlgorithmSpec => []SearchIsExact
  OBVIOUS
<1>1. SetInv => SearchIsExact
  BY SearchFollows
<1>2. QED
  BY <1>1, AlwaysSetInv, PTL

\* The D-cache attack primes the whole buffer before each encryption and books
\* each eviction at its set under the value of each byte of the message: for
\* every geometry, message length and random order of the lists
\* (dcache.c:43-208).
THEOREM TableCorrect == AlgorithmSpec => []TableExact
<1>1. DcacheInv => TableExact
  BY TableFollows
<1>2. QED
  BY <1>1, AlwaysDcacheInv, PTL

\* The search for a key examines a record only if the samples of this set match
\* often enough, whatever an earlier set has left behind them: for every mask,
\* every length of the records and every threshold (search.h:157-163, 234-240).
THEOREM EvidenceIsOwn == AlgorithmSpec => []OwnEvidence
<1>1. KeyInv => OwnEvidence
  BY DEF KeyInv
<1>2. QED
  BY <1>1, AlwaysKeyInv, PTL

\* No bit that is counted is as long as a gap, unless findend has overwritten
\* the start itself: for every length of a gap and every record
\* (search.h:31-85).
THEOREM BitsOfOneRun == AlgorithmSpec => []OneRun
<1>1. KeyInv => OneRun
  BY DEF KeyInv
<1>2. QED
  BY <1>1, AlwaysKeyInv, PTL

\* The variables of the five algorithms keep their types: no index leaves the
\* histogram, the vlists, the lines of the buffer or the sampled record.
THEOREM AlgorithmTypesCorrect == Tolerable => (AlgorithmSpec => []TypeOK)
<1> SUFFICES ASSUME Tolerable
             PROVE  AlgorithmSpec => []TypeOK
  OBVIOUS
<1>1. TimeInv /\ OverheadInv /\ SetInv /\ DcacheInv /\ KeyInv => TypeOK
  BY TableFollows DEF TypeOK, TimeInv, OverheadInv, OverheadTypes, SetInv, SetTypes,
     KeyInv
<1>2. QED
  BY <1>1, AlwaysTimeInv, AlwaysOverheadInv, AlwaysSetInv, AlwaysDcacheInv, AlwaysKeyInv,
     PTL
=============================================================================
