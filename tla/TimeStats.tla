------------------------------ MODULE TimeStats ------------------------------
(***************************************************************************)
(* The timing test behind the map of the last-level cache: timedwalk and   *)
(* checkevict, on the histogram of timestats.c.  A test takes checkTimes   *)
(* samples of an access and compares one statistic of them, the median on  *)
(* x86 or the 90th percentile on ARM, with L3_THRESHOLD.                   *)
(*                                                                         *)
(* A sample is a number of cycles.  On a quiet machine every sample is     *)
(* CacheTime or MemoryTime; a disturbed one is anything.  The histogram of *)
(* the test before is kept for the next one (lastfree), with its counts.   *)
(***************************************************************************)
EXTENDS Integers, FiniteSetsExt

CONSTANTS
  TIME_MAX,      \* buckets of the histogram
  L3_THRESHOLD,  \* longer accesses go to memory
  CacheTime, MemoryTime, \* what an undisturbed access takes
  OddTimes,      \* what a disturbed access may take
  Walks          \* the callers: records [checkTimes, percentile]

\* A caller that asks for the median has percentile 0.
ASSUME TimeStatsAssumption ==
  /\ TIME_MAX \in Nat /\ L3_THRESHOLD \in Nat /\ OddTimes \subseteq Int
  /\ {CacheTime, MemoryTime} \subseteq 1..(TIME_MAX - 1)
  /\ CacheTime <= L3_THRESHOLD /\ L3_THRESHOLD < MemoryTime
  /\ \A w \in Walks : w.checkTimes \in Nat \ {0} /\ w.percentile \in 0..99

VARIABLES
  walk,      \* the platform's timedwalk; it never changes
  walkPc,    \* "idle", "sampling"
  data,      \* the histogram in use or kept; data[0] counts the outliers
  evicted,   \* the truth: does the list evict the candidate?
  taken,     \* samples taken by this test
  odd,       \* how many of them were disturbed
  atMost,    \* history variable: atMost[b] samples of this test were in 1..b
  time       \* what the last finished test returned

timeVars == <<walk, walkPc, data, evicted, taken, odd, atMost, time>>

Bucket == 0..(TIME_MAX - 1)
Empty == [b \in Bucket |-> 0]

TimeTypeOK ==
  /\ walk \in Walks
  /\ walkPc \in {"idle", "sampling"}
  /\ data \in [Bucket -> 0..walk.checkTimes]
  /\ evicted \in BOOLEAN
  /\ taken \in 0..walk.checkTimes /\ odd \in 0..taken
  /\ atMost \in [Bucket -> 0..taken]
  /\ time \in Bucket

TimeInit ==
  /\ walk \in Walks
  /\ walkPc = "idle"
  /\ data = Empty
  /\ evicted = FALSE
  /\ taken = 0 /\ odd = 0
  /\ atMost = Empty
  /\ time = 0

-----------------------------------------------------------------------------
(* timestats.c *)

\* Mutant: the kept histogram is handed out as it is.
ts_allocKept == UNCHANGED data

\* A kept or a new histogram, cleared.
ts_alloc == data' = Empty

\* Times that do not fit, negative ones among them, count as outliers.
ts_add(tm) == data' = [data EXCEPT ![IF tm \in Bucket THEN tm ELSE 0] = @ + 1]

Count ==
  LET sum[b \in Bucket] == IF b = 0 THEN data[0] ELSE sum[b - 1] + data[b]
  IN  sum[TIME_MAX - 1]

\* left[b]: what is left of c when the buckets 1 to b are taken off.
Exhausts(c) ==
  LET left[b \in Bucket] == IF b = 0 THEN c ELSE left[b - 1] - data[b]
      below == {b \in Bucket \ {0} : left[b] < 0}
  IN  IF below = {} THEN 0 ELSE Min(below)

ts_median == Exhausts((Count + 1) \div 2)

\* Mutant: the remainder of the division is dropped before multiplying.
ts_percentileRounded(p) == Exhausts((Count \div 100) * p)

ts_percentile(p) == Exhausts((Count * p + 50) \div 100)

-----------------------------------------------------------------------------
(* timedwalk *)

WalkBegin ==
  /\ walkPc = "idle"
  /\ ts_alloc
  /\ evicted' \in BOOLEAN
  /\ taken' = 0 /\ odd' = 0
  /\ atMost' = Empty
  /\ walkPc' = "sampling"
  /\ UNCHANGED <<walk, time>>

WalkSample ==
  /\ walkPc = "sampling" /\ taken < walk.checkTimes
  /\ taken' = taken + 1
  /\ LET right == IF evicted THEN MemoryTime ELSE CacheTime
     IN \E tm \in {right} \cup OddTimes :
          /\ ts_add(tm)
          /\ atMost' = [b \in Bucket |-> atMost[b] + IF tm \in 1..b THEN 1 ELSE 0]
          /\ odd' = IF tm = right THEN odd ELSE odd + 1
  /\ UNCHANGED <<walk, walkPc, evicted, time>>

WalkEnd ==
  /\ walkPc = "sampling" /\ taken = walk.checkTimes
  /\ time' = IF walk.percentile = 0 THEN ts_median
             ELSE ts_percentile(walk.percentile)
  /\ walkPc' = "idle"
  /\ UNCHANGED <<walk, data, evicted, taken, odd, atMost>>

checkevict == time > L3_THRESHOLD

TimeNext == WalkBegin \/ WalkSample \/ WalkEnd

-----------------------------------------------------------------------------
Tested == walkPc = "idle" /\ taken > 0

\* How many of the samples the statistic leaves below itself.
Rank == IF walk.percentile = 0 THEN (walk.checkTimes + 1) \div 2
        ELSE (walk.checkTimes * walk.percentile + 50) \div 100

\* The statistic is the sample that exactly Rank ordinary samples of this
\* very test can precede; it is 0 if the outliers leave no such sample.
StatisticIsExact ==
  Tested =>
    IF time = 0 THEN atMost[TIME_MAX - 1] <= Rank
    ELSE atMost[time - 1] <= Rank /\ atMost[time] > Rank

\* The test answers rightly, whatever the disturbed samples measured, as long
\* as they are fewer than the ranks above the statistic and no more than those
\* below: 7 of 16 for the median on x86, 25 of 256 for the percentile on ARM.
Tolerance == Min({Rank, walk.checkTimes - Rank - 1})
VerdictRight == Tested /\ odd <= Tolerance => checkevict = evicted
=============================================================================
