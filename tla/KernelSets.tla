------------------------------ MODULE KernelSets ------------------------------
(***************************************************************************)
(* How the LLC spies find the cache sets of three system calls (search,    *)
(* scan and test of low.h), and how they make the three lists disjoint     *)
(* (remove_same_probesets).  The lists are vlists, which grow by doubling. *)
(*                                                                         *)
(* A test probes a set TEST_COUNT times and shifts a bit for each probe    *)
(* into count, which is modelled as the set of the bits that are set, 0    *)
(* being the lowest.  A probe of an undisturbed set finds all lines;       *)
(* FalseHits of a test's probes may be wrong about a quiet set,            *)
(* FalseMisses about one the call (or the test itself) evicts.             *)
(***************************************************************************)
EXTENDS Integers, Sequences, FiniteSets

CONSTANTS
  ProbeSets,      \* number of cache sets the search goes through
  TEST_COUNT,     \* LLC_KERNEL_TEST_COUNT
  VLIST_DEF_SIZE,
  FalseHits, FalseMisses,
  Footprints,     \* the platforms: records [api, own] of evicted sets
  Junk            \* the content of fresh memory

Api == <<"signal", "tcb", "poll">>  \* enum timing_api
ProbeSet == 0..(ProbeSets - 1)

ASSUME KernelSetsAssumption ==
  /\ ProbeSets \in Nat \ {0} /\ TEST_COUNT \in Nat \ {0}
  /\ VLIST_DEF_SIZE \in Nat \ {0}
  /\ FalseHits \in Nat /\ FalseMisses \in Nat
  /\ Junk \notin ProbeSet
  /\ \A f \in Footprints :
       f.api \in [1..3 -> SUBSET ProbeSet] /\ f.own \subseteq ProbeSet

VARIABLES
  foot,    \* foot.api[a]: sets that call a evicts, foot.own: those the test does
  ksPc,    \* "test", "remove", "done"
  a,       \* the call whose sets are searched for
  set,     \* the set under test
  recv,    \* 0: without the system call, 1: with it
  count,   \* the bits of this test
  shifted, \* how many there are
  wrong,   \* history variable: probes of this test that were disturbed
  probed,  \* the three vlists
  pass,    \* 1..3: the calls of remove_same_probesets
  ia, ib   \* its loop indices

setVars ==
  <<foot, ksPc, a, set, recv, count, shifted, wrong, probed, pass, ia, ib>>

-----------------------------------------------------------------------------
(* vlist.c *)

vl_new == [len |-> 0, data |-> [k \in 1..VLIST_DEF_SIZE |-> Junk]]
Elements(vl) == SubSeq(vl.data, 1, vl.len)

\* Mutant: the old array is not copied behind the doubled one's start.
vl_setsizeLost(vl, size) == [vl EXCEPT !.data = [k \in 1..size |-> Junk]]

vl_setsize(vl, size) ==
  [vl EXCEPT !.data = [k \in 1..size |->
                         IF k <= Len(vl.data) THEN vl.data[k] ELSE Junk]]

vl_push(vl, dat) ==
  LET room == IF vl.len = Len(vl.data) THEN vl_setsize(vl, 2 * vl.len) ELSE vl
  IN  [len |-> vl.len + 1, data |-> [room.data EXCEPT ![vl.len + 1] = dat]]

\* Mutant: the last element does not move into the hole.
vl_delHole(vl, ind) == [vl EXCEPT !.len = @ - 1]

\* The last element moves into the hole; indices count from 0.
vl_del(vl, ind) ==
  [len |-> vl.len - 1, data |-> [vl.data EXCEPT ![ind + 1] = vl.data[vl.len]]]

vl_get(vl, ind) == vl.data[ind + 1]

-----------------------------------------------------------------------------
SetTypeOK ==
  /\ foot \in Footprints /\ ksPc \in {"test", "remove", "done"}
  /\ a \in 1..3 /\ set \in ProbeSet /\ recv \in 0..1
  /\ shifted \in 0..TEST_COUNT /\ count \subseteq 0..(shifted - 1)
  /\ wrong \in 0..shifted
  /\ \A x \in 1..3 : Elements(probed[x]) \in Seq(ProbeSet)
  /\ pass \in 1..3 /\ ia \in Nat /\ ib \in Nat

SetInit ==
  /\ foot \in Footprints /\ ksPc = "test"
  /\ a = 1 /\ set = 0 /\ recv = 0
  /\ count = {} /\ shifted = 0 /\ wrong = 0
  /\ probed = [x \in 1..3 |-> vl_new]
  /\ pass = 1 /\ ia = 0 /\ ib = 0

(* search, scan, test *)

\* Does a probe of this test miss, if nothing else disturbs it?
Evicted == set \in foot.own \/ (recv = 1 /\ set \in foot.api[a])

ProbeOnce ==
  /\ ksPc = "test" /\ shifted < TEST_COUNT
  /\ \E miss \in BOOLEAN :
       /\ wrong' = IF miss = Evicted THEN wrong ELSE wrong + 1
       /\ wrong' <= IF Evicted THEN FalseMisses ELSE FalseHits
       /\ count' = {b + 1 : b \in count} \cup (IF miss THEN {0} ELSE {})
  /\ shifted' = shifted + 1
  /\ UNCHANGED <<foot, ksPc, a, set, recv, probed, pass, ia, ib>>

\* Mutant: one bit is enough.
CollisionOne(c) == c # {}

\* Three times the lowest bit is cleared; is there a fourth?
Collision(c) ==
  LET Clear(x) == x \ {y \in x : \A z \in x : y <= z}
  IN  Clear(Clear(Clear(c))) # {}

\* The next set, the next call, or the removal.
NextSet ==
  IF set + 1 < ProbeSets THEN set' = set + 1 /\ UNCHANGED <<ksPc, a>>
  ELSE /\ set' = 0
       /\ IF a < 3 THEN a' = a + 1 /\ UNCHANGED ksPc
                   ELSE ksPc' = "remove" /\ UNCHANGED a

\* Mutant: the answer of the first test is ignored.
EndTestOnce ==
  /\ ksPc = "test" /\ shifted = TEST_COUNT
  /\ count' = {} /\ shifted' = 0 /\ wrong' = 0
  /\ recv' = 1 - recv
  /\ IF recv = 0 THEN UNCHANGED <<ksPc, a, set, probed>>
     ELSE /\ probed' = IF Collision(count)
                       THEN [probed EXCEPT ![a] = vl_push(@, set)] ELSE probed
          /\ NextSet
  /\ UNCHANGED <<foot, pass, ia, ib>>

\* scan: a set the test itself evicts is not taken; neither is one that the
\* system call does not evict.
EndTest ==
  /\ ksPc = "test" /\ shifted = TEST_COUNT
  /\ count' = {} /\ shifted' = 0 /\ wrong' = 0
  /\ IF recv = 0 /\ ~Collision(count)
     THEN recv' = 1 /\ UNCHANGED <<ksPc, a, set, probed>>
     ELSE /\ recv' = 0
          /\ probed' = IF recv = 1 /\ Collision(count)
                       THEN [probed EXCEPT ![a] = vl_push(@, set)] ELSE probed
          /\ NextSet
  /\ UNCHANGED <<foot, pass, ia, ib>>

-----------------------------------------------------------------------------
(* remove_same_probesets(probed[p_a], probed[p_b]), three times *)

PairOf == <<<<1, 2>>, <<2, 3>>, <<1, 3>>>>
pa == PairOf[pass][1]
pb == PairOf[pass][2]

\* The loop goes on at ib + 1, also when an element has moved to ib.
RemoveStep ==
  /\ ksPc = "remove" /\ ia < probed[pa].len /\ ib < probed[pb].len
  /\ probed' = IF vl_get(probed[pa], ia) = vl_get(probed[pb], ib)
               THEN [probed EXCEPT ![pb] = vl_del(@, ib)] ELSE probed
  /\ ib' = ib + 1
  /\ UNCHANGED <<foot, ksPc, a, set, recv, count, shifted, wrong, pass, ia>>

\* The end of one of the two loops, or of both.
RemoveNext ==
  /\ ksPc = "remove" /\ (ia >= probed[pa].len \/ ib >= probed[pb].len)
  /\ ib' = 0
  /\ IF ia < probed[pa].len THEN ia' = ia + 1 /\ UNCHANGED <<ksPc, pass>>
     ELSE /\ ia' = 0
          /\ IF pass < 3 THEN pass' = pass + 1 /\ UNCHANGED ksPc
                         ELSE ksPc' = "done" /\ UNCHANGED pass
  /\ UNCHANGED <<foot, a, set, recv, count, shifted, wrong, probed>>

SetNext == ProbeOnce \/ EndTest \/ RemoveStep \/ RemoveNext

-----------------------------------------------------------------------------
\* What the search relies on: a test is long enough to show four misses of a
\* set the call evicts, and a quiet set has at most three.
Tolerable == FalseMisses + 4 <= TEST_COUNT /\ FalseHits <= 3

Found(x) == {Elements(probed[x])[k] : k \in 1..probed[x].len}

\* A list holds each set that its call, and not the test, evicts, as far as
\* the search has come; disturbed probes change nothing up to three misses of
\* a quiet set, and as many hits as leave four misses.  The removal leaves
\* disjoint lists, and no set is lost: each stays on the first of the lists it
\* was on.
SearchIsExact ==
  /\ \A x \in 1..3 : ksPc = "test" =>
       Found(x) = {s \in foot.api[x] \ foot.own : x < a \/ (x = a /\ s < set)}
  /\ \A x \in 1..3 : probed[x].len = Cardinality(Found(x))
  /\ \A x \in 1..3 : ksPc = "done" =>
       Found(x) = (foot.api[x] \ foot.own) \ UNION {foot.api[y] : y \in 1..(x - 1)}
=============================================================================
