------------------------------ MODULE KeySearch -------------------------------
(***************************************************************************)
(* attack, with which the spy of the multicore side channel looks for a    *)
(* key (search.h).  Every cache set is sampled for a short while; where    *)
(* the record resembles an exponentiation it is sampled again for long,    *)
(* cleaned of noise, cut to one run between two gaps, and the distances    *)
(* between the misses in it are the bits.                                  *)
(*                                                                         *)
(* All sets share one buffer.  A sample is a miss or a hit and may be      *)
(* either, whatever the victim does.                                       *)
(***************************************************************************)
EXTENDS Integers, Sequences, FiniteSets

CONSTANTS
  Targets,        \* pairs of a page offset and a cache set to try
  RECORDLEN, SEARCHLEN, ALLOWEDMISSES, GAPLEN, SPLIT,
  mask,
  MinBits,        \* 100: of either value, for a key
  KeyBits         \* 2000..2100: of both

Miss == "@"
Hit == "."
Nul == "0"
Samples == {Miss, Hit}

ASSUME KeySearchAssumption ==
  /\ Targets \in Nat \ {0} /\ ALLOWEDMISSES \in Nat
  /\ RECORDLEN \in Nat /\ SEARCHLEN \in 1..RECORDLEN
  /\ GAPLEN \in Nat \ {0} /\ SPLIT \in 1..GAPLEN
  /\ mask \in Seq(Samples) /\ mask # <<>>
  /\ MinBits \in Nat /\ KeyBits \subseteq Nat

VARIABLES
  record,  \* the buffer, a string that ends with the first Nul
  target,  \* the cache set being tried
  stage,   \* where attack is in its loop
  start,   \* where findstart found the start of a run
  found

keyVars == <<record, target, stage, start, found>>

RecordPlace == 0..RECORDLEN
Records == [RecordPlace -> Samples \cup {Nul}]

KeyTypeOK ==
  /\ record \in Records /\ record[RECORDLEN] = Nul
  /\ target \in 1..Targets /\ start \in RecordPlace /\ found \in BOOLEAN
  /\ stage \in {"search", "probe", "clean", "cut", "count", "done", "aborted"}

\* record is a global array.
KeyInit ==
  /\ record = [k \in RecordPlace |-> Nul]
  /\ target = 1 /\ stage = "search" /\ start = 0 /\ found = FALSE

-----------------------------------------------------------------------------
(* Scanning the record *)

\* The end of the string at r + k.
End(r, k) ==
  CHOOSE e \in k..RECORDLEN : r[e] = Nul /\ \A j \in k..(e - 1) : r[j] # Nul

Earliest(places) == CHOOSE k \in places : \A j \in places : k <= j

\* A window that reaches the end of its string stays there, which is a
\* mismatch with the rest of the mask.
misses(r, k) ==
  Cardinality({j \in 1..Len(mask) : \/ \E l \in k..(k + j - 1) : r[l] = Nul
                                    \/ r[k + j - 1] # mask[j]})

\* The loop runs to RECORDLEN, past the end of a short string.
matchcount(r) ==
  Cardinality({k \in 0..(RECORDLEN - 1) : misses(r, k) <= ALLOWEDMISSES})

Threshold == ((SEARCHLEN * 2) \div Len(mask)) \div 3

sample(r, s) ==
  [k \in RecordPlace |-> IF k < Len(s) THEN s[k + 1]
                   ELSE IF k = Len(s) THEN Nul ELSE r[k]]

\* The state of cleanup before it reads each place up to the end.
Follow(s, c) ==
  IF c = Miss THEN IF s = "zero" THEN "one" ELSE "oneone"
  ELSE CASE s = "one" -> "onezero"
         [] s = "oneone" -> "oneonezero"
         [] OTHER -> "zero"

States(r) ==
  LET state[k \in 0..End(r, 0)] ==
        IF k = 0 THEN "zero" ELSE Follow(state[k - 1], r[k - 1])
  IN  state

\* A single miss followed by two hits, which erases it.
Lone(r, k) ==
  k + 2 < End(r, 0) /\ States(r)[k + 2] = "onezero" /\ r[k + 2] = Hit

\* Of a burst of misses the first stays.
cleanup(r) ==
  [k \in RecordPlace |->
     IF /\ k < End(r, 0)
        /\ States(r)[k] \in {"one", "oneone", "oneonezero"} \/ Lone(r, k)
     THEN Hit ELSE r[k]]

\* A gap of n hits that ends before k.
Gap(r, k, n) == k >= n /\ \A j \in (k - n)..(k - 1) : r[j] = Hit

Starts(r) == {k \in 0..(End(r, 0) - 1) : r[k] = Miss /\ Gap(r, k, GAPLEN)}

\* Mutant: the gap that ends a run has to be longer.
findendLate(r, s) ==
  LET ends == {k \in (s + 1)..End(r, s) : k > s + GAPLEN + 1 /\ Gap(r, k, GAPLEN + 1)}
  IN  IF ends = {} THEN r
      ELSE [r EXCEPT ![Earliest(ends) - GAPLEN - 1] = Nul]

\* The miss in front of the gap is overwritten, which may be the start itself.
findend(r, s) ==
  LET ends == {k \in (s + 1)..End(r, s) : k > s + GAPLEN /\ Gap(r, k, GAPLEN)}
  IN  IF ends = {} THEN r ELSE [r EXCEPT ![Earliest(ends) - GAPLEN - 1] = Nul]

\* histogram and parse look at the misses behind the start, however the
\* string at the start ends.
BitPlaces(r, s) == {k \in (s + 1)..(End(r, s + 1) - 1) : r[k] = Miss}

\* The number of hits before a miss.
BitLength(r, s, k) ==
  LET before == {j \in s..(k - 1) : j = s \/ r[j] = Miss}
  IN  k - 1 - (CHOOSE j \in before : \A l \in before : l <= j)

-----------------------------------------------------------------------------
(* attack *)

NextTarget ==
  IF target < Targets THEN target' = target + 1 /\ stage' = "search"
  ELSE stage' = "done" /\ UNCHANGED target

Search ==
  /\ stage = "search"
  /\ \E s \in [1..SEARCHLEN -> Samples] : record' = sample(record, s)
  /\ IF matchcount(record') > Threshold THEN stage' = "probe" /\ UNCHANGED target
     ELSE NextTarget
  /\ UNCHANGED <<start, found>>

\* Mutant: the matches of the first sample are tested again.
ProbeStale ==
  /\ stage = "probe"
  /\ \E s \in [1..RECORDLEN -> Samples] : record' = sample(record, s)
  /\ IF matchcount(record) < Threshold THEN NextTarget
     ELSE stage' = "clean" /\ UNCHANGED target
  /\ UNCHANGED <<start, found>>

Probe ==
  /\ stage = "probe"
  /\ \E s \in [1..RECORDLEN -> Samples] : record' = sample(record, s)
  /\ IF matchcount(record') < Threshold THEN NextTarget
     ELSE stage' = "clean" /\ UNCHANGED target
  /\ UNCHANGED <<start, found>>

Clean ==
  /\ stage = "clean"
  /\ record' = cleanup(record)
  /\ stage' = "cut"
  /\ UNCHANGED <<target, start, found>>

\* findstart, assert(start), findend.
Cut ==
  /\ stage = "cut"
  /\ IF Starts(record) = {}
     THEN stage' = "aborted" /\ UNCHANGED <<start, record>>
     ELSE /\ start' = Earliest(Starts(record))
          /\ record' = findend(record, start')
          /\ stage' = "count"
  /\ UNCHANGED <<target, found>>

CountBits ==
  /\ stage = "count"
  /\ LET bits == BitPlaces(record, start)
         low == Cardinality({k \in bits : BitLength(record, start, k) < SPLIT})
         high == Cardinality(bits) - low
     IN  found' = (found \/ (low >= MinBits /\ high >= MinBits
                               /\ low + high \in KeyBits))
  /\ NextTarget
  /\ start' = 0
  /\ UNCHANGED record

KeyNext == Search \/ Probe \/ Clean \/ Cut \/ CountBits

KeySpec == KeyInit /\ [][KeyNext]_keyVars

-----------------------------------------------------------------------------
\* The record of an earlier set stays in the buffer behind a short one, where
\* matchcount goes on; but a record is examined for a key only when matches in
\* the samples of this very set are enough.
OwnEvidence ==
  stage = "clean" =>
    Cardinality({k \in 0..(End(record, 0) - 1) :
                   misses(record, k) <= ALLOWEDMISSES}) >= Threshold

\* The bits of a key are from one run: findend leaves no gap between them.
\* The exception: a run of one miss, whose own place findend overwrites, and
\* behind which histogram then reads on.
OneRun ==
  stage = "count" /\ record[start] # Nul =>
    \A k \in BitPlaces(record, start) : BitLength(record, start, k) < GAPLEN

\* "start cannot be a NULL pointer"
StartFound == stage # "aborted"
=============================================================================
