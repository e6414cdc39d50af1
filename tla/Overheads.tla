------------------------------ MODULE Overheads ------------------------------
(***************************************************************************)
(* The overhead of reading the cycle counter, which is measured once and   *)
(* then subtracted from every cost a benchmark records.                    *)
(*                                                                         *)
(* A round of the measurement fills an array with OverheadRuns samples     *)
(* (each the last of a few warmups, which overwrite one another).  Equal   *)
(* samples end the measurement; after OverheadRetries rounds the least     *)
(* sample of the last one is taken.  measure_overhead fills one array; the *)
(* IPC benchmark fills one for a call and one for a reply, and takes the   *)
(* smaller of the two minima.  Cycle counts are unsigned.                  *)
(***************************************************************************)
EXTENDS Integers, FiniteSetsExt

CONSTANTS
  OverheadRuns, OverheadRetries,
  Stub,       \* Stub[d]: cycles of an undisturbed empty measurement, d = 1, 2
  Delay,      \* what an interrupt or a cache miss may add to a sample
  OpTimes,    \* cycles of the operations to be measured
  CycleMod    \* 2 to the width of ccnt_t

ASSUME OverheadsAssumption ==
  /\ OverheadRuns \in Nat \ {0} /\ OverheadRetries \in Nat \ {0}
  /\ Stub \in [1..2 -> Nat] /\ Delay \subseteq Nat /\ OpTimes \subseteq Nat
  /\ CycleMod \in Nat \ {0}
  /\ \A op \in OpTimes, x \in Delay : op + Stub[1] + x < CycleMod

VARIABLES
  arrays,   \* 1 for measure_overhead, 2 for the IPC benchmark
  ovPc,     \* "sample", "check", "choose", "record"
  dest,     \* the array being filled
  round,    \* retries so far
  run,      \* the next sample
  overhead_of, \* overhead_of[d]: the array; local_overhead, call_overhead ...
  overhead, \* what the measurement returns
  cost,     \* the last cost recorded
  elapsed   \* history variable: its operation with its disturbance

overheadVars ==
  <<arrays, ovPc, dest, round, run, overhead_of, overhead, cost, elapsed>>

Run == 0..(OverheadRuns - 1)
Sampled == {Stub[d] + x : d \in 1..2, x \in Delay}

OverheadTypeOK ==
  /\ arrays \in 1..2 /\ dest \in 1..arrays
  /\ ovPc \in {"sample", "check", "choose", "record"}
  /\ round \in 0..(OverheadRetries - 1)
  /\ run \in 0..OverheadRuns
  /\ overhead_of \in [1..2 -> [Run -> {0} \cup Sampled]]
  /\ overhead \in {0} \cup Sampled
  /\ cost \in 0..(CycleMod - 1)
  /\ elapsed \in Nat

OverheadInit ==
  /\ arrays \in 1..2 /\ dest = 1
  /\ ovPc = "sample" /\ round = 0 /\ run = 0
  /\ overhead_of = [d \in 1..2 |-> [r \in Run |-> 0]]
  /\ overhead = 0
  /\ cost = 0 /\ elapsed = 0

-----------------------------------------------------------------------------
\* Mutant: the comparison starts one element late.
stableLate(a) == \A r \in Run \ {0, 1} : a[r] = a[r - 1]

\* overhead_stable, results_stable
stable(a) == \A r \in Run \ {0} : a[r] = a[r - 1]

\* Mutant: the last element is not looked at.
minimumShort(a) == Min({a[r] : r \in Run \ {OverheadRuns - 1}})

\* find_min_overhead, results_min
minimum(a) == Min({a[r] : r \in Run})

Sample ==
  /\ ovPc = "sample"
  /\ \E x \in Delay : overhead_of' = [overhead_of EXCEPT ![dest][run] = Stub[dest] + x]
  /\ run' = run + 1
  /\ ovPc' = IF run' = OverheadRuns THEN "check" ELSE "sample"
  /\ UNCHANGED <<arrays, dest, round, overhead, cost, elapsed>>

\* The end of a round: the samples agree, or there is another try.
Check ==
  /\ ovPc = "check"
  /\ run' = 0
  /\ IF ~stable(overhead_of[dest]) /\ round + 1 < OverheadRetries
     THEN round' = round + 1 /\ ovPc' = "sample" /\ UNCHANGED dest
     ELSE /\ round' = 0
          /\ IF dest < arrays THEN dest' = dest + 1 /\ ovPc' = "sample"
                              ELSE ovPc' = "choose" /\ UNCHANGED dest
  /\ UNCHANGED <<arrays, overhead_of, overhead, cost, elapsed>>

\* measure_overhead: the common value or the least; check_overhead: the
\* smaller minimum of the two arrays.
Choose ==
  /\ ovPc = "choose"
  /\ overhead' =
       IF arrays = 2
       THEN Min({minimum(overhead_of[1]), minimum(overhead_of[2])})
       ELSE IF stable(overhead_of[1]) THEN overhead_of[1][0]
                                      ELSE minimum(overhead_of[1])
  /\ ovPc' = "record"
  /\ UNCHANGED <<arrays, dest, round, run, overhead_of, cost, elapsed>>

\* end - start - overhead, once for each run of the benchmark.
Record ==
  /\ ovPc = "record"
  /\ \E op \in OpTimes, x \in Delay :
       /\ elapsed' = op + x
       /\ cost' = (op + x + Stub[1] - overhead) % CycleMod
  /\ UNCHANGED <<arrays, ovPc, dest, round, run, overhead_of, overhead>>

OverheadNext == Sample \/ Check \/ Choose \/ Record

-----------------------------------------------------------------------------
\* The overhead exceeds no sample of the rounds it is taken from, and is not
\* below what an empty measurement can take.
OverheadIsLeast ==
  ovPc = "record" =>
    /\ \A d \in 1..arrays, r \in Run : overhead <= overhead_of[d][r]
    /\ \E d \in 1..arrays : Stub[d] <= overhead

\* No cost wraps round zero, and none is reported too low, if a single sample
\* of the last round was undisturbed; in measure_overhead's case the cost is
\* then the operation's own time.
CostExact ==
  /\ ovPc = "record"
  /\ \E r \in Run : overhead_of[1][r] = Stub[1]
  => /\ cost >= elapsed
     /\ arrays = 1 => cost = elapsed
     /\ cost <= elapsed + Stub[1]
=============================================================================
