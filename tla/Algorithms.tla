------------------------------ MODULE Algorithms ------------------------------
(***************************************************************************)
(* The sequential algorithms on measurements: the timing test, the         *)
(* overhead of the clock, the search for the sets of a system call, the    *)
(* D-cache attack's lists, and the search for a key.  They do not          *)
(* interact; task says which of them a behaviour executes.                 *)
(***************************************************************************)
EXTENDS TimeStats, Overheads, KernelSets, DcacheLists, KeySearch

VARIABLE task

algorithmVars == <<task, timeVars, overheadVars, setVars, dcacheVars, keyVars>>

TypeOK == TimeTypeOK /\ OverheadTypeOK /\ SetTypeOK /\ DcacheTypeOK /\ KeyTypeOK

AlgorithmInit ==
  /\ task \in {"timedwalk", "overhead", "search", "dcache", "key"}
  /\ TimeInit /\ (task # "timedwalk" => walk = CHOOSE w \in Walks : TRUE)
  /\ OverheadInit /\ (task # "overhead" => arrays = 1)
  /\ SetInit /\ (task # "search" => foot = CHOOSE f \in Footprints : TRUE)
  /\ DcacheInit /\ KeyInit

AlgorithmNext ==
  /\ UNCHANGED task
  /\ \/ /\ task = "timedwalk" /\ TimeNext
        /\ UNCHANGED <<overheadVars, setVars, dcacheVars, keyVars>>
     \/ /\ task = "overhead" /\ OverheadNext
        /\ UNCHANGED <<timeVars, setVars, dcacheVars, keyVars>>
     \/ /\ task = "search" /\ SetNext
        /\ UNCHANGED <<timeVars, overheadVars, dcacheVars, keyVars>>
     \/ /\ task = "dcache" /\ DcacheNext
        /\ UNCHANGED <<timeVars, overheadVars, setVars, keyVars>>
     \/ /\ task = "key" /\ KeyNext
        /\ UNCHANGED <<timeVars, overheadVars, setVars, dcacheVars>>

AlgorithmSpec == AlgorithmInit /\ [][AlgorithmNext]_algorithmVars
=============================================================================
