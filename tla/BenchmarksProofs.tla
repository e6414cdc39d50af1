--------------------------- MODULE BenchmarksProofs ---------------------------
(***************************************************************************)
(* What a process works out from first_free is right on every platform and *)
(* for every layout with the holes get_cap_count speaks of; the entry      *)
(* points of the benchmarks set their processes up as that requires; and   *)
(* for every number of runs the results are complete when they are used.   *)
(***************************************************************************)
EXTENDS Benchmarks, FiniteSetTheorems, TLAPS

-----------------------------------------------------------------------------
(* The processes *)

\* The enumeration of get_nth_cap meets every slot below first_free that is
\* not a hole, and nothing else (bench_support.c:178-225).
LEMMA FoundExact ==
  ASSUME NEW ff \in Nat, ff >= FirstFreeSlot,
         platform \in [x86_64: BOOLEAN, rt: BOOLEAN]
  PROVE  CapsFound(ff) = 1..(ff - 1) \ Holes
<1> USE ProcessesAssumption
<1> DEFINE count == get_cap_count(ff)
           slots == 1..(ff - 1) \ Holes
<1>1. /\ platform.x86_64 \in BOOLEAN /\ platform.rt \in BOOLEAN
      /\ AsidPoolSlot \in Nat \ {0} /\ SchedContextSlot \in Nat \ {0}
      /\ AsidPoolSlot + 1 < SchedContextSlot
      /\ FirstFreeSlot \in Nat /\ SchedContextSlot + 1 < FirstFreeSlot
  OBVIOUS
<1>2. ASSUME NEW n \in 0..(count - 1)
      PROVE  get_nth_cap(n) \in slots
  <2>1. CASE platform.x86_64 /\ platform.rt
    BY <1>1, <2>1, SMT DEF get_nth_cap, get_cap_count, Holes
  <2>2. CASE platform.x86_64 /\ ~platform.rt
    BY <1>1, <2>2, SMT DEF get_nth_cap, get_cap_count, Holes
  <2>3. CASE ~platform.x86_64 /\ platform.rt
    BY <1>1, <2>3, SMT DEF get_nth_cap, get_cap_count, Holes
  <2>4. CASE ~platform.x86_64 /\ ~platform.rt
    BY <1>1, <2>4, SMT DEF get_nth_cap, get_cap_count, Holes
  <2>5. QED
    BY <1>1, <2>1, <2>2, <2>3, <2>4
<1>3. ASSUME NEW s \in slots
      PROVE  \E n \in 0..(count - 1) : get_nth_cap(n) = s
  <2> DEFINE a == IF ~platform.rt /\ s > SchedContextSlot THEN s - 2 ELSE s
             n == (IF platform.x86_64 /\ a > AsidPoolSlot THEN a - 1 ELSE a) - 1
  <2>1. CASE platform.x86_64 /\ platform.rt
    <3>1. n \in 0..(count - 1) /\ get_nth_cap(n) = s
      BY <1>1, <2>1, SMT DEF get_nth_cap, get_cap_count, Holes
    <3>2. QED  BY <3>1
  <2>2. CASE platform.x86_64 /\ ~platform.rt
    <3>1. n \in 0..(count - 1) /\ get_nth_cap(n) = s
      BY <1>1, <2>2, SMT DEF get_nth_cap, get_cap_count, Holes
    <3>2. QED  BY <3>1
  <2>3. CASE ~platform.x86_64 /\ platform.rt
    <3>1. n \in 0..(count - 1) /\ get_nth_cap(n) = s
      BY <1>1, <2>3, SMT DEF get_nth_cap, get_cap_count, Holes
    <3>2. QED  BY <3>1
  <2>4. CASE ~platform.x86_64 /\ ~platform.rt
    <3>1. n \in 0..(count - 1) /\ get_nth_cap(n) = s
      BY <1>1, <2>4, SMT DEF get_nth_cap, get_cap_count, Holes
    <3>2. QED  BY <3>1
  <2>5. QED
    BY <1>1, <2>1, <2>2, <2>3, <2>4
<1>4. QED
  BY <1>2, <1>3, Zenon DEF CapsFound

\* Removing a member, in a form the provers instantiate.
LEMMA RemoveMember ==
  ASSUME NEW S, IsFiniteSet(S), NEW x \in S
  PROVE  IsFiniteSet(S \ {x}) /\ Cardinality(S \ {x}) = Cardinality(S) - 1
BY FS_RemoveElement, Zenon

\* The count derived from first_free is the number of these slots.
LEMMA CountExact ==
  ASSUME NEW ff \in Nat, ff >= FirstFreeSlot,
         platform \in [x86_64: BOOLEAN, rt: BOOLEAN]
  PROVE  get_cap_count(ff) = Cardinality(1..(ff - 1) \ Holes)
<1> USE ProcessesAssumption
<1> DEFINE all == 1..(ff - 1)
           pool == IF platform.x86_64 THEN {AsidPoolSlot} ELSE {}
           noPool == all \ pool
           noFirst == noPool \ {SchedContextSlot}
           noSecond == noFirst \ {SchedContextSlot + 1}
<1>1. /\ platform.x86_64 \in BOOLEAN /\ platform.rt \in BOOLEAN
      /\ AsidPoolSlot \in Nat \ {0} /\ SchedContextSlot \in Nat \ {0}
      /\ AsidPoolSlot + 1 < SchedContextSlot
      /\ FirstFreeSlot \in Nat /\ SchedContextSlot + 1 < FirstFreeSlot
  OBVIOUS
<1>2. IsFiniteSet(all) /\ Cardinality(all) = ff - 1
  <2>1. 1 \in Int /\ ff - 1 \in Int /\ ~(1 > ff - 1)
    BY <1>1
  <2>2. /\ IsFiniteSet(all)
        /\ Cardinality(all) = IF 1 > ff - 1 THEN 0 ELSE (ff - 1) - 1 + 1
    BY <2>1, FS_Interval, Zenon
  <2>3. QED
    BY <2>1, <2>2
<1>3. /\ IsFiniteSet(noPool)
      /\ Cardinality(noPool) = ff - 1 - (IF platform.x86_64 THEN 1 ELSE 0)
  <2>1. CASE platform.x86_64
    <3>1. AsidPoolSlot \in all
      BY <1>1
    <3>2. noPool = all \ {AsidPoolSlot}
      BY <2>1
    <3>3. IsFiniteSet(noPool) /\ Cardinality(noPool) = Cardinality(all) - 1
      BY <1>2, <3>1, <3>2, RemoveMember, Zenon
    <3>4. QED
      BY <1>2, <2>1, <3>3
  <2>2. CASE ~platform.x86_64
    <3>1. noPool = all
      BY <2>2
    <3>2. QED
      BY <1>1, <1>2, <2>2, <3>1
  <2>3. QED
    BY <2>1, <2>2
<1>4. /\ IsFiniteSet(noSecond)
      /\ Cardinality(noSecond) = Cardinality(noPool) - 2
  <2>1. SchedContextSlot \in noPool /\ SchedContextSlot + 1 \in noFirst
    BY <1>1
  <2>2. IsFiniteSet(noFirst) /\ Cardinality(noFirst) = Cardinality(noPool) - 1
    BY <1>3, <2>1, RemoveMember, Zenon
  <2>3. IsFiniteSet(noSecond) /\ Cardinality(noSecond) = Cardinality(noFirst) - 1
    BY <2>1, <2>2, RemoveMember, Zenon
  <2>4. Cardinality(noPool) \in Nat
    BY <1>3, FS_CardinalityType
  <2>5. QED
    BY <2>2, <2>3, <2>4
<1>5. all \ Holes = IF platform.rt THEN noPool ELSE noSecond
  BY DEF Holes
<1>6. Cardinality(noPool) \in Int
  BY <1>1, <1>3
<1>7. get_cap_count(ff) = Cardinality(IF platform.rt THEN noPool ELSE noSecond)
  <2> HIDE DEF noPool, noSecond
  <2> DEFINE n == Cardinality(noPool)
  <2> HIDE DEF n
  <2>1. n = ff - 1 - (IF platform.x86_64 THEN 1 ELSE 0) /\ n \in Int
    BY <1>3, <1>6 DEF n
  <2>2. get_cap_count(ff) = n - (IF platform.rt THEN 0 ELSE 2)
    BY <1>1, <2>1 DEF get_cap_count
  <2>3. CASE platform.rt
    <3>1. get_cap_count(ff) = n
      BY <2>1, <2>2, <2>3
    <3>2. QED
      BY <2>3, <3>1 DEF n
  <2>4. CASE ~platform.rt
    <3>1. get_cap_count(ff) = n - 2
      BY <2>2, <2>4
    <3>2. QED
      BY <1>4, <2>4, <3>1 DEF n
  <2>5. QED
    BY <2>3, <2>4
<1>8. QED
  BY <1>5, <1>7, Zenon

\* The two together: slots in order are capabilities the process finds.
LEMMA OrderGivesCaps ==
  ASSUME ProcessesTypeOK, SlotsInOrder
  PROVE  CapsExact
<1>1. SUFFICES ASSUME NEW t \in Process, process[t].running,
                      ~process[t].untype_none
               PROVE  LET p == process[t]
                      IN  /\ CapsFound(p.first_free) = p.caps
                          /\ get_cap_count(p.first_free) = Cardinality(p.caps)
  BY DEF CapsExact
<1>2. platform \in [x86_64: BOOLEAN, rt: BOOLEAN]
  BY DEF ProcessesTypeOK
<1>3. process[t].first_free \in Nat /\ process[t].first_free >= FirstFreeSlot
  BY <1>1 DEF ProcessesTypeOK, ProcessRecord, SlotsInOrder
<1>4. process[t].caps = 1..(process[t].first_free - 1) \ Holes
  BY <1>1 DEF SlotsInOrder
<1>5. QED
  BY <1>2, <1>3, <1>4, FoundExact, CountExact

-----------------------------------------------------------------------------
(* The invariant *)

\* At the beginning there is no process.
LEMMA SetupInit ==
  ProcessesInit => SetupInv
<1>1. SUFFICES ASSUME ProcessesInit PROVE SetupInv
  OBVIOUS
<1>2. NoProcess \in ProcessRecord
  BY DEF NoProcess, ProcessRecord, Buffer
<1>3. ProcessesTypeOK
  BY <1>1, <1>2 DEF ProcessesInit, ProcessesTypeOK
<1>4. SlotsInOrder /\ FramesOfRunning /\ FramesKnown
  BY <1>1 DEF ProcessesInit, NoProcess, SlotsInOrder, FramesOfRunning, FramesKnown
<1>5. QED
  BY <1>3, <1>4 DEF SetupInv

\* SetupInv, for one process at a time.
Slots(p) ==
  p.kernel # NoKernel =>
    p.next >= FirstFreeSlot /\ p.caps = 1..(p.next - 1) \ Holes

Good(p) ==
  /\ Slots(p)
  /\ p.running => /\ p.kernel # NoKernel
                  /\ ~p.untype_none => p.first_free = p.next
  /\ p.known # {} => p.running /\ p.known = p.frames \ {"morecore"}

\* The two ways to say it are the same.
LEMMA InvOfEach ==
  SetupInv <=> ProcessesTypeOK /\ \A t \in Process : Good(process[t])
BY DEF SetupInv, SlotsInOrder, FramesOfRunning, FramesKnown, Good, Slots

\* A step that leaves every process but t alone keeps SetupInv if what it
\* makes of t is good.
LEMMA StepOfOne ==
  ASSUME SetupInv, NEW t \in Process, NEW p \in ProcessRecord, Good(p),
         process' = [process EXCEPT ![t] = p], UNCHANGED <<platform, image>>
  PROVE  SetupInv'
<1>1. Holes' = Holes
  BY DEF Holes
<1>2. ProcessesTypeOK'
  BY DEF SetupInv, ProcessesTypeOK
<1>3. ASSUME NEW u \in Process PROVE Good(process[u])'
  <2>1. process'[u] = IF u = t THEN p ELSE process[u]
    BY DEF SetupInv, ProcessesTypeOK
  <2>2. Good(process'[u])
    BY <2>1, InvOfEach
  <2>3. QED
    BY <1>1, <2>2 DEF Good, Slots
<1>4. QED
  BY <1>2, <1>3 DEF SetupInv, SlotsInOrder, FramesOfRunning, FramesKnown,
                    Good, Slots

\* Copying capabilities goes on where the last copy ended, past all holes.
LEMMA CopiesInOrder ==
  ASSUME platform \in [x86_64: BOOLEAN, rt: BOOLEAN],
         NEW p \in ProcessRecord, p.kernel # NoKernel, Slots(p), NEW n \in Nat
  PROVE  /\ WithCaps(p, n) \in ProcessRecord
         /\ Slots(WithCaps(p, n))
         /\ WithCaps(p, n) = [p EXCEPT !.caps = WithCaps(p, n).caps,
                                       !.next = p.next + n]
<1> DEFINE q == WithCaps(p, n)
<1>1. /\ p.next \in Nat /\ p.caps \subseteq Nat /\ p.next >= FirstFreeSlot
      /\ FirstFreeSlot \in Nat \ {0}
  BY ProcessesAssumption DEF ProcessRecord, Slots
<1>2. q = [p EXCEPT !.caps = p.caps \cup p.next..(p.next + n - 1),
                    !.next = p.next + n]
  BY DEF WithCaps
<1>3. q \in ProcessRecord
  <2>1. p.caps \cup p.next..(p.next + n - 1) \in SUBSET Nat /\ p.next + n \in Nat
    BY <1>1
  <2> DEFINE c == p.caps \cup p.next..(p.next + n - 1)
             m == p.next + n
  <2> HIDE DEF c, m
  <2>2. c \in SUBSET Nat /\ m \in Nat /\ q = [p EXCEPT !.caps = c, !.next = m]
    BY <1>2, <2>1 DEF c, m
  <2> HIDE DEF q
  <2>3. QED
    BY <2>2 DEF ProcessRecord
<1>4. Holes \subseteq 1..(FirstFreeSlot - 1)
  BY ProcessesAssumption DEF Holes
<1>5. p.caps \cup p.next..(p.next + n - 1) = 1..(p.next + n - 1) \ Holes
  BY <1>1, <1>4 DEF Slots
<1>6. Slots(q)
  BY <1>1, <1>2, <1>5 DEF ProcessRecord, Slots
<1>7. QED
  BY <1>2, <1>3, <1>6 DEF ProcessRecord

-----------------------------------------------------------------------------
(* The steps *)

\* A process is created with its slots filled up to the first free one, and
\* two copies.
LEMMA CreateKeeps ==
  ASSUME SetupInv, NEW t \in Process, NEW k \in Kernel, NEW u \in BOOLEAN,
         CreateThread(t, k, u)
  PROVE  SetupInv'
<1> DEFINE c == 1..(FirstFreeSlot - 1) \ Holes
           p == [NoProcess EXCEPT !.kernel = k, !.untype_none = u,
                                 !.frames = {"stack"}, !.caps = c,
                                 !.next = FirstFreeSlot]
           q == WithCaps(p, 2)
<1>1. FirstFreeSlot \in Nat /\ c \in SUBSET Nat
  BY ProcessesAssumption
<1> HIDE DEF c
<1>2. /\ p.kernel = k /\ p.caps = c /\ p.next = FirstFreeSlot
      /\ ~p.running /\ p.known = {}
  BY DEF NoProcess
<1>3. p \in ProcessRecord
  <2>1. NoProcess \in ProcessRecord
    BY DEF NoProcess, ProcessRecord
  <2>2. QED
    BY <1>1, <2>1 DEF ProcessRecord, Buffer
<1> HIDE DEF p
<1>4. p.kernel # NoKernel /\ Slots(p)
  BY <1>1, <1>2, ProcessesAssumption DEF Kernel, Slots, c
<1>5. platform \in [x86_64: BOOLEAN, rt: BOOLEAN]
  BY DEF SetupInv, ProcessesTypeOK
<1>6. /\ q \in ProcessRecord /\ Slots(q)
      /\ q = [p EXCEPT !.caps = q.caps, !.next = p.next + 2]
  BY <1>3, <1>4, <1>5, CopiesInOrder
<1>7. ~q.running /\ q.known = {}
  <2> HIDE DEF q
  <2>1. QED
    BY <1>2, <1>3, <1>6 DEF ProcessRecord
<1>8. Good(q)
  BY <1>6, <1>7 DEF Good
<1>9. process' = [process EXCEPT ![t] = q] /\ UNCHANGED <<platform, image>>
  BY DEF CreateThread, p, c
<1>10. QED
  BY <1>6, <1>8, <1>9, StepOfOne, Zenon

\* Copies happen before the process runs.
LEMMA CopyKeeps ==
  ASSUME SetupInv, NEW t \in Process, Fresh(t), NEW n \in Nat, CopyCaps(t, n)
  PROVE  SetupInv'
<1> DEFINE p == process[t]
           q == WithCaps(p, n)
<1>1. /\ p \in ProcessRecord /\ Good(p) /\ p.kernel # NoKernel
      /\ ~p.running /\ p.known = {}
      /\ platform \in [x86_64: BOOLEAN, rt: BOOLEAN]
  BY InvOfEach DEF SetupInv, ProcessesTypeOK, Fresh, Good
<1>2. Slots(p)
  BY <1>1 DEF Good
<1>3. /\ q \in ProcessRecord /\ Slots(q)
      /\ q = [p EXCEPT !.caps = q.caps, !.next = p.next + n]
  BY <1>1, <1>2, CopiesInOrder
<1>4. ~q.running /\ q.known = {}
  <2> HIDE DEF p, q
  <2>1. QED
    BY <1>1, <1>3 DEF ProcessRecord
<1>5. Good(q)
  BY <1>3, <1>4 DEF Good
<1>6. process' = [process EXCEPT ![t] = q] /\ UNCHANGED <<platform, image>>
  BY DEF CopyCaps
<1> HIDE DEF q
<1>7. QED
  BY <1>3, <1>5, <1>6, StepOfOne, Zenon

\* The first_free a process is given is the slot after the last copy.
LEMMA LaunchKeeps ==
  ASSUME SetupInv, NEW t \in Process, Fresh(t), LaunchThread(t)
  PROVE  SetupInv'
<1> DEFINE o == process[t]
           p == IF o.untype_none THEN o ELSE WithCaps(o, UntypeCount)
           f == IF p.untype_none THEN 0 ELSE p.next
           q == [p EXCEPT !.running = TRUE, !.frames = @ \cup {"args"},
                          !.first_free = f]
<1>1. /\ o \in ProcessRecord /\ Good(o) /\ o.kernel # NoKernel
      /\ o.known = {} /\ platform \in [x86_64: BOOLEAN, rt: BOOLEAN]
  BY InvOfEach DEF SetupInv, ProcessesTypeOK, Fresh, Good
<1>2. Slots(o)
  BY <1>1 DEF Good
<1>3. process' = [process EXCEPT ![t] = q] /\ UNCHANGED <<platform, image>>
  BY DEF LaunchThread
<1> HIDE DEF o
<1>4. /\ p \in ProcessRecord /\ Slots(p)
      /\ p.kernel # NoKernel /\ p.known = {}
  <2>1. CASE o.untype_none
    BY <1>1, <1>2, <2>1
  <2>2. CASE ~o.untype_none
    <3> DEFINE w == WithCaps(o, UntypeCount)
    <3>1. UntypeCount \in Nat
      BY ProcessesAssumption
    <3>2. /\ w \in ProcessRecord /\ Slots(w)
          /\ w = [o EXCEPT !.caps = w.caps, !.next = o.next + UntypeCount]
      BY <1>1, <1>2, <3>1, CopiesInOrder
    <3>3. p = w
      BY <2>2
    <3> HIDE DEF w, p
    <3>4. QED
      BY <1>1, <3>2, <3>3 DEF ProcessRecord
  <2>3. QED
    BY <2>1, <2>2
<1> HIDE DEF p
<1>5. f \in Nat
  BY <1>4 DEF ProcessRecord
<1>6. q \in ProcessRecord
  <2> HIDE DEF f
  <2>1. p.frames \cup {"args"} \in SUBSET Buffer
    BY <1>4 DEF ProcessRecord, Buffer
  <2>2. QED
    BY <1>4, <1>5, <2>1 DEF ProcessRecord
<1>7. Good(q)
  BY <1>4 DEF ProcessRecord, Good, Slots
<1> HIDE DEF q
<1>8. QED
  BY <1>3, <1>6, <1>7, StepOfOne, Zenon

\* Buffers are mapped before the process runs, and so before it knows any.
LEMMA MapKeeps ==
  ASSUME SetupInv, NEW t \in Process, Fresh(t),
         NEW buffer \in Buffer, MapBuf(t, buffer)
  PROVE  SetupInv'
<1> DEFINE p == process[t]
           q == [p EXCEPT !.frames = @ \cup {buffer}]
<1>1. /\ p \in ProcessRecord /\ Good(p) /\ p.known = {}
      /\ process' = [process EXCEPT ![t] = q] /\ UNCHANGED <<platform, image>>
  BY InvOfEach DEF SetupInv, ProcessesTypeOK, Fresh, Good, MapBuf
<1> HIDE DEF p
<1>2. q \in ProcessRecord /\ Good(q)
  BY <1>1 DEF ProcessRecord, Good, Slots
<1> HIDE DEF q
<1>3. QED
  BY <1>1, <1>2, StepOfOne, Zenon

\* A shared buffer is mapped into both processes before either runs.
LEMMA MapSharedKeeps ==
  ASSUME SetupInv, NEW owner \in Process, NEW share \in Process,
         Fresh(owner), Fresh(share), MapSharedBuf(owner, share)
  PROVE  SetupInv'
<1> DEFINE p(t) == [process[t] EXCEPT !.frames = @ \cup {"shared"}]
<1>1. UNCHANGED <<platform, image>> /\ Holes' = Holes
  BY DEF MapSharedBuf, Holes
<1>2. ASSUME NEW t \in Process
      PROVE  /\ process[t] \in ProcessRecord /\ Good(process[t])
             /\ t \in {owner, share} => process[t].known = {}
  BY InvOfEach DEF SetupInv, ProcessesTypeOK, Fresh, Good
<1>3. process' = [t \in Process |-> IF t \in {owner, share} THEN p(t)
                                   ELSE process[t]]
  <2>1. process = [t \in Process |-> process[t]]
    BY DEF SetupInv, ProcessesTypeOK
  <2>2. ASSUME NEW t \in Process
        PROVE  process'[t] = IF t \in {owner, share} THEN p(t) ELSE process[t]
    <3>1. process[t] \in ProcessRecord
      BY <1>2
    <3>2. QED
      BY <2>1, <3>1 DEF MapSharedBuf, ProcessRecord
  <2>3. QED
    BY <2>1, <2>2 DEF MapSharedBuf
<1>4. ASSUME NEW t \in {owner, share}
      PROVE  p(t) \in ProcessRecord /\ Good(p(t))
  BY <1>2 DEF ProcessRecord, Buffer, Good, Slots
<1> HIDE DEF p
<1>5. ProcessesTypeOK'
  BY <1>1, <1>2, <1>3, <1>4 DEF SetupInv, ProcessesTypeOK
<1>6. \A t \in Process : Good(process'[t])
  BY <1>2, <1>3, <1>4
<1>7. QED
  BY <1>1, <1>5, <1>6 DEF SetupInv, SlotsInOrder, FramesOfRunning, FramesKnown,
                          Good, Slots

\* A process that runs has all the buffers it will ever have.
LEMMA InitEnvKeeps ==
  ASSUME SetupInv, NEW t \in Process, process[t].running, BenchInitEnv(t)
  PROVE  SetupInv'
<1> DEFINE p == process[t]
           known == IF p.untype_none THEN {}
                    ELSE p.frames \cap {"args", "stack", "shared", "record"}
           q == [p EXCEPT !.known = known]
<1>1. /\ p \in ProcessRecord /\ Good(p) /\ p.running
      /\ process' = [process EXCEPT ![t] = q] /\ UNCHANGED <<platform, image>>
  BY InvOfEach DEF SetupInv, ProcessesTypeOK, BenchInitEnv
<1> HIDE DEF p
<1>2. /\ known \in SUBSET Buffer
      /\ known # {} => known = p.frames \ {"morecore"}
  BY <1>1 DEF ProcessRecord, Buffer
<1> HIDE DEF known
<1>3. q \in ProcessRecord /\ Good(q)
  BY <1>1, <1>2 DEF ProcessRecord, Good, Slots
<1> HIDE DEF q
<1>4. QED
  BY <1>1, <1>3, StepOfOne, Zenon

\* A process keeps its capabilities when its kernel changes.
LEMMA SetKernelKeeps ==
  ASSUME SetupInv, NEW t \in Process, NEW k \in Kernel,
         process[t].kernel # NoKernel, SetKernel(t, k)
  PROVE  SetupInv'
<1> DEFINE p == process[t]
           q == [p EXCEPT !.kernel = IF Live(k) THEN k ELSE @]
<1>1. /\ p \in ProcessRecord /\ Good(p) /\ p.kernel # NoKernel
      /\ process' = [process EXCEPT ![t] = q] /\ UNCHANGED <<platform, image>>
  BY InvOfEach DEF SetupInv, ProcessesTypeOK, SetKernel
<1>2. k # NoKernel
  BY ProcessesAssumption DEF Kernel
<1> HIDE DEF p
<1>3. q \in ProcessRecord /\ Good(q)
  BY <1>1, <1>2 DEF ProcessRecord, Good, Slots
<1> HIDE DEF q
<1>4. QED
  BY <1>1, <1>3, StepOfOne, Zenon

\* Cloning and destroying images leaves the processes alone.
LEMMA ImageKeeps ==
  ASSUME SetupInv, NEW k \in Image, CreateKi(k) \/ DestroyKi(k)
  PROVE  SetupInv'
<1>1. UNCHANGED <<platform, process>> /\ Holes' = Holes
  BY DEF CreateKi, DestroyKi, Holes
<1>2. ProcessesTypeOK'
  BY <1>1 DEF SetupInv, ProcessesTypeOK, CreateKi, DestroyKi
<1>3. QED
  BY <1>1, <1>2 DEF SetupInv, SlotsInOrder, FramesOfRunning, FramesKnown

-----------------------------------------------------------------------------
(* The theorems *)

\* One step per action of the protocol.
LEMMA SetupStepKeeps ==
  SetupInv /\ [Setup]_processVars => SetupInv'
<1>1. SUFFICES ASSUME SetupInv, [Setup]_processVars PROVE SetupInv'
  OBVIOUS
<1>2. CASE UNCHANGED processVars
  BY <1>1, <1>2 DEF processVars, SetupInv, ProcessesTypeOK, SlotsInOrder, Holes,
                    FramesOfRunning, FramesKnown
<1>3. ASSUME NEW k \in Image, CreateKi(k) \/ DestroyKi(k) PROVE SetupInv'
  BY <1>1, <1>3, ImageKeeps
<1>4. ASSUME NEW t \in Process, NEW k \in Kernel,
             process[t].kernel # NoKernel, SetKernel(t, k)
      PROVE  SetupInv'
  BY <1>1, <1>4, SetKernelKeeps
<1>5. ASSUME NEW t \in Process, NEW k \in Kernel, NEW u \in BOOLEAN,
             CreateThread(t, k, u)
      PROVE  SetupInv'
  BY <1>1, <1>5, CreateKeeps
<1>6. ASSUME NEW t \in Process, Fresh(t), NEW n \in {1, TimerCaps}, CopyCaps(t, n)
      PROVE  SetupInv'
  <2>1. n \in Nat
    BY ProcessesAssumption
  <2>2. QED
    BY <1>1, <1>6, <2>1, CopyKeeps
<1>7. ASSUME NEW t \in Process, Fresh(t), NEW buffer \in {"record", "morecore"},
             MapBuf(t, buffer)
      PROVE  SetupInv'
  <2>1. buffer \in Buffer
    BY DEF Buffer
  <2>2. QED
    BY <1>1, <1>7, <2>1, MapKeeps
<1>8. ASSUME NEW t \in Process, Fresh(t), LaunchThread(t) PROVE SetupInv'
  BY <1>1, <1>8, LaunchKeeps
<1>9. ASSUME NEW owner \in Process, NEW share \in Process,
             Fresh(owner), Fresh(share), MapSharedBuf(owner, share)
      PROVE  SetupInv'
  BY <1>1, <1>9, MapSharedKeeps
<1>10. ASSUME NEW t \in Process, process[t].running, BenchInitEnv(t)
       PROVE  SetupInv'
  BY <1>1, <1>10, InitEnvKeeps
<1>11. QED
  BY <1>1, <1>2, <1>3, <1>4, <1>5, <1>6, <1>7, <1>8, <1>9, <1>10, Zenon DEF Setup

\* Whatever the entry points do within the protocol, processes stay well-formed,
\* their slots in order and their buffers known.
THEOREM SetupInvariant == SetupSpec => []SetupInv
<1>1. ProcessesInit => SetupInv
  BY SetupInit
<1>2. SetupInv /\ [Setup]_processVars => SetupInv'
  BY SetupStepKeeps
<1>3. QED
  BY <1>1, <1>2, PTL DEF SetupSpec

\* Every process that is set up in this order, whatever the entry point copies
\* and maps, enumerates exactly its own capabilities (bench_support.c:178-225,
\* launch_thread).
THEOREM SetupCapsExact == SetupSpec => []CapsExact
<1>1. SetupInv => CapsExact
  BY OrderGivesCaps DEF SetupInv
<1>2. QED
  BY <1>1, SetupInvariant, PTL

\* A process that has initialised itself goes on knowing every buffer mapped to
\* it (bench_support.c:76-139): nothing is mapped to a running process.
THEOREM SetupFramesKnown == SetupSpec => []FramesKnown
<1>1. SetupInv => FramesKnown
  BY DEF SetupInv
<1>2. QED
  BY <1>1, SetupInvariant, PTL

-----------------------------------------------------------------------------
(* The programs *)

\* The program of the configuration's benchmark, named.
LEMMA ProgramOf ==
  ASSUME NEW c \in Config
  PROVE  LET multi == c.bench = "funcMulti"
             K == CreateKernelPd(c.kernels)
             P == Programs[c]
         IN  /\ c.bench = "ipc" =>
                  /\ P[A] = InitEnv \o IpcCaller /\ P[B] = InitEnv \o IpcReplier
                  /\ P[Root] = K \o LaunchBenchFlush(c.kernels)
             /\ c.bench \in {"func", "funcMulti"} =>
                  /\ P[A] = InitEnv \o FuncsSender(multi)
                  /\ P[B] = InitEnv \o FuncsReceiver(multi)
                  /\ P[Root] = K \o FuncTest(c.kernels, multi)
             /\ c.bench = "flush" =>
                  /\ P[A] = InitEnv \o CacheFlush /\ P[B] = InitEnv \o BenchIdle
                  /\ P[Root] = K \o LaunchBenchFlush(c.kernels)
             /\ c.bench = "flushOnly" =>
                  /\ P[A] = InitEnv \o CacheFlushOnly /\ P[B] = InitEnv \o BenchIdle
                  /\ P[Root] = K \o LaunchBenchFlush(c.kernels)
             /\ c.bench = "splash" =>
                  /\ P[A] = InitEnv \o Splash /\ P[B] = InitEnv \o BenchIdle
                  /\ P[Root] = K \o LaunchBenchSplash(c.kernels)
             /\ c.bench = "mastik" =>
                  /\ P[A] = InitEnv \o MastikSpy /\ P[B] = InitEnv \o <<>>
                  /\ P[Root] = K \o (InitTimingThreads(c.kernels) \o RunMulti)
<1> DEFINE p == BenchPrograms(c.bench, c.kernels)
           K == CreateKernelPd(c.kernels)
<1>1. /\ Programs[c][A] = InitEnv \o p[1] /\ Programs[c][B] = InitEnv \o p[2]
      /\ Programs[c][Root] = K \o p[3]
  BY BenchmarksAssumption, Zenon DEF Programs
<1>2. CASE c.bench = "ipc"
  <2>1. p = <<IpcCaller, IpcReplier, LaunchBenchFlush(c.kernels)>>
    BY <1>2 DEF BenchPrograms
  <2> HIDE DEF p
  <2>2. QED
    BY <1>1, <1>2, <2>1
<1>3. CASE c.bench \in {"func", "funcMulti"}
  <2> DEFINE multi == c.bench = "funcMulti"
  <2>1. p = <<FuncsSender(multi), FuncsReceiver(multi),
              FuncTest(c.kernels, multi)>>
    BY <1>3 DEF BenchPrograms
  <2>2. QED
    BY <1>1, <1>3, <2>1
<1>4. CASE c.bench = "flush"
  <2>1. p = <<CacheFlush, BenchIdle, LaunchBenchFlush(c.kernels)>>
    BY <1>4 DEF BenchPrograms
  <2> HIDE DEF p
  <2>2. QED
    BY <1>1, <1>4, <2>1
<1>5. CASE c.bench = "flushOnly"
  <2>1. p = <<CacheFlushOnly, BenchIdle, LaunchBenchFlush(c.kernels)>>
    BY <1>5 DEF BenchPrograms
  <2> HIDE DEF p
  <2>2. QED
    BY <1>1, <1>5, <2>1
<1>6. CASE c.bench = "splash"
  <2>1. p = <<Splash, BenchIdle, LaunchBenchSplash(c.kernels)>>
    BY <1>6 DEF BenchPrograms
  <2> HIDE DEF p
  <2>2. QED
    BY <1>1, <1>6, <2>1
<1>7. CASE c.bench = "mastik"
  <2>1. p = <<MastikSpy, <<>>, InitTimingThreads(c.kernels) \o RunMulti>>
    BY <1>7 DEF BenchPrograms
  <2> HIDE DEF p
  <2>2. QED
    BY <1>1, <1>7, <2>1
<1>8. QED
  BY <1>2, <1>3, <1>4, <1>5, <1>6, <1>7 DEF Config, Bench

\* The statements op with an argument out of args.
Statements(ops, args) == [op: ops, arg: args]

\* A loop's statements are those of its body, in order.
LEMMA LoopBody ==
  ASSUME NEW n \in Nat, NEW S, NEW body \in Seq(S), Len(body) > 0
  PROVE  /\ Repeat(n, body) \in Seq(S)
         /\ Len(Repeat(n, body)) = n * Len(body)
         /\ \A k \in 1..(n * Len(body)) :
              /\ ((k - 1) % Len(body)) + 1 \in 1..Len(body)
              /\ Repeat(n, body)[k] = body[((k - 1) % Len(body)) + 1]
<1>1. n * Len(body) \in Nat
  BY SMT
<1>2. \A k \in 1..(n * Len(body)) : ((k - 1) % Len(body)) + 1 \in 1..Len(body)
  <2>1. \A l \in Nat \ {0}, j \in Nat : (j % l) + 1 \in 1..l
    BY SMT
  <2> DEFINE l == Len(body)
             all == n * l
  <2>2. l \in Nat \ {0} /\ all \in Nat
    BY <1>1
  <2> HIDE DEF l, all
  <2>3. \A k \in 1..all : k - 1 \in Nat
    BY <2>2
  <2>4. \A k \in 1..all : ((k - 1) % l) + 1 \in 1..l
    BY <2>1, <2>2, <2>3
  <2>5. QED
    BY <2>4 DEF l, all
<1>3. \A k \in 1..(n * Len(body)) : body[((k - 1) % Len(body)) + 1] \in S
  BY <1>2
<1>4. QED
  BY <1>1, <1>2, <1>3 DEF Repeat

\* Two sequences in a row.
LEMMA InRow ==
  ASSUME NEW S, NEW T, NEW p \in Seq(S), NEW q \in Seq(T)
  PROVE  /\ p \o q \in Seq(S \cup T)
         /\ Len(p \o q) = Len(p) + Len(q)
         /\ \A k \in 1..Len(p) : (p \o q)[k] = p[k]
         /\ \A k \in 1..Len(q) : (p \o q)[Len(p) + k] = q[k]
BY SMT

\* What A and B may do when their programs end.
AStatements ==
  Statements({"init", "call", "write", "slice", "yield", "attack"}, {syn_ep}) \cup
  Statements({"send", "recv"}, {syn_ep, a_ep})

BStatements ==
  Statements({"init", "replyRecv", "tick"}, {syn_ep}) \cup
  Statements({"send"}, {b_ep}) \cup Statements({"recv"}, {syn_ep, b_ep})

\* s is where the program P reports on ep, after which it only listens.
ReportsAt(P, s, ep) ==
  /\ s \in 1..Len(P) /\ P[s] = [op |-> "send", arg |-> ep]
  /\ \A k \in 1..Len(P) :
       /\ P[k].op = "send" /\ P[k].arg = ep => k = s
       /\ k > s => P[k].op = "recv"

\* A program that reports once, in the form the benchmarks have.
LEMMA OneReport ==
  ASSUME NEW ep \in {a_ep, b_ep}, NEW S, NEW pre \in Seq(S), NEW post \in Seq(S),
         \A x \in S : ~(x.op = "send" /\ x.arg = ep),
         \A k \in 1..Len(post) : post[k].op = "recv"
  PROVE  LET P == InitEnv \o (pre \o Send(ep) \o post)
         IN  ReportsAt(P, Len(pre) + 2, ep) /\ Len(P) = Len(pre) + 2 + Len(post)
<1> DEFINE P == InitEnv \o (pre \o Send(ep) \o post)
           s == Len(pre) + 2
<1>1. /\ Len(P) = s + Len(post) /\ Len(pre) \in Nat /\ Len(post) \in Nat
      /\ P[1] = [op |-> "init", arg |-> syn_ep]
      /\ P[s] = [op |-> "send", arg |-> ep]
      /\ \A k \in 2..(s - 1) : P[k] = pre[k - 1]
      /\ \A k \in (s + 1)..Len(P) : P[k] = post[k - s]
  BY SMT DEF InitEnv, Send, Do
<1> HIDE DEF P
<1>2. \A k \in 2..(s - 1) : P[k] \in S
  BY <1>1
<1>3. \A k \in (s + 1)..Len(P) : P[k].op = "recv"
  BY <1>1
<1>4. s \in 1..Len(P) /\ a_ep # syn_ep /\ b_ep # syn_ep
  BY <1>1, BenchmarksAssumption
<1>5. ASSUME NEW k \in 1..Len(P)
      PROVE  /\ P[k].op = "send" /\ P[k].arg = ep => k = s
             /\ k > s => P[k].op = "recv"
  <2>1. k = 1 \/ k \in 2..(s - 1) \/ k = s \/ k \in (s + 1)..Len(P)
    BY <1>1
  <2>2. CASE k = 1
    BY <1>1, <2>2
  <2>3. CASE k \in 2..(s - 1)
    BY <1>1, <1>2, <2>3
  <2>4. CASE k = s
    BY <1>1, <2>4
  <2>5. CASE k \in (s + 1)..Len(P)
    BY <1>1, <1>3, <2>5
  <2>6. QED
    BY <2>1, <2>2, <2>3, <2>4, <2>5
<1>6. ReportsAt(P, s, ep)
  BY <1>1, <1>4, <1>5 DEF ReportsAt
<1>7. QED
  BY <1>1, <1>6 DEF P

\* A program without a last statement, for OneReport.
LEMMA NothingMore ==
  ASSUME NEW S, NEW p \in Seq(S)
  PROVE  p \o <<>> = p
BY SMT

\* A program is also one over more statements.
LEMMA MoreStatements ==
  ASSUME NEW S, NEW T, S \subseteq T, NEW p \in Seq(S)
  PROVE  p \in Seq(T)
OBVIOUS

\* A loop around one statement.
LEMMA LoopOne ==
  ASSUME NEW n \in Nat, NEW x
  PROVE  /\ Repeat(n, <<x>>) \in Seq({x}) /\ Len(Repeat(n, <<x>>)) = n
         /\ \A k \in 1..n : Repeat(n, <<x>>)[k] = x
<1>1. n * Len(<<x>>) = n
  BY SMT
<1>2. \A k \in 1..n : ((k - 1) % Len(<<x>>)) + 1 = 1
  BY SMT
<1>3. Repeat(n, <<x>>) = [k \in 1..n |-> x]
  BY <1>1, <1>2 DEF Repeat
<1>4. QED
  BY <1>3

\* A's program in the round trip benchmark.
LEMMA CallerProgram ==
  LET P == InitEnv \o IpcCaller
      body == Repeat(Warmups, Call(syn_ep)) \o Send(syn_ep) \o Write
  IN  /\ P \in Seq(AStatements) /\ ReportsAt(P, Runs * (Warmups + 2) + 2, a_ep)
      /\ body \in Seq(Statements({"call", "send", "write"}, {syn_ep}))
      /\ Len(body) = Warmups + 2
      /\ \A k \in 1..Warmups : body[k] = [op |-> "call", arg |-> syn_ep]
      /\ body[Warmups + 1] = [op |-> "send", arg |-> syn_ep]
      /\ body[Warmups + 2] = [op |-> "write", arg |-> syn_ep]
      /\ Len(P) = Runs * (Warmups + 2) + 3
      /\ P = InitEnv \o (Repeat(Runs, body) \o Send(a_ep) \o Recv(syn_ep))
<1> DEFINE S == Statements({"call", "send", "write"}, {syn_ep})
           calls == Repeat(Warmups, Call(syn_ep))
           body == calls \o Send(syn_ep) \o Write
           loop == Repeat(Runs, body)
           P == InitEnv \o (loop \o Send(a_ep) \o Recv(syn_ep))
<1>1. Runs \in Nat /\ Warmups \in Nat /\ syn_ep # a_ep
  BY BenchmarksAssumption
<1>2. calls = Repeat(Warmups, <<[op |-> "call", arg |-> syn_ep]>>)
  BY DEF Call, Do
<1>3. /\ calls \in Seq(S) /\ Len(calls) = Warmups
      /\ \A k \in 1..Warmups : calls[k] = [op |-> "call", arg |-> syn_ep]
  <2> DEFINE x == [op |-> "call", arg |-> syn_ep]
  <2>1. {x} \subseteq S
    BY DEF Statements
  <2> HIDE DEF S, x, calls
  <2>2. /\ calls \in Seq({x}) /\ Len(calls) = Warmups
        /\ \A k \in 1..Warmups : calls[k] = x
    BY <1>1, <1>2, LoopOne DEF x
  <2>3. calls \in Seq(S)
    BY <2>1, <2>2, MoreStatements
  <2>4. QED
    BY <2>2, <2>3 DEF x
<1>4. /\ body \in Seq(S) /\ Len(body) = Warmups + 2
      /\ \A k \in 1..Warmups : body[k] = [op |-> "call", arg |-> syn_ep]
      /\ body[Warmups + 1] = [op |-> "send", arg |-> syn_ep]
      /\ body[Warmups + 2] = [op |-> "write", arg |-> syn_ep]
  <2> HIDE DEF calls
  <2>1. /\ Len(body) = Warmups + 2
        /\ \A k \in 1..Warmups : body[k] = calls[k]
        /\ body[Warmups + 1] = [op |-> "send", arg |-> syn_ep]
        /\ body[Warmups + 2] = [op |-> "write", arg |-> syn_ep]
    BY <1>1, <1>3, SMT DEF Send, Write, Do
  <2>2. Send(syn_ep) \in Seq(S) /\ Write \in Seq(S)
    BY DEF Send, Write, Do, Statements
  <2>3. body \in Seq(S)
    BY <1>3, <2>2 
  <2>4. QED
    BY <1>3, <2>1, <2>3
<1> HIDE DEF body
<1>5. /\ loop \in Seq(S) /\ Len(loop) = Runs * (Warmups + 2)
  <2> HIDE DEF S
  <2>1. body \in Seq(S) /\ Len(body) > 0 /\ Len(body) = Warmups + 2
    BY <1>1, <1>4
  <2>2. loop \in Seq(S) /\ Len(loop) = Runs * Len(body)
    BY <1>1, <2>1, LoopBody
  <2>3. QED
    BY <2>1, <2>2
<1>6. /\ Recv(syn_ep) \in Seq(S \cup Statements({"recv"}, {syn_ep}))
      /\ Recv(syn_ep)[1].op = "recv" /\ Len(Recv(syn_ep)) = 1
      /\ loop \in Seq(S \cup Statements({"recv"}, {syn_ep}))
  <2> DEFINE T == S \cup Statements({"recv"}, {syn_ep})
  <2>1. Recv(syn_ep) \in Seq(T) /\ Recv(syn_ep)[1].op = "recv"
        /\ Len(Recv(syn_ep)) = 1
    BY DEF Recv, Do, Statements
  <2>2. S \subseteq T
    OBVIOUS
  <2> HIDE DEF S, T
  <2>3. loop \in Seq(T)
    BY <1>5, <2>2, MoreStatements
  <2>4. QED
    BY <2>1, <2>3 DEF T
<1>7. P = InitEnv \o IpcCaller
  BY DEF IpcCaller, body
<1>8. /\ ReportsAt(P, Len(loop) + 2, a_ep)
      /\ Len(P) = Len(loop) + 3
  <2> DEFINE T == S \cup Statements({"recv"}, {syn_ep})
             r == Recv(syn_ep)
  <2>1. \A x \in T : ~(x.op = "send" /\ x.arg = a_ep)
    BY <1>1 DEF Statements
  <2> HIDE DEF S, T, loop, r
  <2>2. r \in Seq(T) /\ loop \in Seq(T) /\ \A k \in 1..Len(r) : r[k].op = "recv"
    BY <1>6 DEF T, r
  <2>3. /\ ReportsAt(InitEnv \o (loop \o Send(a_ep) \o r), Len(loop) + 2, a_ep)
        /\ Len(InitEnv \o (loop \o Send(a_ep) \o r)) = Len(loop) + 2 + Len(r)
    BY <2>1, <2>2, OneReport
  <2>4. Len(loop) \in Nat /\ Len(r) = 1
    BY <1>6, <2>2 DEF r
  <2>5. QED
    BY <2>3, <2>4 DEF r
<1>9. P \in Seq(AStatements)
  <2>1. loop \in Seq(AStatements)
    <3>1. S \subseteq AStatements
      BY DEF AStatements, Statements
    <3> HIDE DEF S
    <3>2. QED
      BY <1>5, <3>1, MoreStatements
  <2>2. InitEnv \in Seq(AStatements) /\ Send(a_ep) \in Seq(AStatements)
        /\ Recv(syn_ep) \in Seq(AStatements)
    BY DEF InitEnv, Send, Recv, Do, AStatements, Statements
  <2> HIDE DEF loop
  <2>3. QED
    BY <2>1, <2>2
<1>10. QED
  BY <1>4, <1>5, <1>7, <1>8, <1>9 DEF body

\* Concatenation is associative.
LEMMA Grouping ==
  ASSUME NEW S, NEW p \in Seq(S), NEW q \in Seq(S), NEW r \in Seq(S)
  PROVE  p \o (q \o r) = (p \o q) \o r
BY SMT

\* Two sequences over the same statements.
LEMMA Joined ==
  ASSUME NEW S, NEW p \in Seq(S), NEW q \in Seq(S)
  PROVE  p \o q \in Seq(S) /\ Len(p \o q) = Len(p) + Len(q)
BY SMT

\* One statement and a sequence.
LEMMA First ==
  ASSUME NEW S, NEW p \in Seq(S), NEW x \in S
  PROVE  /\ <<x>> \o p \in Seq(S) /\ Len(<<x>> \o p) = Len(p) + 1
         /\ (<<x>> \o p)[1] = x
         /\ \A k \in 1..Len(p) : (<<x>> \o p)[k + 1] = p[k]
BY SMT

\* A sequence and one statement.
LEMMA Last ==
  ASSUME NEW S, NEW p \in Seq(S), NEW x \in S
  PROVE  /\ p \o <<x>> \in Seq(S) /\ Len(p \o <<x>>) = Len(p) + 1
         /\ (p \o <<x>>)[Len(p) + 1] = x
         /\ \A k \in 1..Len(p) : (p \o <<x>>)[k] = p[k]
BY SMT

\* Two statements and a sequence.
LEMMA FirstTwo ==
  ASSUME NEW S, NEW p \in Seq(S), NEW x \in S, NEW y \in S,
         NEW q, q = <<x>> \o (<<y>> \o p)
  PROVE  /\ q \in Seq(S) /\ Len(q) = Len(p) + 2 /\ q[1] = x /\ q[2] = y
         /\ \A k \in 1..Len(p) : q[k + 2] = p[k]
<1>1. q = <<x>> \o (<<y>> \o p)
  OBVIOUS
<1>2. <<y>> \o p \in Seq(S)
  BY First
<1>3. QED
  BY <1>1, <1>2, First

\* A sequence and two statements.
LEMMA LastTwo ==
  ASSUME NEW S, NEW p \in Seq(S), NEW x \in S, NEW y \in S,
         NEW q, q = p \o <<x>> \o <<y>>
  PROVE  /\ q \in Seq(S) /\ Len(q) = Len(p) + 2
         /\ q[Len(p) + 1] = x /\ q[Len(p) + 2] = y
         /\ \A k \in 1..Len(p) : q[k] = p[k]
BY Last, SMT

\* What A does before and after its report.
Working == Statements({"call", "send", "write", "slice", "yield"}, {syn_ep})
Listening(ep) == Statements({"recv"}, {syn_ep, ep})

\* A program of A with one report.
LEMMA AReports ==
  ASSUME NEW pre \in Seq(Working), NEW post \in Seq(Listening(a_ep))
  PROVE  LET P == InitEnv \o (pre \o Send(a_ep) \o post)
         IN  /\ P \in Seq(AStatements) /\ ReportsAt(P, Len(pre) + 2, a_ep)
             /\ Len(P) = Len(pre) + 2 + Len(post)
<1> DEFINE P == InitEnv \o (pre \o Send(a_ep) \o post)
           S == Working \cup Listening(a_ep)
<1>1. \A x \in S : ~(x.op = "send" /\ x.arg = a_ep)
  BY BenchmarksAssumption DEF Working, Listening, Statements
<1>2. \A k \in 1..Len(post) : post[k].op = "recv"
  <2>1. \A x \in Listening(a_ep) : x.op = "recv"
    BY DEF Listening, Statements
  <2>2. \A k \in 1..Len(post) : post[k] \in Listening(a_ep)
    OBVIOUS
  <2>3. QED
    BY <2>1, <2>2
<1>3. pre \in Seq(S) /\ post \in Seq(S)
  BY MoreStatements
<1>4. ReportsAt(P, Len(pre) + 2, a_ep) /\ Len(P) = Len(pre) + 2 + Len(post)
  <2> HIDE DEF S
  <2>1. QED
    BY <1>1, <1>2, <1>3, OneReport
<1>5. P \in Seq(AStatements)
  <2>1. S \subseteq AStatements
    BY DEF Working, Listening, AStatements, Statements
  <2>2. InitEnv \in Seq(AStatements) /\ Send(a_ep) \in Seq(AStatements)
    BY DEF InitEnv, Send, Do, AStatements, Statements
  <2> HIDE DEF S
  <2>3. pre \in Seq(AStatements) /\ post \in Seq(AStatements)
    BY <1>3, <2>1, MoreStatements
  <2>4. QED
    BY <2>2, <2>3
<1>6. QED
  BY <1>4, <1>5

\* A in the functional test on one core.
LEMMA SenderProgram ==
  LET P == InitEnv \o FuncsSender(FALSE)
      calls == Repeat(Runs, Call(syn_ep))
  IN  /\ P \in Seq(AStatements) /\ ReportsAt(P, Runs + 3, a_ep)
      /\ Len(P) = Runs + 4 /\ Len(calls) = Runs
      /\ \A k \in 1..Runs : calls[k] = [op |-> "call", arg |-> syn_ep]
      /\ calls \in Seq(Working)
      /\ P = InitEnv \o (calls \o Send(syn_ep) \o Send(a_ep) \o Recv(a_ep))
<1> DEFINE calls == Repeat(Runs, Call(syn_ep))
           x == [op |-> "call", arg |-> syn_ep]
           pre == calls \o Send(syn_ep)
           P == InitEnv \o (pre \o Send(a_ep) \o Recv(a_ep))
<1>1. Runs \in Nat
  BY BenchmarksAssumption
<1>2. calls = Repeat(Runs, <<x>>)
  BY DEF Call, Do
<1>3. {x} \subseteq Working /\ Send(syn_ep) \in Seq(Working)
      /\ Len(Send(syn_ep)) = 1
  BY DEF Working, Send, Do, Statements
<1>4. Recv(a_ep) \in Seq(Listening(a_ep)) /\ Len(Recv(a_ep)) = 1
  BY DEF Listening, Recv, Do, Statements
<1> HIDE DEF calls, x
<1>5. calls \in Seq({x}) /\ Len(calls) = Runs /\ \A k \in 1..Runs : calls[k] = x
  BY <1>1, <1>2, LoopOne
<1>6. calls \in Seq(Working)
  BY <1>3, <1>5, MoreStatements
<1>7. pre \in Seq(Working) /\ Len(pre) = Runs + 1
  <2> DEFINE q == Send(syn_ep)
  <2>1. calls \in Seq(Working) /\ q \in Seq(Working) /\ Len(q) = 1
    BY <1>3, <1>6
  <2> HIDE DEF q
  <2>2. calls \o q \in Seq(Working) /\ Len(calls \o q) = Len(calls) + 1
    BY <2>1, Joined
  <2>3. QED
    BY <1>5, <2>2 DEF q
<1>8. P = InitEnv \o FuncsSender(FALSE)
  BY DEF FuncsSender, calls
<1> HIDE DEF pre
<1>9. /\ P \in Seq(AStatements) /\ ReportsAt(P, Len(pre) + 2, a_ep)
      /\ Len(P) = Len(pre) + 2 + Len(Recv(a_ep))
  BY <1>4, <1>7, AReports
<1>10. Len(pre) + 2 = Runs + 3 /\ Len(pre) + 2 + Len(Recv(a_ep)) = Runs + 4
  BY <1>1, <1>4, <1>7
<1>11. QED
  BY <1>5, <1>6, <1>8, <1>9, <1>10 DEF x, calls, pre

\* A in the flushing benchmarks.
LEMMA FlushProgram ==
  ASSUME NEW after \in {<<>>, Yield}
  PROVE  LET P == InitEnv \o FlushThread(after)
         IN  P \in Seq(AStatements) /\ \E s \in Nat : ReportsAt(P, s, a_ep)
<1> DEFINE body == NewTimeSlice \o Write \o after
           loop == Repeat(Runs, body)
           pre == Send(syn_ep) \o loop \o NewTimeSlice
<1>1. Runs \in Nat
  BY BenchmarksAssumption
<1>2. /\ NewTimeSlice \in Seq(Working) /\ Write \in Seq(Working)
      /\ Yield \in Seq(Working) /\ Send(syn_ep) \in Seq(Working)
      /\ after \in Seq(Working) /\ Len(Write) = 1 /\ Len(NewTimeSlice) = 1
  <2>1. /\ NewTimeSlice \in Seq(Working) /\ Write \in Seq(Working)
        /\ Yield \in Seq(Working) /\ Send(syn_ep) \in Seq(Working)
        /\ Len(Write) = 1 /\ Len(NewTimeSlice) = 1
    BY DEF NewTimeSlice, Write, Yield, Send, Do, Working, Statements
  <2>2. <<>> \in Seq(Working)
    OBVIOUS
  <2>3. after \in Seq(Working)
    BY <2>1, <2>2, Zenon
  <2>4. QED
    BY <2>1, <2>3
<1>3. body \in Seq(Working) /\ Len(body) > 0
  BY <1>2
<1> HIDE DEF body
<1>4. loop \in Seq(Working)
  BY <1>1, <1>3, LoopBody
<1> HIDE DEF loop
<1>5. pre \in Seq(Working)
  BY <1>2, <1>4
<1>6. FlushThread(after) = pre \o Send(a_ep)
  BY DEF FlushThread, body, loop
<1> HIDE DEF pre
<1>7. pre \o Send(a_ep) \o <<>> = pre \o Send(a_ep)
  <2>1. pre \in Seq(AStatements) /\ Send(a_ep) \in Seq(AStatements)
    <3>1. Working \subseteq AStatements
      BY DEF Working, AStatements, Statements
    <3>2. Send(a_ep) \in Seq(AStatements)
      BY DEF Send, Do, AStatements, Statements
    <3>3. QED
      BY <1>5, <3>1, <3>2, MoreStatements
  <2>2. pre \o Send(a_ep) \in Seq(AStatements)
    BY <2>1
  <2>3. QED
    BY <2>2, NothingMore
<1>8. <<>> \in Seq(Listening(a_ep))
  OBVIOUS
<1>9. LET P == InitEnv \o (pre \o Send(a_ep) \o <<>>)
      IN  P \in Seq(AStatements) /\ ReportsAt(P, Len(pre) + 2, a_ep)
  BY <1>5, <1>8, AReports
<1>10. Len(pre) + 2 \in Nat
  BY <1>5
<1>11. QED
  BY <1>6, <1>7, <1>9, <1>10

\* A in the SPLASH benchmark.
LEMMA SplashProgram ==
  LET P == InitEnv \o Splash
  IN  P \in Seq(AStatements) /\ \E s \in Nat : ReportsAt(P, s, a_ep)
<1> DEFINE pre == Send(syn_ep) \o NewTimeSlice \o Write
<1>1. pre \in Seq(Working) /\ Recv(syn_ep) \in Seq(Listening(a_ep))
  <2>1. /\ NewTimeSlice \in Seq(Working) /\ Write \in Seq(Working)
        /\ Send(syn_ep) \in Seq(Working)
        /\ Recv(syn_ep) \in Seq(Listening(a_ep))
    BY DEF NewTimeSlice, Write, Send, Recv, Do, Working, Listening, Statements
  <2>2. QED
    BY <2>1
<1>2. Splash = pre \o Send(a_ep) \o Recv(syn_ep)
  BY DEF Splash
<1> HIDE DEF pre
<1>3. LET P == InitEnv \o (pre \o Send(a_ep) \o Recv(syn_ep))
      IN  P \in Seq(AStatements) /\ ReportsAt(P, Len(pre) + 2, a_ep)
  BY <1>1, AReports
<1>4. Len(pre) + 2 \in Nat
  BY <1>1
<1>5. QED
  BY <1>2, <1>3, <1>4

\* B's program in the round trip benchmark.
LEMMA ReplierProgram ==
  LET P == InitEnv \o IpcReplier
      body == Recv(syn_ep) \o Repeat(Warmups, ReplyRecv(syn_ep))
  IN  /\ P \in Seq(Statements({"init", "recv", "replyRecv"}, {syn_ep}))
      /\ Len(P) = Runs * (Warmups + 1) + 2
      /\ Len(body) = Warmups + 1
      /\ body[1] = [op |-> "recv", arg |-> syn_ep]
      /\ \A k \in 2..(Warmups + 1) : body[k] = [op |-> "replyRecv", arg |-> syn_ep]
      /\ body \in Seq(Statements({"init", "recv", "replyRecv"}, {syn_ep}))
<1> DEFINE S == Statements({"init", "recv", "replyRecv"}, {syn_ep})
           x == [op |-> "replyRecv", arg |-> syn_ep]
           loop == Repeat(Warmups, ReplyRecv(syn_ep))
           body == Recv(syn_ep) \o loop
           outer == Repeat(Runs, body)
           P == InitEnv \o (outer \o Recv(syn_ep))
<1>1. Runs \in Nat /\ Warmups \in Nat
  BY BenchmarksAssumption
<1>2. loop = Repeat(Warmups, <<x>>)
  BY DEF ReplyRecv, Do
<1>3. /\ {x} \subseteq S /\ Recv(syn_ep) \in Seq(S) /\ InitEnv \in Seq(S)
      /\ Len(Recv(syn_ep)) = 1 /\ Len(InitEnv) = 1
      /\ Recv(syn_ep)[1] = [op |-> "recv", arg |-> syn_ep]
  BY DEF Recv, InitEnv, Do, Statements
<1>4. P = InitEnv \o IpcReplier
  BY DEF IpcReplier
<1> HIDE DEF loop, S, x
<1>5. loop \in Seq({x}) /\ Len(loop) = Warmups /\ \A k \in 1..Warmups : loop[k] = x
  BY <1>1, <1>2, LoopOne
<1>6. loop \in Seq(S)
  BY <1>3, <1>5, MoreStatements
<1>7. /\ body \in Seq(S) /\ Len(body) = Warmups + 1
      /\ body[1] = [op |-> "recv", arg |-> syn_ep]
      /\ \A k \in 2..(Warmups + 1) : body[k] = x
  <2> DEFINE y == [op |-> "recv", arg |-> syn_ep]
  <2> HIDE DEF y
  <2>2. /\ body \in Seq(S) /\ Len(body) = 1 + Warmups
        /\ body[1] = y /\ \A k \in 1..Warmups : body[k + 1] = loop[k]
    <3>1. body = <<y>> \o loop
      BY DEF Recv, Do, y
    <3>2. y \in S
      BY DEF y, S, Statements
    <3> HIDE DEF body
    <3>3. QED
      BY <1>1, <1>5, <1>6, <3>1, <3>2, First
  <2>3. \A k \in 2..(Warmups + 1) : k - 1 \in 1..Warmups /\ (k - 1) + 1 = k
    BY <1>1
  <2>4. \A k \in 2..(Warmups + 1) : body[k] = loop[k - 1]
    BY <2>2, <2>3
  <2> HIDE DEF body
  <2>5. QED
    BY <1>1, <1>5, <2>2, <2>3, <2>4 DEF y
<1> HIDE DEF body
<1>8. outer \in Seq(S) /\ Len(outer) = Runs * (Warmups + 1)
  <2>1. Len(body) > 0
    BY <1>1, <1>7
  <2>2. outer \in Seq(S) /\ Len(outer) = Runs * Len(body)
    BY <1>1, <1>7, <2>1, LoopBody
  <2>3. QED
    BY <1>7, <2>2
<1> HIDE DEF outer
<1>9. P \in Seq(S) /\ Len(P) = Runs * (Warmups + 1) + 2
  <2> DEFINE r == Recv(syn_ep)
             e == InitEnv
  <2>1. r \in Seq(S) /\ Len(r) = 1 /\ e \in Seq(S) /\ Len(e) = 1
    BY <1>3
  <2> HIDE DEF r, e
  <2>2. outer \o r \in Seq(S) /\ Len(outer \o r) = Len(outer) + 1
    BY <1>8, <2>1, Joined
  <2>3. e \o (outer \o r) \in Seq(S) /\ Len(e \o (outer \o r)) = Len(outer) + 2
    BY <1>8, <2>1, <2>2, Joined
  <2>4. QED
    BY <1>8, <2>3 DEF r, e
<1>10. QED
  BY <1>4, <1>7, <1>9 DEF S, x, body, loop

\* B in the functional test on one core.
LEMMA ReceiverProgram ==
  LET P == InitEnv \o FuncsReceiver(FALSE)
  IN  /\ P \in Seq(BStatements) /\ ReportsAt(P, 2 * Runs + 3, b_ep)
      /\ Len(P) = 2 * Runs + 4
      /\ P[1] = [op |-> "init", arg |-> syn_ep]
      /\ P[2] = [op |-> "recv", arg |-> syn_ep]
      /\ \A k \in 1..Runs :
           /\ P[2 * k + 1] = [op |-> "tick", arg |-> syn_ep]
           /\ P[2 * k + 2] = [op |-> "replyRecv", arg |-> syn_ep]
      /\ P[2 * Runs + 3] = [op |-> "send", arg |-> b_ep]
      /\ P[2 * Runs + 4] = [op |-> "recv", arg |-> b_ep]
<1> DEFINE S == Statements({"tick", "replyRecv"}, {syn_ep})
           body == WriteTick \o ReplyRecv(syn_ep)
           loop == Repeat(Runs, body)
           P == InitEnv \o (Recv(syn_ep) \o (loop \o Send(b_ep) \o Recv(b_ep)))
<1>1. Runs \in Nat /\ Runs * 2 = 2 * Runs
  BY BenchmarksAssumption
<1>2. body \in Seq(S)
  BY DEF WriteTick, ReplyRecv, Do, Statements
<1>3. /\ Len(body) = 2 /\ body[1] = [op |-> "tick", arg |-> syn_ep]
      /\ body[2] = [op |-> "replyRecv", arg |-> syn_ep]
  BY DEF WriteTick, ReplyRecv, Do
<1>4. P = InitEnv \o FuncsReceiver(FALSE)
  BY DEF FuncsReceiver
<1> HIDE DEF body
<1>5. /\ loop \in Seq(S) /\ Len(loop) = 2 * Runs
      /\ \A k \in 1..(2 * Runs) :
           loop[k] = body[((k - 1) % 2) + 1]
  <2>1. Len(body) > 0
    BY <1>3
  <2> HIDE DEF S
  <2>2. /\ loop \in Seq(S) /\ Len(loop) = Runs * Len(body)
        /\ \A k \in 1..(Runs * Len(body)) :
             loop[k] = body[((k - 1) % Len(body)) + 1]
    BY <1>1, <1>2, <2>1, LoopBody
  <2>3. QED
    BY <1>1, <1>3, <2>2
<1>6. \A k \in 1..Runs :
        /\ loop[2 * k - 1] = [op |-> "tick", arg |-> syn_ep]
        /\ loop[2 * k] = [op |-> "replyRecv", arg |-> syn_ep]
  <2>1. \A k \in 1..Runs :
          /\ 2 * k - 1 \in 1..(2 * Runs) /\ 2 * k \in 1..(2 * Runs)
          /\ ((2 * k - 1 - 1) % 2) + 1 = 1 /\ ((2 * k - 1) % 2) + 1 = 2
    BY <1>1
  <2> HIDE DEF loop
  <2>2. QED
    BY <1>3, <1>5, <2>1
<1> HIDE DEF loop
<1>7. /\ Len(P) = 2 * Runs + 4
      /\ P[1] = [op |-> "init", arg |-> syn_ep]
      /\ P[2] = [op |-> "recv", arg |-> syn_ep]
      /\ P[2 * Runs + 3] = [op |-> "send", arg |-> b_ep]
      /\ P[2 * Runs + 4] = [op |-> "recv", arg |-> b_ep]
      /\ \A k \in 1..(2 * Runs) : P[k + 2] = loop[k]
  <2> DEFINE e == [op |-> "init", arg |-> syn_ep]
             r == [op |-> "recv", arg |-> syn_ep]
             s == [op |-> "send", arg |-> b_ep]
             f == [op |-> "recv", arg |-> b_ep]
             q == loop \o <<s>> \o <<f>>
             T == S \cup {e, r, s, f}
             Q == <<e>> \o (<<r>> \o q)
  <2>1. P = Q
    BY DEF InitEnv, Recv, Send, Do
  <2> HIDE DEF P, e, r, s, f, S
  <2>2. /\ Len(Q) = Len(loop) + 4
        /\ Q[1] = e /\ Q[2] = r /\ Q[Len(loop) + 3] = s /\ Q[Len(loop) + 4] = f
        /\ \A k \in 1..Len(loop) : Q[k + 2] = loop[k]
    <3>1. e \in T /\ r \in T /\ s \in T /\ f \in T /\ S \subseteq T
      OBVIOUS
    <3> HIDE DEF T
    <3>2. loop \in Seq(T)
      BY <1>5, <3>1, MoreStatements
    <3>3. /\ q \in Seq(T) /\ Len(q) = Len(loop) + 2
          /\ q[Len(loop) + 1] = s /\ q[Len(loop) + 2] = f
          /\ \A k \in 1..Len(loop) : q[k] = loop[k]
      BY <3>1, <3>2, LastTwo
    <3> HIDE DEF q
    <3>4. /\ Len(Q) = Len(q) + 2 /\ Q[1] = e /\ Q[2] = r
          /\ \A k \in 1..Len(q) : Q[k + 2] = q[k]
      BY <3>1, <3>3, FirstTwo
    <3> HIDE DEF Q
    <3>5. QED
      BY <1>1, <1>5, <3>3, <3>4
  <2> HIDE DEF Q
  <2>3. QED
    BY <1>1, <1>5, <2>1, <2>2 DEF e, r, s, f
<1>8. P \in Seq(BStatements)
  <2>1. S \subseteq BStatements
    BY DEF BStatements, Statements
  <2>2. /\ InitEnv \in Seq(BStatements) /\ Recv(syn_ep) \in Seq(BStatements)
        /\ Send(b_ep) \in Seq(BStatements) /\ Recv(b_ep) \in Seq(BStatements)
    BY DEF InitEnv, Recv, Send, Do, BStatements, Statements
  <2> HIDE DEF S
  <2>3. loop \in Seq(BStatements)
    BY <1>5, <2>1, MoreStatements
  <2>4. loop \o Send(b_ep) \in Seq(BStatements)
    BY <2>2, <2>3, Joined
  <2>5. loop \o Send(b_ep) \o Recv(b_ep) \in Seq(BStatements)
    BY <2>2, <2>4, Joined
  <2>6. Recv(syn_ep) \o (loop \o Send(b_ep) \o Recv(b_ep)) \in Seq(BStatements)
    BY <2>2, <2>5, Joined
  <2>7. QED
    BY <2>2, <2>6, Joined
<1> HIDE DEF P
<1>9. ReportsAt(P, 2 * Runs + 3, b_ep)
  <2>1. ASSUME NEW k \in 1..Len(P)
        PROVE  /\ P[k].op = "send" /\ P[k].arg = b_ep => k = 2 * Runs + 3
               /\ k > 2 * Runs + 3 => P[k].op = "recv"
    <3>1. \/ k \in {1, 2, 2 * Runs + 3, 2 * Runs + 4}
          \/ k \in 3..(2 * Runs + 2)
      BY <1>1, <1>7
    <3>2. CASE k \in {1, 2, 2 * Runs + 3, 2 * Runs + 4}
      <4>1. /\ 1 <= 2 * Runs + 3 /\ 2 <= 2 * Runs + 3
            /\ ~(2 * Runs + 3 > 2 * Runs + 3)
        BY <1>1
      <4>2. CASE k = 1
        BY <1>1, <1>7, <4>1, <4>2
      <4>3. CASE k = 2
        BY <1>1, <1>7, <4>1, <4>3
      <4>4. CASE k = 2 * Runs + 3
        BY <1>1, <1>7, <4>1, <4>4
      <4>5. CASE k = 2 * Runs + 4
        BY <1>1, <1>7, <4>1, <4>5
      <4>6. QED
        BY <3>2, <4>2, <4>3, <4>4, <4>5
    <3>3. CASE k \in 3..(2 * Runs + 2)
      <4>1. k - 2 \in 1..(2 * Runs) /\ k = (k - 2) + 2 /\ ~(k > 2 * Runs + 3)
        BY <1>1, <3>3
      <4>2. P[k] = loop[k - 2]
        BY <1>7, <4>1
      <4>3. loop[k - 2] \in S
        BY <1>5, <4>1
      <4>4. QED
        BY <4>1, <4>2, <4>3 DEF Statements
    <3>4. QED
      BY <3>1, <3>2, <3>3
  <2>2. QED
    BY <1>1, <1>7, <2>1 DEF ReportsAt
<1>10. ASSUME NEW k \in 1..Runs
       PROVE  /\ P[2 * k + 1] = [op |-> "tick", arg |-> syn_ep]
              /\ P[2 * k + 2] = [op |-> "replyRecv", arg |-> syn_ep]
  <2>1. /\ 2 * k - 1 \in 1..(2 * Runs) /\ 2 * k \in 1..(2 * Runs)
        /\ (2 * k - 1) + 2 = 2 * k + 1
    BY <1>1
  <2>2. P[2 * k + 1] = loop[2 * k - 1] /\ P[2 * k + 2] = loop[2 * k]
    BY <1>7, <2>1
  <2>3. QED
    BY <1>6, <2>2
<1>11. QED
  BY <1>4, <1>7, <1>8, <1>9, <1>10

\* What A's program says, for every benchmark.
LEMMA AProgram ==
  ASSUME NEW c \in Config
  PROVE  LET P == Programs[c][A]
         IN  /\ c.bench # "funcMulti" => P \in Seq(AStatements)
             /\ c.bench = "funcMulti" =>
                  /\ Len(P) = 3
                  /\ P[1] = [op |-> "init", arg |-> syn_ep]
                  /\ P[2] = [op |-> "call", arg |-> syn_ep]
                  /\ P[3] = [op |-> "goto", arg |-> 2]
             /\ c.bench \in {"ipc", "flush", "flushOnly", "splash"} =>
                  \E s \in Nat : ReportsAt(P, s, a_ep)
             /\ c.bench = "func" =>
                  \E s \in Nat : ReportsAt(P, s, a_ep) /\ Len(P) = s + 1
<1> DEFINE P == Programs[c][A]
<1>1. CASE c.bench = "ipc"
  <2>1. P = InitEnv \o IpcCaller
    BY <1>1, ProgramOf
  <2>2. Runs * (Warmups + 2) + 2 \in Nat
    <3>1. Runs \in Nat /\ Warmups + 2 \in Nat
      BY BenchmarksAssumption
    <3>2. \A i, j \in Nat : i * j + 2 \in Nat
      BY SMT
    <3>3. QED
      BY <3>1, <3>2
  <2>3. P \in Seq(AStatements) /\ ReportsAt(P, Runs * (Warmups + 2) + 2, a_ep)
    BY <2>1, CallerProgram
  <2>4. QED
    BY <1>1, <2>2, <2>3
<1>2. CASE c.bench = "func"
  <2>1. P = InitEnv \o FuncsSender(FALSE)
    BY <1>2, ProgramOf
  <2>2. Runs + 3 \in Nat /\ Runs + 4 = (Runs + 3) + 1
    BY BenchmarksAssumption
  <2>3. P \in Seq(AStatements) /\ ReportsAt(P, Runs + 3, a_ep) /\ Len(P) = Runs + 4
    BY <2>1, SenderProgram
  <2>4. QED
    BY <1>2, <2>2, <2>3
<1>3. CASE c.bench = "funcMulti"
  <2>1. P = InitEnv \o FuncsSender(TRUE)
    BY <1>3, ProgramOf
  <2>2. P = InitEnv \o (Call(syn_ep) \o Goto(2))
    BY <2>1 DEF FuncsSender
  <2>3. /\ Len(P) = 3
        /\ P[1] = [op |-> "init", arg |-> syn_ep]
        /\ P[2] = [op |-> "call", arg |-> syn_ep]
        /\ P[3] = [op |-> "goto", arg |-> 2]
    <3> HIDE DEF P
    <3>1. QED
      BY <2>2, SMT DEF InitEnv, Call, Goto, Do
  <2>4. QED
    BY <1>3, <2>3
<1>4. CASE c.bench \in {"flush", "flushOnly"}
  <2>1. PICK after \in {<<>>, Yield} : P = InitEnv \o FlushThread(after)
    BY <1>4, ProgramOf DEF CacheFlush, CacheFlushOnly
  <2>2. P \in Seq(AStatements) /\ \E s \in Nat : ReportsAt(P, s, a_ep)
    BY <2>1, FlushProgram
  <2>3. QED
    BY <1>4, <2>2
<1>5. CASE c.bench = "splash"
  <2>1. P = InitEnv \o Splash
    BY <1>5, ProgramOf
  <2>2. P \in Seq(AStatements) /\ \E s \in Nat : ReportsAt(P, s, a_ep)
    BY <2>1, SplashProgram
  <2>3. QED
    BY <1>5, <2>2
<1>6. CASE c.bench = "mastik"
  <2>1. P = InitEnv \o MastikSpy
    BY <1>6, ProgramOf
  <2>2. InitEnv \in Seq(AStatements) /\ MastikSpy \in Seq(AStatements)
    <3>1. /\ InitEnv \in Seq(AStatements) /\ Recv(a_ep) \in Seq(AStatements)
          /\ Send(a_ep) \in Seq(AStatements) /\ Attack \in Seq(AStatements)
      BY DEF InitEnv, Recv, Send, Attack, Do, AStatements, Statements
    <3>2. QED
      BY <3>1, Joined DEF MastikSpy
  <2>3. P \in Seq(AStatements)
    BY <2>1, <2>2, Joined
  <2>4. QED
    BY <1>6, <2>3
<1>7. QED
  BY <1>1, <1>2, <1>3, <1>4, <1>5, <1>6 DEF Config, Bench

\* What B's program says.
LEMMA BProgram ==
  ASSUME NEW c \in Config
  PROVE  LET P == Programs[c][B]
         IN  /\ c.bench # "funcMulti" => P \in Seq(BStatements)
             /\ c.bench = "funcMulti" =>
                  /\ Len(P) = 5
                  /\ P[1] = [op |-> "init", arg |-> syn_ep]
                  /\ P[2] = [op |-> "recv", arg |-> syn_ep]
                  /\ P[3] = [op |-> "tick", arg |-> syn_ep]
                  /\ P[4] = [op |-> "replyRecv", arg |-> syn_ep]
                  /\ P[5] = [op |-> "goto", arg |-> 3]
             /\ c.bench = "func" =>
                  \E s \in Nat : ReportsAt(P, s, b_ep) /\ Len(P) = s + 1
<1> DEFINE P == Programs[c][B]
<1>1. CASE c.bench = "ipc"
  <2>1. P = InitEnv \o IpcReplier
    BY <1>1, ProgramOf
  <2>2. Statements({"init", "recv", "replyRecv"}, {syn_ep}) \subseteq BStatements
    BY DEF BStatements, Statements
  <2>3. P \in Seq(BStatements)
    BY <2>1, <2>2, ReplierProgram, MoreStatements
  <2>4. QED
    BY <1>1, <2>3
<1>2. CASE c.bench = "func"
  <2>1. P = InitEnv \o FuncsReceiver(FALSE)
    BY <1>2, ProgramOf
  <2>2. 2 * Runs + 3 \in Nat /\ 2 * Runs + 4 = (2 * Runs + 3) + 1
    BY BenchmarksAssumption
  <2>3. /\ P \in Seq(BStatements) /\ ReportsAt(P, 2 * Runs + 3, b_ep)
        /\ Len(P) = 2 * Runs + 4
    BY <2>1, ReceiverProgram
  <2>4. QED
    BY <1>2, <2>2, <2>3
<1>3. CASE c.bench = "funcMulti"
  <2>1. P = InitEnv \o FuncsReceiver(TRUE)
    BY <1>3, ProgramOf
  <2>2. P = InitEnv \o (Recv(syn_ep) \o
                        (WriteTick \o ReplyRecv(syn_ep) \o Goto(3)))
    BY <2>1 DEF FuncsReceiver
  <2>3. /\ Len(P) = 5
        /\ P[1] = [op |-> "init", arg |-> syn_ep]
        /\ P[2] = [op |-> "recv", arg |-> syn_ep]
        /\ P[3] = [op |-> "tick", arg |-> syn_ep]
        /\ P[4] = [op |-> "replyRecv", arg |-> syn_ep]
        /\ P[5] = [op |-> "goto", arg |-> 3]
    <3> HIDE DEF P
    <3>1. QED
      BY <2>2, SMT DEF InitEnv, Recv, WriteTick, ReplyRecv, Goto, Do
  <2>4. QED
    BY <1>3, <2>3
<1>4. CASE c.bench \in {"flush", "flushOnly", "splash", "mastik"}
  <2>1. P = InitEnv \o BenchIdle \/ P = InitEnv \o <<>>
    BY <1>4, ProgramOf
  <2>2. /\ InitEnv \in Seq(BStatements) /\ BenchIdle \in Seq(BStatements)
        /\ <<>> \in Seq(BStatements)
    BY DEF InitEnv, BenchIdle, Recv, Do, BStatements, Statements
  <2>3. P \in Seq(BStatements)
    BY <2>1, <2>2, Joined
  <2>4. QED
    BY <1>4, <2>3
<1>5. QED
  BY <1>1, <1>2, <1>3, <1>4 DEF Config, Bench

-----------------------------------------------------------------------------
(* The programs of the root task: kernel images, then the setup of the two  *)
(* processes, then the tail.                                                *)

Other(t) == IF t = A THEN B ELSE A
CreatedFirst(bench) == IF bench = "mastik" THEN B ELSE A
LaunchedFirst(bench) ==
  IF bench \in {"func", "funcMulti", "mastik"} THEN B ELSE A

Images(kernels) == IF kernels = "none" THEN 0 ELSE 2
SetupLength(bench) ==
  IF bench \in {"func", "funcMulti", "splash"} THEN 6
  ELSE IF bench = "mastik" THEN 11 ELSE 5

\* The capability copies and mappings between creation and launch.
IsGrant(x) ==
  \/ x.op = "copyCaps" /\ x.arg[1] \in Process /\ x.arg[2] \in {1, TimerCaps}
  \/ x.op = "mapBuf" /\ x.arg[1] \in Process /\ x.arg[2] \in {"record", "morecore"}
  \/ x.op = "mapShared" /\ x.arg[1] \in Process /\ x.arg[2] \in Process

IsCreate(x, t) ==
  /\ x.op = "create" /\ x.arg[1] = t /\ x.arg[3] \in BOOLEAN

\* P sets the processes up from its statement m + 1 on.
SetsUp(P, m, bench, kernels) ==
  LET n == SetupLength(bench)
      f == CreatedFirst(bench)
      l == LaunchedFirst(bench)
  IN  /\ IsCreate(P[m + 1], f) /\ P[m + 1].arg[2] = KernelFor(0, kernels)
      /\ IsCreate(P[m + 2], Other(f)) /\ P[m + 2].arg[2] = KernelFor(1, kernels)
      /\ \A k \in (m + 3)..(m + n - 2) : IsGrant(P[k])
      /\ P[m + n - 1] = [op |-> "launch", arg |-> l]
      /\ P[m + n] = [op |-> "launch", arg |-> Other(l)]

\* The setup of each benchmark.
SetupProgram(bench, kernels) ==
  IF bench \in {"func", "funcMulti"} THEN FuncTestSetup(kernels)
  ELSE IF bench = "mastik" THEN InitTimingThreads(kernels)
  ELSE IF bench = "splash"
  THEN Create(A, KernelFor(0, kernels), FALSE) \o
       Create(B, KernelFor(1, kernels), TRUE) \o
       MapRecord(A) \o MapMorecore(A) \o Launch(A) \o Launch(B)
  ELSE Create(A, KernelFor(0, kernels), FALSE) \o
       Create(B, KernelFor(1, kernels), FALSE) \o
       MapRecord(A) \o Launch(A) \o Launch(B)

\* The tail of each benchmark.
TailProgram(bench, kernels) ==
  IF bench = "func"
  THEN Recv(b_ep) \o Recv(a_ep) \o TestDestroy(kernels, FALSE)
  ELSE IF bench = "funcMulti"
  THEN Repeat(Alives, Alive) \o TestDestroy(kernels, TRUE)
  ELSE IF bench = "mastik" THEN RunMulti
  ELSE Await(a_ep)

\* Both processes are created first and launched last.
LEMMA SetupForm ==
  ASSUME NEW bench \in Bench, NEW kernels
  PROVE  LET S == SetupProgram(bench, kernels)
         IN  /\ \E X : S \in Seq(X)
             /\ Len(S) = SetupLength(bench) /\ SetsUp(S, 0, bench, kernels)
<1> DEFINE S == SetupProgram(bench, kernels)
           k0 == KernelFor(0, kernels)
           k1 == KernelFor(1, kernels)
           create(t, k, none) == [op |-> "create", arg |-> <<t, k, none>>]
           launch(t) == [op |-> "launch", arg |-> t]
           cap(t) == [op |-> "copyCaps", arg |-> <<t, 1>>]
<1>1. A \in Process /\ B \in Process /\ A # B
  BY BenchmarksAssumption
<1>2. CASE bench \in {"func", "funcMulti"}
  <2> DEFINE x1 == create(A, k0, FALSE)
             x2 == create(B, k1, FALSE)
             x3 == [op |-> "mapBuf", arg |-> <<B, "record">>]
             x4 == [op |-> "mapShared", arg |-> <<B, A>>]
             x5 == launch(B)
             x6 == launch(A)
             Q == <<x1>> \o <<x2>> \o <<x3>> \o <<x4>> \o <<x5>> \o <<x6>>
  <2>0. S = Q
    BY <1>2 DEF SetupProgram, FuncTestSetup, Create, MapRecord,
                     MapShared, Launch, Do
  <2> HIDE DEF S, x1, x2, x3, x4, x5, x6
  <2>1. /\ Len(S) = 6
        /\ S[1] = x1 /\ S[2] = x2 /\ S[3] = x3 /\ S[4] = x4 /\ S[5] = x5
        /\ S[6] = x6
    <3>1. /\ Len(Q) = 6
          /\ Q[1] = x1 /\ Q[2] = x2 /\ Q[3] = x3 /\ Q[4] = x4 /\ Q[5] = x5
          /\ Q[6] = x6
      BY SMT
    <3> HIDE DEF Q
    <3>2. QED
      BY <2>0, <3>1
  <2> DEFINE X == {x1, x2, x3, x4, x5, x6}
  <2>10. S \in Seq(X)
    <3>1. /\ x1 \in X /\ x2 \in X /\ x3 \in X /\ x4 \in X /\ x5 \in X
          /\ x6 \in X
      OBVIOUS
    <3> HIDE DEF X
    <3>2. Q \in Seq(X)
      BY <3>1, SMT
    <3>3. QED
      BY <2>0, <3>2
  <2> HIDE DEF X
  <2>2. IsGrant(S[3]) /\ IsGrant(S[4])
    BY <1>1, <2>1 DEF IsGrant, x3, x4
  <2>3. SetupLength(bench) = 6 /\ CreatedFirst(bench) = A /\ LaunchedFirst(bench) = B
    BY <1>2 DEF SetupLength, CreatedFirst, LaunchedFirst
  <2>4. /\ IsCreate(S[1], A) /\ S[1].arg[2] = k0
        /\ IsCreate(S[2], B) /\ S[2].arg[2] = k1
    BY <2>1 DEF IsCreate, x1, x2
  <2>5. S[5] = launch(B) /\ S[6] = launch(A)
    BY <2>1 DEF x5, x6
  <2>6. Other(A) = B /\ Other(B) = A
    BY <1>1 DEF Other
  <2>7. /\ 0 + 1 = 1 /\ 0 + 2 = 2 /\ 0 + 6 - 1 = 5 /\ 0 + 6 = 6
        /\ (0 + 3)..(0 + 6 - 2) = {3, 4}
    OBVIOUS
  <2> HIDE DEF k0, k1, launch
  <2>8. SetsUp(S, 0, bench, kernels)
    <3>1. \A k \in {3, 4} : IsGrant(S[k])
      BY <2>2
    <3>2. QED
      BY <2>3, <2>4, <2>5, <2>6, <2>7, <3>1, Zenon DEF SetsUp, k0, k1, launch
  <2>9. QED
    BY <2>1, <2>3, <2>8, <2>10 DEF S
<1>3. CASE bench = "mastik"
  <2> DEFINE x1 == create(B, k0, FALSE)
             x2 == create(A, k1, FALSE)
             x3 == [op |-> "mapShared", arg |-> <<B, A>>]
             x4 == [op |-> "mapBuf", arg |-> <<A, "record">>]
             x5 == [op |-> "copyCaps", arg |-> <<B, TimerCaps>>]
             x6 == cap(B)
             x7 == cap(A)
             x8 == cap(B)
             x9 == cap(A)
             x10 == launch(B)
             x11 == launch(A)
             Q == <<x1>> \o <<x2>> \o <<x3>> \o <<x4>> \o <<x5>> \o
                  <<x6>> \o <<x7>> \o <<x8>> \o <<x9>> \o <<x10>> \o <<x11>>
  <2>0. S = Q
    BY <1>3 DEF SetupProgram, InitTimingThreads, Create, MapRecord,
                     MapShared, CopyTimer, CopyCap, Launch, Do
  <2> HIDE DEF S, x1, x2, x3, x4, x5, x6, x7, x8, x9, x10, x11
  <2>1. /\ Len(S) = 11
        /\ S[1] = x1 /\ S[2] = x2 /\ S[3] = x3 /\ S[4] = x4 /\ S[5] = x5
        /\ S[6] = x6 /\ S[7] = x7 /\ S[8] = x8 /\ S[9] = x9 /\ S[10] = x10
        /\ S[11] = x11
    <3>1. /\ Len(Q) = 11
          /\ Q[1] = x1 /\ Q[2] = x2 /\ Q[3] = x3 /\ Q[4] = x4 /\ Q[5] = x5
          /\ Q[6] = x6 /\ Q[7] = x7 /\ Q[8] = x8 /\ Q[9] = x9 /\ Q[10] = x10
          /\ Q[11] = x11
      BY SMT
    <3> HIDE DEF Q
    <3>2. QED
      BY <2>0, <3>1
  <2> DEFINE X == {x1, x2, x3, x4, x5, x6, x7, x8, x9, x10, x11}
  <2>10. S \in Seq(X)
    <3>1. /\ x1 \in X /\ x2 \in X /\ x3 \in X /\ x4 \in X /\ x5 \in X
          /\ x6 \in X /\ x7 \in X /\ x8 \in X /\ x9 \in X /\ x10 \in X /\ x11 \in X
      OBVIOUS
    <3> HIDE DEF X
    <3>2. Q \in Seq(X)
      BY <3>1, SMT
    <3>3. QED
      BY <2>0, <3>2
  <2> HIDE DEF X
  <2>2. /\ IsGrant(S[3]) /\ IsGrant(S[4]) /\ IsGrant(S[5]) /\ IsGrant(S[6])
        /\ IsGrant(S[7]) /\ IsGrant(S[8]) /\ IsGrant(S[9])
    BY <1>1, <2>1 DEF IsGrant, x3, x4, x5, x6, x7, x8, x9
  <2>3. SetupLength(bench) = 11 /\ CreatedFirst(bench) = B /\ LaunchedFirst(bench) = B
    BY <1>3 DEF SetupLength, CreatedFirst, LaunchedFirst
  <2>4. /\ IsCreate(S[1], B) /\ S[1].arg[2] = k0
        /\ IsCreate(S[2], A) /\ S[2].arg[2] = k1
    BY <2>1 DEF IsCreate, x1, x2
  <2>5. S[10] = launch(B) /\ S[11] = launch(A)
    BY <2>1 DEF x10, x11
  <2>6. Other(A) = B /\ Other(B) = A
    BY <1>1 DEF Other
  <2>7. /\ 0 + 1 = 1 /\ 0 + 2 = 2 /\ 0 + 11 - 1 = 10 /\ 0 + 11 = 11
        /\ (0 + 3)..(0 + 11 - 2) = {3, 4, 5, 6, 7, 8, 9}
    OBVIOUS
  <2> HIDE DEF k0, k1, launch
  <2>8. SetsUp(S, 0, bench, kernels)
    <3>1. \A k \in {3, 4, 5, 6, 7, 8, 9} : IsGrant(S[k])
      BY <2>2
    <3>2. QED
      BY <2>3, <2>4, <2>5, <2>6, <2>7, <3>1, Zenon DEF SetsUp, k0, k1, launch
  <2>9. QED
    BY <2>1, <2>3, <2>8, <2>10 DEF S
<1>4. CASE bench = "splash"
  <2> DEFINE x1 == create(A, k0, FALSE)
             x2 == create(B, k1, TRUE)
             x3 == [op |-> "mapBuf", arg |-> <<A, "record">>]
             x4 == [op |-> "mapBuf", arg |-> <<A, "morecore">>]
             x5 == launch(A)
             x6 == launch(B)
             Q == <<x1>> \o <<x2>> \o <<x3>> \o <<x4>> \o <<x5>> \o <<x6>>
  <2>0. S = Q
    BY <1>4 DEF SetupProgram, Create, MapRecord, MapMorecore,
                     Launch, Do
  <2> HIDE DEF S, x1, x2, x3, x4, x5, x6
  <2>1. /\ Len(S) = 6
        /\ S[1] = x1 /\ S[2] = x2 /\ S[3] = x3 /\ S[4] = x4 /\ S[5] = x5
        /\ S[6] = x6
    <3>1. /\ Len(Q) = 6
          /\ Q[1] = x1 /\ Q[2] = x2 /\ Q[3] = x3 /\ Q[4] = x4 /\ Q[5] = x5
          /\ Q[6] = x6
      BY SMT
    <3> HIDE DEF Q
    <3>2. QED
      BY <2>0, <3>1
  <2> DEFINE X == {x1, x2, x3, x4, x5, x6}
  <2>10. S \in Seq(X)
    <3>1. /\ x1 \in X /\ x2 \in X /\ x3 \in X /\ x4 \in X /\ x5 \in X
          /\ x6 \in X
      OBVIOUS
    <3> HIDE DEF X
    <3>2. Q \in Seq(X)
      BY <3>1, SMT
    <3>3. QED
      BY <2>0, <3>2
  <2> HIDE DEF X
  <2>2. IsGrant(S[3]) /\ IsGrant(S[4])
    BY <1>1, <2>1 DEF IsGrant, x3, x4
  <2>3. SetupLength(bench) = 6 /\ CreatedFirst(bench) = A /\ LaunchedFirst(bench) = A
    BY <1>4 DEF SetupLength, CreatedFirst, LaunchedFirst
  <2>4. /\ IsCreate(S[1], A) /\ S[1].arg[2] = k0
        /\ IsCreate(S[2], B) /\ S[2].arg[2] = k1
    BY <2>1 DEF IsCreate, x1, x2
  <2>5. S[5] = launch(A) /\ S[6] = launch(B)
    BY <2>1 DEF x5, x6
  <2>6. Other(A) = B /\ Other(B) = A
    BY <1>1 DEF Other
  <2>7. /\ 0 + 1 = 1 /\ 0 + 2 = 2 /\ 0 + 6 - 1 = 5 /\ 0 + 6 = 6
        /\ (0 + 3)..(0 + 6 - 2) = {3, 4}
    OBVIOUS
  <2> HIDE DEF k0, k1, launch
  <2>8. SetsUp(S, 0, bench, kernels)
    <3>1. \A k \in {3, 4} : IsGrant(S[k])
      BY <2>2
    <3>2. QED
      BY <2>3, <2>4, <2>5, <2>6, <2>7, <3>1, Zenon DEF SetsUp, k0, k1, launch
  <2>9. QED
    BY <2>1, <2>3, <2>8, <2>10 DEF S
<1>5. CASE bench \in {"ipc", "flush", "flushOnly"}
  <2> DEFINE x1 == create(A, k0, FALSE)
             x2 == create(B, k1, FALSE)
             x3 == [op |-> "mapBuf", arg |-> <<A, "record">>]
             x4 == launch(A)
             x5 == launch(B)
             Q == <<x1>> \o <<x2>> \o <<x3>> \o <<x4>> \o <<x5>>
  <2>0. S = Q
    BY <1>5 DEF SetupProgram, Create, MapRecord, Launch, Do
  <2> HIDE DEF S, x1, x2, x3, x4, x5
  <2>1. /\ Len(S) = 5
        /\ S[1] = x1 /\ S[2] = x2 /\ S[3] = x3 /\ S[4] = x4 /\ S[5] = x5
    <3>1. /\ Len(Q) = 5
          /\ Q[1] = x1 /\ Q[2] = x2 /\ Q[3] = x3 /\ Q[4] = x4 /\ Q[5] = x5
      BY SMT
    <3> HIDE DEF Q
    <3>2. QED
      BY <2>0, <3>1
  <2> DEFINE X == {x1, x2, x3, x4, x5}
  <2>10. S \in Seq(X)
    <3>1. x1 \in X /\ x2 \in X /\ x3 \in X /\ x4 \in X /\ x5 \in X
      OBVIOUS
    <3> HIDE DEF X
    <3>2. Q \in Seq(X)
      BY <3>1, SMT
    <3>3. QED
      BY <2>0, <3>2
  <2> HIDE DEF X
  <2>2. IsGrant(S[3])
    BY <1>1, <2>1 DEF IsGrant, x3
  <2>3. SetupLength(bench) = 5 /\ CreatedFirst(bench) = A /\ LaunchedFirst(bench) = A
    BY <1>5 DEF SetupLength, CreatedFirst, LaunchedFirst
  <2>4. /\ IsCreate(S[1], A) /\ S[1].arg[2] = k0
        /\ IsCreate(S[2], B) /\ S[2].arg[2] = k1
    BY <2>1 DEF IsCreate, x1, x2
  <2>5. S[4] = launch(A) /\ S[5] = launch(B)
    BY <2>1 DEF x4, x5
  <2>6. Other(A) = B /\ Other(B) = A
    BY <1>1 DEF Other
  <2>7. /\ 0 + 1 = 1 /\ 0 + 2 = 2 /\ 0 + 5 - 1 = 4 /\ 0 + 5 = 5
        /\ (0 + 3)..(0 + 5 - 2) = {3}
    OBVIOUS
  <2> HIDE DEF k0, k1, launch
  <2>8. SetsUp(S, 0, bench, kernels)
    <3>1. \A k \in {3} : IsGrant(S[k])
      BY <2>2
    <3>2. QED
      BY <2>3, <2>4, <2>5, <2>6, <2>7, <3>1, Zenon DEF SetsUp, k0, k1, launch
  <2>9. QED
    BY <2>1, <2>3, <2>8, <2>10 DEF S
<1>6. QED
  BY <1>2, <1>3, <1>4, <1>5 DEF Bench

\* The first of two sequences.
LEMMA Prefix ==
  ASSUME NEW S, NEW p \in Seq(S), NEW q \in Seq(S)
  PROVE  \A k \in 1..Len(p) : (p \o q)[k] = p[k]
BY SMT

\* The statements of a tail.
TailStatements(kernels) ==
  Statements({"recv"}, {a_ep, b_ep}) \cup Statements({"send"}, {a_ep}) \cup
  Statements({"print", "sample", "compare"}, {syn_ep}) \cup
  Statements({"destroyKi"}, Image) \cup
  Statements({"setKernel"}, {<<A, KernelFor(0, kernels)>>,
                             <<B, KernelFor(1, kernels)>>})

\* alive() samples before it compares.
Paired(P) ==
  \A k \in 1..Len(P) : P[k].op = "compare" => k > 1 /\ P[k - 1].op = "sample"

\* In two joined sequences a comparison still follows a sample.
LEMMA PairedJoined ==
  ASSUME NEW S, NEW p \in Seq(S), NEW q \in Seq(S), Paired(p), Paired(q)
  PROVE  Paired(p \o q)
<1> DEFINE P == p \o q
<1>1. /\ Len(P) = Len(p) + Len(q) /\ Len(p) \in Nat /\ Len(q) \in Nat
      /\ \A k \in 1..Len(p) : P[k] = p[k]
      /\ \A k \in 1..Len(q) : P[Len(p) + k] = q[k]
  BY SMT
<1> HIDE DEF P
<1>2. ASSUME NEW k \in 1..Len(P), P[k].op = "compare"
      PROVE  k > 1 /\ P[k - 1].op = "sample"
  <2>1. CASE k \in 1..Len(p)
    <3>1. p[k].op = "compare"
      BY <1>1, <1>2, <2>1
    <3>2. k > 1 /\ p[k - 1].op = "sample"
      BY <2>1, <3>1 DEF Paired
    <3>3. k - 1 \in 1..Len(p)
      BY <1>1, <2>1, <3>2
    <3>4. QED
      BY <1>1, <3>2, <3>3
  <2>2. CASE k \notin 1..Len(p)
    <3> DEFINE j == k - Len(p)
    <3>1. j \in 1..Len(q) /\ k = Len(p) + j
      BY <1>1, <2>2
    <3> HIDE DEF j
    <3>2. q[j].op = "compare"
      BY <1>1, <1>2, <3>1
    <3>3. j > 1 /\ q[j - 1].op = "sample"
      BY <3>1, <3>2 DEF Paired
    <3>4. j - 1 \in 1..Len(q) /\ k - 1 = Len(p) + (j - 1)
      BY <1>1, <3>1, <3>3
    <3>5. P[k - 1] = q[j - 1] /\ k > 1
      BY <1>1, <3>1, <3>3, <3>4
    <3>6. QED
      BY <3>3, <3>5
  <2>3. QED
    BY <2>1, <2>2
<1>3. QED
  BY <1>2 DEF Paired, P

\* alive() in a row.
LEMMA AliveLoop ==
  LET loop == Repeat(Alives, Alive)
  IN  loop \in Seq(Statements({"sample", "compare"}, {syn_ep})) /\ Paired(loop)
<1> DEFINE S == Statements({"sample", "compare"}, {syn_ep})
           body == Alive
           loop == Repeat(Alives, body)
<1>1. Alives \in Nat /\ Alives * 2 \in Nat
  BY BenchmarksAssumption
<1>2. /\ body \in Seq(S) /\ Len(body) = 2
      /\ body[1].op = "sample" /\ body[2].op = "compare"
  BY DEF Alive, Do, Statements
<1> HIDE DEF S, body
<1>3. /\ loop \in Seq(S) /\ Len(loop) = Alives * 2
      /\ \A k \in 1..(Alives * 2) : loop[k] = body[((k - 1) % 2) + 1]
  <2>1. Len(body) > 0
    BY <1>2
  <2>2. /\ loop \in Seq(S) /\ Len(loop) = Alives * Len(body)
        /\ \A k \in 1..(Alives * Len(body)) :
             loop[k] = body[((k - 1) % Len(body)) + 1]
    BY <1>1, <1>2, <2>1, LoopBody
  <2>3. QED
    BY <1>2, <2>2
<1> HIDE DEF loop
<1>4. ASSUME NEW k \in 1..Len(loop), loop[k].op = "compare"
      PROVE  k > 1 /\ loop[k - 1].op = "sample"
  <2>1. (k - 1) % 2 = 0 \/ (k - 1) % 2 = 1
    BY <1>1, <1>3
  <2>2. (k - 1) % 2 # 0
    <3>1. SUFFICES ASSUME (k - 1) % 2 = 0 PROVE FALSE
      OBVIOUS
    <3>2. loop[k] = body[1]
      BY <1>1, <1>3, <3>1
    <3>3. QED
      BY <1>2, <1>4, <3>2
  <2>3. k > 1 /\ k - 1 \in 1..(Alives * 2) /\ ((k - 1) - 1) % 2 = 0
    BY <1>1, <1>3, <2>1, <2>2
  <2>4. loop[k - 1] = body[1]
    BY <1>3, <2>3
  <2>5. QED
    BY <1>2, <2>3, <2>4
<1>5. QED
  BY <1>3, <1>4 DEF Paired, S, loop, body

\* A sequence that compares nothing is paired.
LEMMA NoCompare ==
  ASSUME NEW S, NEW p \in Seq(S), \A x \in S : x.op # "compare"
  PROVE  Paired(p)
<1>1. \A k \in 1..Len(p) : p[k] \in S
  OBVIOUS
<1>2. QED
  BY <1>1 DEF Paired

\* What comes after the results.
LEMMA DestroyForm ==
  ASSUME NEW kernels \in {"none", "master", "own"}, NEW multi \in BOOLEAN
  PROVE  LET D == TestDestroy(kernels, multi)
         IN  /\ D \in Seq(TailStatements(kernels)) /\ Paired(D)
             /\ \A k \in 1..Len(D) :
                  /\ D[k].op # "print"
                  /\ ~multi => D[k].op # "compare"
<1> DEFINE D == TestDestroy(kernels, multi)
           T == TailStatements(kernels)
           destroy == DestroyKernel(0) \o DestroyKernel(1) \o
                      DestroyKernel(0) \o DestroyKernel(1) \o
                      Do("setKernel", <<A, KernelFor(0, kernels)>>) \o
                      Do("setKernel", <<B, KernelFor(1, kernels)>>)
           loop == Repeat(Alives, Alive)
           U == Statements({"destroyKi"}, Image) \cup
                Statements({"setKernel"}, {<<A, KernelFor(0, kernels)>>,
                                           <<B, KernelFor(1, kernels)>>})
           W == Statements({"sample", "compare"}, {syn_ep})
           V == U \cup W
<1>1. destroy \in Seq(U)
  <2>1. /\ DestroyKernel(0) \in Seq(U) /\ DestroyKernel(1) \in Seq(U)
        /\ Do("setKernel", <<A, KernelFor(0, kernels)>>) \in Seq(U)
        /\ Do("setKernel", <<B, KernelFor(1, kernels)>>) \in Seq(U)
    BY BenchmarksAssumption DEF DestroyKernel, Do, Statements
  <2> HIDE DEF U
  <2>2. QED
    BY <2>1, Joined
<1>2. /\ \A x \in U : x.op # "compare" /\ x.op # "print"
      /\ \A x \in V : x.op # "print"
  BY DEF Statements
<1>3. U \subseteq V /\ W \subseteq V /\ V \subseteq T
  BY DEF TailStatements, Statements
<1>4. loop \in Seq(W) /\ Paired(loop)
  BY AliveLoop
<1>5. /\ multi /\ kernels # "none" => D = destroy \o loop
      /\ ~multi /\ kernels # "none" => D = destroy \o <<>>
      /\ kernels = "none" => D = <<>>
  BY DEF TestDestroy
<1> HIDE DEF T, U, V, W, destroy, loop, D
<1>6. Paired(destroy) /\ destroy \in Seq(V) /\ loop \in Seq(V)
  BY <1>1, <1>2, <1>3, <1>4, NoCompare, MoreStatements
<1>7. <<>> \in Seq(U)
  OBVIOUS
<1>8. CASE multi /\ kernels # "none"
  <2>1. D \in Seq(V) /\ Paired(D)
    BY <1>4, <1>5, <1>6, <1>8, Joined, PairedJoined
  <2>2. \A k \in 1..Len(D) : D[k].op # "print"
    BY <1>2, <2>1
  <2>3. D \in Seq(T)
    BY <1>3, <2>1, MoreStatements
  <2>4. QED
    BY <1>8, <2>1, <2>2, <2>3 DEF T, D
<1>9. CASE ~multi \/ kernels = "none"
  <2>1. D \in Seq(U)
    BY <1>1, <1>5, <1>7, <1>9, Joined
  <2>2. \A k \in 1..Len(D) : D[k].op # "print" /\ D[k].op # "compare"
    BY <1>2, <2>1
  <2>3. D \in Seq(T) /\ Paired(D)
    <3>1. U \subseteq T
      BY <1>3
    <3>2. QED
      BY <1>2, <2>1, <3>1, MoreStatements, NoCompare
  <2>4. QED
    BY <2>2, <2>3 DEF T, D
<1>10. QED
  BY <1>8, <1>9

\* The tail of every benchmark: it prints after it has received, and on one
\* core it destroys the kernels after both results.
LEMMA TailForm ==
  ASSUME NEW bench \in Bench, NEW kernels \in {"none", "master", "own"}
  PROVE  LET T == TailProgram(bench, kernels)
         IN  /\ T \in Seq(TailStatements(kernels)) /\ Paired(T)
             /\ \A k \in 1..Len(T) :
                  /\ T[k].op = "compare" => bench = "funcMulti"
                  /\ T[k].op = "print" =>
                       /\ bench \in {"ipc", "flush", "flushOnly", "splash"}
                       /\ k > 1 /\ T[1] = [op |-> "recv", arg |-> a_ep]
                  /\ T[k].op = "destroyKi" /\ bench = "func" =>
                       /\ k > 2 /\ T[1] = [op |-> "recv", arg |-> b_ep]
                       /\ T[2] = [op |-> "recv", arg |-> a_ep]
<1> DEFINE T == TailProgram(bench, kernels)
           S == TailStatements(kernels)
           r(ep) == [op |-> "recv", arg |-> ep]
<1>1. CASE bench \in {"ipc", "flush", "flushOnly", "splash"}
  <2>1. T = Recv(a_ep) \o PrintResult
    BY <1>1 DEF TailProgram, Await
  <2>2. Recv(a_ep) \in Seq(S) /\ PrintResult \in Seq(S)
    BY DEF Recv, PrintResult, Do, TailStatements, Statements
  <2>3. T \in Seq(S)
    BY <2>1, <2>2, Joined
  <2> HIDE DEF T
  <2>4. Len(T) = 2 /\ T[1] = r(a_ep) /\ T[2].op = "print"
    BY <2>1, SMT DEF Recv, PrintResult, Do
  <2>5. QED
    BY <1>1, <2>3, <2>4 DEF Paired, T
<1>2. CASE bench = "mastik"
  <2>1. T = Send(a_ep) \o Recv(a_ep) \o Send(a_ep) \o Recv(a_ep)
    BY <1>2 DEF TailProgram, RunMulti
  <2> DEFINE U == Statements({"send", "recv"}, {a_ep})
  <2>2. Send(a_ep) \in Seq(U) /\ Recv(a_ep) \in Seq(U)
    BY DEF Send, Recv, Do, Statements
  <2>3. U \subseteq S /\ \A x \in U : x.op \notin {"compare", "print", "destroyKi"}
    BY DEF TailStatements, Statements
  <2> HIDE DEF U, S, T
  <2>4. T \in Seq(U)
    BY <2>1, <2>2, Joined
  <2>5. T \in Seq(S)
    BY <2>3, <2>4, MoreStatements
  <2>6. Paired(T)
    BY <2>3, <2>4, NoCompare
  <2>7. \A k \in 1..Len(T) : T[k].op \notin {"compare", "print", "destroyKi"}
    BY <2>3, <2>4
  <2>8. QED
    BY <2>5, <2>6, <2>7 DEF S, T
<1>3. CASE bench = "funcMulti"
  <2> DEFINE D == TestDestroy(kernels, TRUE)
             loop == Repeat(Alives, Alive)
             U == Statements({"sample", "compare"}, {syn_ep})
  <2>1. T = loop \o D
    BY <1>3 DEF TailProgram
  <2>2. U \subseteq S
    BY DEF TailStatements, Statements
  <2>3. loop \in Seq(U) /\ Paired(loop)
    BY AliveLoop
  <2> HIDE DEF U, loop
  <2>4. D \in Seq(S) /\ Paired(D) /\ \A k \in 1..Len(D) : D[k].op # "print"
    BY DestroyForm
  <2> HIDE DEF D, S, T
  <2>5. loop \in Seq(S)
    BY <2>2, <2>3, MoreStatements
  <2>6. T \in Seq(S) /\ Paired(T)
    BY <2>1, <2>3, <2>4, <2>5, Joined, PairedJoined
  <2>7. \A k \in 1..Len(T) : T[k].op # "print"
    <3> DEFINE X == {x \in S : x.op # "print"}
    <3>1. \A x \in U : x.op # "print"
      BY DEF U, Statements
    <3>2. loop \in Seq(X)
      BY <2>2, <2>3, <3>1
    <3>3. D \in Seq(X)
      BY <2>4
    <3>4. T \in Seq(X)
      <4> HIDE DEF X
      <4>1. QED
        BY <2>1, <3>2, <3>3, Joined
    <3>5. QED
      BY <3>4
  <2>8. QED
    BY <1>3, <2>6, <2>7 DEF S, T
<1>4. CASE bench = "func"
  <2> DEFINE D == TestDestroy(kernels, FALSE)
             q == Recv(b_ep) \o Recv(a_ep)
  <2>1. T = q \o D
    BY <1>4 DEF TailProgram
  <2>2. /\ D \in Seq(S) /\ Paired(D)
        /\ \A k \in 1..Len(D) : D[k].op \notin {"print", "compare"}
    BY DestroyForm
  <2>3. /\ Recv(b_ep) \in Seq(S) /\ Recv(a_ep) \in Seq(S)
        /\ Len(q) = 2 /\ q[1] = r(b_ep) /\ q[2] = r(a_ep)
    BY SMT DEF Recv, Do, TailStatements, Statements
  <2>4. q \in Seq(S) /\ Paired(q)
    <3>1. q \in Seq(S)
      BY <2>3, Joined
    <3>2. \A k \in 1..Len(q) : q[k].op = "recv"
      <4> HIDE DEF q
      <4>1. QED
        BY <2>3
    <3>3. QED
      BY <3>1, <3>2 DEF Paired
  <2> HIDE DEF D, q, S, T
  <2>5. T \in Seq(S) /\ Paired(T)
    BY <2>1, <2>2, <2>4, Joined, PairedJoined
  <2>6. T[1] = r(b_ep) /\ T[2] = r(a_ep)
    <3>1. \A k \in 1..Len(q) : (q \o D)[k] = q[k]
      BY <2>2, <2>4, Prefix
    <3>2. 1 \in 1..Len(q) /\ 2 \in 1..Len(q)
      BY <2>3
    <3>3. QED
      BY <2>1, <2>3, <3>1, <3>2, Zenon
  <2>7. \A k \in 1..Len(T) : T[k].op \notin {"print", "compare"}
    <3> DEFINE X == {x \in S : x.op \notin {"print", "compare"}}
    <3>1. q \in Seq(X)
      <4>1. r(a_ep) \in X /\ r(b_ep) \in X
        BY DEF S, TailStatements, Statements
      <4> HIDE DEF X
      <4>2. \A k \in 1..Len(q) : q[k] \in X
        <5> HIDE DEF r
        <5>1. \A k \in 1..2 : k = 1 \/ k = 2
          OBVIOUS
        <5>2. QED
          BY <2>3, <4>1, <5>1
      <4>3. QED
        BY <2>4, <4>2
    <3>2. D \in Seq(X)
      BY <2>2
    <3>3. T \in Seq(X)
      <4> HIDE DEF X
      <4>1. QED
        BY <2>1, <3>1, <3>2, Joined
    <3>4. QED
      BY <3>3
  <2>8. \A k \in 1..Len(T) : T[k].op = "destroyKi" => k > 2
    BY <2>6
  <2>9. QED
    BY <1>4, <2>5, <2>6, <2>7, <2>8 DEF S, T
<1>5. QED
  BY <1>1, <1>2, <1>3, <1>4 DEF Bench

\* The root task's program as a whole.
RootForm(P, m, n, bench, kernels) ==
  /\ \A k \in 1..m : P[k].op = "createKi" /\ P[k].arg \in Image
  /\ SetsUp(P, m, bench, kernels)
  /\ \A k \in (m + n + 1)..Len(P) :
       /\ P[k] \in TailStatements(kernels)
       /\ P[k].op = "compare" =>
            bench = "funcMulti" /\ k > m + n + 1 /\ P[k - 1].op = "sample"
       /\ P[k].op = "print" =>
            /\ bench \in {"ipc", "flush", "flushOnly", "splash"}
            /\ k > m + n + 1 /\ P[m + n + 1] = [op |-> "recv", arg |-> a_ep]
       /\ P[k].op = "destroyKi" /\ bench = "func" =>
            /\ k > m + n + 2 /\ P[m + n + 1] = [op |-> "recv", arg |-> b_ep]
            /\ P[m + n + 2] = [op |-> "recv", arg |-> a_ep]

\* Three sequences in a row.
LEMMA ThreeInRow ==
  ASSUME NEW S, NEW p \in Seq(S), NEW q \in Seq(S), NEW r \in Seq(S),
         NEW P, P = p \o (q \o r)
  PROVE  /\ Len(P) = Len(p) + Len(q) + Len(r)
         /\ \A k \in 1..Len(p) : P[k] = p[k]
         /\ \A k \in 1..Len(q) : P[Len(p) + k] = q[k]
         /\ \A k \in 1..Len(r) : P[Len(p) + Len(q) + k] = r[k]
<1> DEFINE Q == p \o (q \o r)
<1>1. /\ Len(Q) = Len(p) + Len(q) + Len(r)
      /\ \A k \in 1..Len(p) : Q[k] = p[k]
      /\ \A k \in 1..Len(q) : Q[Len(p) + k] = q[k]
      /\ \A k \in 1..Len(r) : Q[Len(p) + Len(q) + k] = r[k]
  BY SMT
<1>2. P = Q
  OBVIOUS
<1> HIDE DEF Q
<1>3. QED
  BY <1>1, <1>2

\* Every program of the root task has the form of its benchmark.
LEMMA RootProgram ==
  ASSUME NEW c \in Config
  PROVE  LET P == Programs[c][Root]
             m == Images(c.kernels)
             n == SetupLength(c.bench)
         IN  /\ Len(P) \in Nat /\ Len(P) >= m + n
             /\ RootForm(P, m, n, c.bench, c.kernels)
<1> DEFINE P == Programs[c][Root]
           b == c.bench
           kernels == c.kernels
           m == Images(kernels)
           n == SetupLength(b)
           K == CreateKernelPd(kernels)
           S == SetupProgram(b, kernels)
           T == TailProgram(b, kernels)
           Q == K \o (S \o T)
<1>1. b \in Bench /\ kernels \in {"none", "master", "own"}
  BY DEF Config
<1>2. /\ K \in Seq(Statements({"createKi"}, Image)) /\ Len(K) = m
  <2>1. CASE kernels = "none"
    BY <2>1 DEF CreateKernelPd, Images
  <2>2. CASE kernels # "none"
    <3>1. /\ Do("createKi", 0) \in Seq(Statements({"createKi"}, Image))
          /\ Do("createKi", 1) \in Seq(Statements({"createKi"}, Image))
          /\ Len(Do("createKi", 0)) = 1 /\ Len(Do("createKi", 1)) = 1
      BY BenchmarksAssumption DEF Do, Statements
    <3>2. K = Do("createKi", 0) \o Do("createKi", 1) /\ m = 2
      BY <2>2 DEF CreateKernelPd, Images
    <3>3. QED
      BY <3>1, <3>2, Joined
  <2>3. QED
    BY <2>1, <2>2
<1>3. PICK X : S \in Seq(X)
  BY <1>1, SetupForm
<1>4. Len(S) = n /\ SetsUp(S, 0, b, kernels)
  BY <1>1, SetupForm
<1>5. T \in Seq(TailStatements(kernels))
  BY <1>1, TailForm
<1>14. /\ Paired(T)
       /\ \A k \in 1..Len(T) :
            /\ T[k].op = "compare" => b = "funcMulti"
            /\ T[k].op = "print" =>
                 /\ b \in {"ipc", "flush", "flushOnly", "splash"}
                 /\ k > 1 /\ T[1] = [op |-> "recv", arg |-> a_ep]
            /\ T[k].op = "destroyKi" /\ b = "func" =>
                 /\ k > 2 /\ T[1] = [op |-> "recv", arg |-> b_ep]
                 /\ T[2] = [op |-> "recv", arg |-> a_ep]
  BY <1>1, TailForm
<1>6. P = Q
  <2>1. CASE b \in {"ipc", "flush", "flushOnly"}
    <3>1. P = K \o LaunchBenchFlush(kernels)
      BY <2>1, ProgramOf
    <3>2. LaunchBenchFlush(kernels) = S \o T
      BY <2>1 DEF LaunchBenchFlush, SetupProgram, TailProgram
    <3>3. QED
      BY <3>1, <3>2
  <2>2. CASE b = "splash"
    <3>1. P = K \o LaunchBenchSplash(kernels)
      BY <2>2, ProgramOf
    <3>2. LaunchBenchSplash(kernels) = S \o T
      BY <2>2 DEF LaunchBenchSplash, SetupProgram, TailProgram
    <3>3. QED
      BY <3>1, <3>2
  <2>3. CASE b = "mastik"
    <3>1. P = K \o (InitTimingThreads(kernels) \o RunMulti)
      BY <2>3, ProgramOf
    <3>2. InitTimingThreads(kernels) = S /\ RunMulti = T
      BY <2>3 DEF SetupProgram, TailProgram
    <3>3. QED
      BY <3>1, <3>2
  <2>4. CASE b \in {"func", "funcMulti"}
    <3> DEFINE multi == b = "funcMulti"
               D == TestDestroy(kernels, multi)
               R == IF multi THEN Repeat(Alives, Alive) ELSE Recv(b_ep) \o Recv(a_ep)
               Y == X \cup TailStatements(kernels)
    <3>1. P = K \o (S \o R \o D)
      <4>1. P = K \o FuncTest(kernels, multi)
        BY <2>4, ProgramOf
      <4>2. FuncTest(kernels, multi) = S \o R \o D
        BY <2>4 DEF FuncTest, SetupProgram
      <4>3. QED
        BY <4>1, <4>2
    <3>2. T = R \o D
      BY <2>4 DEF TailProgram
    <3>3. D \in Seq(Y) /\ R \in Seq(Y) /\ S \in Seq(Y)
      <4>1. /\ D \in Seq(TailStatements(kernels))
        BY <1>1, DestroyForm
      <4>2. R \in Seq(TailStatements(kernels))
        <5>1. CASE multi
          <6>1. Statements({"sample", "compare"}, {syn_ep}) \subseteq TailStatements(kernels)
            BY DEF TailStatements, Statements
          <6>2. QED
            BY <5>1, <6>1, AliveLoop, MoreStatements
        <5>2. CASE ~multi
          <6>1. /\ Recv(b_ep) \in Seq(TailStatements(kernels))
                /\ Recv(a_ep) \in Seq(TailStatements(kernels))
            BY DEF Recv, Do, TailStatements, Statements
          <6>2. QED
            BY <5>2, <6>1, Joined
        <5>3. QED
          BY <5>1, <5>2
      <4>3. TailStatements(kernels) \subseteq Y /\ X \subseteq Y
        OBVIOUS
      <4> HIDE DEF D, R, S, Y
      <4>4. QED
        BY <1>3, <4>1, <4>2, <4>3, MoreStatements
    <3> HIDE DEF D, R, S, Y
    <3>4. S \o (R \o D) = (S \o R) \o D
      BY <3>3, Grouping
    <3>5. QED
      BY <3>1, <3>2, <3>4
  <2>5. QED
    BY <1>1, <2>1, <2>2, <2>3, <2>4 DEF Bench
<1>7. /\ Len(P) = m + n + Len(T)
      /\ \A k \in 1..m : P[k] = K[k]
      /\ \A k \in 1..n : P[m + k] = S[k]
      /\ \A k \in 1..Len(T) : P[m + n + k] = T[k]
      /\ Len(T) \in Nat
  <2> DEFINE Y == X \cup TailStatements(kernels) \cup Statements({"createKi"}, Image)
  <2>1. /\ X \subseteq Y /\ TailStatements(kernels) \subseteq Y
        /\ Statements({"createKi"}, Image) \subseteq Y
    OBVIOUS
  <2> HIDE DEF Y, K, S, T, P
  <2>2. K \in Seq(Y) /\ S \in Seq(Y) /\ T \in Seq(Y)
    BY <1>2, <1>3, <1>5, <2>1, MoreStatements
  <2> DEFINE Z == K \o (S \o T)
  <2>3. /\ Len(Z) = Len(K) + Len(S) + Len(T)
        /\ \A k \in 1..Len(K) : Z[k] = K[k]
        /\ \A k \in 1..Len(S) : Z[Len(K) + k] = S[k]
        /\ \A k \in 1..Len(T) : Z[Len(K) + Len(S) + k] = T[k]
    BY <2>2, ThreeInRow
  <2>4. P = Z /\ Len(T) \in Nat
    BY <1>6, <2>2
  <2> HIDE DEF m, n, Z
  <2>5. QED
    BY <1>2, <1>4, <2>3, <2>4
<1>8. /\ m \in Nat /\ n \in Nat /\ n >= 5
  BY DEF Images, SetupLength
<1>9. \A k \in 1..m : P[k].op = "createKi" /\ P[k].arg \in Image
  <2> HIDE DEF P, K, m
  <2>1. \A k \in 1..m : K[k] \in Statements({"createKi"}, Image)
    BY <1>2
  <2>2. QED
    BY <1>7, <2>1 DEF Statements
<1>10. SetsUp(P, m, b, kernels)
  <2> HIDE DEF P, S, m
  <2>1. /\ P[m + 1] = S[1] /\ P[m + 2] = S[2]
        /\ P[m + n - 1] = S[n - 1] /\ P[m + n] = S[n]
    <3> HIDE DEF n
    <3>1. /\ 1 \in 1..n /\ 2 \in 1..n /\ n - 1 \in 1..n /\ n \in 1..n
          /\ m + (n - 1) = m + n - 1
      BY <1>8
    <3>2. QED
      BY <1>7, <3>1
  <2>2. \A k \in (m + 3)..(m + n - 2) : IsGrant(P[k])
    <3> HIDE DEF n
    <3>1. SUFFICES ASSUME NEW k \in (m + 3)..(m + n - 2) PROVE IsGrant(P[k])
      OBVIOUS
    <3>2. k - m \in 3..(n - 2) /\ k - m \in 1..n /\ m + (k - m) = k
      BY <1>8
    <3>3. P[k] = S[k - m]
      BY <1>7, <3>2
    <3>4. k - m \in (0 + 3)..(0 + n - 2)
      BY <1>8, <3>2
    <3>5. IsGrant(S[k - m])
      BY <1>4, <3>4 DEF SetsUp, n
    <3>6. QED
      BY <3>3, <3>5
  <2>3. 0 + 1 = 1 /\ 0 + 2 = 2 /\ 0 + n = n /\ 0 + n - 1 = n - 1
    BY <1>8
  <2>4. QED
    BY <1>4, <2>1, <2>2, <2>3 DEF SetsUp
<1>11. ASSUME NEW k \in (m + n + 1)..Len(P)
       PROVE  /\ P[k] \in TailStatements(kernels)
              /\ P[k].op = "compare" =>
                   b = "funcMulti" /\ k > m + n + 1 /\ P[k - 1].op = "sample"
              /\ P[k].op = "print" =>
                   /\ b \in {"ipc", "flush", "flushOnly", "splash"}
                   /\ k > m + n + 1 /\ P[m + n + 1] = [op |-> "recv", arg |-> a_ep]
              /\ P[k].op = "destroyKi" /\ b = "func" =>
                   /\ k > m + n + 2 /\ P[m + n + 1] = [op |-> "recv", arg |-> b_ep]
                   /\ P[m + n + 2] = [op |-> "recv", arg |-> a_ep]
  <2> HIDE DEF P, T, m, n
  <2> DEFINE j == k - (m + n)
  <2>1. j \in 1..Len(T) /\ k = m + n + j
    BY <1>7, <1>8
  <2> HIDE DEF j
  <2>2. P[k] = T[j]
    BY <1>7, <2>1
  <2>3. P[k] \in TailStatements(kernels)
    BY <1>5, <2>1, <2>2
  <2>4. ASSUME P[k].op = "compare"
        PROVE  b = "funcMulti" /\ k > m + n + 1 /\ P[k - 1].op = "sample"
    <3>1. b = "funcMulti" /\ j > 1 /\ T[j - 1].op = "sample"
      BY <1>14, <2>1, <2>2, <2>4 DEF Paired
    <3>2. j - 1 \in 1..Len(T) /\ m + n + (j - 1) = k - 1
      <4>1. Len(T) \in Nat /\ j \in Int /\ 1 <= j /\ j <= Len(T) /\ j > 1
        BY <1>7, <2>1, <3>1
      <4>2. j - 1 \in 1..Len(T)
        BY <4>1
      <4>3. m + n + (j - 1) = k - 1
        BY <1>8, <2>1, <4>1
      <4>4. QED
        BY <4>2, <4>3
    <3>3. P[k - 1] = T[j - 1]
      BY <1>7, <3>2
    <3>4. QED
      BY <1>8, <2>1, <3>1, <3>3
  <2>5. ASSUME P[k].op = "print"
        PROVE  /\ b \in {"ipc", "flush", "flushOnly", "splash"}
               /\ k > m + n + 1 /\ P[m + n + 1] = [op |-> "recv", arg |-> a_ep]
    <3>1. /\ b \in {"ipc", "flush", "flushOnly", "splash"}
          /\ j > 1 /\ T[1] = [op |-> "recv", arg |-> a_ep]
      BY <1>14, <2>1, <2>2, <2>5
    <3>2. 1 \in 1..Len(T)
      BY <1>7, <2>1
    <3>3. P[m + n + 1] = T[1]
      BY <1>7, <3>2
    <3>4. QED
      BY <1>8, <2>1, <3>1, <3>3
  <2>6. ASSUME P[k].op = "destroyKi", b = "func"
        PROVE  /\ k > m + n + 2 /\ P[m + n + 1] = [op |-> "recv", arg |-> b_ep]
               /\ P[m + n + 2] = [op |-> "recv", arg |-> a_ep]
    <3>1. /\ j > 2 /\ T[1] = [op |-> "recv", arg |-> b_ep]
          /\ T[2] = [op |-> "recv", arg |-> a_ep]
      BY <1>14, <2>1, <2>2, <2>6
    <3>2. 1 \in 1..Len(T) /\ 2 \in 1..Len(T)
      BY <1>7, <2>1, <3>1
    <3>3. P[m + n + 1] = T[1] /\ P[m + n + 2] = T[2]
      BY <1>7, <3>2
    <3>4. QED
      BY <1>8, <2>1, <3>1, <3>3
  <2>7. QED
    BY <2>3, <2>4, <2>5, <2>6
<1>12. Len(P) \in Nat /\ Len(P) >= m + n
  <2> HIDE DEF P, T, m, n
  <2>1. QED
    BY <1>7, <1>8
<1>13. QED
  BY <1>9, <1>10, <1>11, <1>12 DEF RootForm

-----------------------------------------------------------------------------
(* The invariant *)

\* How far the root task is tells which processes exist and which run.
SetupFollows ==
  LET m == Images(config.kernels)
      n == SetupLength(config.bench)
  IN  \A t \in Process :
        /\ process[t].kernel # NoKernel <=>
             pc[Root] > m + (IF t = CreatedFirst(config.bench) THEN 1 ELSE 2)
        /\ process[t].running <=>
             pc[Root] > m + n - (IF t = LaunchedFirst(config.bench) THEN 1 ELSE 0)

\* A process blocked in a call has just made it.
LastWas(t, op, ep) ==
  pc[t] > 1 /\ Program(t)[pc[t] - 1].op = op /\ Program(t)[pc[t] - 1].arg = ep

BlockedWhere ==
  \A t \in Thread, op \in {"send", "call"}, ep \in Endpoint :
    ipc[t] = Blocked(op, ep) => LastWas(t, op, ep)

\* Only A calls.
OnlyACalls == \A t \in Thread : caller[t] \in {A, NoThread}

\* t has executed the statement op(ep).
Done(t, op, ep) ==
  \E k \in 1..(pc[t] - 1) : Program(t)[k].op = op /\ Program(t)[k].arg = ep

\* What the root task has received on ep was sent by t.
HandedOver(t, ep) ==
  Done(Root, "recv", ep) /\ ipc[Root] # Blocked("recv", ep) => Done(t, "send", ep)

ResultsHandedOver ==
  /\ config.bench \in {"ipc", "flush", "flushOnly", "splash", "func"} =>
       HandedOver(A, a_ep)
  /\ config.bench = "func" => HandedOver(B, b_ep)

\* The receiver's kernel, and what alive() has sampled when it is gone.
OwnKernel ==
  config.kernels = "own" /\ config.bench = "funcMulti" =>
    process[B].kernel \in {NoKernel, 1}

DeadSampled ==
  config.kernels = "own" /\ image[1] # "cloned" /\
  HasNext(Root) /\ Statement(Root).op = "compare" => probe.local = record

Inv ==
  /\ TypeOK /\ probe.tries < Tries /\ SetupInv
  /\ SetupFollows /\ OwnKernel /\ DeadSampled
  /\ BlockedWhere /\ OnlyACalls /\ ResultsHandedOver

-----------------------------------------------------------------------------
(* Where the root task is *)

\* The setup is at least two creations, one grant and two launches.
LEMMA Lengths ==
  ASSUME NEW c \in Config
  PROVE  /\ Images(c.kernels) \in {0, 2}
         /\ SetupLength(c.bench) \in {5, 6, 11}
BY DEF Images, SetupLength

\* A number is somewhere.
LEMMA Places ==
  ASSUME NEW k \in Int, NEW m \in Int, NEW n \in Int
  PROVE  \/ k <= m \/ k = m + 1 \/ k = m + 2 \/ (m + 3 <= k /\ k <= m + n - 2)
         \/ k = m + n - 1 \/ k = m + n \/ m + n + 1 <= k
OBVIOUS

\* The operation of the root task's next statement tells where it is.
LEMMA RootWhere ==
  ASSUME NEW c \in Config,
         NEW P, P = Programs[c][Root], NEW k \in 1..Len(P),
         NEW m, m = Images(c.kernels), NEW n, n = SetupLength(c.bench)
  PROVE  LET f == CreatedFirst(c.bench)
             l == LaunchedFirst(c.bench)
         IN  \/ k <= m /\ P[k].op = "createKi" /\ P[k].arg \in Image
             \/ k = m + 1 /\ IsCreate(P[k], f) /\ P[k].arg[2] = KernelFor(0, c.kernels)
             \/ k = m + 2 /\ IsCreate(P[k], Other(f)) /\ P[k].arg[2] = KernelFor(1, c.kernels)
             \/ k \in (m + 3)..(m + n - 2) /\ IsGrant(P[k])
             \/ k = m + n - 1 /\ P[k] = [op |-> "launch", arg |-> l]
             \/ k = m + n /\ P[k] = [op |-> "launch", arg |-> Other(l)]
             \/ k > m + n /\ P[k] \in TailStatements(c.kernels)
<1>1. /\ Len(P) \in Nat /\ Len(P) >= m + n /\ RootForm(P, m, n, c.bench, c.kernels)
  BY RootProgram
<1>2. m \in Nat /\ n \in Nat /\ n >= 5
  BY Lengths
<1>3. \/ k \in 1..m \/ k = m + 1 \/ k = m + 2 \/ k \in (m + 3)..(m + n - 2)
      \/ k = m + n - 1 \/ k = m + n \/ k \in (m + n + 1)..Len(P)
  <2>1. /\ k \in Int /\ 1 <= k /\ k <= Len(P) /\ Len(P) \in Int
        /\ m \in Int /\ n \in Int
    BY <1>1, <1>2
  <2>2. \/ k <= m \/ k = m + 1 \/ k = m + 2 \/ (m + 3 <= k /\ k <= m + n - 2)
        \/ k = m + n - 1 \/ k = m + n \/ m + n + 1 <= k
    BY <2>1, Places
  <2>3. QED
    BY <2>1, <2>2
<1>4. CASE k \in 1..m
  BY <1>1, <1>2, <1>4 DEF RootForm
<1>5. CASE k \in (m + 3)..(m + n - 2)
  BY <1>1, <1>5 DEF RootForm, SetsUp
<1>6. CASE k = m + 1 \/ k = m + 2
  BY <1>1, <1>6 DEF RootForm, SetsUp
<1>7. CASE k = m + n - 1 \/ k = m + n
  BY <1>1, <1>7 DEF RootForm, SetsUp
<1>8. CASE k \in (m + n + 1)..Len(P)
  <2>1. P[k] \in TailStatements(c.kernels)
    BY <1>1, <1>8 DEF RootForm
  <2>2. k > m + n
    BY <1>2, <1>8
  <2>3. QED
    BY <2>1, <2>2
<1>9. QED
  BY <1>3, <1>4, <1>5, <1>6, <1>7, <1>8

\* An operation out of ops is what its place allows.
LEMMA RootOps ==
  ASSUME NEW c \in Config, NEW x \in TailStatements(c.kernels)
  PROVE  /\ x.op \in {"recv", "send", "print", "sample", "compare", "destroyKi",
                      "setKernel"}
         /\ x.op = "recv" => x.arg \in {a_ep, b_ep}
         /\ x.op = "send" => x.arg = a_ep
         /\ x.op = "destroyKi" => x.arg \in Image
         /\ x.op = "setKernel" =>
              \/ x.arg = <<A, KernelFor(0, c.kernels)>>
              \/ x.arg = <<B, KernelFor(1, c.kernels)>>
BY DEF TailStatements, Statements

\* The operations of the setup by name.
LEMMA SetupOps ==
  ASSUME NEW x
  PROVE  /\ \A t : IsCreate(x, t) => x.op = "create"
         /\ IsGrant(x) => x.op \in {"copyCaps", "mapBuf", "mapShared"}
BY DEF IsCreate, IsGrant

\* The kernels threads get.
LEMMA KernelForType ==
  ASSUME NEW k \in {0, 1}, NEW kernels
  PROVE  /\ KernelFor(k, kernels) \in Kernel
         /\ kernels = "own" => KernelFor(k, kernels) = k
BY BenchmarksAssumption DEF KernelFor, Kernel

-----------------------------------------------------------------------------
(* What the setup does to a process *)

\* Creation.
LEMMA CreateMakes ==
  ASSUME SetupInv, NEW t \in Process, NEW k \in Kernel, NEW u \in BOOLEAN,
         CreateThread(t, k, u)
  PROVE  /\ process'[t].kernel = k /\ ~process'[t].running
         /\ \A v \in Process \ {t} : process'[v] = process[v]
         /\ UNCHANGED image
<1> DEFINE p == [NoProcess EXCEPT !.kernel = k, !.untype_none = u,
                   !.frames = {"stack"}, !.caps = 1..(FirstFreeSlot - 1) \ Holes,
                   !.next = FirstFreeSlot]
           q == WithCaps(p, 2)
<1>1. process' = [process EXCEPT ![t] = q] /\ UNCHANGED image
  BY DEF CreateThread
<1>2. q.kernel = k /\ q.running = FALSE
  <2>1. p.kernel = k /\ p.running = FALSE
    BY DEF NoProcess
  <2>2. q.kernel = p.kernel /\ q.running = p.running
    BY DEF WithCaps, NoProcess
  <2>3. QED
    BY <2>1, <2>2
<1> HIDE DEF q
<1>3. QED
  BY <1>1, <1>2 DEF SetupInv, ProcessesTypeOK

\* Copies and mappings change neither the kernel nor whether it runs.
LEMMA GrantKeeps ==
  ASSUME SetupInv, NEW t \in Process, NEW u \in Process, NEW n, NEW buffer,
         \/ CopyCaps(t, n) \/ MapBuf(t, buffer) \/ MapSharedBuf(t, u)
         \/ BenchInitEnv(t)
  PROVE  /\ \A v \in Process : /\ process'[v].kernel = process[v].kernel
                               /\ process'[v].running = process[v].running
         /\ UNCHANGED image
<1>1. \A v \in Process : process[v] \in ProcessRecord
  BY DEF SetupInv, ProcessesTypeOK
<1>2. process = [v \in Process |-> process[v]]
  BY DEF SetupInv, ProcessesTypeOK
<1>3. CASE CopyCaps(t, n)
  <2> DEFINE q == WithCaps(process[t], n)
  <2>1. q.kernel = process[t].kernel /\ q.running = process[t].running
    BY <1>1 DEF WithCaps, ProcessRecord
  <2>2. process' = [process EXCEPT ![t] = q] /\ UNCHANGED image
    BY <1>3 DEF CopyCaps
  <2> HIDE DEF q
  <2>3. QED
    BY <1>2, <2>1, <2>2
<1>4. CASE MapBuf(t, buffer)
  <2> DEFINE q == [process[t] EXCEPT !.frames = @ \cup {buffer}]
  <2>1. q.kernel = process[t].kernel /\ q.running = process[t].running
    BY <1>1 DEF ProcessRecord
  <2>2. process' = [process EXCEPT ![t] = q] /\ UNCHANGED image
    BY <1>4 DEF MapBuf
  <2> HIDE DEF q
  <2>3. QED
    BY <1>2, <2>1, <2>2
<1>5. CASE MapSharedBuf(t, u)
  <2> DEFINE q == [process[t] EXCEPT !.frames = @ \cup {"shared"}]
             mid == [process EXCEPT ![t] = q]
             r == [mid[u] EXCEPT !.frames = @ \cup {"shared"}]
  <2>1. q.kernel = process[t].kernel /\ q.running = process[t].running
        /\ q \in ProcessRecord
    BY <1>1 DEF ProcessRecord, Buffer
  <2>2. process' = [mid EXCEPT ![u] = r] /\ UNCHANGED image
    BY <1>5, <1>2 DEF MapSharedBuf
  <2> HIDE DEF q
  <2>3. /\ mid = [v \in Process |-> mid[v]] /\ mid[u] \in ProcessRecord
        /\ \A v \in Process : /\ mid[v].kernel = process[v].kernel
                              /\ mid[v].running = process[v].running
    BY <1>1, <1>2, <2>1
  <2> HIDE DEF mid
  <2>4. r.kernel = mid[u].kernel /\ r.running = mid[u].running
    BY <2>3 DEF ProcessRecord
  <2> HIDE DEF r
  <2>5. QED
    BY <2>2, <2>3, <2>4
<1>6. CASE BenchInitEnv(t)
  <2> DEFINE known == IF process[t].untype_none THEN {}
                      ELSE process[t].frames \cap {"args", "stack", "shared", "record"}
             q == [process[t] EXCEPT !.known = known]
  <2>1. q.kernel = process[t].kernel /\ q.running = process[t].running
    <3> HIDE DEF known
    <3>1. QED
      BY <1>1 DEF ProcessRecord
  <2>2. process' = [process EXCEPT ![t] = q] /\ UNCHANGED image
    BY <1>6 DEF BenchInitEnv
  <2> HIDE DEF q
  <2>3. QED
    BY <1>2, <2>1, <2>2
<1>7. QED
  BY <1>3, <1>4, <1>5, <1>6

\* Launching.
LEMMA LaunchMakes ==
  ASSUME SetupInv, NEW t \in Process, LaunchThread(t)
  PROVE  /\ process'[t].kernel = process[t].kernel /\ process'[t].running
         /\ \A v \in Process \ {t} : process'[v] = process[v]
         /\ UNCHANGED image
<1> DEFINE o == process[t]
           p == IF o.untype_none THEN o ELSE WithCaps(o, UntypeCount)
           first == IF p.untype_none THEN 0 ELSE p.next
           q == [p EXCEPT !.running = TRUE, !.frames = @ \cup {"args"},
                          !.first_free = first]
<1>1. process' = [process EXCEPT ![t] = q] /\ UNCHANGED image
  BY DEF LaunchThread
<1>2. o \in ProcessRecord
  BY DEF SetupInv, ProcessesTypeOK
<1>3. q.kernel = o.kernel /\ q.running
  <2> HIDE DEF o, first
  <2>1. p.kernel = o.kernel /\ DOMAIN p = DOMAIN o
    BY <1>2 DEF WithCaps, ProcessRecord
  <2> HIDE DEF p
  <2>2. DOMAIN p = {"kernel", "untype_none", "running", "caps", "next",
                    "first_free", "frames", "known"}
    BY <1>2, <2>1 DEF ProcessRecord
  <2>3. q.running = TRUE /\ q.kernel = p.kernel
    BY <2>2
  <2>4. QED
    BY <2>1, <2>3
<1> HIDE DEF q
<1>4. QED
  BY <1>1, <1>3 DEF SetupInv, ProcessesTypeOK

\* A process that is given another kernel.
LEMMA SetKernelMakes ==
  ASSUME SetupInv, NEW t \in Process, NEW k \in Kernel, SetKernel(t, k)
  PROVE  /\ process'[t].kernel \in {k, process[t].kernel}
         /\ process'[t].running = process[t].running
         /\ \A v \in Process \ {t} : process'[v] = process[v]
         /\ UNCHANGED image
<1> DEFINE new == IF Live(k) THEN k ELSE process[t].kernel
           q == [process[t] EXCEPT !.kernel = new]
<1>1. process' = [process EXCEPT ![t] = q] /\ UNCHANGED image
  BY DEF SetKernel
<1>2. process[t] \in ProcessRecord /\ new \in {k, process[t].kernel}
  BY DEF SetupInv, ProcessesTypeOK
<1> HIDE DEF new
<1>3. q.kernel = new /\ q.running = process[t].running
  BY <1>2 DEF ProcessRecord
<1> HIDE DEF q
<1>4. QED
  BY <1>1, <1>2, <1>3 DEF SetupInv, ProcessesTypeOK

-----------------------------------------------------------------------------
(* The root task's steps follow the protocol of the setup *)

\* The root task moves on in the same configuration.
LEMMA RootAdvances ==
  ASSUME TypeOK, Advance(Root)
  PROVE  config' = config /\ pc'[Root] = pc[Root] + 1
BY BenchmarksAssumption DEF TypeOK, Advance

\* The place of the next statement.
LEMMA RootAt ==
  ASSUME TypeOK, NEW op, At(Root, op)
  PROVE  LET m == Images(config.kernels)
             n == SetupLength(config.bench)
             f == CreatedFirst(config.bench)
             l == LaunchedFirst(config.bench)
             k == pc[Root]
             x == Statement(Root)
         IN  /\ x.op = op /\ k \in Nat /\ m \in Nat /\ n \in Nat /\ n >= 5
             /\ config \in Config
             /\ \/ k <= m /\ op = "createKi" /\ x.arg \in Image
                \/ k = m + 1 /\ IsCreate(x, f) /\ x.arg[2] = KernelFor(0, config.kernels)
                \/ k = m + 2 /\ IsCreate(x, Other(f))
                             /\ x.arg[2] = KernelFor(1, config.kernels)
                \/ k \in (m + 3)..(m + n - 2) /\ IsGrant(x)
                \/ k = m + n - 1 /\ x = [op |-> "launch", arg |-> l]
                \/ k = m + n /\ x = [op |-> "launch", arg |-> Other(l)]
                \/ k > m + n /\ x \in TailStatements(config.kernels)
<1> DEFINE P == Programs[config][Root]
           m == Images(config.kernels)
           n == SetupLength(config.bench)
           k == pc[Root]
<1>1. config \in Config /\ k \in Nat /\ k \in 1..(Len(P) + 1)
  BY BenchmarksAssumption DEF TypeOK, Program
<1>2. Len(P) \in Nat
  BY <1>1, RootProgram
<1>3. k \in 1..Len(P) /\ Statement(Root) = P[k] /\ P[k].op = op
  BY <1>1, <1>2 DEF At, HasNext, Statement, Program
<1>4. m \in Nat /\ n \in Nat /\ n >= 5
  BY <1>1, Lengths
<1> HIDE DEF P, k
<1>5. LET f == CreatedFirst(config.bench)
          l == LaunchedFirst(config.bench)
      IN  \/ k <= m /\ P[k].op = "createKi" /\ P[k].arg \in Image
          \/ k = m + 1 /\ IsCreate(P[k], f) /\ P[k].arg[2] = KernelFor(0, config.kernels)
          \/ k = m + 2 /\ IsCreate(P[k], Other(f))
                       /\ P[k].arg[2] = KernelFor(1, config.kernels)
          \/ k \in (m + 3)..(m + n - 2) /\ IsGrant(P[k])
          \/ k = m + n - 1 /\ P[k] = [op |-> "launch", arg |-> l]
          \/ k = m + n /\ P[k] = [op |-> "launch", arg |-> Other(l)]
          \/ k > m + n /\ P[k] \in TailStatements(config.kernels)
  BY <1>1, <1>3, RootWhere DEF P
<1>6. QED
  BY <1>1, <1>3, <1>4, <1>5, Zenon DEF k

\* The two processes, in either order.
LEMMA Pair ==
  /\ Process = {A, B} /\ A # B /\ Other(A) = B /\ Other(B) = A
  /\ \A bench : /\ CreatedFirst(bench) \in Process
                /\ LaunchedFirst(bench) \in Process
  /\ \A t \in Process : Other(t) \in Process /\ Other(t) # t
BY BenchmarksAssumption DEF Other, CreatedFirst, LaunchedFirst

\* Cloning an image.
LEMMA CreateKiStep ==
  ASSUME Inv, At(Root, "createKi"), CreateKi(Statement(Root).arg), Advance(Root)
  PROVE  Setup /\ SetupFollows' /\ OwnKernel'
<1> DEFINE m == Images(config.kernels)
           n == SetupLength(config.bench)
           k == pc[Root]
           x == Statement(Root)
<1>1. /\ k <= m /\ x.arg \in Image
      /\ k \in Nat /\ m \in Nat /\ n \in Nat /\ n >= 5
  BY RootAt, RootOps, SetupOps DEF Inv
<1>2. config' = config /\ pc'[Root] = k + 1
  BY RootAdvances DEF Inv
<1>3. process' = process
  BY DEF CreateKi
<1>4. Setup
  BY <1>1 DEF Setup
<1>5. SetupFollows'
  <2>1. ASSUME NEW t \in Process
        PROVE  process[t].kernel = NoKernel /\ ~process[t].running
    BY <1>1, Pair DEF Inv, SetupFollows
  <2> HIDE DEF m, n, k
  <2>2. ASSUME NEW t \in Process
        PROVE  /\ process'[t].kernel # NoKernel <=>
                    k + 1 > m + (IF t = CreatedFirst(config.bench) THEN 1 ELSE 2)
               /\ process'[t].running <=>
                    k + 1 > m + n - (IF t = LaunchedFirst(config.bench) THEN 1 ELSE 0)
    BY <1>1, <1>3, <2>1
  <2>3. QED
    BY <1>2, <2>2 DEF SetupFollows, m, n, k
<1>6. OwnKernel'
  BY <1>2, <1>3 DEF Inv, OwnKernel
<1>7. QED
  BY <1>4, <1>5, <1>6

\* Creating a process.
LEMMA CreateStep ==
  ASSUME Inv, At(Root, "create"), Advance(Root),
         LET x == Statement(Root).arg IN CreateThread(x[1], x[2], x[3])
  PROVE  Setup /\ SetupFollows' /\ OwnKernel'
<1> DEFINE m == Images(config.kernels)
           n == SetupLength(config.bench)
           k == pc[Root]
           f == CreatedFirst(config.bench)
           x == Statement(Root)
           t == x.arg[1]
           kernel == x.arg[2]
           none == x.arg[3]
<1>1. /\ k \in Nat /\ m \in Nat /\ n \in Nat /\ n >= 5 /\ none \in BOOLEAN
      /\ \/ k = m + 1 /\ t = f /\ kernel = KernelFor(0, config.kernels)
         \/ k = m + 2 /\ t = Other(f) /\ kernel = KernelFor(1, config.kernels)
  BY RootAt, RootOps, SetupOps DEF Inv, IsCreate
<1>2. config' = config /\ pc'[Root] = k + 1
  BY RootAdvances DEF Inv
<1>3. t \in Process /\ kernel \in Kernel /\ f \in Process
  BY <1>1, Pair, KernelForType
<1>4. CreateThread(t, kernel, none)
  OBVIOUS
<1> HIDE DEF m, n, k, f, t, kernel, none, x
<1>5. /\ process'[t].kernel = kernel /\ ~process'[t].running
      /\ \A v \in Process \ {t} : process'[v] = process[v]
  BY <1>1, <1>3, <1>4, CreateMakes DEF Inv
<1>6. ASSUME NEW v \in Process
      PROVE  /\ process[v].kernel # NoKernel <=> k > m + (IF v = f THEN 1 ELSE 2)
             /\ ~process[v].running
  <2>1. /\ process[v].kernel # NoKernel <=> k > m + (IF v = f THEN 1 ELSE 2)
        /\ process[v].running <=>
             k > m + n - (IF v = LaunchedFirst(config.bench) THEN 1 ELSE 0)
    BY DEF Inv, SetupFollows, k, m, n, f
  <2>2. QED
    BY <1>1, <2>1
<1>7. kernel # NoKernel
  BY <1>3, ProcessesAssumption DEF Kernel
<1>8. process[t].kernel = NoKernel
  BY <1>1, <1>3, <1>6, Pair
<1>9. Setup
  BY <1>1, <1>3, <1>4, <1>8 DEF Setup
<1>10. ASSUME NEW v \in Process
       PROVE  /\ process'[v].kernel # NoKernel <=>
                   k + 1 > m + (IF v = f THEN 1 ELSE 2)
              /\ process'[v].running <=>
                   k + 1 > m + n - (IF v = LaunchedFirst(config.bench) THEN 1 ELSE 0)
  <2>1. /\ ~process'[v].running
        /\ process'[v].kernel # NoKernel <=> v = t \/ process[v].kernel # NoKernel
    BY <1>5, <1>6, <1>7
  <2>2. (v = t \/ k > m + (IF v = f THEN 1 ELSE 2)) <=>
          k + 1 > m + (IF v = f THEN 1 ELSE 2)
    <3>1. CASE v = f
      <4>1. Other(f) # v
        BY <1>3, <3>1, Pair
      <4>2. QED
        BY <1>1, <3>1, <4>1
    <3>2. CASE v # f
      <4>1. v = Other(f)
        BY <1>3, <3>2, Pair
      <4>2. QED
        BY <1>1, <3>2, <4>1
    <3>3. QED
      BY <3>1, <3>2
  <2>3. ~(k + 1 > m + n - (IF v = LaunchedFirst(config.bench) THEN 1 ELSE 0))
    BY <1>1
  <2>4. QED
    BY <1>6, <2>1, <2>2, <2>3
<1>11. SetupFollows'
  BY <1>2, <1>10 DEF SetupFollows, k, m, n, f
<1>12. OwnKernel'
  <2>1. SUFFICES ASSUME config.kernels = "own", config.bench = "funcMulti"
                 PROVE  process'[B].kernel \in {NoKernel, 1}
    BY <1>2 DEF OwnKernel
  <2>2. process[B].kernel \in {NoKernel, 1}
    BY <2>1 DEF Inv, OwnKernel
  <2>3. f = A
    BY <2>1 DEF f, CreatedFirst
  <2>4. t = B => kernel = 1
    BY <1>1, <2>1, <2>3, Pair, KernelForType
  <2>5. B \in Process
    BY Pair
  <2>6. QED
    BY <1>5, <2>2, <2>4, <2>5
<1>13. QED
  BY <1>9, <1>11, <1>12

\* Copying capabilities and mapping buffers.
LEMMA GrantStep ==
  ASSUME Inv, Advance(Root),
         LET x == Statement(Root).arg
         IN  \/ At(Root, "copyCaps") /\ CopyCaps(x[1], x[2])
             \/ At(Root, "mapBuf") /\ MapBuf(x[1], x[2])
             \/ At(Root, "mapShared") /\ MapSharedBuf(x[1], x[2])
  PROVE  Setup /\ SetupFollows' /\ OwnKernel' /\ UNCHANGED image
<1> DEFINE m == Images(config.kernels)
           n == SetupLength(config.bench)
           k == pc[Root]
           x == Statement(Root)
<1>1. /\ k \in (m + 3)..(m + n - 2) /\ IsGrant(x)
      /\ k \in Nat /\ m \in Nat /\ n \in Nat /\ n >= 5
  <2>1. PICK op \in {"copyCaps", "mapBuf", "mapShared"} : At(Root, op)
    OBVIOUS
  <2>2. TypeOK
    BY DEF Inv
  <2>3. QED
    BY <2>1, <2>2, RootAt, RootOps, SetupOps
<1>2. config' = config /\ pc'[Root] = k + 1
  BY RootAdvances DEF Inv
<1>3. \A v \in Process : Fresh(v)
  BY <1>1 DEF Inv, SetupFollows, Fresh
<1>4. /\ Setup /\ UNCHANGED image
      /\ \A v \in Process : /\ process'[v].kernel = process[v].kernel
                            /\ process'[v].running = process[v].running
  <2>1. SetupInv
    BY DEF Inv
  <2>2. CASE At(Root, "copyCaps") /\ CopyCaps(x.arg[1], x.arg[2])
    <3>1. x.arg[1] \in Process /\ x.arg[2] \in {1, TimerCaps}
      BY <1>1, <2>2 DEF IsGrant, At
    <3>2. Setup
      BY <1>3, <2>2, <3>1 DEF Setup
    <3>3. QED
      BY <2>1, <2>2, <3>1, <3>2, GrantKeeps
  <2>3. CASE At(Root, "mapBuf") /\ MapBuf(x.arg[1], x.arg[2])
    <3>1. x.arg[1] \in Process /\ x.arg[2] \in {"record", "morecore"}
      BY <1>1, <2>3 DEF IsGrant, At
    <3>2. Setup
      BY <1>3, <2>3, <3>1 DEF Setup
    <3>3. QED
      BY <2>1, <2>3, <3>1, <3>2, GrantKeeps
  <2>4. CASE At(Root, "mapShared") /\ MapSharedBuf(x.arg[1], x.arg[2])
    <3>1. x.arg[1] \in Process /\ x.arg[2] \in Process
      BY <1>1, <2>4 DEF IsGrant, At
    <3>2. Setup
      BY <1>3, <2>4, <3>1 DEF Setup
    <3>3. QED
      BY <2>1, <2>4, <3>1, <3>2, GrantKeeps
  <2>5. QED
    BY <2>2, <2>3, <2>4
<1>5. SetupFollows'
  <2>1. ASSUME NEW v \in Process
        PROVE  /\ process[v].kernel # NoKernel /\ ~process[v].running
    BY <1>3 DEF Fresh
  <2> HIDE DEF m, n, k
  <2>2. ASSUME NEW v \in Process
        PROVE  /\ process'[v].kernel # NoKernel <=>
                    k + 1 > m + (IF v = CreatedFirst(config.bench) THEN 1 ELSE 2)
               /\ process'[v].running <=>
                    k + 1 > m + n - (IF v = LaunchedFirst(config.bench) THEN 1 ELSE 0)
    BY <1>1, <1>4, <2>1
  <2>3. QED
    BY <1>2, <2>2 DEF SetupFollows, m, n, k
<1>6. OwnKernel'
  <2>1. B \in Process
    BY Pair
  <2>2. QED
    BY <1>2, <1>4, <2>1 DEF Inv, OwnKernel
<1>7. QED
  BY <1>4, <1>5, <1>6

\* Launching a process.
LEMMA LaunchStep ==
  ASSUME Inv, At(Root, "launch"), Advance(Root), LaunchThread(Statement(Root).arg)
  PROVE  Setup /\ SetupFollows' /\ OwnKernel' /\ UNCHANGED image
<1> DEFINE m == Images(config.kernels)
           n == SetupLength(config.bench)
           k == pc[Root]
           l == LaunchedFirst(config.bench)
           t == Statement(Root).arg
<1>1. /\ k \in Nat /\ m \in Nat /\ n \in Nat /\ n >= 5
      /\ \/ k = m + n - 1 /\ t = l
         \/ k = m + n /\ t = Other(l)
  <2>1. TypeOK
    BY DEF Inv
  <2>2. /\ k \in Nat /\ m \in Nat /\ n \in Nat /\ n >= 5
        /\ \/ k = m + n - 1 /\ Statement(Root) = [op |-> "launch", arg |-> l]
           \/ k = m + n /\ Statement(Root) = [op |-> "launch", arg |-> Other(l)]
    BY <2>1, RootAt, RootOps, SetupOps
  <2>3. QED
    BY <2>2
<1>2. config' = config /\ pc'[Root] = k + 1
  BY RootAdvances DEF Inv
<1>3. t \in Process /\ l \in Process
  BY <1>1, Pair
<1>4. LaunchThread(t)
  OBVIOUS
<1> HIDE DEF t, l
<1>5. /\ process'[t].kernel = process[t].kernel /\ process'[t].running
      /\ \A v \in Process \ {t} : process'[v] = process[v]
      /\ UNCHANGED image
  BY <1>3, <1>4, LaunchMakes DEF Inv
<1>6. ASSUME NEW v \in Process
      PROVE  /\ process[v].kernel # NoKernel
             /\ process[v].running <=> k > m + n - (IF v = l THEN 1 ELSE 0)
  <2>1. /\ process[v].kernel # NoKernel <=>
             k > m + (IF v = CreatedFirst(config.bench) THEN 1 ELSE 2)
        /\ process[v].running <=> k > m + n - (IF v = l THEN 1 ELSE 0)
    BY DEF Inv, SetupFollows, l
  <2> HIDE DEF k, m, n
  <2>2. QED
    BY <1>1, <2>1
<1> HIDE DEF k, m, n
<1>7. Fresh(t)
  BY <1>1, <1>3, <1>6, Pair DEF Fresh
<1>8. Setup
  BY <1>3, <1>4, <1>7 DEF Setup
<1>9. ASSUME NEW v \in Process
      PROVE  /\ process'[v].kernel # NoKernel <=>
                  k + 1 > m + (IF v = CreatedFirst(config.bench) THEN 1 ELSE 2)
             /\ process'[v].running <=> k + 1 > m + n - (IF v = l THEN 1 ELSE 0)
  <2>1. /\ process'[v].kernel = process[v].kernel
        /\ process'[v].running <=> v = t \/ process[v].running
    BY <1>3, <1>5
  <2>2. (v = t \/ k > m + n - (IF v = l THEN 1 ELSE 0)) <=>
          k + 1 > m + n - (IF v = l THEN 1 ELSE 0)
    <3>1. CASE v = l
      <4>1. Other(l) # v
        BY <1>3, <3>1, Pair
      <4>2. QED
        BY <1>1, <3>1, <4>1
    <3>2. CASE v # l
      <4>1. v = Other(l)
        BY <1>3, <3>2, Pair
      <4>2. QED
        BY <1>1, <3>2, <4>1
    <3>3. QED
      BY <3>1, <3>2
  <2>3. k + 1 > m + (IF v = CreatedFirst(config.bench) THEN 1 ELSE 2)
    BY <1>1
  <2>4. QED
    BY <1>6, <2>1, <2>2, <2>3
<1>10. SetupFollows'
  BY <1>2, <1>9 DEF SetupFollows, k, m, n, l
<1>11. OwnKernel'
  <2>1. B \in Process
    BY Pair
  <2>2. process'[B].kernel = process[B].kernel
    BY <1>5, <2>1
  <2>3. QED
    BY <1>2, <2>2 DEF Inv, OwnKernel
<1>12. QED
  BY <1>5, <1>8, <1>10, <1>11

\* Destroying an image, and asking for another kernel.
LEMMA TailStep ==
  ASSUME Inv, Advance(Root),
         LET x == Statement(Root).arg
         IN  \/ At(Root, "destroyKi") /\ DestroyKi(x)
             \/ At(Root, "setKernel") /\ SetKernel(x[1], x[2])
  PROVE  Setup /\ SetupFollows' /\ OwnKernel'
<1> DEFINE m == Images(config.kernels)
           n == SetupLength(config.bench)
           k == pc[Root]
           x == Statement(Root)
<1>1. /\ k > m + n /\ x \in TailStatements(config.kernels)
      /\ k \in Nat /\ m \in Nat /\ n \in Nat /\ n >= 5 /\ config \in Config
      /\ x.op \in {"destroyKi", "setKernel"}
  <2>1. PICK op \in {"destroyKi", "setKernel"} : At(Root, op)
    OBVIOUS
  <2>2. TypeOK
    BY DEF Inv
  <2>3. QED
    BY <2>1, <2>2, RootAt, SetupOps
<1>2. config' = config /\ pc'[Root] = k + 1
  BY RootAdvances DEF Inv
<1>3. ASSUME NEW v \in Process
      PROVE  process[v].kernel # NoKernel /\ process[v].running
  <2>1. /\ process[v].kernel # NoKernel <=>
             k > m + (IF v = CreatedFirst(config.bench) THEN 1 ELSE 2)
        /\ process[v].running <=>
             k > m + n - (IF v = LaunchedFirst(config.bench) THEN 1 ELSE 0)
    BY DEF Inv, SetupFollows
  <2> HIDE DEF k, m, n
  <2>2. QED
    BY <1>1, <2>1
<1>4. /\ Setup
      /\ \A v \in Process : process'[v].kernel # NoKernel /\ process'[v].running
      /\ config.kernels = "own" /\ config.bench = "funcMulti" =>
           process'[B].kernel \in {1, process[B].kernel}
  <2>1. CASE At(Root, "destroyKi") /\ DestroyKi(x.arg)
    <3>1. x.arg \in Image
      BY <1>1, <2>1, RootOps DEF At
    <3>2. process' = process
      BY <2>1 DEF DestroyKi
    <3>3. QED
      BY <1>3, <2>1, <3>1, <3>2 DEF Setup
  <2>2. CASE At(Root, "setKernel") /\ SetKernel(x.arg[1], x.arg[2])
    <3> DEFINE t == x.arg[1]
               kernel == x.arg[2]
    <3>1. /\ t \in Process /\ kernel \in Kernel
          /\ config.kernels = "own" /\ t = B => kernel = 1
      <4>1. \/ x.arg = <<A, KernelFor(0, config.kernels)>>
            \/ x.arg = <<B, KernelFor(1, config.kernels)>>
        BY <1>1, <2>2, RootOps DEF At
      <4>2. \/ t = A /\ kernel = KernelFor(0, config.kernels)
            \/ t = B /\ kernel = KernelFor(1, config.kernels)
        BY <4>1
      <4>3. QED
        BY <4>2, Pair, KernelForType
    <3>2. SetKernel(t, kernel)
      BY <2>2
    <3> HIDE DEF t, kernel
    <3>3. Setup
      BY <1>3, <3>1, <3>2 DEF Setup
    <3>4. /\ process'[t].kernel \in {kernel, process[t].kernel}
          /\ process'[t].running = process[t].running
          /\ \A v \in Process \ {t} : process'[v] = process[v]
      BY <3>1, <3>2, SetKernelMakes DEF Inv
    <3>5. kernel # NoKernel
      BY <3>1, ProcessesAssumption DEF Kernel
    <3>6. \A v \in Process : process'[v].kernel # NoKernel /\ process'[v].running
      BY <1>3, <3>1, <3>4, <3>5
    <3>7. B \in Process
      BY Pair
    <3>8. QED
      BY <3>1, <3>3, <3>4, <3>6, <3>7
  <2>3. QED
    BY <2>1, <2>2
<1>5. SetupFollows'
  <2> HIDE DEF k, m, n
  <2>1. ASSUME NEW v \in Process
        PROVE  /\ k + 1 > m + (IF v = CreatedFirst(config.bench) THEN 1 ELSE 2)
               /\ k + 1 > m + n - (IF v = LaunchedFirst(config.bench) THEN 1 ELSE 0)
    BY <1>1
  <2>2. QED
    BY <1>2, <1>4, <2>1 DEF SetupFollows, k, m, n
<1>6. OwnKernel'
  BY <1>2, <1>4 DEF Inv, OwnKernel
<1>7. QED
  BY <1>4, <1>5, <1>6

-----------------------------------------------------------------------------
(* What the threads' statements can be *)

\* Every program has a length.
LEMMA ProgramLengths ==
  ASSUME NEW c \in Config, NEW t \in Thread
  PROVE  Len(Programs[c][t]) \in Nat
<1>1. t \in {Root, A, B}
  BY BenchmarksAssumption
<1>2. CASE t = Root
  BY <1>2, RootProgram
<1>3. CASE t = A
  <2>1. Programs[c][A] \in Seq(AStatements) \/ Len(Programs[c][A]) = 3
    BY AProgram
  <2>2. QED
    BY <1>3, <2>1
<1>4. CASE t = B
  <2>1. Programs[c][B] \in Seq(BStatements) \/ Len(Programs[c][B]) = 5
    BY BProgram
  <2>2. QED
    BY <1>4, <2>1
<1>5. QED
  BY <1>1, <1>2, <1>3, <1>4

\* Root's statements.
LEMMA RootSays ==
  ASSUME NEW c \in Config, NEW k \in 1..Len(Programs[c][Root])
  PROVE  LET x == Programs[c][Root][k]
         IN  /\ x.op \in {"createKi", "create", "copyCaps", "mapBuf", "mapShared",
                          "launch", "recv", "send", "print", "sample", "compare",
                          "destroyKi", "setKernel"}
             /\ x.op = "send" => x.arg = a_ep
             /\ x.op \in {"recv", "send", "print", "sample", "compare"} =>
                  k > Images(c.kernels) + SetupLength(c.bench)
<1> DEFINE x == Programs[c][Root][k]
           m == Images(c.kernels)
           n == SetupLength(c.bench)
<1>1. \/ x.op = "createKi" \/ IsGrant(x) \/ x.op = "launch"
      \/ \E t : IsCreate(x, t)
      \/ k > m + n /\ x \in TailStatements(c.kernels)
  <2> DEFINE P == Programs[c][Root]
             f == CreatedFirst(c.bench)
             l == LaunchedFirst(c.bench)
  <2>1. k \in 1..Len(P)
    OBVIOUS
  <2> HIDE DEF P, m, n
  <2>2. \/ k <= m /\ P[k].op = "createKi" /\ P[k].arg \in Image
        \/ k = m + 1 /\ IsCreate(P[k], f) /\ P[k].arg[2] = KernelFor(0, c.kernels)
        \/ k = m + 2 /\ IsCreate(P[k], Other(f))
                     /\ P[k].arg[2] = KernelFor(1, c.kernels)
        \/ k \in (m + 3)..(m + n - 2) /\ IsGrant(P[k])
        \/ k = m + n - 1 /\ P[k] = [op |-> "launch", arg |-> l]
        \/ k = m + n /\ P[k] = [op |-> "launch", arg |-> Other(l)]
        \/ k > m + n /\ P[k] \in TailStatements(c.kernels)
    BY <2>1, RootWhere DEF P, m, n
  <2>3. QED
    BY <2>2 DEF P
<1> HIDE DEF x, m, n
<1>2. \/ x.op \in {"createKi", "launch", "copyCaps", "mapBuf", "mapShared", "create"}
      \/ k > m + n /\ x \in TailStatements(c.kernels)
  BY <1>1, SetupOps
<1>3. x \in TailStatements(c.kernels) =>
        /\ x.op \in {"recv", "send", "print", "sample", "compare", "destroyKi",
                     "setKernel"}
        /\ x.op = "send" => x.arg = a_ep
  BY RootOps
<1>4. QED
  BY <1>2, <1>3 DEF x, m, n

\* A's statements.
LEMMA ASays ==
  ASSUME NEW c \in Config, NEW k \in 1..Len(Programs[c][A])
  PROVE  LET x == Programs[c][A][k]
         IN  /\ x.op \in {"init", "call", "write", "slice", "yield", "attack",
                          "send", "recv", "goto"}
             /\ x.op = "call" => x.arg = syn_ep
             /\ x.op \in {"send", "recv"} => x.arg \in {syn_ep, a_ep}
             /\ x.op = "goto" => c.bench = "funcMulti" /\ x.arg = 2
<1> DEFINE P == Programs[c][A]
           x == P[k]
<1>1. CASE c.bench = "funcMulti"
  <2>1. /\ Len(P) = 3
        /\ P[1] = [op |-> "init", arg |-> syn_ep]
        /\ P[2] = [op |-> "call", arg |-> syn_ep]
        /\ P[3] = [op |-> "goto", arg |-> 2]
    BY <1>1, AProgram
  <2> HIDE DEF P
  <2>2. k = 1 \/ k = 2 \/ k = 3
    BY <2>1 DEF P
  <2>3. QED
    BY <1>1, <2>1, <2>2 DEF P
<1>2. CASE c.bench # "funcMulti"
  <2>1. P \in Seq(AStatements)
    BY <1>2, AProgram
  <2> HIDE DEF P
  <2>2. x \in AStatements
    BY <2>1 DEF P
  <2>3. QED
    BY <2>2 DEF AStatements, Statements, P
<1>3. QED
  BY <1>1, <1>2

\* B's statements.
LEMMA BSays ==
  ASSUME NEW c \in Config, NEW k \in 1..Len(Programs[c][B])
  PROVE  LET x == Programs[c][B][k]
         IN  /\ x.op \in {"init", "replyRecv", "tick", "send", "recv", "goto"}
             /\ x.op = "replyRecv" => x.arg = syn_ep
             /\ x.op = "send" => x.arg = b_ep
             /\ x.op = "recv" => x.arg \in {syn_ep, b_ep}
             /\ x.op = "goto" => c.bench = "funcMulti" /\ x.arg = 3
<1> DEFINE P == Programs[c][B]
           x == P[k]
<1>1. CASE c.bench = "funcMulti"
  <2>1. /\ Len(P) = 5
        /\ P[1] = [op |-> "init", arg |-> syn_ep]
        /\ P[2] = [op |-> "recv", arg |-> syn_ep]
        /\ P[3] = [op |-> "tick", arg |-> syn_ep]
        /\ P[4] = [op |-> "replyRecv", arg |-> syn_ep]
        /\ P[5] = [op |-> "goto", arg |-> 3]
    BY <1>1, BProgram
  <2> HIDE DEF P
  <2>2. k = 1 \/ k = 2 \/ k = 3 \/ k = 4 \/ k = 5
    BY <2>1 DEF P
  <2>3. QED
    BY <1>1, <2>1, <2>2 DEF P
<1>2. CASE c.bench # "funcMulti"
  <2>1. P \in Seq(BStatements)
    BY <1>2, BProgram
  <2> HIDE DEF P
  <2>2. x \in BStatements
    BY <2>1 DEF P
  <2>3. QED
    BY <2>2 DEF BStatements, Statements, P
<1>3. QED
  BY <1>1, <1>2

\* Who makes which call.
LEMMA Says ==
  ASSUME NEW c \in Config, NEW t \in Thread, NEW k \in 1..Len(Programs[c][t])
  PROVE  LET x == Programs[c][t][k]
         IN  /\ x.op = "call" => t = A /\ x.arg = syn_ep
             /\ x.op = "replyRecv" => t = B /\ x.arg = syn_ep
             /\ x.op = "tick" => t = B
             /\ x.op \in {"slice", "yield", "write", "attack"} => t = A
             /\ x.op = "print" => t = Root
             /\ x.op = "init" => t \in Process
             /\ x.op = "send" /\ x.arg = a_ep => t # B
             /\ x.op = "send" /\ x.arg = b_ep => t = B
             /\ x.op = "goto" =>
                  /\ c.bench = "funcMulti"
                  /\ \/ t = A /\ x.arg = 2
                     \/ t = B /\ x.arg = 3
<1> DEFINE x == Programs[c][t][k]
<1>1. /\ t \in {Root, A, B} /\ Process = {A, B}
      /\ syn_ep # a_ep /\ syn_ep # b_ep /\ a_ep # b_ep
      /\ Root # A /\ Root # B /\ A # B
  BY BenchmarksAssumption
<1>2. CASE t = Root
  <2>1. k \in 1..Len(Programs[c][Root])
    BY <1>2
  <2>2. /\ x.op \in {"createKi", "create", "copyCaps", "mapBuf", "mapShared",
                     "launch", "recv", "send", "print", "sample", "compare",
                     "destroyKi", "setKernel"}
        /\ x.op = "send" => x.arg = a_ep
    BY <1>2, <2>1, RootSays
  <2>3. QED
    BY <1>1, <1>2, <2>2
<1>3. CASE t = A
  <2>1. k \in 1..Len(Programs[c][A])
    BY <1>3
  <2>2. QED
    BY <1>1, <1>3, <2>1, ASays
<1>4. CASE t = B
  <2>1. k \in 1..Len(Programs[c][B])
    BY <1>4
  <2>2. QED
    BY <1>1, <1>4, <2>1, BSays
<1>5. QED
  BY <1>1, <1>2, <1>3, <1>4

\* The statement a thread executes.
LEMMA AtProgram ==
  ASSUME TypeOK, NEW t \in Thread, NEW op, At(t, op)
  PROVE  /\ config \in Config /\ pc[t] \in 1..Len(Programs[config][t])
         /\ Statement(t) = Programs[config][t][pc[t]] /\ Statement(t).op = op
         /\ Len(Programs[config][t]) \in Nat /\ ipc[t] = Ready
         /\ t \in Process => CanRun(t)
<1>1. config \in Config /\ pc[t] \in Nat /\ pc[t] \in 1..(Len(Program(t)) + 1)
  BY DEF TypeOK
<1>2. Len(Programs[config][t]) \in Nat
  BY <1>1, ProgramLengths
<1>3. pc[t] <= Len(Program(t)) /\ Statement(t).op = op /\ Executes(t)
  BY DEF At, HasNext
<1>4. QED
  BY <1>1, <1>2, <1>3 DEF Program, Statement, Executes

-----------------------------------------------------------------------------
(* What a step does to the program counters and to the messages *)

\* Program counters move to the next statement, back to the head of a loop,
\* or, while alive() compares or when an attack aborts, not at all.
LEMMA StepMoves ==
  ASSUME TypeOK, NEW t \in Thread, Step(t)
  PROVE  /\ config' = config /\ aborted' \in {aborted, aborted \cup {t}}
         /\ \E op : At(t, op)
         /\ \/ pc' = [pc EXCEPT ![t] = pc[t] + 1]
            \/ At(t, "goto") /\ pc' = [pc EXCEPT ![t] = Statement(t).arg]
            \/ t = Root /\ At(t, "compare") /\ pc' = pc
            \/ At(t, "attack") /\ pc' = pc
<1>1. ASSUME Advance(t), NEW op, At(t, op)
      PROVE  /\ config' = config /\ aborted' = aborted
             /\ \E o : At(t, o)
             /\ pc' = [pc EXCEPT ![t] = pc[t] + 1]
  BY <1>1 DEF Advance
<1>2. CASE InitStep(t) \/ SliceStep(t) \/ LocalStep(t) \/ TickStep(t)
  BY <1>1, <1>2 DEF InitStep, SliceStep, LocalStep, TickStep
<1>3. CASE GotoStep(t)
  BY <1>3 DEF GotoStep
<1>4. CASE t = Root /\ (SetupStep \/ SampleStep)
  BY <1>1, <1>4 DEF SetupStep, SampleStep
<1>5. CASE t = Root /\ CompareStep
  <2>1. At(Root, "compare")
    BY <1>5 DEF CompareStep
  <2>2. Advance(Root) \/ UNCHANGED <<config, pc, aborted>>
    BY <1>5 DEF CompareStep
  <2>3. QED
    BY <1>1, <1>5, <2>1, <2>2
<1>6. CASE \E ep \in Endpoint : \/ SendStep(t, ep) \/ CallStep(t, ep)
                                \/ RecvStep(t, ep) \/ ReplyRecvStep(t, ep)
  BY <1>1, <1>6 DEF SendStep, CallStep, RecvStep, ReplyRecvStep, AtEndpoint
<1>7. CASE AbortStep(t)
  BY <1>7 DEF AbortStep
<1>8. QED
  BY <1>2, <1>3, <1>4, <1>5, <1>6, <1>7 DEF Step

\* Statements of different operations are different: a step is of one kind.
LEMMA OneOp ==
  ASSUME NEW t, NEW op, NEW o, At(t, op), At(t, o)
  PROVE  op = o
BY DEF At

\* States of the message protocol that differ in operation or endpoint differ.
LEMMA BlockedApart ==
  /\ \A op, ep : Blocked(op, ep) # Ready \/ op = "none"
  /\ \A op, ep : BlockedOnReply # Blocked(op, ep) /\ BlockedOnReply # Ready
  /\ \A op, ep, o, e : Blocked(op, ep) = Blocked(o, e) => op = o /\ ep = e
<1>1. \A op, ep : Blocked(op, ep).op = op /\ Blocked(op, ep).ep = ep
  BY DEF Blocked
<1>2. Ready.op = "none" /\ BlockedOnReply.op = "reply"
  BY DEF Ready, BlockedOnReply
<1>3. \A op, ep : BlockedOnReply # Blocked(op, ep)
  <2>1. ASSUME NEW op, NEW ep, BlockedOnReply = Blocked(op, ep) PROVE FALSE
    <3>1. DOMAIN BlockedOnReply = {"op"} /\ DOMAIN Blocked(op, ep) = {"op", "ep"}
      BY DEF BlockedOnReply, Blocked
    <3>2. QED
      BY <2>1, <3>1
  <2>2. QED
    BY <2>1
<1>4. QED
  BY <1>1, <1>2, <1>3

\* A send wakes a receiver or blocks.
LEMMA SendMakes ==
  ASSUME TypeOK, NEW t \in Thread, NEW ep \in Endpoint, SendStep(t, ep)
  PROVE  /\ caller' = caller /\ DOMAIN ipc' = Thread
         /\ ipc' = [u \in Thread |-> ipc'[u]]
         /\ \A u \in Thread : \/ ipc'[u] = ipc[u]
                              \/ ipc[u] = Blocked("recv", ep) /\ ipc'[u] = Ready
                              \/ u = t /\ ipc'[u] = Blocked("send", ep)
<1>1. caller' = caller /\ SendTransfer(t, ep)
  BY DEF SendStep
<1>2. ipc = [u \in Thread |-> ipc[u]]
  BY DEF TypeOK
<1>3. CASE Waiting("recv", ep) # {}
  <2>1. PICK r \in Waiting("recv", ep) : ipc' = [ipc EXCEPT ![r] = Ready]
    BY <1>1, <1>3 DEF SendTransfer
  <2>2. r \in Thread /\ ipc[r] = Blocked("recv", ep)
    BY DEF Waiting
  <2>3. QED
    BY <1>1, <1>2, <2>1, <2>2
<1>4. CASE Waiting("recv", ep) = {}
  BY <1>1, <1>2, <1>4 DEF SendTransfer
<1>5. QED
  BY <1>3, <1>4

\* A call blocks, or wakes a receiver, which then owes the caller a reply.
LEMMA CallMakes ==
  ASSUME TypeOK, NEW t \in Thread, NEW ep \in Endpoint, CallStep(t, ep)
  PROVE  /\ caller' = [u \in Thread |-> caller'[u]]
         /\ ipc' = [u \in Thread |-> ipc'[u]]
         /\ \A u \in Thread : caller'[u] \in {caller[u], t}
         /\ \A u \in Thread :
              \/ ipc'[u] = ipc[u]
              \/ ipc[u] = Blocked("recv", ep) /\ ipc'[u] = Ready
              \/ u = t /\ ipc'[u] \in {Blocked("call", ep), BlockedOnReply}
<1>2. /\ ipc = [u \in Thread |-> ipc[u]]
      /\ caller = [u \in Thread |-> caller[u]]
  BY DEF TypeOK
<1>3. CASE Waiting("recv", ep) = {}
  <2>1. ipc' = [ipc EXCEPT ![t] = Blocked("call", ep)] /\ caller' = caller
    BY <1>3 DEF CallStep
  <2>2. QED
    BY <1>2, <2>1
<1>4. CASE Waiting("recv", ep) # {}
  <2>1. PICK r \in Waiting("recv", ep) :
          /\ ipc' = [ipc EXCEPT ![r] = Ready, ![t] = BlockedOnReply]
          /\ caller' = [caller EXCEPT ![r] = t]
    BY <1>4 DEF CallStep
  <2>2. r \in Thread /\ ipc[r] = Blocked("recv", ep)
    BY DEF Waiting
  <2>3. QED
    BY <1>2, <2>1, <2>2
<1>5. QED
  BY <1>3, <1>4

\* A receive blocks, or takes a message from a sender, which is ready again,
\* or from a caller, which waits for the reply.
LEMMA ReceiveMakes ==
  ASSUME TypeOK, NEW t \in Thread, NEW ep \in Endpoint, NEW replied,
         replied = [u \in Thread |-> replied[u]], Receive(t, ep, replied)
  PROVE  /\ caller' = [u \in Thread |-> caller'[u]]
         /\ ipc' = [u \in Thread |-> ipc'[u]]
         /\ \A u \in Thread :
              caller'[u] \in {caller[u], NoThread} \cup Waiting("call", ep)
         /\ \A u \in Thread :
              \/ ipc'[u] = replied[u]
              \/ u = t /\ ipc'[u] = Blocked("recv", ep)
              \/ /\ u \in Waiting("send", ep) \cup Waiting("call", ep)
                 /\ ipc'[u] \in {Ready, BlockedOnReply}
         /\ \/ ipc'[t] = Blocked("recv", ep)
            \/ Waiting("send", ep) \cup Waiting("call", ep) # {}
<1>2. /\ Waiting("send", ep) \subseteq Thread /\ Waiting("call", ep) \subseteq Thread
      /\ caller = [u \in Thread |-> caller[u]]
  BY DEF TypeOK, Waiting
<1>3. CASE /\ Waiting("send", ep) \cup Waiting("call", ep) = {}
           /\ ipc' = [replied EXCEPT ![t] = Blocked("recv", ep)]
           /\ caller' = [caller EXCEPT ![t] = NoThread]
  BY <1>2, <1>3
<1>4. CASE \E s \in Waiting("send", ep) :
             /\ ipc' = [replied EXCEPT ![s] = Ready]
             /\ caller' = [caller EXCEPT ![t] = NoThread]
  <2>1. PICK s \in Waiting("send", ep) :
             /\ ipc' = [replied EXCEPT ![s] = Ready]
             /\ caller' = [caller EXCEPT ![t] = NoThread]
    BY <1>4
  <2>2. QED
    BY <1>2, <2>1
<1>5. CASE \E s \in Waiting("call", ep) :
             /\ ipc' = [replied EXCEPT ![s] = BlockedOnReply]
             /\ caller' = [caller EXCEPT ![t] = s]
  <2>1. PICK s \in Waiting("call", ep) :
             /\ ipc' = [replied EXCEPT ![s] = BlockedOnReply]
             /\ caller' = [caller EXCEPT ![t] = s]
    BY <1>5
  <2>2. QED
    BY <1>2, <2>1
<1>6. QED
  BY <1>3, <1>4, <1>5 DEF Receive

\* The two ways to receive: nothing is replied, or the caller is ready.
LEMMA RecvMakes ==
  ASSUME TypeOK, NEW t \in Thread, NEW ep \in Endpoint,
         RecvStep(t, ep) \/ ReplyRecvStep(t, ep)
  PROVE  \E replied :
           /\ replied = [u \in Thread |-> replied[u]]
           /\ Receive(t, ep, replied)
           /\ \A u \in Thread :
                \/ replied[u] = ipc[u]
                \/ u = caller[t] /\ ReplyRecvStep(t, ep) /\ replied[u] = Ready
<1>1. /\ ipc = [u \in Thread |-> ipc[u]]
      /\ caller[t] \in Thread \cup {NoThread}
  BY DEF TypeOK
<1>2. CASE RecvStep(t, ep)
  BY <1>1, <1>2 DEF RecvStep
<1>3. CASE ReplyRecvStep(t, ep)
  <2> DEFINE replied == IF caller[t] = NoThread THEN ipc
                        ELSE [ipc EXCEPT ![caller[t]] = Ready]
  <2>1. Receive(t, ep, replied)
    BY <1>3 DEF ReplyRecvStep
  <2>2. /\ replied = [u \in Thread |-> replied[u]]
        /\ \A u \in Thread : \/ replied[u] = ipc[u]
                             \/ u = caller[t] /\ replied[u] = Ready
    BY <1>1
  <2> HIDE DEF replied
  <2>3. QED
    BY <1>3, <2>1, <2>2
<1>4. QED
  BY <1>2, <1>3

-----------------------------------------------------------------------------
(* Every step keeps the protocol of the setup *)

\* The processes are set up as before, or the setup is over.
LEMMA StaysSetUp ==
  ASSUME Inv, config' = config, B \in Process,
         \A v \in Process : /\ process'[v].kernel = process[v].kernel
                            /\ process'[v].running = process[v].running,
         \/ pc'[Root] = pc[Root]
         \/ /\ pc[Root] > Images(config.kernels) + SetupLength(config.bench)
            /\ pc'[Root] = pc[Root] + 1
  PROVE  SetupFollows' /\ OwnKernel'
<1> DEFINE m == Images(config.kernels)
           n == SetupLength(config.bench)
           k == pc[Root]
           f(v) == IF v = CreatedFirst(config.bench) THEN 1 ELSE 2
           l(v) == IF v = LaunchedFirst(config.bench) THEN 1 ELSE 0
<1>1. k \in Int /\ pc'[Root] \in Int /\ m \in Int /\ n \in Int /\ n >= 5
  <2>1. pc[Root] \in Nat /\ config \in Config
    BY BenchmarksAssumption DEF Inv, TypeOK
  <2>2. QED
    BY <2>1, Lengths
<1>2. \A v : f(v) \in Int /\ f(v) <= 2 /\ l(v) \in Int /\ l(v) >= 0
  OBVIOUS
<1>3. ASSUME NEW v \in Process
      PROVE  /\ process[v].kernel # NoKernel <=> k > m + f(v)
             /\ process[v].running <=> k > m + n - l(v)
  BY DEF Inv, SetupFollows
<1>4. pc'[Root] = k \/ (k > m + n /\ pc'[Root] = k + 1)
  OBVIOUS
<1> HIDE DEF m, n, k, f, l
<1>5. ASSUME NEW v \in Process
      PROVE  /\ process'[v].kernel # NoKernel <=> pc'[Root] > m + f(v)
             /\ process'[v].running <=> pc'[Root] > m + n - l(v)
  <2>1. /\ k > m + f(v) <=> pc'[Root] > m + f(v)
        /\ k > m + n - l(v) <=> pc'[Root] > m + n - l(v)
    BY <1>1, <1>2, <1>4
  <2>2. QED
    BY <1>3, <2>1
<1>6. SetupFollows'
  BY <1>5 DEF SetupFollows, m, n, k, f, l
<1>7. OwnKernel'
  BY DEF Inv, OwnKernel
<1>8. QED
  BY <1>6, <1>7

\* The root task's own operations on processes and images.
LEMMA SetupStepFollows ==
  ASSUME Inv, SetupStep
  PROVE  Setup /\ SetupFollows' /\ OwnKernel'
<1>1. Advance(Root)
  BY DEF SetupStep
<1> DEFINE x == Statement(Root).arg
<1>2. CASE At(Root, "createKi") /\ CreateKi(x)
  BY <1>1, <1>2, CreateKiStep
<1>3. CASE At(Root, "create") /\ CreateThread(x[1], x[2], x[3])
  BY <1>1, <1>3, CreateStep
<1>4. CASE \/ At(Root, "copyCaps") /\ CopyCaps(x[1], x[2])
           \/ At(Root, "mapBuf") /\ MapBuf(x[1], x[2])
           \/ At(Root, "mapShared") /\ MapSharedBuf(x[1], x[2])
  BY <1>1, <1>4, GrantStep
<1>5. CASE At(Root, "launch") /\ LaunchThread(x)
  BY <1>1, <1>5, LaunchStep
<1>6. CASE \/ At(Root, "destroyKi") /\ DestroyKi(x)
           \/ At(Root, "setKernel") /\ SetKernel(x[1], x[2])
  BY <1>1, <1>6, TailStep
<1>7. QED
  <2>1. \/ At(Root, "createKi") /\ CreateKi(x)
        \/ At(Root, "create") /\ CreateThread(x[1], x[2], x[3])
        \/ At(Root, "copyCaps") /\ CopyCaps(x[1], x[2])
        \/ At(Root, "mapBuf") /\ MapBuf(x[1], x[2])
        \/ At(Root, "mapShared") /\ MapSharedBuf(x[1], x[2])
        \/ At(Root, "launch") /\ LaunchThread(x)
        \/ At(Root, "destroyKi") /\ DestroyKi(x)
        \/ At(Root, "setKernel") /\ SetKernel(x[1], x[2])
    BY DEF SetupStep
  <2> HIDE DEF x
  <2>2. QED
    BY <1>2, <1>3, <1>4, <1>5, <1>6, <2>1

\* A step is one of the root task's operations on processes and images, the
\* initialisation of a process, or leaves processes and images alone.
LEMMA StepKinds ==
  ASSUME NEW t \in Thread, Step(t)
  PROVE  \/ t = Root /\ SetupStep
         \/ InitStep(t)
         \/ /\ UNCHANGED processVars
            /\ \E op \in {"slice", "write", "yield", "print", "tick", "goto", "attack",
                          "sample", "compare", "send", "call", "recv",
                          "replyRecv"} : At(t, op)
<1>1. CASE SliceStep(t) \/ LocalStep(t) \/ TickStep(t) \/ GotoStep(t) \/ AbortStep(t)
  BY <1>1 DEF SliceStep, LocalStep, TickStep, GotoStep, AbortStep
<1>2. CASE t = Root /\ (SampleStep \/ CompareStep)
  BY <1>2 DEF SampleStep, CompareStep
<1>3. CASE \E ep \in Endpoint : \/ SendStep(t, ep) \/ CallStep(t, ep)
                                \/ RecvStep(t, ep) \/ ReplyRecvStep(t, ep)
  BY <1>3 DEF SendStep, CallStep, RecvStep, ReplyRecvStep, AtEndpoint
<1>4. QED
  BY <1>1, <1>2, <1>3 DEF Step

\* Where the root task's program counter is after a step.
LEMMA RootMoves ==
  ASSUME Inv, NEW t \in Thread, Step(t)
  PROVE  /\ config' = config
         /\ t # Root => pc'[Root] = pc[Root]
         /\ t = Root => pc'[Root] \in {pc[Root], pc[Root] + 1}
<1>1. TypeOK
  BY DEF Inv
<1>2. pc \in [Thread -> Nat] /\ Root \in Thread /\ Root # A /\ Root # B
  BY BenchmarksAssumption DEF Inv, TypeOK
<1>3. /\ config' = config
      /\ \/ pc' = [pc EXCEPT ![t] = pc[t] + 1]
         \/ At(t, "goto") /\ pc' = [pc EXCEPT ![t] = Statement(t).arg]
         \/ t = Root /\ At(t, "compare") /\ pc' = pc
         \/ At(t, "attack") /\ pc' = pc
  BY <1>1, StepMoves
<1>4. At(t, "goto") => t # Root
  <2>1. SUFFICES ASSUME At(t, "goto") PROVE t # Root
    OBVIOUS
  <2>2. /\ config \in Config /\ pc[t] \in 1..Len(Programs[config][t])
        /\ Programs[config][t][pc[t]].op = "goto"
    BY <1>1, <2>1, AtProgram
  <2>3. t = A \/ t = B
    BY <2>2, Says
  <2>4. QED
    BY <1>2, <2>3
<1>5. QED
  BY <1>2, <1>3, <1>4

\* Every step is a step of the setup protocol or leaves the processes alone.
LEMMA StepSetsUp ==
  ASSUME Inv, NEW t \in Thread, Step(t)
  PROVE  (Setup \/ UNCHANGED processVars) /\ SetupFollows' /\ OwnKernel'
<1>1. TypeOK /\ SetupInv
  BY DEF Inv
<1>2. CASE t = Root /\ SetupStep
  BY <1>2, SetupStepFollows
<1>3. CASE InitStep(t)
  <2>1. At(t, "init") /\ BenchInitEnv(t)
    BY <1>3 DEF InitStep
  <2>2. t \in Process /\ CanRun(t)
    <3>1. /\ config \in Config /\ pc[t] \in 1..Len(Programs[config][t])
          /\ Programs[config][t][pc[t]].op = "init"
          /\ t \in Process => CanRun(t)
      BY <1>1, <2>1, AtProgram
    <3>2. t \in Process
      BY <3>1, Says
    <3>3. QED
      BY <3>1, <3>2
  <2>3. t # Root /\ B \in Process
    BY <2>2, BenchmarksAssumption
  <2>4. Setup
    BY <2>1, <2>2 DEF Setup, CanRun
  <2>5. \A v \in Process : /\ process'[v].kernel = process[v].kernel
                           /\ process'[v].running = process[v].running
    BY <1>1, <2>1, <2>2, GrantKeeps
  <2>6. config' = config /\ pc'[Root] = pc[Root]
    BY <2>3, RootMoves
  <2>7. QED
    BY <2>3, <2>4, <2>5, <2>6, StaysSetUp
<1>4. CASE /\ UNCHANGED processVars
           /\ \E op \in {"slice", "write", "yield", "print", "tick", "goto", "attack",
                         "sample", "compare", "send", "call", "recv",
                         "replyRecv"} : At(t, op)
  <2>1. process' = process /\ B \in Process
    BY <1>4, BenchmarksAssumption DEF processVars
  <2>2. config' = config
    BY RootMoves
  <2>3. \/ pc'[Root] = pc[Root]
        \/ /\ pc[Root] > Images(config.kernels) + SetupLength(config.bench)
           /\ pc'[Root] = pc[Root] + 1
    <3>1. CASE t # Root
      BY <3>1, RootMoves
    <3>2. CASE t = Root
      <4>1. PICK op \in {"slice", "write", "yield", "print", "tick", "goto", "attack",
                         "sample", "compare", "send", "call", "recv",
                         "replyRecv"} : At(Root, op)
        BY <1>4, <3>2
      <4>2. /\ config \in Config /\ pc[Root] \in 1..Len(Programs[config][Root])
            /\ Programs[config][Root][pc[Root]].op = op
        BY <1>1, <3>2, <4>1, AtProgram
      <4>3. pc[Root] > Images(config.kernels) + SetupLength(config.bench)
        BY <4>2, RootSays
      <4>4. pc'[Root] \in {pc[Root], pc[Root] + 1}
        BY <3>2, RootMoves
      <4>5. QED
        BY <4>3, <4>4
    <3>3. QED
      BY <3>1, <3>2
  <2>4. SetupFollows' /\ OwnKernel'
    BY <2>1, <2>2, <2>3, StaysSetUp
  <2>5. QED
    BY <1>4, <2>4
<1>5. QED
  BY <1>2, <1>3, <1>4, StepKinds

-----------------------------------------------------------------------------
(* Every step keeps the types *)

\* Program counters stay within the programs.
LEMMA CountersStay ==
  ASSUME TypeOK, NEW t \in Thread, Step(t)
  PROVE  /\ config' \in Config /\ pc' \in [Thread -> Nat]
         /\ \A u \in Thread : pc'[u] \in 1..(Len(Program(u)') + 1)
<1>1. /\ config \in Config /\ pc \in [Thread -> Nat]
      /\ \A u \in Thread : pc[u] \in 1..(Len(Programs[config][u]) + 1)
  BY DEF TypeOK, Program
<1>2. /\ config' = config /\ \E op : At(t, op)
      /\ \/ pc' = [pc EXCEPT ![t] = pc[t] + 1]
         \/ At(t, "goto") /\ pc' = [pc EXCEPT ![t] = Statement(t).arg]
         \/ t = Root /\ At(t, "compare") /\ pc' = pc
         \/ At(t, "attack") /\ pc' = pc
  BY StepMoves
<1>3. /\ pc[t] \in 1..Len(Programs[config][t]) /\ Len(Programs[config][t]) \in Nat
      /\ Statement(t) = Programs[config][t][pc[t]]
  BY <1>2, AtProgram
<1>4. ASSUME NEW k \in 1..(Len(Programs[config][t]) + 1),
             pc' = [pc EXCEPT ![t] = k]
      PROVE  /\ pc' \in [Thread -> Nat]
             /\ \A u \in Thread : pc'[u] \in 1..(Len(Programs[config][u]) + 1)
  BY <1>1, <1>4
<1>5. CASE pc' = [pc EXCEPT ![t] = pc[t] + 1]
  <2>1. pc[t] + 1 \in 1..(Len(Programs[config][t]) + 1)
    BY <1>3
  <2>2. QED
    BY <1>1, <1>2, <1>4, <1>5, <2>1 DEF Program
<1>6. CASE At(t, "goto") /\ pc' = [pc EXCEPT ![t] = Statement(t).arg]
  <2>1. Programs[config][t][pc[t]].op = "goto"
    BY <1>3, <1>6 DEF At
  <2>2. /\ config.bench = "funcMulti"
        /\ \/ t = A /\ Statement(t).arg = 2
           \/ t = B /\ Statement(t).arg = 3
    BY <1>1, <1>3, <2>1, Says
  <2>3. Statement(t).arg \in 1..(Len(Programs[config][t]) + 1)
    <3>1. CASE t = A /\ Statement(t).arg = 2
      <4>1. Len(Programs[config][A]) = 3
        BY <1>1, <2>2, AProgram
      <4>2. QED
        BY <3>1, <4>1
    <3>2. CASE t = B /\ Statement(t).arg = 3
      <4>1. Len(Programs[config][B]) = 5
        BY <1>1, <2>2, BProgram
      <4>2. QED
        BY <3>2, <4>1
    <3>3. QED
      BY <2>2, <3>1, <3>2
  <2>4. QED
    BY <1>1, <1>2, <1>4, <1>6, <2>3 DEF Program
<1>7. CASE pc' = pc
  BY <1>1, <1>2, <1>7 DEF Program
<1>8. QED
  BY <1>2, <1>5, <1>6, <1>7

\* A state of ipc.
IpcStates == IpcState \cup {BlockedOnReply} \cup [op: {"call"}, ep: Endpoint]

\* A thread is ready, blocked on an endpoint, or waits for a reply.
LEMMA IpcStatesAre ==
  /\ Ready \in IpcStates /\ BlockedOnReply \in IpcStates
  /\ \A op \in {"send", "recv", "call"}, ep \in Endpoint : Blocked(op, ep) \in IpcStates
BY DEF IpcStates, IpcState, Ready, Blocked

\* Messages.
LEMMA MessagesTyped ==
  ASSUME TypeOK, NEW t \in Thread, Step(t)
  PROVE  ipc' \in [Thread -> IpcStates] /\ caller' \in [Thread -> Thread \cup {NoThread}]
<1>1. /\ ipc \in [Thread -> IpcStates] /\ caller \in [Thread -> Thread \cup {NoThread}]
  BY DEF TypeOK, IpcStates
<1>2. CASE UNCHANGED messageVars
  BY <1>1, <1>2 DEF messageVars
<1>3. ASSUME NEW ep \in Endpoint, SendStep(t, ep)
      PROVE  /\ ipc' \in [Thread -> IpcStates]
             /\ caller' \in [Thread -> Thread \cup {NoThread}]
  <2>1. /\ caller' = caller /\ ipc' = [u \in Thread |-> ipc'[u]]
        /\ \A u \in Thread : \/ ipc'[u] = ipc[u] \/ ipc'[u] = Ready
                             \/ ipc'[u] = Blocked("send", ep)
    BY <1>3, SendMakes
  <2>2. \A u \in Thread : ipc'[u] \in IpcStates
    BY <1>1, <2>1, IpcStatesAre
  <2>3. QED
    BY <1>1, <2>1, <2>2
<1>4. ASSUME NEW ep \in Endpoint, CallStep(t, ep)
      PROVE  /\ ipc' \in [Thread -> IpcStates]
             /\ caller' \in [Thread -> Thread \cup {NoThread}]
  <2>1. /\ caller' = [u \in Thread |-> caller'[u]]
        /\ ipc' = [u \in Thread |-> ipc'[u]]
        /\ \A u \in Thread : caller'[u] \in {caller[u], t}
        /\ \A u \in Thread : \/ ipc'[u] = ipc[u] \/ ipc'[u] = Ready
                             \/ ipc'[u] \in {Blocked("call", ep), BlockedOnReply}
    BY <1>4, CallMakes
  <2>2. \A u \in Thread : ipc'[u] \in IpcStates /\ caller'[u] \in Thread \cup {NoThread}
    BY <1>1, <2>1, IpcStatesAre
  <2>3. QED
    BY <2>1, <2>2
<1>5. ASSUME NEW ep \in Endpoint, RecvStep(t, ep) \/ ReplyRecvStep(t, ep)
      PROVE  /\ ipc' \in [Thread -> IpcStates]
             /\ caller' \in [Thread -> Thread \cup {NoThread}]
  <2>1. PICK replied : /\ replied = [u \in Thread |-> replied[u]]
                       /\ Receive(t, ep, replied)
                       /\ \A u \in Thread : replied[u] = ipc[u] \/ replied[u] = Ready
    BY <1>5, RecvMakes
  <2>2. /\ caller' = [u \in Thread |-> caller'[u]]
        /\ ipc' = [u \in Thread |-> ipc'[u]]
        /\ \A u \in Thread :
             caller'[u] \in {caller[u], NoThread} \cup Waiting("call", ep)
        /\ \A u \in Thread :
             \/ ipc'[u] = replied[u] \/ ipc'[u] = Blocked("recv", ep)
             \/ ipc'[u] \in {Ready, BlockedOnReply}
    BY <2>1, ReceiveMakes
  <2>3. Waiting("call", ep) \subseteq Thread
    BY DEF Waiting
  <2>4. \A u \in Thread : ipc'[u] \in IpcStates /\ caller'[u] \in Thread \cup {NoThread}
    BY <1>1, <2>1, <2>2, <2>3, IpcStatesAre
  <2>5. QED
    BY <2>2, <2>4
<1>6. \/ UNCHANGED messageVars
      \/ \E ep \in Endpoint : \/ SendStep(t, ep) \/ CallStep(t, ep)
                              \/ RecvStep(t, ep) \/ ReplyRecvStep(t, ep)
  BY DEF Step, InitStep, SliceStep, LocalStep, TickStep,
         GotoStep, AbortStep, SetupStep,
         SampleStep, CompareStep
<1>7. QED
  BY <1>2, <1>3, <1>4, <1>5, <1>6

\* The record, and what alive() knows of it.
LEMMA RecordTyped ==
  ASSUME TypeOK, probe.tries < Tries, NEW t \in Thread, Step(t)
  PROVE  /\ record' \in Tick /\ tick' \in Tick
         /\ probe' \in [local: Tick, tries: 0..Tries,
                        verdict: {"none", "alive", "dead"}]
         /\ probe'.tries < Tries
<1>1. /\ record \in Tick /\ tick \in Tick
      /\ probe \in [local: Tick, tries: 0..Tries,
                    verdict: {"none", "alive", "dead"}]
  BY DEF TypeOK
<1>2. Tries \in Nat /\ Tries > 0 /\ TickWidth \in Nat /\ TickWidth > 0
  BY BenchmarksAssumption
<1>3. CASE UNCHANGED <<recordVars, probe>>
  BY <1>1, <1>3 DEF recordVars
<1>4. CASE TickStep(t)
  <2>1. record' = tick /\ tick' = (tick + 1) % TickWidth /\ probe' = probe
    BY <1>4 DEF TickStep
  <2>2. (tick + 1) % TickWidth \in Tick
    BY <1>1, <1>2 DEF Tick
  <2>3. QED
    BY <1>1, <2>1, <2>2
<1>5. CASE SampleStep
  <2>1. probe' = [local |-> record, tries |-> 0, verdict |-> "none"]
        /\ record' = record /\ tick' = tick
    BY <1>5 DEF SampleStep, recordVars
  <2>2. QED
    BY <1>1, <1>2, <2>1
<1>6. CASE CompareStep
  <2>1. record' = record /\ tick' = tick
    BY <1>6 DEF CompareStep, recordVars
  <2>2. \/ \E v \in {"alive", "dead"} : probe' = [probe EXCEPT !.verdict = v]
        \/ /\ probe.tries + 1 # Tries
           /\ probe' = [probe EXCEPT !.tries = probe.tries + 1]
    BY <1>6 DEF CompareStep
  <2>3. CASE \E v \in {"alive", "dead"} : probe' = [probe EXCEPT !.verdict = v]
    BY <1>1, <2>1, <2>3
  <2>4. CASE /\ probe.tries + 1 # Tries
             /\ probe' = [probe EXCEPT !.tries = probe.tries + 1]
    <3>1. probe.tries + 1 \in 0..Tries /\ probe.tries + 1 < Tries
      BY <1>1, <1>2, <2>4
    <3>2. QED
      BY <1>1, <2>1, <2>4, <3>1
  <2>5. QED
    BY <2>2, <2>3, <2>4
<1>7. \/ UNCHANGED <<recordVars, probe>> \/ TickStep(t) \/ SampleStep \/ CompareStep
  BY DEF Step, InitStep, SliceStep, LocalStep,
         GotoStep, AbortStep, SetupStep, SendStep,
         CallStep, RecvStep, ReplyRecvStep
<1>8. QED
  BY <1>3, <1>4, <1>5, <1>6, <1>7

\* All types.
LEMMA StepTyped ==
  ASSUME Inv, NEW t \in Thread, Step(t)
  PROVE  TypeOK' /\ probe'.tries < Tries /\ SetupInv'
<1>1. TypeOK /\ probe.tries < Tries /\ SetupInv
  BY DEF Inv
<1>2. SetupInv'
  BY <1>1, StepSetsUp, SetupStepKeeps
<1>3. ProcessesTypeOK'
  BY <1>2 DEF SetupInv
<1>4. /\ config' \in Config /\ pc' \in [Thread -> Nat]
      /\ \A u \in Thread : pc'[u] \in 1..(Len(Program(u)') + 1)
  BY <1>1, CountersStay
<1>5. ipc' \in [Thread -> IpcStates] /\ caller' \in [Thread -> Thread \cup {NoThread}]
  BY <1>1, MessagesTyped
<1>6. /\ record' \in Tick /\ tick' \in Tick
      /\ probe' \in [local: Tick, tries: 0..Tries,
                     verdict: {"none", "alive", "dead"}]
      /\ probe'.tries < Tries
  BY <1>1, RecordTyped
<1>7. aborted' \subseteq Thread
  <2>1. aborted' \in {aborted, aborted \cup {t}}
    BY <1>1, StepMoves
  <2>2. QED
    BY <1>1, <2>1 DEF TypeOK
<1>8. QED
  BY <1>2, <1>3, <1>4, <1>5, <1>6, <1>7 DEF TypeOK, IpcStates, Program, Tick

-----------------------------------------------------------------------------
(* Every step keeps what is said of the messages *)

\* A blocked thread has just made its call.
LEMMA StepBlocks ==
  ASSUME Inv, NEW t \in Thread, Step(t)
  PROVE  BlockedWhere'
<1>1. TypeOK
  BY DEF Inv
<1>2. /\ pc \in [Thread -> Nat] /\ config \in Config
      /\ \A u \in Thread : pc[u] >= 1
  BY DEF Inv, TypeOK
<1>3. config' = config /\ \A u \in Thread \ {t} : pc'[u] = pc[u]
  BY <1>1, <1>2, StepMoves
<1>4. ipc[t] = Ready
  <2>1. \E op : At(t, op)
    BY <1>1, StepMoves
  <2>2. QED
    BY <2>1 DEF At, Executes
<1>5. ASSUME NEW u \in Thread, NEW op \in {"send", "call"}, NEW ep \in Endpoint,
             ipc'[u] = Blocked(op, ep), ipc'[u] = ipc[u]
      PROVE  LastWas(u, op, ep)'
  <2>1. u # t
    BY <1>4, <1>5, BlockedApart
  <2>2. LastWas(u, op, ep)
    BY <1>5 DEF Inv, BlockedWhere
  <2>3. QED
    BY <1>3, <2>1, <2>2 DEF LastWas, Program
<1>6. ASSUME NEW op \in {"send", "call"}, NEW ep \in Endpoint,
             AtEndpoint(t, op, ep), Advance(t)
      PROVE  LastWas(t, op, ep)'
  <2>1. pc'[t] = pc[t] + 1 /\ pc'[t] - 1 = pc[t]
    BY <1>2, <1>6 DEF Advance
  <2>2. Program(t)[pc[t]].op = op /\ Program(t)[pc[t]].arg = ep
    BY <1>6 DEF AtEndpoint, At, Statement
  <2>3. QED
    BY <1>2, <1>3, <2>1, <2>2 DEF LastWas, Program
<1>7. SUFFICES ASSUME NEW u \in Thread, NEW o \in {"send", "call"}, NEW e \in Endpoint,
                      ipc'[u] = Blocked(o, e)
               PROVE  LastWas(u, o, e)'
  BY DEF BlockedWhere, Blocked
<1>8. CASE UNCHANGED messageVars
  BY <1>5, <1>7, <1>8 DEF messageVars
<1>9. ASSUME NEW ep \in Endpoint, SendStep(t, ep)
      PROVE  LastWas(u, o, e)'
  <2>1. \/ ipc'[u] = ipc[u] \/ ipc'[u] = Ready
        \/ u = t /\ ipc'[u] = Blocked("send", ep)
    BY <1>1, <1>9, SendMakes
  <2>2. CASE u = t /\ ipc'[u] = Blocked("send", ep)
    <3>1. o = "send" /\ e = ep
      BY <1>7, <2>2, BlockedApart
    <3>2. AtEndpoint(t, "send", ep) /\ Advance(t)
      BY <1>9 DEF SendStep
    <3>3. QED
      BY <1>6, <2>2, <3>1, <3>2
  <2>3. QED
    BY <1>5, <1>7, <2>1, <2>2, BlockedApart
<1>10. ASSUME NEW ep \in Endpoint, CallStep(t, ep)
       PROVE  LastWas(u, o, e)'
  <2>1. \/ ipc'[u] = ipc[u] \/ ipc'[u] \in {Ready, BlockedOnReply}
        \/ u = t /\ ipc'[u] = Blocked("call", ep)
    BY <1>1, <1>10, CallMakes
  <2>2. CASE u = t /\ ipc'[u] = Blocked("call", ep)
    <3>1. o = "call" /\ e = ep
      BY <1>7, <2>2, BlockedApart
    <3>2. AtEndpoint(t, "call", ep) /\ Advance(t)
      BY <1>10 DEF CallStep
    <3>3. QED
      BY <1>6, <2>2, <3>1, <3>2
  <2>3. QED
    BY <1>5, <1>7, <2>1, <2>2, BlockedApart
<1>11. ASSUME NEW ep \in Endpoint, RecvStep(t, ep) \/ ReplyRecvStep(t, ep)
       PROVE  LastWas(u, o, e)'
  <2>1. PICK replied : /\ replied = [v \in Thread |-> replied[v]]
                       /\ Receive(t, ep, replied)
                       /\ \A v \in Thread : replied[v] = ipc[v] \/ replied[v] = Ready
    BY <1>1, <1>11, RecvMakes
  <2>2. \/ ipc'[u] = replied[u] \/ ipc'[u] = Blocked("recv", ep)
        \/ ipc'[u] \in {Ready, BlockedOnReply}
    BY <1>1, <2>1, ReceiveMakes
  <2>3. QED
    BY <1>5, <1>7, <2>1, <2>2, BlockedApart
<1>12. \/ UNCHANGED messageVars
       \/ \E ep \in Endpoint : \/ SendStep(t, ep) \/ CallStep(t, ep)
                               \/ RecvStep(t, ep) \/ ReplyRecvStep(t, ep)
  BY DEF Step, InitStep, SliceStep, LocalStep, TickStep,
         GotoStep, AbortStep, SetupStep,
         SampleStep, CompareStep
<1>13. QED
  BY <1>8, <1>9, <1>10, <1>11, <1>12

\* The statement a thread blocked in a send or a call has executed.
LEMMA BlockedIn ==
  ASSUME TypeOK, BlockedWhere, NEW u \in Thread, NEW op \in {"send", "call"},
         NEW ep \in Endpoint, u \in Waiting(op, ep)
  PROVE  /\ config \in Config /\ pc[u] \in Nat /\ pc[u] > 1
         /\ pc[u] - 1 \in 1..Len(Programs[config][u])
         /\ Programs[config][u][pc[u] - 1].op = op
         /\ Programs[config][u][pc[u] - 1].arg = ep
<1>1. ipc[u] = Blocked(op, ep)
  BY DEF Waiting
<1>2. LastWas(u, op, ep)
  BY <1>1 DEF BlockedWhere
<1>3. config \in Config /\ pc[u] \in Nat /\ pc[u] \in 1..(Len(Programs[config][u]) + 1)
  BY DEF TypeOK, Program
<1>4. Len(Programs[config][u]) \in Nat
  BY <1>3, ProgramLengths
<1>5. QED
  BY <1>2, <1>3, <1>4 DEF LastWas, Program

\* Only A waits for a reply.
LEMMA StepCalls ==
  ASSUME Inv, NEW t \in Thread, Step(t)
  PROVE  OnlyACalls'
<1>1. TypeOK /\ BlockedWhere /\ \A u \in Thread : caller[u] \in {A, NoThread}
  BY DEF Inv, OnlyACalls
<1>2. CASE UNCHANGED messageVars
  BY <1>1, <1>2 DEF messageVars, OnlyACalls
<1>3. ASSUME NEW ep \in Endpoint, SendStep(t, ep)
      PROVE  OnlyACalls'
  <2>1. caller' = caller
    BY <1>1, <1>3, SendMakes
  <2>2. QED
    BY <1>1, <2>1 DEF OnlyACalls
<1>4. ASSUME NEW ep \in Endpoint, CallStep(t, ep)
      PROVE  OnlyACalls'
  <2>1. \A u \in Thread : caller'[u] \in {caller[u], t}
    BY <1>1, <1>4, CallMakes
  <2>2. At(t, "call")
    BY <1>4 DEF CallStep, AtEndpoint
  <2>3. /\ config \in Config /\ pc[t] \in 1..Len(Programs[config][t])
        /\ Programs[config][t][pc[t]].op = "call"
    BY <1>1, <2>2, AtProgram
  <2>4. t = A
    BY <2>3, Says
  <2>5. QED
    BY <1>1, <2>1, <2>4 DEF OnlyACalls
<1>5. ASSUME NEW ep \in Endpoint, RecvStep(t, ep) \/ ReplyRecvStep(t, ep)
      PROVE  OnlyACalls'
  <2>1. PICK replied : /\ replied = [v \in Thread |-> replied[v]]
                       /\ Receive(t, ep, replied)
    BY <1>1, <1>5, RecvMakes
  <2>2. \A u \in Thread : caller'[u] \in {caller[u], NoThread} \cup Waiting("call", ep)
    BY <1>1, <2>1, ReceiveMakes
  <2>3. ASSUME NEW u \in Waiting("call", ep)
        PROVE  u = A
    <3>1. u \in Thread
      BY DEF Waiting
    <3>2. /\ config \in Config /\ pc[u] - 1 \in 1..Len(Programs[config][u])
          /\ Programs[config][u][pc[u] - 1].op = "call"
      BY <1>1, <3>1, BlockedIn
    <3>3. QED
      BY <3>1, <3>2, Says
  <2>4. QED
    BY <1>1, <2>2, <2>3 DEF OnlyACalls
<1>6. \/ UNCHANGED messageVars
      \/ \E ep \in Endpoint : \/ SendStep(t, ep) \/ CallStep(t, ep)
                              \/ RecvStep(t, ep) \/ ReplyRecvStep(t, ep)
  BY DEF Step, InitStep, SliceStep, LocalStep, TickStep,
         GotoStep, AbortStep, SetupStep,
         SampleStep, CompareStep
<1>7. QED
  BY <1>2, <1>3, <1>4, <1>5, <1>6

\* A thread that is ready and moves on has done more.
LEMMA DoneStays ==
  ASSUME TypeOK, NEW t \in Thread, Step(t), config.bench # "funcMulti",
         NEW u \in Thread, NEW op, NEW ep
  PROVE  /\ Done(u, op, ep) => Done(u, op, ep)'
         /\ Done(u, op, ep)' => Done(u, op, ep) \/ (u = t /\ AtEndpoint(t, op, ep))
<1>1. /\ config \in Config /\ pc \in [Thread -> Nat] /\ pc[t] >= 1
  BY DEF TypeOK
<1>2. /\ config' = config
      /\ \/ pc' = [pc EXCEPT ![t] = pc[t] + 1]
         \/ At(t, "goto")
         \/ pc' = pc
  BY StepMoves
<1>3. ~At(t, "goto")
  <2>1. SUFFICES ASSUME At(t, "goto") PROVE FALSE
    OBVIOUS
  <2>2. /\ config \in Config /\ pc[t] \in 1..Len(Programs[config][t])
        /\ Programs[config][t][pc[t]].op = "goto"
    BY <2>1, AtProgram
  <2>3. config.bench = "funcMulti"
    BY <2>2, Says
  <2>4. QED
    BY <2>3
<1>4. \E o : At(t, o)
  BY StepMoves
<1>5. CASE pc'[u] = pc[u]
  BY <1>2, <1>5 DEF Done, Program
<1>6. CASE u = t /\ pc'[u] = pc[u] + 1
  <2>1. 1..(pc'[u] - 1) = 1..(pc[u] - 1) \cup {pc[u]}
    BY <1>1, <1>6
  <2>2. Done(u, op, ep)' <=> \/ Done(u, op, ep)
                             \/ Program(u)[pc[u]].op = op /\ Program(u)[pc[u]].arg = ep
    BY <1>2, <2>1 DEF Done, Program
  <2>3. Program(u)[pc[u]].op = op /\ Program(u)[pc[u]].arg = ep =>
          AtEndpoint(t, op, ep)
    BY <1>4, <1>6 DEF AtEndpoint, At, Statement
  <2>4. QED
    BY <1>6, <2>2, <2>3
<1>7. QED
  BY <1>1, <1>2, <1>3, <1>5, <1>6

\* A thread that waits to send on ep has done so, in the sense of Done.
LEMMA WaitingHasSent ==
  ASSUME TypeOK, BlockedWhere, NEW ep \in {a_ep, b_ep}, config.bench # "funcMulti",
         NEW t \in {A, B}, ep = IF t = A THEN a_ep ELSE b_ep,
         ipc[Root] = Ready, Waiting("send", ep) \cup Waiting("call", ep) # {}
  PROVE  Done(t, "send", ep)
<1>1. /\ ep \in Endpoint /\ ep # syn_ep /\ a_ep # b_ep /\ Thread = {Root, A, B}
      /\ A # B
  BY BenchmarksAssumption
<1>2. Waiting("call", ep) = {}
  <2>1. ASSUME NEW u \in Waiting("call", ep) PROVE FALSE
    <3>1. u \in Thread
      BY DEF Waiting
    <3>2. /\ config \in Config /\ pc[u] - 1 \in 1..Len(Programs[config][u])
          /\ Programs[config][u][pc[u] - 1].op = "call"
          /\ Programs[config][u][pc[u] - 1].arg = ep
      BY <1>1, <3>1, BlockedIn
    <3>3. QED
      BY <1>1, <3>1, <3>2, Says
  <2>2. QED
    BY <2>1
<1>3. PICK u \in Thread : u \in Waiting("send", ep)
  BY <1>2 DEF Waiting
<1>4. u # Root
  BY <1>3, BlockedApart DEF Waiting
<1>5. /\ config \in Config /\ pc[u] \in Nat /\ pc[u] > 1
      /\ pc[u] - 1 \in 1..Len(Programs[config][u])
      /\ Programs[config][u][pc[u] - 1].op = "send"
      /\ Programs[config][u][pc[u] - 1].arg = ep
  BY <1>1, <1>3, BlockedIn
<1>6. u = t
  <2>1. CASE t = A
    <3>1. u # B
      BY <1>5, <2>1, Says
    <3>2. QED
      BY <1>1, <1>4, <2>1, <3>1
  <2>2. CASE t = B
    <3>1. ep = b_ep
      BY <1>1, <2>2
    <3>2. u = B
      BY <1>5, <3>1, Says
    <3>3. QED
      BY <2>2, <3>2
  <2>3. QED
    BY <2>1, <2>2
<1>7. pc[u] - 1 \in 1..(pc[u] - 1)
  BY <1>5
<1>8. QED
  BY <1>5, <1>6, <1>7 DEF Done, Program

\* Who sends on ep to the root task.
LEMMA WhoSends ==
  ASSUME TypeOK, NEW u \in Thread, NEW ep \in {a_ep, b_ep},
         NEW t \in {A, B}, ep = IF t = A THEN a_ep ELSE b_ep, u # Root
  PROVE  /\ AtEndpoint(u, "send", ep) => u = t
         /\ ~AtEndpoint(u, "call", ep)
<1>1. /\ ep # syn_ep /\ a_ep # b_ep /\ Thread = {Root, A, B} /\ A # B
  BY BenchmarksAssumption
<1>2. ASSUME NEW op, AtEndpoint(u, op, ep)
      PROVE  /\ config \in Config /\ pc[u] \in 1..Len(Programs[config][u])
             /\ Programs[config][u][pc[u]].op = op
             /\ Programs[config][u][pc[u]].arg = ep
  BY <1>2, AtProgram DEF AtEndpoint
<1>3. ~AtEndpoint(u, "call", ep)
  BY <1>1, <1>2, Says
<1>4. ASSUME AtEndpoint(u, "send", ep)
      PROVE  u = t
  <2>1. /\ config \in Config /\ pc[u] \in 1..Len(Programs[config][u])
        /\ Programs[config][u][pc[u]].op = "send"
        /\ Programs[config][u][pc[u]].arg = ep
    BY <1>2, <1>4
  <2>2. CASE t = A
    <3>1. u # B
      BY <2>1, <2>2, Says
    <3>2. QED
      BY <1>1, <2>2, <3>1
  <2>3. CASE t = B
    <3>1. ep = b_ep
      BY <1>1, <2>3
    <3>2. u = B
      BY <2>1, <3>1, Says
    <3>3. QED
      BY <2>3, <3>2
  <2>4. QED
    BY <2>2, <2>3
<1>5. QED
  BY <1>3, <1>4

\* The root task goes on when its peer has sent the result.
LEMMA StepHandsOver ==
  ASSUME Inv, NEW u \in Thread, Step(u), config.bench # "funcMulti",
         NEW ep \in {a_ep, b_ep}, NEW t \in {A, B},
         ep = IF t = A THEN a_ep ELSE b_ep, HandedOver(t, ep)
  PROVE  HandedOver(t, ep)'
<1>1. TypeOK /\ BlockedWhere /\ OnlyACalls
  BY DEF Inv
<1>2. /\ ep \in Endpoint /\ ep # syn_ep /\ Root \in Thread /\ t \in Thread
      /\ Root # A /\ NoThread \notin Thread
  BY BenchmarksAssumption
<1>3. SUFFICES ASSUME Done(Root, "recv", ep)', ipc'[Root] # Blocked("recv", ep)
               PROVE  Done(t, "send", ep)'
  BY DEF HandedOver, Blocked
<1>4. Done(t, "send", ep) => Done(t, "send", ep)'
  BY <1>1, <1>2, DoneStays
<1>5. ipc[u] = Ready
  <2>1. \E op : At(u, op)
    BY <1>1, StepMoves
  <2>2. QED
    BY <2>1 DEF At, Executes
<1>6. CASE Done(Root, "recv", ep) /\ ipc[Root] # Blocked("recv", ep)
  BY <1>4, <1>6 DEF HandedOver
<1>7. CASE Done(Root, "recv", ep) /\ ipc[Root] = Blocked("recv", ep)
  <2>1. u # Root /\ ipc'[Root] # ipc[Root]
    BY <1>3, <1>5, <1>7, BlockedApart
  <2>2. ~UNCHANGED messageVars
    BY <2>1 DEF messageVars
  <2>3. PICK e \in Endpoint : \/ SendStep(u, e) \/ CallStep(u, e)
                              \/ RecvStep(u, e) \/ ReplyRecvStep(u, e)
    BY <2>2 DEF Step, InitStep, SliceStep, LocalStep, TickStep,
                GotoStep, AbortStep, SetupStep,
                SampleStep, CompareStep
  <2>4. CASE SendStep(u, e)
    <3>1. ipc[Root] = Blocked("recv", e)
      BY <1>1, <1>2, <2>1, <2>4, SendMakes
    <3>2. AtEndpoint(u, "send", ep)
      BY <1>7, <2>4, <3>1, BlockedApart DEF SendStep
    <3>3. u = t
      BY <1>1, <2>1, <3>2, WhoSends
    <3>4. Advance(t)
      BY <2>4, <3>3 DEF SendStep
    <3>5. Done(t, "send", ep)'
      <4>1. /\ pc[t] \in Nat /\ pc[t] >= 1 /\ pc'[t] = pc[t] + 1 /\ config' = config
        BY <1>1, <1>2, <3>4 DEF TypeOK, Advance
      <4>2. Program(t)[pc[t]].op = "send" /\ Program(t)[pc[t]].arg = ep
        BY <3>2, <3>3 DEF AtEndpoint, At, Statement
      <4>3. pc[t] \in 1..(pc'[t] - 1)
        BY <4>1
      <4>4. QED
        BY <4>1, <4>2, <4>3 DEF Done, Program
    <3>6. QED
      BY <3>5
  <2>5. CASE CallStep(u, e)
    <3>1. ipc[Root] = Blocked("recv", e)
      BY <1>1, <1>2, <2>1, <2>5, CallMakes
    <3>2. AtEndpoint(u, "call", ep)
      BY <1>7, <2>5, <3>1, BlockedApart DEF CallStep
    <3>3. QED
      BY <1>1, <2>1, <3>2, WhoSends
  <2>6. CASE RecvStep(u, e) \/ ReplyRecvStep(u, e)
    <3>1. PICK replied : /\ replied = [v \in Thread |-> replied[v]]
                         /\ Receive(u, e, replied)
                         /\ \A v \in Thread : replied[v] = ipc[v] \/ v = caller[u]
      BY <1>1, <2>6, RecvMakes
    <3>2. replied[Root] = ipc[Root]
      BY <1>1, <1>2, <3>1 DEF OnlyACalls
    <3>3. Root \in Waiting("send", e) \cup Waiting("call", e)
      BY <1>1, <1>2, <2>1, <3>1, <3>2, ReceiveMakes
    <3>4. QED
      BY <1>7, <3>3, BlockedApart DEF Waiting
  <2>7. QED
    BY <2>3, <2>4, <2>5, <2>6
<1>8. CASE ~Done(Root, "recv", ep)
  <2>1. u = Root /\ AtEndpoint(u, "recv", ep)
    BY <1>1, <1>2, <1>3, <1>8, DoneStays
  <2>2. RecvStep(u, ep)
    <3>1. /\ \A op : At(u, op) => op = "recv"
          /\ \A op, e : AtEndpoint(u, op, e) => op = "recv" /\ e = ep
      BY <2>1 DEF AtEndpoint, At
    <3>2. \E e \in Endpoint : RecvStep(u, e)
      BY <3>1 DEF Step, InitStep, SliceStep, LocalStep, TickStep,
                  GotoStep, AbortStep, SetupStep,
                  SampleStep, CompareStep, SendStep, CallStep, ReplyRecvStep
    <3>3. QED
      BY <3>1, <3>2 DEF RecvStep
  <2>3. PICK replied : /\ replied = [v \in Thread |-> replied[v]]
                       /\ Receive(u, ep, replied)
    BY <1>1, <1>2, <2>2, RecvMakes
  <2>4. Waiting("send", ep) \cup Waiting("call", ep) # {}
    BY <1>1, <1>2, <1>3, <2>1, <2>3, ReceiveMakes
  <2>5. Done(t, "send", ep)
    BY <1>1, <1>5, <2>1, <2>4, WaitingHasSent
  <2>6. QED
    BY <1>4, <2>5
<1>9. QED
  BY <1>6, <1>7, <1>8

\* A step preserves that a result received was sent.
LEMMA StepHandsResults ==
  ASSUME Inv, NEW t \in Thread, Step(t)
  PROVE  ResultsHandedOver'
<1>1. TypeOK /\ ResultsHandedOver
  BY DEF Inv
<1>2. config' = config
  BY <1>1, StepMoves
<1>3. /\ A \in {A, B} /\ B \in {A, B} /\ A # B
      /\ a_ep = IF A = A THEN a_ep ELSE b_ep
      /\ b_ep = IF B = A THEN a_ep ELSE b_ep
  BY BenchmarksAssumption
<1>4. ASSUME config.bench \in {"ipc", "flush", "flushOnly", "splash", "func"}
      PROVE  HandedOver(A, a_ep)'
  <2>1. HandedOver(A, a_ep) /\ config.bench # "funcMulti"
    BY <1>1, <1>4 DEF ResultsHandedOver
  <2>2. QED
    BY <1>3, <2>1, StepHandsOver
<1>5. ASSUME config.bench = "func"
      PROVE  HandedOver(B, b_ep)'
  <2>1. HandedOver(B, b_ep) /\ config.bench # "funcMulti"
    BY <1>1, <1>5 DEF ResultsHandedOver
  <2>2. QED
    BY <1>3, <2>1, StepHandsOver
<1>6. QED
  BY <1>2, <1>4, <1>5 DEF ResultsHandedOver

-----------------------------------------------------------------------------
(* Every step keeps what alive() has sampled of a receiver that is dead *)

\* The receiver does not write when its own kernel is gone.
LEMMA DeadDoesNotTick ==
  ASSUME Inv, NEW t \in Thread, TickStep(t), config.kernels = "own",
         config.bench = "funcMulti"
  PROVE  image[1] = "cloned"
<1>1. TypeOK /\ OwnKernel
  BY DEF Inv
<1>2. At(t, "tick")
  BY DEF TickStep
<1>3. /\ config \in Config /\ pc[t] \in 1..Len(Programs[config][t])
      /\ Programs[config][t][pc[t]].op = "tick"
      /\ t \in Process => CanRun(t)
  BY <1>1, <1>2, AtProgram
<1>4. t = B /\ B \in Process
  BY <1>3, Says, BenchmarksAssumption
<1>5. process[B].kernel \in {NoKernel, 1} /\ Live(process[B].kernel)
  BY <1>1, <1>3, <1>4 DEF OwnKernel, CanRun
<1>6. NoKernel # Master /\ NoKernel \notin Image /\ 1 # Master
  BY ProcessesAssumption, BenchmarksAssumption
<1>7. QED
  BY <1>5, <1>6 DEF Live

\* alive() compares after it has sampled.
LEMMA ComparePlace ==
  ASSUME NEW c \in Config, NEW k \in 1..Len(Programs[c][Root]),
         Programs[c][Root][k].op = "compare"
  PROVE  /\ c.bench = "funcMulti" /\ k > 1
         /\ Programs[c][Root][k - 1].op = "sample"
<1> DEFINE P == Programs[c][Root]
           m == Images(c.kernels)
           n == SetupLength(c.bench)
<1>1. /\ m \in Nat /\ n \in Nat
      /\ Len(P) \in Nat /\ RootForm(P, m, n, c.bench, c.kernels)
  BY Lengths, RootProgram
<1>2. k > m + n
  <2>1. Programs[c][Root][k].op \in {"recv", "send", "print", "sample", "compare"}
    OBVIOUS
  <2>2. QED
    BY <2>1, RootSays
<1>3. P[k].op = "compare"
  OBVIOUS
<1> HIDE DEF P, m, n
<1>4. k \in (m + n + 1)..Len(P)
  BY <1>1, <1>2 DEF P
<1>5. c.bench = "funcMulti" /\ k > m + n + 1 /\ P[k - 1].op = "sample"
  BY <1>1, <1>3, <1>4 DEF RootForm
<1>6. QED
  BY <1>1, <1>5 DEF P

\* A step preserves what alive() has sampled of a receiver that is gone.
LEMMA StepSamples ==
  ASSUME Inv, NEW t \in Thread, Step(t)
  PROVE  DeadSampled'
<1>1. TypeOK /\ DeadSampled /\ config \in Config
  BY DEF Inv, TypeOK
<1>2. config' = config
  BY <1>1, StepMoves
<1>3. SUFFICES ASSUME config.kernels = "own", image'[1] # "cloned",
                      pc'[Root] <= Len(Programs[config][Root]),
                      Programs[config][Root][pc'[Root]].op = "compare"
               PROVE  probe'.local = record'
  BY <1>2 DEF DeadSampled, HasNext, Statement, Program
<1>4. pc'[Root] \in 1..Len(Programs[config][Root])
  <2>1. /\ pc'[Root] \in 1..(Len(Program(Root)') + 1) /\ pc' \in [Thread -> Nat]
    BY <1>1, CountersStay, BenchmarksAssumption
  <2>2. Len(Programs[config][Root]) \in Nat
    BY <1>1, RootProgram
  <2>3. QED
    BY <1>2, <1>3, <2>1, <2>2, BenchmarksAssumption DEF Program
<1>5. /\ config.bench = "funcMulti" /\ pc'[Root] > 1
      /\ Programs[config][Root][pc'[Root] - 1].op = "sample"
  BY <1>1, <1>3, <1>4, ComparePlace
<1>6. ASSUME pc'[Root] = pc[Root], image' = image
      PROVE  probe.local = record
  BY <1>1, <1>3, <1>6 DEF DeadSampled, HasNext, Statement, Program
<1>7. ASSUME pc'[Root] = pc[Root] + 1
      PROVE  \A op : At(Root, op) => op = "sample"
  <2>1. pc[Root] \in Nat
    BY <1>1, BenchmarksAssumption DEF TypeOK
  <2>2. pc'[Root] - 1 = pc[Root]
    BY <1>7, <2>1
  <2>3. QED
    BY <1>5, <2>2 DEF At, Statement, Program
<1>8. CASE TickStep(t)
  <2>1. image' = image
    BY <1>8 DEF TickStep, processVars
  <2>2. QED
    BY <1>1, <1>3, <1>5, <1>8, <2>1, DeadDoesNotTick
<1>9. CASE t = Root
  <2>1. pc'[Root] = pc[Root] \/ pc'[Root] = pc[Root] + 1
    BY <1>9, RootMoves
  <2>2. CASE pc'[Root] = pc[Root] + 1
    <3>1. \A op : At(Root, op) => op = "sample"
      BY <1>7, <2>2
    <3>2. SampleStep
      BY <1>9, <3>1 DEF Step, InitStep, SliceStep, LocalStep, TickStep,
                        GotoStep, AbortStep, SetupStep, CompareStep, SendStep,
                        CallStep, RecvStep, ReplyRecvStep, AtEndpoint
    <3>3. QED
      BY <3>2 DEF SampleStep, recordVars
  <2>3. CASE pc'[Root] = pc[Root]
    <3>1. pc'[Root] # pc[Root] + 1
      <4>1. pc[Root] \in Nat
        BY <1>1, BenchmarksAssumption DEF TypeOK
      <4>2. QED
        BY <2>3, <4>1
    <3>2. ~Advance(Root)
      BY <1>1, <3>1, BenchmarksAssumption DEF Advance, TypeOK
    <3>3. CompareStep \/ GotoStep(Root) \/ AbortStep(Root)
      BY <1>9, <3>2 DEF Step, InitStep, SliceStep, LocalStep, TickStep,
           SetupStep, SampleStep, SendStep, CallStep, RecvStep, ReplyRecvStep
    <3>4. /\ image' = image /\ record' = record
          /\ probe'.local = probe.local
      <4>1. CASE GotoStep(Root) \/ AbortStep(Root)
        BY <4>1 DEF GotoStep, AbortStep, processVars, recordVars
      <4>2. CASE CompareStep
        <5>1. image' = image /\ record' = record
          BY <4>2 DEF CompareStep, processVars, recordVars
        <5>2. /\ probe = [probe EXCEPT !.local = probe.local]
              /\ DOMAIN probe = {"local", "tries", "verdict"}
          BY <1>1 DEF TypeOK
        <5>3. \/ \E v : probe' = [probe EXCEPT !.verdict = v]
              \/ \E v : probe' = [probe EXCEPT !.tries = v]
          BY <4>2 DEF CompareStep
        <5>4. probe'.local = probe.local
          BY <5>2, <5>3
        <5>5. QED
          BY <5>1, <5>4
      <4>3. QED
        BY <3>3, <4>1, <4>2
    <3>5. QED
      BY <1>6, <2>3, <3>4
  <2>4. QED
    BY <2>1, <2>2, <2>3
<1>10. CASE t # Root /\ ~TickStep(t)
  <2>1. pc'[Root] = pc[Root]
    BY <1>10, RootMoves
  <2>2. image' = image /\ record' = record /\ probe' = probe
    BY <1>10 DEF Step, InitStep, BenchInitEnv, SliceStep, LocalStep,
                 GotoStep, AbortStep, SendStep, CallStep, RecvStep,
                 ReplyRecvStep, processVars, recordVars
  <2>3. QED
    BY <1>6, <2>1, <2>2
<1>11. QED
  BY <1>8, <1>9, <1>10

-----------------------------------------------------------------------------
(* The invariant holds *)

\* The program starts with the invariant.
LEMMA InitHolds ==
  ASSUME Init
  PROVE  Inv
<1>1. /\ config \in Config /\ Root \in Thread /\ Process \subseteq Thread
      /\ Tries \in Nat /\ Tries > 0 /\ TickWidth \in Nat /\ TickWidth > 0
  BY BenchmarksAssumption DEF Init
<1>2. ProcessesInit
  BY DEF Init
<1>3. SetupInv
  BY <1>2, SetupInit
<1>4. TypeOK
  <2>1. ProcessesTypeOK
    BY <1>3 DEF SetupInv
  <2>2. \A t \in Thread : 1 \in 1..(Len(Program(t)) + 1)
    <3>1. \A t \in Thread : Len(Programs[config][t]) \in Nat
      BY <1>1, ProgramLengths
    <3>2. \A l \in Nat : 1 \in 1..(l + 1)
      OBVIOUS
    <3>3. QED
      BY <3>1, <3>2, Zenon DEF Program
  <2>3. /\ pc \in [Thread -> Nat]
        /\ \A t \in Thread : pc[t] \in 1..(Len(Program(t)) + 1)
    BY <2>2 DEF Init
  <2>4. ipc \in [Thread -> IpcStates]
    BY IpcStatesAre DEF Init
  <2>5. caller \in [Thread -> Thread \cup {NoThread}]
    BY DEF Init
  <2>6. /\ record \in Tick /\ tick \in Tick
        /\ probe \in [local: Tick, tries: 0..Tries,
                      verdict: {"none", "alive", "dead"}]
        /\ aborted \subseteq Thread
    BY <1>1 DEF Init, Tick
  <2>7. QED
    BY <1>1, <2>1, <2>3, <2>4, <2>5, <2>6 DEF TypeOK, IpcStates
<1>5. probe.tries < Tries
  BY <1>1 DEF Init
<1>6. SetupFollows
  <2>1. /\ Images(config.kernels) \in {0, 2} /\ SetupLength(config.bench) \in {5, 6, 11}
        /\ pc[Root] = 1
    BY <1>1, Lengths DEF Init
  <2>2. ASSUME NEW t \in Process
        PROVE  process[t].kernel = NoKernel /\ ~process[t].running
    BY <1>2 DEF ProcessesInit, NoProcess
  <2>3. QED
    BY <2>1, <2>2 DEF SetupFollows
<1>7. OwnKernel
  <2>1. B \in Process
    BY BenchmarksAssumption
  <2>2. QED
    BY <1>2, <2>1 DEF OwnKernel, ProcessesInit, NoProcess
<1>8. DeadSampled
  BY DEF Init, DeadSampled
<1>9. BlockedWhere
  BY BlockedApart DEF Init, BlockedWhere
<1>10. OnlyACalls
  BY DEF Init, OnlyACalls
<1>11. ResultsHandedOver
  <2>1. \A op, ep : ~Done(Root, op, ep)
    BY <1>1 DEF Init, Done
  <2>2. QED
    BY <2>1 DEF ResultsHandedOver, HandedOver
<1>12. QED
  BY <1>3, <1>4, <1>5, <1>6, <1>7, <1>8, <1>9, <1>10, <1>11 DEF Inv

\* Every step preserves it.
LEMMA StepHolds ==
  ASSUME Inv, [Next]_vars
  PROVE  Inv' /\ [Setup]_processVars
<1>1. CASE UNCHANGED vars
  <2>1. /\ UNCHANGED <<ipc, caller, platform, image, process, record, tick, config,
                       pc, probe, aborted>>
        /\ UNCHANGED processVars
    BY <1>1 DEF vars, messageVars, processVars, recordVars
  <2>2. TypeOK' /\ probe'.tries < Tries /\ SetupInv'
    <3>1. SetupInv'
      BY <2>1, SetupStepKeeps DEF Inv
    <3>2. QED
      BY <2>1, <3>1 DEF Inv, TypeOK, Program, SetupInv
  <2>3. SetupFollows' /\ OwnKernel'
    BY <2>1 DEF Inv, SetupFollows, OwnKernel
  <2>4. DeadSampled'
    BY <2>1 DEF Inv, DeadSampled, HasNext, Statement, Program
  <2>5. BlockedWhere' /\ OnlyACalls'
    BY <2>1 DEF Inv, BlockedWhere, OnlyACalls, LastWas, Program
  <2>6. ResultsHandedOver'
    BY <2>1 DEF Inv, ResultsHandedOver, HandedOver, Done, Program
  <2>7. QED
    BY <2>1, <2>2, <2>3, <2>4, <2>5, <2>6 DEF Inv
<1>2. CASE Next
  <2>1. PICK t \in Thread : Step(t)
    BY <1>2 DEF Next
  <2>2. (Setup \/ UNCHANGED processVars) /\ SetupFollows' /\ OwnKernel'
    BY <2>1, StepSetsUp
  <2>3. TypeOK' /\ probe'.tries < Tries /\ SetupInv'
    BY <2>1, StepTyped
  <2>4. DeadSampled'
    BY <2>1, StepSamples
  <2>5. BlockedWhere' /\ OnlyACalls'
    BY <2>1, StepBlocks, StepCalls
  <2>6. ResultsHandedOver'
    BY <2>1, StepHandsResults
  <2>7. QED
    BY <2>2, <2>3, <2>4, <2>5, <2>6 DEF Inv
<1>3. QED
  BY <1>1, <1>2

\* The inductive invariant of the benchmarks, for every number of runs,
\* warmups and samples.
THEOREM BenchmarksInvariant == Spec => []Inv
<1>1. Init => Inv
  BY InitHolds
<1>2. Inv /\ [Next]_vars => Inv'
  BY StepHolds
<1>3. QED
  BY <1>1, <1>2, PTL DEF Spec

\* Variables keep their types: program counters stay inside the programs.
THEOREM BenchmarksTypeCorrect == Spec => []TypeOK
<1>1. Inv => TypeOK
  BY DEF Inv
<1>2. QED
  BY <1>1, BenchmarksInvariant, PTL

\* Every benchmark, in every configuration, sets its processes up by the
\* protocol of the setup: the message benchmarks implement SetupSpec.
THEOREM BenchmarksImplementSetup == Spec => SetupSpec
<1>1. Init => ProcessesInit
  BY DEF Init
<1>2. Inv /\ [Next]_vars => [Setup]_processVars
  BY StepHolds
<1>3. QED
  BY <1>1, <1>2, BenchmarksInvariant, PTL DEF Spec, SetupSpec

\* So a launched process finds exactly its capabilities in every benchmark ...
THEOREM BenchmarksCapsExact == Spec => []CapsExact
BY BenchmarksImplementSetup, SetupCapsExact, PTL

\* ... and knows the frames that are mapped.
THEOREM BenchmarksFramesKnown == Spec => []FramesKnown
BY BenchmarksImplementSetup, SetupFramesKnown, PTL

-----------------------------------------------------------------------------
(* The results are complete *)

\* Where the root task has been.
LEMMA RootHasDone ==
  ASSUME TypeOK, NEW k \in Nat, 1 <= k, k < pc[Root],
         NEW op, NEW ep, Program(Root)[k] = [op |-> op, arg |-> ep]
  PROVE  Done(Root, op, ep)
<1>1. pc[Root] \in Nat
  BY BenchmarksAssumption DEF TypeOK
<1>2. k \in 1..(pc[Root] - 1)
  BY <1>1
<1>3. QED
  BY <1>2 DEF Done

\* After its report a thread is behind it.
LEMMA BehindReport ==
  ASSUME TypeOK, NEW t \in Thread, NEW s \in Nat, NEW ep,
         ReportsAt(Program(t), s, ep), Done(t, "send", ep)
  PROVE  pc[t] > s
<1>1. PICK k \in 1..(pc[t] - 1) : /\ Program(t)[k].op = "send"
                                  /\ Program(t)[k].arg = ep
  BY DEF Done
<1>2. pc[t] \in Nat /\ pc[t] \in 1..(Len(Program(t)) + 1) /\ config \in Config
  BY DEF TypeOK
<1>3. Len(Program(t)) \in Nat
  BY <1>2, ProgramLengths DEF Program
<1>4. k \in 1..Len(Program(t)) /\ k < pc[t]
  BY <1>2, <1>3
<1>5. k = s
  BY <1>1, <1>4 DEF ReportsAt
<1>6. QED
  BY <1>4, <1>5

\* What has been received was sent, and the writes precede the message.
LEMMA PrintedComplete ==
  ASSUME Inv
  PROVE  RecordComplete
<1>1. SUFFICES ASSUME At(Root, "print"), NEW t \in {A, B},
                      NEW k \in pc[t]..Len(Program(t))
               PROVE  Program(t)[k].op # "write"
  BY DEF RecordComplete
<1>2. TypeOK /\ ResultsHandedOver /\ t \in Thread /\ Root \in Thread
  BY BenchmarksAssumption DEF Inv
<1>3. /\ config \in Config /\ pc[Root] \in 1..Len(Programs[config][Root])
      /\ Programs[config][Root][pc[Root]].op = "print" /\ ipc[Root] = Ready
  BY <1>1, <1>2, AtProgram
<1>4. pc[t] \in Nat /\ pc[t] >= 1 /\ Len(Program(t)) \in Nat
  BY <1>2, <1>3, ProgramLengths DEF TypeOK, Program
<1>5. k \in 1..Len(Program(t)) /\ k \in Nat
  BY <1>4
<1>6. CASE t = B
  <2>1. Programs[config][B][k].op # "write"
    <3>1. k \in 1..Len(Programs[config][B])
      BY <1>5, <1>6 DEF Program
    <3>2. QED
      BY <1>3, <3>1, BSays
  <2>2. QED
    BY <1>6, <2>1 DEF Program
<1>7. CASE t = A
  <2> DEFINE P == Programs[config][Root]
             m == Images(config.kernels)
             n == SetupLength(config.bench)
  <2>1. /\ config.bench \in {"ipc", "flush", "flushOnly", "splash"}
        /\ pc[Root] > m + n + 1 /\ P[m + n + 1] = [op |-> "recv", arg |-> a_ep]
        /\ m \in Nat /\ n \in Nat
    <3>1. /\ m \in Nat /\ n \in Nat
          /\ Len(P) \in Nat /\ RootForm(P, m, n, config.bench, config.kernels)
      BY <1>3, Lengths, RootProgram
    <3>2. pc[Root] > m + n
      <4>1. Programs[config][Root][pc[Root]].op
              \in {"recv", "send", "print", "sample", "compare"}
        BY <1>3
      <4>2. QED
        BY <1>3, <4>1, RootSays
    <3>3. P[pc[Root]].op = "print" /\ pc[Root] \in 1..Len(P)
      BY <1>3
    <3> HIDE DEF P, m, n
    <3>4. pc[Root] \in (m + n + 1)..Len(P)
      BY <3>1, <3>2, <3>3
    <3>5. QED
      BY <3>1, <3>3, <3>4 DEF RootForm
  <2>2. Done(Root, "recv", a_ep)
    <3>1. m + n + 1 \in Nat /\ 1 <= m + n + 1
      BY <2>1
    <3>2. QED
      BY <1>2, <2>1, <3>1, RootHasDone DEF Program
  <2>3. ipc[Root] # Blocked("recv", a_ep)
    BY <1>3, BlockedApart
  <2>4. Done(A, "send", a_ep)
    BY <1>2, <2>1, <2>2, <2>3 DEF ResultsHandedOver, HandedOver
  <2>5. PICK s \in Nat : ReportsAt(Programs[config][A], s, a_ep)
    BY <1>3, <2>1, AProgram
  <2>6. pc[A] > s
    BY <1>2, <1>7, <2>4, <2>5, BehindReport DEF Program
  <2>7. k > s
    BY <1>4, <1>5, <1>7, <2>6
  <2>8. Program(A)[k].op = "recv"
    BY <1>5, <1>7, <2>5, <2>7 DEF ReportsAt, Program
  <2>9. QED
    BY <1>7, <2>8
<1>8. QED
  BY <1>6, <1>7

\* "benchmark result ready": in every benchmark, for every number of runs, the
\* root task prints the record when nobody will write to it any more.
THEOREM RecordIsComplete == Spec => []RecordComplete
<1>1. Inv => RecordComplete
  BY PrintedComplete
<1>2. QED
  BY <1>1, BenchmarksInvariant, PTL

\* Both results were received, so both threads are at their last receive.
LEMMA DestroyedLast ==
  ASSUME Inv
  PROVE  FinishedBeforeDestroy
<1>1. SUFFICES ASSUME At(Root, "destroyKi"), config.bench = "func"
               PROVE  \A t \in {A, B} : pc[t] >= Len(Program(t))
  BY DEF FinishedBeforeDestroy
<1>2. /\ TypeOK /\ ResultsHandedOver
      /\ A \in Thread /\ B \in Thread /\ Root \in Thread
  BY BenchmarksAssumption DEF Inv
<1>3. /\ config \in Config /\ pc[Root] \in 1..Len(Programs[config][Root])
      /\ Programs[config][Root][pc[Root]].op = "destroyKi" /\ ipc[Root] = Ready
  BY <1>1, <1>2, AtProgram
<1> DEFINE P == Programs[config][Root]
           m == Images(config.kernels)
           n == SetupLength(config.bench)
<1>4. /\ pc[Root] > m + n + 2 /\ m \in Nat /\ n \in Nat
      /\ P[m + n + 1] = [op |-> "recv", arg |-> b_ep]
      /\ P[m + n + 2] = [op |-> "recv", arg |-> a_ep]
  <2>1. /\ m \in Nat /\ n \in Nat
        /\ Len(P) \in Nat /\ RootForm(P, m, n, config.bench, config.kernels)
    BY <1>3, Lengths, RootProgram
  <2>2. pc[Root] > m + n
    BY <1>1, <1>2, RootAt, SetupOps
  <2>3. P[pc[Root]].op = "destroyKi" /\ pc[Root] \in 1..Len(P)
    BY <1>3
  <2> HIDE DEF P, m, n
  <2>4. pc[Root] \in (m + n + 1)..Len(P)
    BY <2>1, <2>2, <2>3
  <2>5. QED
    BY <1>1, <2>1, <2>3, <2>4 DEF RootForm
<1>5. Done(Root, "recv", a_ep) /\ Done(Root, "recv", b_ep)
  <2>1. /\ m + n + 1 \in Nat /\ 1 <= m + n + 1 /\ m + n + 1 < pc[Root]
        /\ m + n + 2 \in Nat /\ 1 <= m + n + 2 /\ m + n + 2 < pc[Root]
    <3>1. pc[Root] \in Nat
      BY <1>3
    <3>2. QED
      BY <1>4, <3>1
  <2>2. QED
    BY <1>2, <1>4, <2>1, RootHasDone DEF Program
<1>6. ipc[Root] # Blocked("recv", a_ep) /\ ipc[Root] # Blocked("recv", b_ep)
  BY <1>3, BlockedApart
<1>7. Done(A, "send", a_ep) /\ Done(B, "send", b_ep)
  BY <1>1, <1>2, <1>5, <1>6 DEF ResultsHandedOver, HandedOver
<1>8. ASSUME NEW t \in Thread, NEW s \in Nat, NEW ep,
             ReportsAt(Program(t), s, ep), Len(Program(t)) = s + 1,
             Done(t, "send", ep)
      PROVE  pc[t] >= Len(Program(t))
  <2>1. pc[t] > s /\ pc[t] \in Nat
    BY <1>2, <1>8, BehindReport DEF TypeOK
  <2>2. QED
    BY <1>8, <2>1
<1>9. pc[A] >= Len(Program(A))
  <2>1. PICK s \in Nat : /\ ReportsAt(Program(A), s, a_ep)
                         /\ Len(Program(A)) = s + 1
    BY <1>1, <1>3, AProgram DEF Program
  <2>2. QED
    BY <1>2, <1>7, <1>8, <2>1
<1>10. pc[B] >= Len(Program(B))
  <2>1. PICK s \in Nat : /\ ReportsAt(Program(B), s, b_ep)
                         /\ Len(Program(B)) = s + 1
    BY <1>1, <1>3, BProgram DEF Program
  <2>2. QED
    BY <1>2, <1>7, <1>8, <2>1
<1>11. QED
  BY <1>9, <1>10

\* On one core the kernels are destroyed when both threads have reported and
\* have nothing left to do.
THEOREM DestroyedWhenFinished == Spec => []FinishedBeforeDestroy
<1>1. Inv => FinishedBeforeDestroy
  BY DestroyedLast
<1>2. QED
  BY <1>1, BenchmarksInvariant, PTL

\* alive() never finds a receiver alive whose own kernel was destroyed.
THEOREM DestroyedStaysDead == Spec => DestroyedIsDead
<1>1. ASSUME Inv, [Next]_vars
      PROVE  [probe'.verdict = "alive" /\ probe.verdict # "alive"
                => config.kernels # "own" \/ image[1] = "cloned"]_vars
  <2>1. SUFFICES ASSUME Next, probe'.verdict = "alive", probe.verdict # "alive"
                 PROVE  config.kernels # "own" \/ image[1] = "cloned"
    BY <1>1
  <2>2. PICK t \in Thread : Step(t)
    BY <2>1 DEF Next
  <2>3. probe' # probe
    BY <2>1
  <2>4. SampleStep \/ CompareStep
    BY <2>2, <2>3 DEF Step, InitStep, SliceStep, LocalStep, TickStep,
                      GotoStep, AbortStep, SetupStep, SendStep, CallStep,
                      RecvStep, ReplyRecvStep
  <2>5. CompareStep
    <3>1. ASSUME SampleStep PROVE FALSE
      <4>1. probe'.verdict = "none"
        BY <3>1 DEF SampleStep
      <4>2. QED
        BY <2>1, <4>1
    <3>2. QED
      BY <2>4, <3>1
  <2>6. record # probe.local
    <3>1. SUFFICES ASSUME record = probe.local PROVE FALSE
      OBVIOUS
    <3>2. \/ probe' = [probe EXCEPT !.verdict = "dead"]
          \/ probe' = [probe EXCEPT !.tries = probe.tries + 1]
      BY <2>5, <3>1 DEF CompareStep
    <3>3. DOMAIN probe = {"local", "tries", "verdict"}
      BY <1>1 DEF Inv, TypeOK
    <3>4. QED
      BY <2>1, <3>2, <3>3
  <2>7. HasNext(Root) /\ Statement(Root).op = "compare"
    BY <2>5 DEF CompareStep, At
  <2>8. QED
    BY <1>1, <2>6, <2>7 DEF Inv, DeadSampled
<1>2. QED
  BY <1>1, BenchmarksInvariant, PTL DEF Spec, DestroyedIsDead

-----------------------------------------------------------------------------
(* Calls and replies match: A's messages and B's receives keep step.        *)

Messages(x) == x.op \in {"call", "send"} /\ x.arg = syn_ep
Receives(x) == x.op \in {"recv", "replyRecv"} /\ x.arg = syn_ep

\* Round q is at its message r, or A is at the write that ends round q - 1.
IpcInStep(j, k) ==
  \E q \in 0..Runs, r \in 0..Warmups :
    /\ q = Runs => r = 0
    /\ \/ j = 2 + q * (Warmups + 2) + r
       \/ j = 1 + q * (Warmups + 2) /\ r = 0
       \/ j >= 2 + q * (Warmups + 2) /\ q = Runs
    /\ \/ k = 2 + q * (Warmups + 1) + r
       \/ k = 1 /\ q = 0 /\ r = 0

\* n calls are behind both.
FuncInStep(j, k) ==
  \E n \in 0..(Runs + 1) :
    /\ \/ j = n + 2
       \/ j = 1 /\ n = 0
       \/ j >= Runs + 3 /\ n = Runs + 1
    /\ \/ k = 2 * n + 2 \/ k = 2 * n + 1
       \/ k >= 2 * Runs + 3 /\ n = Runs + 1

\* When A is at its statement j and B at its statement k, A's next message is
\* the one B's next receive is for.
InStep(c, j, k) ==
  /\ c.bench = "ipc" => IpcInStep(j, k)
  /\ c.bench = "func" => FuncInStep(j, k)
  /\ c.bench \in {"flush", "flushOnly", "splash"} => (j <= 2 <=> k <= 2)

\* B at its statement k owes A a reply, if it is ready.
Owes(c, k) ==
  \/ c.bench = "ipc" /\ k > 2 /\ (k - 2) % (Warmups + 1) # 0
  \/ c.bench = "func" /\ k \in 3..(2 * Runs + 2)
  \/ c.bench = "funcMulti" /\ k \in 3..5

\* What the programs of a benchmark have to satisfy for that: statements that
\* are no messages keep step, and so does a message with its receive; B owes a
\* reply after a call, until it replies.
AKeepsStep(c) ==
  \A j \in 1..Len(Programs[c][A]), k \in Nat \ {0} :
    InStep(c, j, k) /\ ~Messages(Programs[c][A][j]) => InStep(c, j + 1, k)

BKeepsStep(c) ==
  \A j \in Nat \ {0}, k \in 1..Len(Programs[c][B]) :
    InStep(c, j, k) /\ ~Receives(Programs[c][B][k]) => InStep(c, j, k + 1)

BothStep(c) ==
  \A j \in 1..Len(Programs[c][A]), k \in 1..Len(Programs[c][B]) :
    InStep(c, j, k) /\ Messages(Programs[c][A][j]) /\ Receives(Programs[c][B][k]) =>
      /\ InStep(c, j + 1, k + 1)
      /\ Programs[c][A][j].op = "call" <=> Owes(c, k + 1)

BOwes(c) ==
  \A k \in 1..Len(Programs[c][B]) :
    LET x == Programs[c][B][k]
    IN  /\ x.op = "replyRecv" => Owes(c, k)
        /\ Owes(c, k) => x.op \notin {"recv", "send"}
        /\ ~Receives(x) /\ x.op # "goto" => (Owes(c, k) <=> Owes(c, k + 1))
        /\ x.op = "goto" => Owes(c, k) /\ Owes(c, x.arg)

Protocol(c) == AKeepsStep(c) /\ BKeepsStep(c) /\ BothStep(c) /\ BOwes(c)

-----------------------------------------------------------------------------
(* Rounds: place r of round q, when a round has d places *)

\* The remainder tells the place.
LEMMA Remainder ==
  ASSUME NEW d \in Nat, d > 0, NEW q \in Nat, NEW r \in 0..(d - 1)
  PROVE  q * d \in Nat /\ (q * d + r) % d = r
<1>1. q * d \in Nat
  BY SMT
<1>2. (q * d + r) % d = r
  BY SMT
<1>3. QED
  BY <1>1, <1>2

\* Every number up to n rounds is a place of a round.
LEMMA Round ==
  ASSUME NEW d \in Nat, d > 0, NEW n \in Nat, NEW i \in Nat, i <= n * d
  PROVE  \E q \in 0..n, r \in 0..(d - 1) : i = q * d + r /\ (q = n => r = 0)
<1> DEFINE q == i \div d
           r == i % d
<1>1. q \in Nat /\ r \in 0..(d - 1) /\ i = q * d + r
  BY SMT
<1>2. q <= n /\ (q = n => r = 0)
  <2> HIDE DEF q, r
  <2>1. q * d + r <= n * d
    BY <1>1
  <2>2. QED
    BY <1>1, <2>1, SMT
<1> HIDE DEF q, r
<1>3. q \in 0..n
  BY <1>1, <1>2
<1>4. QED
  BY <1>1, <1>2, <1>3

\* The next round starts d places later.
LEMMA NextRound == \A q, d \in Nat : (q + 1) * d = q * d + d
BY SMT

\* The places of n rounds are the numbers up to n rounds.
LEMMA Within ==
  ASSUME NEW d \in Nat, d > 0, NEW n \in Nat,
         NEW q \in 0..(n - 1), NEW r \in 0..(d - 1)
  PROVE  q * d + r + 1 \in 1..(n * d)
<1>1. q \in Nat /\ (q + 1) * d = q * d + d
  BY NextRound
<1>2. /\ q * d \in Nat /\ n * d \in Nat
  BY SMT
<1>3. (q + 1) * d <= n * d
  <2>1. \A a, b, e \in Nat : a <= b => a * e <= b * e
    BY SMT
  <2>2. q + 1 \in Nat /\ q + 1 <= n
    OBVIOUS
  <2>3. QED
    BY <2>1, <2>2
<1>4. QED
  BY <1>1, <1>2, <1>3

\* A loop after one statement and before one or two.
LEMMA Framed ==
  ASSUME NEW S, NEW loop \in Seq(S), NEW e \in S, NEW s \in S, NEW f \in S,
         NEW P, P = <<e>> \o (loop \o <<s>> \o <<f>>)
  PROVE  /\ Len(loop) \in Nat /\ Len(P) = Len(loop) + 3 /\ P[1] = e
         /\ P[Len(loop) + 2] = s /\ P[Len(loop) + 3] = f
         /\ \A k \in 1..Len(loop) : P[k + 1] = loop[k]
<1> DEFINE q == loop \o <<s>> \o <<f>>
<1>1. /\ q \in Seq(S) /\ Len(q) = Len(loop) + 2
      /\ q[Len(loop) + 1] = s /\ q[Len(loop) + 2] = f
      /\ \A k \in 1..Len(loop) : q[k] = loop[k]
  BY LastTwo
<1>2. P = <<e>> \o q /\ Len(loop) \in Nat
  OBVIOUS
<1> HIDE DEF q
<1>3. /\ Len(P) = Len(q) + 1 /\ P[1] = e
      /\ \A k \in 1..Len(q) : P[k + 1] = q[k]
  BY <1>1, <1>2, First
<1>4. QED
  BY <1>1, <1>2, <1>3

\* The same with one statement after the loop.
LEMMA FramedOne ==
  ASSUME NEW S, NEW loop \in Seq(S), NEW e \in S, NEW s \in S,
         NEW P, P = <<e>> \o (loop \o <<s>>)
  PROVE  /\ Len(loop) \in Nat /\ Len(P) = Len(loop) + 2 /\ P[1] = e
         /\ P[Len(loop) + 2] = s
         /\ \A k \in 1..Len(loop) : P[k + 1] = loop[k]
<1> DEFINE q == loop \o <<s>>
<1>1. /\ q \in Seq(S) /\ Len(q) = Len(loop) + 1
      /\ q[Len(loop) + 1] = s
      /\ \A k \in 1..Len(loop) : q[k] = loop[k]
  BY Last
<1>2. P = <<e>> \o q /\ Len(loop) \in Nat
  OBVIOUS
<1> HIDE DEF q
<1>3. /\ Len(P) = Len(q) + 1 /\ P[1] = e
      /\ \A k \in 1..Len(q) : P[k + 1] = q[k]
  BY <1>1, <1>2, First
<1>4. QED
  BY <1>1, <1>2, <1>3

-----------------------------------------------------------------------------
(* Where the messages are *)

\* The round trips, as A makes them.
LEMMA CallerPlaces ==
  LET P == InitEnv \o IpcCaller
      d == Warmups + 2
  IN  /\ Runs * d \in Nat /\ Len(P) = Runs * d + 3
      /\ P[1] = [op |-> "init", arg |-> syn_ep]
      /\ \A q \in 0..(Runs - 1) :
           /\ q * d \in Nat
           /\ \A r \in 0..(Warmups - 1) :
                P[2 + q * d + r] = [op |-> "call", arg |-> syn_ep]
           /\ P[2 + q * d + Warmups] = [op |-> "send", arg |-> syn_ep]
           /\ P[2 + q * d + (Warmups + 1)] = [op |-> "write", arg |-> syn_ep]
      /\ P[2 + Runs * d] = [op |-> "send", arg |-> a_ep]
      /\ P[3 + Runs * d] = [op |-> "recv", arg |-> syn_ep]
<1> DEFINE P == InitEnv \o IpcCaller
           d == Warmups + 2
           body == Repeat(Warmups, Call(syn_ep)) \o Send(syn_ep) \o Write
           loop == Repeat(Runs, body)
           W == Statements({"call", "send", "write"}, {syn_ep})
           e == [op |-> "init", arg |-> syn_ep]
           s == [op |-> "send", arg |-> a_ep]
           f == [op |-> "recv", arg |-> syn_ep]
           S == W \cup {e, s, f}
<1>1. /\ body \in Seq(W) /\ Len(body) = d
      /\ \A k \in 1..Warmups : body[k] = [op |-> "call", arg |-> syn_ep]
      /\ body[Warmups + 1] = [op |-> "send", arg |-> syn_ep]
      /\ body[Warmups + 2] = [op |-> "write", arg |-> syn_ep]
      /\ P = InitEnv \o (loop \o Send(a_ep) \o Recv(syn_ep))
  BY CallerProgram
<1>2. Runs \in Nat /\ Warmups \in Nat /\ d \in Nat /\ d > 0
  BY BenchmarksAssumption
<1>3. P = <<e>> \o (loop \o <<s>> \o <<f>>)
  BY <1>1 DEF InitEnv, Send, Recv, Do
<1>4. W \subseteq S /\ e \in S /\ s \in S /\ f \in S
  OBVIOUS
<1> HIDE DEF P, body, W, e, s, f, S
<1>5. /\ loop \in Seq(W) /\ Len(loop) = Runs * d
      /\ \A k \in 1..(Runs * d) : loop[k] = body[((k - 1) % d) + 1]
  <2>1. /\ loop \in Seq(W) /\ Len(loop) = Runs * Len(body)
        /\ \A k \in 1..(Runs * Len(body)) :
             loop[k] = body[((k - 1) % Len(body)) + 1]
    <3>1. body \in Seq(W) /\ Len(body) > 0 /\ Runs \in Nat
      BY <1>1, <1>2
    <3>2. QED
      BY <3>1, LoopBody
  <2> HIDE DEF loop
  <2>2. QED
    BY <1>1, <2>1
<1>6. /\ Len(loop) \in Nat /\ Len(P) = Len(loop) + 3 /\ P[1] = e
      /\ P[Len(loop) + 2] = s /\ P[Len(loop) + 3] = f
      /\ \A k \in 1..Len(loop) : P[k + 1] = loop[k]
  <2> HIDE DEF loop
  <2>1. loop \in Seq(S)
    BY <1>4, <1>5, MoreStatements
  <2>2. QED
    BY <1>3, <1>4, <2>1, Framed
<1>7. ASSUME NEW q \in 0..(Runs - 1), NEW r \in 0..(Warmups + 1)
      PROVE  q * d \in Nat /\ P[2 + q * d + r] = body[r + 1]
  <2>1. r \in 0..(d - 1)
    BY <1>2, <1>7
  <2> HIDE DEF d
  <2>2. /\ q * d + r + 1 \in 1..(Runs * d) /\ q * d \in Nat
        /\ loop[q * d + r + 1] = body[r + 1]
    <3>1. d \in Nat /\ d > 0 /\ Runs \in Nat
      BY <1>2
    <3>2. \A k \in 1..(Runs * d) : loop[k] = body[((k - 1) % d) + 1]
      BY <1>5
    <3> HIDE DEF loop
    <3>3. q * d + r + 1 \in 1..(Runs * d)
      BY <2>1, <3>1, Within
    <3>4. q * d \in Nat /\ (q * d + r) % d = r
      BY <2>1, <3>1, Remainder
    <3> DEFINE k == q * d + r + 1
    <3>5. k - 1 = q * d + r /\ k \in 1..(Runs * d)
      BY <3>3, <3>4
    <3> HIDE DEF k
    <3>6. loop[k] = body[r + 1]
      BY <3>2, <3>4, <3>5
    <3>7. QED
      BY <3>3, <3>4, <3>6 DEF k
  <2>3. (q * d + r + 1) + 1 = 2 + q * d + r
    BY <2>2
  <2> HIDE DEF loop
  <2>4. P[(q * d + r + 1) + 1] = loop[q * d + r + 1]
    BY <1>5, <1>6, <2>2
  <2>5. QED
    BY <2>2, <2>3, <2>4
<1>8. ASSUME NEW q \in 0..(Runs - 1)
      PROVE  /\ q * d \in Nat
             /\ \A r \in 0..(Warmups - 1) :
                  P[2 + q * d + r] = [op |-> "call", arg |-> syn_ep]
             /\ P[2 + q * d + Warmups] = [op |-> "send", arg |-> syn_ep]
             /\ P[2 + q * d + (Warmups + 1)] = [op |-> "write", arg |-> syn_ep]
  <2>1. 0 \in 0..(Warmups + 1) /\ Warmups \in 0..(Warmups + 1)
        /\ Warmups + 1 \in 0..(Warmups + 1) /\ (Warmups + 1) + 1 = Warmups + 2
    BY <1>2
  <2> HIDE DEF d
  <2>2. q * d \in Nat
    BY <1>7, <2>1
  <2>3. /\ P[2 + q * d + Warmups] = body[Warmups + 1]
        /\ P[2 + q * d + (Warmups + 1)] = body[Warmups + 2]
    BY <1>7, <2>1
  <2>4. ASSUME NEW r \in 0..(Warmups - 1)
        PROVE  P[2 + q * d + r] = [op |-> "call", arg |-> syn_ep]
    <3>1. r \in 0..(Warmups + 1) /\ r + 1 \in 1..Warmups
      BY <1>2
    <3>2. QED
      BY <1>1, <1>7, <3>1
  <2>5. QED
    BY <1>1, <2>2, <2>3, <2>4
<1>9. /\ P[1] = [op |-> "init", arg |-> syn_ep]
      /\ P[2 + Runs * d] = [op |-> "send", arg |-> a_ep]
      /\ P[3 + Runs * d] = [op |-> "recv", arg |-> syn_ep]
      /\ Runs * d \in Nat /\ Len(P) = Runs * d + 3
  <2> HIDE DEF loop, d
  <2>1. /\ Len(loop) + 2 = 2 + Runs * d /\ Len(loop) + 3 = 3 + Runs * d
        /\ Runs * d \in Nat
    BY <1>5, <1>6
  <2>2. QED
    BY <1>5, <1>6, <2>1 DEF e, s, f
<1>10. QED
  BY <1>8, <1>9 DEF P

\* The round trips, as B answers them.
LEMMA ReplierPlaces ==
  LET P == InitEnv \o IpcReplier
      d == Warmups + 1
  IN  /\ Runs * d \in Nat /\ Len(P) = Runs * d + 2
      /\ P[1] = [op |-> "init", arg |-> syn_ep]
      /\ \A q \in 0..(Runs - 1) :
           /\ q * d \in Nat
           /\ P[2 + q * d] = [op |-> "recv", arg |-> syn_ep]
           /\ \A r \in 1..Warmups :
                P[2 + q * d + r] = [op |-> "replyRecv", arg |-> syn_ep]
      /\ P[2 + Runs * d] = [op |-> "recv", arg |-> syn_ep]
<1> DEFINE P == InitEnv \o IpcReplier
           d == Warmups + 1
           body == Recv(syn_ep) \o Repeat(Warmups, ReplyRecv(syn_ep))
           loop == Repeat(Runs, body)
           e == [op |-> "init", arg |-> syn_ep]
           s == [op |-> "recv", arg |-> syn_ep]
           S == Statements({"init", "recv", "replyRecv"}, {syn_ep})
<1>1. /\ body \in Seq(S) /\ Len(body) = d
      /\ body[1] = [op |-> "recv", arg |-> syn_ep]
      /\ \A k \in 2..(Warmups + 1) : body[k] = [op |-> "replyRecv", arg |-> syn_ep]
  BY ReplierProgram
<1>2. Runs \in Nat /\ Warmups \in Nat /\ d \in Nat /\ d > 0
  BY BenchmarksAssumption
<1>3. P = <<e>> \o (loop \o <<s>>)
  BY DEF InitEnv, IpcReplier, Recv, Do
<1>4. e \in S /\ s \in S
  BY DEF Statements
<1> HIDE DEF P, body, e, s, S
<1>5. /\ loop \in Seq(S) /\ Len(loop) = Runs * d
      /\ \A k \in 1..(Runs * d) : loop[k] = body[((k - 1) % d) + 1]
  <2>1. /\ loop \in Seq(S) /\ Len(loop) = Runs * Len(body)
        /\ \A k \in 1..(Runs * Len(body)) :
             loop[k] = body[((k - 1) % Len(body)) + 1]
    <3>1. body \in Seq(S) /\ Len(body) > 0 /\ Runs \in Nat
      BY <1>1, <1>2
    <3>2. QED
      BY <3>1, LoopBody
  <2> HIDE DEF loop
  <2>2. QED
    BY <1>1, <2>1
<1>6. /\ Len(loop) \in Nat /\ Len(P) = Len(loop) + 2 /\ P[1] = e
      /\ P[Len(loop) + 2] = s
      /\ \A k \in 1..Len(loop) : P[k + 1] = loop[k]
  <2> HIDE DEF loop
  <2>1. QED
    BY <1>3, <1>4, <1>5, FramedOne
<1>7. ASSUME NEW q \in 0..(Runs - 1), NEW r \in 0..Warmups
      PROVE  q * d \in Nat /\ P[2 + q * d + r] = body[r + 1]
  <2>1. r \in 0..(d - 1)
    BY <1>2, <1>7
  <2> HIDE DEF d
  <2>2. /\ q * d + r + 1 \in 1..(Runs * d) /\ q * d \in Nat
        /\ loop[q * d + r + 1] = body[r + 1]
    <3>1. d \in Nat /\ d > 0 /\ Runs \in Nat
      BY <1>2
    <3>2. \A k \in 1..(Runs * d) : loop[k] = body[((k - 1) % d) + 1]
      BY <1>5
    <3> HIDE DEF loop
    <3>3. q * d + r + 1 \in 1..(Runs * d)
      BY <2>1, <3>1, Within
    <3>4. q * d \in Nat /\ (q * d + r) % d = r
      BY <2>1, <3>1, Remainder
    <3> DEFINE k == q * d + r + 1
    <3>5. k - 1 = q * d + r /\ k \in 1..(Runs * d)
      BY <3>3, <3>4
    <3> HIDE DEF k
    <3>6. loop[k] = body[r + 1]
      BY <3>2, <3>4, <3>5
    <3>7. QED
      BY <3>3, <3>4, <3>6 DEF k
  <2>3. (q * d + r + 1) + 1 = 2 + q * d + r
    BY <2>2
  <2> HIDE DEF loop
  <2>4. P[(q * d + r + 1) + 1] = loop[q * d + r + 1]
    BY <1>5, <1>6, <2>2
  <2>5. QED
    BY <2>2, <2>3, <2>4
<1>8. ASSUME NEW q \in 0..(Runs - 1)
      PROVE  /\ q * d \in Nat
             /\ P[2 + q * d] = [op |-> "recv", arg |-> syn_ep]
             /\ \A r \in 1..Warmups :
                  P[2 + q * d + r] = [op |-> "replyRecv", arg |-> syn_ep]
  <2>1. 0 \in 0..Warmups /\ 0 + 1 = 1
    BY <1>2
  <2> HIDE DEF d
  <2>2. q * d \in Nat /\ P[2 + q * d + 0] = body[1]
    BY <1>7, <2>1
  <2>3. 2 + q * d + 0 = 2 + q * d
    BY <2>2
  <2>4. ASSUME NEW r \in 1..Warmups
        PROVE  P[2 + q * d + r] = [op |-> "replyRecv", arg |-> syn_ep]
    <3>1. r \in 0..Warmups /\ r + 1 \in 2..(Warmups + 1)
      BY <1>2
    <3>2. QED
      BY <1>1, <1>7, <3>1
  <2>5. QED
    BY <1>1, <2>2, <2>3, <2>4
<1>9. /\ P[1] = [op |-> "init", arg |-> syn_ep]
      /\ P[2 + Runs * d] = [op |-> "recv", arg |-> syn_ep]
      /\ Runs * d \in Nat /\ Len(P) = Runs * d + 2
  <2> HIDE DEF loop, d
  <2>1. /\ Len(loop) + 2 = 2 + Runs * d
        /\ Runs * d \in Nat
    BY <1>5, <1>6
  <2>2. QED
    BY <1>5, <1>6, <2>1 DEF e, s
<1>10. QED
  BY <1>8, <1>9 DEF P

\* The functional test, as A calls.
LEMMA SenderPlaces ==
  LET P == InitEnv \o FuncsSender(FALSE)
  IN  /\ Len(P) = Runs + 4
      /\ P[1] = [op |-> "init", arg |-> syn_ep]
      /\ \A k \in 2..(Runs + 1) : P[k] = [op |-> "call", arg |-> syn_ep]
      /\ P[Runs + 2] = [op |-> "send", arg |-> syn_ep]
      /\ P[Runs + 3] = [op |-> "send", arg |-> a_ep]
      /\ P[Runs + 4] = [op |-> "recv", arg |-> a_ep]
<1> DEFINE P == InitEnv \o FuncsSender(FALSE)
           calls == Repeat(Runs, Call(syn_ep))
           e == [op |-> "init", arg |-> syn_ep]
           s == [op |-> "send", arg |-> syn_ep]
           f == [op |-> "send", arg |-> a_ep]
           g == [op |-> "recv", arg |-> a_ep]
           S == Working \cup {e, s, f, g}
<1>1. /\ Len(P) = Runs + 4 /\ Len(calls) = Runs
      /\ \A k \in 1..Runs : calls[k] = [op |-> "call", arg |-> syn_ep]
      /\ calls \in Seq(Working)
      /\ P = InitEnv \o (calls \o Send(syn_ep) \o Send(a_ep) \o Recv(a_ep))
  BY SenderProgram
<1>2. Runs \in Nat
  BY BenchmarksAssumption
<1>3. P = <<e>> \o ((calls \o <<s>>) \o <<f>> \o <<g>>)
  BY <1>1 DEF InitEnv, Send, Recv, Do
<1>4. Working \subseteq S /\ e \in S /\ s \in S /\ f \in S /\ g \in S
  OBVIOUS
<1> HIDE DEF P, calls, e, s, f, g, S
<1>5. calls \in Seq(S)
  BY <1>1, <1>4, MoreStatements
<1> DEFINE loop == calls \o <<s>>
<1>6. /\ loop \in Seq(S) /\ Len(loop) = Runs + 1
      /\ loop[Runs + 1] = s
      /\ \A k \in 1..Runs : loop[k] = calls[k]
  BY <1>1, <1>4, <1>5, Last
<1>7. P = <<e>> \o (loop \o <<f>> \o <<g>>)
  BY <1>3
<1> HIDE DEF loop
<1>8. /\ P[1] = e /\ P[Len(loop) + 2] = f /\ P[Len(loop) + 3] = g
      /\ \A k \in 1..Len(loop) : P[k + 1] = loop[k]
  <2>1. loop \in Seq(S)
    BY <1>6
  <2>2. QED
    BY <1>4, <1>7, <2>1, Framed
<1>9. \A k \in 2..(Runs + 1) : P[k] = [op |-> "call", arg |-> syn_ep]
  <2>1. ASSUME NEW k \in 2..(Runs + 1)
        PROVE  P[k] = [op |-> "call", arg |-> syn_ep]
    <3>1. k - 1 \in 1..Runs /\ k - 1 \in 1..(Runs + 1) /\ (k - 1) + 1 = k
      BY <1>2
    <3>2. P[k] = loop[k - 1]
      BY <1>6, <1>8, <3>1
    <3>3. QED
      BY <1>1, <1>6, <3>1, <3>2
  <2>2. QED
    BY <2>1
<1>10. P[Runs + 2] = s /\ P[Runs + 3] = f /\ P[Runs + 4] = g
  <2>1. /\ Runs + 1 \in 1..(Runs + 1) /\ (Runs + 1) + 1 = Runs + 2
        /\ (Runs + 1) + 2 = Runs + 3 /\ (Runs + 1) + 3 = Runs + 4
    BY <1>2
  <2>2. QED
    BY <1>6, <1>8, <2>1
<1>11. QED
  BY <1>1, <1>8, <1>9, <1>10 DEF P, e, s, f, g

-----------------------------------------------------------------------------
(* The programs of each benchmark keep step *)

\* Round trips: a(q) and b(q) are where round q starts, less two.
LEMMA IpcProtocol ==
  ASSUME NEW c \in Config, c.bench = "ipc"
  PROVE  Protocol(c)
<1> DEFINE P == Programs[c][A]
           Q == Programs[c][B]
           d == Warmups + 2
           e == Warmups + 1
           a(q) == q * d
           b(q) == q * e
           rem(i) == i % e
<1>1. /\ Runs \in Nat /\ Runs > 0 /\ Warmups \in Nat /\ Warmups > 0
      /\ syn_ep # a_ep
  BY BenchmarksAssumption
<1>2. P = InitEnv \o IpcCaller /\ Q = InitEnv \o IpcReplier
  BY ProgramOf
<1> HIDE DEF P, Q
<1>3. /\ a(Runs) \in Nat /\ Len(P) = a(Runs) + 3
      /\ P[1] = [op |-> "init", arg |-> syn_ep]
      /\ \A q \in 0..(Runs - 1) :
           /\ a(q) \in Nat
           /\ \A r \in 0..(Warmups - 1) :
                P[2 + a(q) + r] = [op |-> "call", arg |-> syn_ep]
           /\ P[2 + a(q) + Warmups] = [op |-> "send", arg |-> syn_ep]
           /\ P[2 + a(q) + (Warmups + 1)] = [op |-> "write", arg |-> syn_ep]
      /\ P[2 + a(Runs)] = [op |-> "send", arg |-> a_ep]
      /\ P[3 + a(Runs)] = [op |-> "recv", arg |-> syn_ep]
  BY <1>2, CallerPlaces
<1>4. /\ b(Runs) \in Nat /\ Len(Q) = b(Runs) + 2
      /\ Q[1] = [op |-> "init", arg |-> syn_ep]
      /\ \A q \in 0..(Runs - 1) :
           /\ b(q) \in Nat
           /\ Q[2 + b(q)] = [op |-> "recv", arg |-> syn_ep]
           /\ \A r \in 1..Warmups :
                Q[2 + b(q) + r] = [op |-> "replyRecv", arg |-> syn_ep]
      /\ Q[2 + b(Runs)] = [op |-> "recv", arg |-> syn_ep]
  BY <1>2, ReplierPlaces
<1>5. /\ \A j, k : InStep(c, j, k) <=>
           \E q \in 0..Runs, r \in 0..Warmups :
             /\ q = Runs => r = 0
             /\ \/ j = 2 + a(q) + r
                \/ j = 1 + a(q) /\ r = 0
                \/ j >= 2 + a(q) /\ q = Runs
             /\ \/ k = 2 + b(q) + r
                \/ k = 1 /\ q = 0 /\ r = 0
      /\ \A k : Owes(c, k) <=> k > 2 /\ rem(k - 2) # 0
  BY DEF InStep, IpcInStep, Owes
<1>6. /\ d \in Nat /\ d > 0 /\ e \in Nat /\ e > 0
      /\ d = Warmups + 2 /\ e = Warmups + 1
  BY <1>1
<1> HIDE DEF d, e
<1>7. a(0) = 0 /\ b(0) = 0
  BY <1>6
<1>8. ASSUME NEW q \in 0..(Runs - 1)
      PROVE  a(q + 1) = a(q) + d /\ b(q + 1) = b(q) + e
  BY <1>6, NextRound
<1>9. ASSUME NEW q \in Nat, NEW r \in 0..Warmups
      PROVE  rem(b(q) + r) = r
  <2>1. r \in 0..(e - 1)
    BY <1>1, <1>6
  <2>2. QED
    BY <1>6, <2>1, Remainder
<1>10. ASSUME NEW i \in Nat, i <= b(Runs)
       PROVE  \E q \in 0..Runs, r \in 0..Warmups :
                i = b(q) + r /\ (q = Runs => r = 0)
  <2>1. PICK q \in 0..Runs, r \in 0..(e - 1) : i = q * e + r /\ (q = Runs => r = 0)
    <3>1. i <= Runs * e
      BY <1>10
    <3> HIDE DEF b
    <3>2. Runs \in Nat /\ e \in Nat /\ e > 0
      BY <1>1, <1>6
    <3>3. QED
      BY <3>1, <3>2, Round
  <2> HIDE DEF b
  <2>2. r \in 0..Warmups
    BY <1>1, <1>6
  <2>3. i = b(q) + r
    BY <2>1 DEF b
  <2>4. QED
    BY <2>1, <2>2, <2>3
<1> HIDE DEF a, b, rem
<1>11. ASSUME NEW q \in 0..Runs
       PROVE  a(q) \in Nat /\ b(q) \in Nat
  BY <1>1, <1>3, <1>4
<1>12. ASSUME NEW q \in 0..(Runs - 1), NEW r \in 0..Warmups
       PROVE  /\ Messages(P[2 + a(q) + r])
              /\ P[2 + a(q) + r].op = "call" <=> r < Warmups
              /\ Receives(Q[2 + b(q) + r])
              /\ Q[2 + b(q) + r].op = "replyRecv" <=> r > 0
  <2>1. P[2 + a(q) + r] = [op |-> IF r < Warmups THEN "call" ELSE "send",
                           arg |-> syn_ep]
    <3>1. r < Warmups => r \in 0..(Warmups - 1)
      BY <1>1
    <3>2. r < Warmups \/ r = Warmups
      BY <1>1
    <3>3. QED
      BY <1>3, <3>1, <3>2
  <2>2. Q[2 + b(q) + r] = [op |-> IF r > 0 THEN "replyRecv" ELSE "recv",
                           arg |-> syn_ep]
    <3>1. CASE r > 0
      BY <1>1, <1>4, <3>1
    <3>2. CASE r = 0
      <4>1. 2 + b(q) + r = 2 + b(q)
        BY <1>4, <3>2
      <4>2. QED
        BY <1>4, <3>2, <4>1
    <3>3. QED
      BY <1>1, <3>1, <3>2
  <2>3. QED
    BY <2>1, <2>2 DEF Messages, Receives
<1>13. /\ Receives(Q[2 + b(Runs)]) /\ Q[2 + b(Runs)].op = "recv"
       /\ ~Messages(P[2 + a(Runs)]) /\ ~Messages(P[3 + a(Runs)])
       /\ ~Messages(P[1]) /\ ~Receives(Q[1]) /\ Q[1].op = "init"
  BY <1>1, <1>3, <1>4 DEF Messages, Receives
<1>14. ASSUME NEW q \in 1..Runs
       PROVE  ~Messages(P[1 + a(q)])
  <2>1. q - 1 \in 0..(Runs - 1) /\ (q - 1) + 1 = q
    BY <1>1
  <2>2. a(q) = a(q - 1) + d /\ a(q - 1) \in Nat
    <3> DEFINE p == q - 1
    <3>1. p \in 0..(Runs - 1) /\ p + 1 = q
      BY <2>1
    <3> HIDE DEF p
    <3>2. a(p + 1) = a(p) + d /\ a(p) \in Nat
      BY <1>3, <1>8, <3>1
    <3>3. QED
      BY <3>1, <3>2 DEF p
  <2>3. 1 + a(q) = 2 + a(q - 1) + (Warmups + 1)
    BY <1>1, <1>6, <2>2
  <2>4. P[1 + a(q)] = [op |-> "write", arg |-> syn_ep]
    BY <1>3, <2>1, <2>3
  <2>5. QED
    BY <2>4 DEF Messages
<1>15. AKeepsStep(c)
  <2>1. SUFFICES ASSUME NEW j \in 1..Len(P), NEW k \in Nat \ {0}, InStep(c, j, k),
                        ~Messages(P[j])
                 PROVE  InStep(c, j + 1, k)
    BY DEF AKeepsStep, P
  <2>2. PICK q \in 0..Runs, r \in 0..Warmups :
          /\ q = Runs => r = 0
          /\ \/ j = 2 + a(q) + r
             \/ j = 1 + a(q) /\ r = 0
             \/ j >= 2 + a(q) /\ q = Runs
          /\ \/ k = 2 + b(q) + r
             \/ k = 1 /\ q = 0 /\ r = 0
    BY <1>5, <2>1
  <2>3. q = Runs \/ j # 2 + a(q) + r
    <3>1. q # Runs => q \in 0..(Runs - 1)
      BY <1>1
    <3>2. QED
      BY <1>12, <2>1, <3>1
  <2>4. \/ j + 1 = 2 + a(q) + r
        \/ j + 1 >= 2 + a(q) /\ q = Runs
    <3>1. a(q) \in Nat /\ j \in Nat
      BY <1>3, <1>11
    <3>2. QED
      BY <1>1, <2>2, <2>3, <3>1
  <2>5. QED
    BY <1>5, <2>2, <2>4
<1>16. BKeepsStep(c)
  <2>1. SUFFICES ASSUME NEW j \in Nat \ {0}, NEW k \in 1..Len(Q), InStep(c, j, k),
                        ~Receives(Q[k])
                 PROVE  InStep(c, j, k + 1)
    BY DEF BKeepsStep, Q
  <2>2. PICK q \in 0..Runs, r \in 0..Warmups :
          /\ q = Runs => r = 0
          /\ \/ j = 2 + a(q) + r
             \/ j = 1 + a(q) /\ r = 0
             \/ j >= 2 + a(q) /\ q = Runs
          /\ \/ k = 2 + b(q) + r
             \/ k = 1 /\ q = 0 /\ r = 0
    BY <1>5, <2>1
  <2>3. k # 2 + b(q) + r
    <3>1. CASE q = Runs
      <4>1. 2 + b(q) + r = 2 + b(Runs)
        BY <1>4, <2>2, <3>1
      <4>2. QED
        BY <1>13, <2>1, <4>1
    <3>2. CASE q # Runs
      <4>1. q \in 0..(Runs - 1)
        BY <1>1, <3>2
      <4>2. QED
        BY <1>12, <2>1, <4>1
    <3>3. QED
      BY <3>1, <3>2
  <2>4. k + 1 = 2 + b(q) + r
    <3>1. k = 1 /\ q = 0 /\ r = 0
      BY <2>2, <2>3
    <3>2. QED
      BY <1>7, <3>1
  <2>5. QED
    BY <1>5, <2>2, <2>4
<1>17. BothStep(c)
  <2>1. SUFFICES ASSUME NEW j \in 1..Len(P), NEW k \in 1..Len(Q), InStep(c, j, k),
                        Messages(P[j]), Receives(Q[k])
                 PROVE  /\ InStep(c, j + 1, k + 1)
                        /\ P[j].op = "call" <=> Owes(c, k + 1)
    BY DEF BothStep, P, Q
  <2>2. PICK q \in 0..Runs, r \in 0..Warmups :
          /\ q = Runs => r = 0
          /\ \/ j = 2 + a(q) + r
             \/ j = 1 + a(q) /\ r = 0
             \/ j >= 2 + a(q) /\ q = Runs
          /\ \/ k = 2 + b(q) + r
             \/ k = 1 /\ q = 0 /\ r = 0
    BY <1>5, <2>1
  <2>3. a(q) \in Nat /\ b(q) \in Nat
    BY <1>11
  <2>4. k = 2 + b(q) + r
    BY <1>13, <2>1, <2>2
  <2>5. j # 1 + a(q)
    <3>1. q = 0 => 1 + a(q) = 1
      BY <1>7
    <3>2. q # 0 => q \in 1..Runs
      OBVIOUS
    <3>3. QED
      BY <1>13, <1>14, <2>1, <3>1, <3>2
  <2>6. q # Runs
    <3>1. SUFFICES ASSUME q = Runs PROVE FALSE
      OBVIOUS
    <3>2. j = 2 + a(Runs) \/ j = 3 + a(Runs)
      BY <1>3, <2>2, <2>5, <3>1
    <3>3. QED
      BY <1>13, <2>1, <3>2
  <2>7. q \in 0..(Runs - 1) /\ j = 2 + a(q) + r
    BY <1>1, <2>2, <2>5, <2>6
  <2>8. P[j].op = "call" <=> r < Warmups
    BY <1>12, <2>7
  <2>9. CASE r < Warmups
    <3>1. /\ r \in Nat /\ r + 1 \in 0..Warmups
          /\ j + 1 = 2 + a(q) + (r + 1) /\ k + 1 = 2 + b(q) + (r + 1)
      <4>1. r \in Nat /\ r + 1 \in 0..Warmups
        BY <1>1, <2>9
      <4>2. \A x, y, z \in Nat : z = 2 + x + y => z + 1 = 2 + x + (y + 1)
        OBVIOUS
      <4>3. j \in Nat /\ k \in Nat /\ j = 2 + a(q) + r /\ k = 2 + b(q) + r
        <5>1. j \in Nat /\ k \in Nat
          BY <1>3, <1>4
        <5>2. QED
          BY <2>4, <2>7, <5>1
      <4>4. QED
        BY <2>3, <4>1, <4>2, <4>3, Zenon
    <3>2. InStep(c, j + 1, k + 1)
      BY <1>5, <2>6, <3>1
    <3>3. Owes(c, k + 1)
      <4>1. rem(b(q) + (r + 1)) = r + 1
        BY <1>9, <3>1
      <4>2. \A x, y \in Nat : /\ (2 + x + (y + 1)) - 2 = x + (y + 1)
                             /\ 2 + x + (y + 1) > 2 /\ y + 1 # 0
        OBVIOUS
      <4>3. (k + 1) - 2 = b(q) + (r + 1) /\ k + 1 > 2 /\ r + 1 # 0
        BY <2>3, <3>1, <4>2, Zenon
      <4>4. QED
        BY <1>5, <4>1, <4>3
    <3>4. QED
      BY <2>8, <2>9, <3>2, <3>3
  <2>10. CASE r = Warmups
    <3>1. /\ a(q + 1) = a(q) + d /\ b(q + 1) = b(q) + e /\ q + 1 \in 0..Runs
      BY <1>1, <1>8, <2>7
    <3>2. j + 1 = 1 + a(q + 1) /\ k + 1 = 2 + b(q + 1) + 0
      <4>1. \A x, z \in Nat :
              z = 2 + x + Warmups => /\ z + 1 = 1 + (x + d)
                                     /\ z + 1 = 2 + (x + e) + 0
        BY <1>1, <1>6
      <4>2. j = 2 + a(q) + Warmups /\ k = 2 + b(q) + Warmups
        BY <2>4, <2>7, <2>10
      <4>3. j \in Nat /\ k \in Nat
        BY <1>3, <1>4
      <4>4. QED
        BY <2>3, <3>1, <4>1, <4>2, <4>3
    <3>3. InStep(c, j + 1, k + 1)
      <4>1. 0 \in 0..Warmups
        BY <1>1
      <4>2. QED
        BY <1>5, <3>1, <3>2, <4>1
    <3>4. ~Owes(c, k + 1)
      <4>1. rem(b(q + 1) + 0) = 0
        BY <1>1, <1>9, <3>1
      <4>2. (k + 1) - 2 = b(q + 1) + 0
        <5>1. b(q + 1) \in Nat
          BY <1>11, <3>1
        <5>2. QED
          BY <3>2, <5>1
      <4>3. QED
        BY <1>5, <4>1, <4>2
    <3>5. QED
      BY <2>8, <2>10, <3>3, <3>4
  <2>11. QED
    BY <1>1, <2>9, <2>10
<1>18. BOwes(c)
  <2>1. SUFFICES ASSUME NEW k \in 1..Len(Q)
                 PROVE  /\ Q[k].op = "replyRecv" => Owes(c, k)
                        /\ Owes(c, k) => Q[k].op \notin {"recv", "send"}
                        /\ ~Receives(Q[k]) /\ Q[k].op # "goto" =>
                             (Owes(c, k) <=> Owes(c, k + 1))
                        /\ Q[k].op = "goto" => Owes(c, k) /\ Owes(c, Q[k].arg)
    BY DEF BOwes, Q
  <2>2. CASE k = 1
    BY <1>5, <1>13, <2>2
  <2>3. CASE k # 1
    <3>1. k - 2 \in Nat /\ k - 2 <= b(Runs)
      BY <1>4, <2>3
    <3>2. PICK q \in 0..Runs, r \in 0..Warmups :
                 k - 2 = b(q) + r /\ (q = Runs => r = 0)
      BY <1>10, <3>1
    <3>3. rem(k - 2) = r /\ k = 2 + b(q) + r
      <4>1. b(q) \in Nat /\ q \in Nat
        BY <1>11
      <4>2. QED
        BY <1>9, <3>2, <4>1
    <3>4. Receives(Q[k]) /\ (Q[k].op = "replyRecv" <=> r > 0)
      <4>1. CASE q = Runs
        <5>1. k = 2 + b(Runs) /\ r = 0
          BY <1>4, <3>2, <3>3, <4>1
        <5>2. QED
          BY <1>13, <5>1
      <4>2. CASE q # Runs
        <5>1. q \in 0..(Runs - 1)
          BY <1>1, <4>2
        <5>2. QED
          BY <1>12, <3>3, <5>1
      <4>3. QED
        BY <4>1, <4>2
    <3>5. Owes(c, k) <=> r > 0
      <4>1. r > 0 => k > 2
        BY <1>1, <1>11, <3>2, <3>3
      <4>2. QED
        BY <1>5, <3>3, <4>1
    <3>6. QED
      BY <3>4, <3>5 DEF Receives
  <2>4. QED
    BY <2>2, <2>3
<1>19. QED
  BY <1>15, <1>16, <1>17, <1>18 DEF Protocol

\* Every number up to 2n is odd or even.
LEMMA HalfOf ==
  \A n, i \in Nat : i > 0 /\ i <= 2 * n =>
    \E m \in 1..n : i = 2 * m - 1 \/ i = 2 * m
<1>1. ASSUME NEW n \in Nat, NEW i \in Nat, i > 0, i <= 2 * n
      PROVE  \E m \in 1..n : i = 2 * m - 1 \/ i = 2 * m
  <2> DEFINE m == (i + 1) \div 2
  <2>1. m \in 1..n /\ (i = 2 * m - 1 \/ i = 2 * m)
    BY <1>1, SMT
  <2>2. QED
    BY <2>1
<1>2. QED
  BY <1>1

\* The functional test on one core.
LEMMA FuncProtocol ==
  ASSUME NEW c \in Config, c.bench = "func"
  PROVE  Protocol(c)
<1> DEFINE P == Programs[c][A]
           Q == Programs[c][B]
<1>1. /\ Runs \in Nat /\ Runs > 0
      /\ syn_ep # a_ep /\ syn_ep # b_ep
  BY BenchmarksAssumption
<1>2. P = InitEnv \o FuncsSender(FALSE) /\ Q = InitEnv \o FuncsReceiver(FALSE)
  BY ProgramOf
<1> HIDE DEF P, Q
<1>3. /\ Len(P) = Runs + 4
      /\ P[1] = [op |-> "init", arg |-> syn_ep]
      /\ \A k \in 2..(Runs + 1) : P[k] = [op |-> "call", arg |-> syn_ep]
      /\ P[Runs + 2] = [op |-> "send", arg |-> syn_ep]
      /\ P[Runs + 3] = [op |-> "send", arg |-> a_ep]
      /\ P[Runs + 4] = [op |-> "recv", arg |-> a_ep]
  BY <1>2, SenderPlaces
<1>4. /\ Len(Q) = 2 * Runs + 4 /\ Q[1] = [op |-> "init", arg |-> syn_ep]
      /\ Q[2] = [op |-> "recv", arg |-> syn_ep]
      /\ \A k \in 1..Runs :
           /\ Q[2 * k + 1] = [op |-> "tick", arg |-> syn_ep]
           /\ Q[2 * k + 2] = [op |-> "replyRecv", arg |-> syn_ep]
      /\ Q[2 * Runs + 3] = [op |-> "send", arg |-> b_ep]
      /\ Q[2 * Runs + 4] = [op |-> "recv", arg |-> b_ep]
  BY <1>2, ReceiverProgram
<1>5. /\ \A j, k : InStep(c, j, k) <=>
           \E n \in 0..(Runs + 1) :
             /\ \/ j = n + 2
                \/ j = 1 /\ n = 0
                \/ j >= Runs + 3 /\ n = Runs + 1
             /\ \/ k = 2 * n + 2 \/ k = 2 * n + 1
                \/ k >= 2 * Runs + 3 /\ n = Runs + 1
      /\ \A k : Owes(c, k) <=> k \in 3..(2 * Runs + 2)
  BY DEF InStep, FuncInStep, Owes
<1>6. \A j \in 1..Len(P) : /\ Messages(P[j]) <=> j \in 2..(Runs + 2)
                           /\ P[j].op = "call" <=> j \in 2..(Runs + 1)
  <2>1. SUFFICES ASSUME NEW j \in 1..Len(P)
                 PROVE  /\ Messages(P[j]) <=> j \in 2..(Runs + 2)
                        /\ P[j].op = "call" <=> j \in 2..(Runs + 1)
    OBVIOUS
  <2>2. \/ j = 1 \/ j \in 2..(Runs + 1) \/ j = Runs + 2 \/ j = Runs + 3
        \/ j = Runs + 4
    BY <1>1, <1>3
  <2>3. QED
    BY <1>1, <1>3, <2>2 DEF Messages
<1>7. /\ ~Receives(Q[1]) /\ Q[1].op = "init"
      /\ Receives(Q[2]) /\ Q[2].op = "recv"
      /\ \A n \in 1..Runs :
           /\ ~Receives(Q[2 * n + 1]) /\ Q[2 * n + 1].op = "tick"
           /\ Receives(Q[2 * n + 2]) /\ Q[2 * n + 2].op = "replyRecv"
      /\ ~Receives(Q[2 * Runs + 3]) /\ Q[2 * Runs + 3].op = "send"
      /\ ~Receives(Q[2 * Runs + 4]) /\ Q[2 * Runs + 4].op = "recv"
  BY <1>1, <1>4 DEF Receives
<1>8. ASSUME NEW k \in 1..Len(Q)
      PROVE  \/ k = 1 \/ k = 2 \/ k = 2 * Runs + 3 \/ k = 2 * Runs + 4
             \/ \E n \in 1..Runs : k = 2 * n + 1 \/ k = 2 * n + 2
  <2>1. \A i \in Nat : i > 0 /\ i <= 2 * Runs =>
          \E n \in 1..Runs : i = 2 * n - 1 \/ i = 2 * n
    BY <1>1, HalfOf
  <2>2. \/ k = 1 \/ k = 2 \/ k = 2 * Runs + 3 \/ k = 2 * Runs + 4
        \/ k - 2 \in Nat /\ k - 2 > 0 /\ k - 2 <= 2 * Runs
    BY <1>1, <1>4
  <2>3. ASSUME NEW n \in 1..Runs, k - 2 = 2 * n - 1 \/ k - 2 = 2 * n
        PROVE  k = 2 * n + 1 \/ k = 2 * n + 2
    BY <1>4, <2>3
  <2>4. QED
    BY <2>1, <2>2, <2>3
<1>9. AKeepsStep(c)
  <2>1. SUFFICES ASSUME NEW j \in 1..Len(P), NEW k \in Nat \ {0}, InStep(c, j, k),
                        ~Messages(P[j])
                 PROVE  InStep(c, j + 1, k)
    BY DEF AKeepsStep, P
  <2>2. PICK n \in 0..(Runs + 1) :
          /\ \/ j = n + 2
             \/ j = 1 /\ n = 0
             \/ j >= Runs + 3 /\ n = Runs + 1
          /\ \/ k = 2 * n + 2 \/ k = 2 * n + 1
             \/ k >= 2 * Runs + 3 /\ n = Runs + 1
    BY <1>5, <2>1
  <2>3. j \notin 2..(Runs + 2)
    BY <1>6, <2>1
  <2>4. \/ j + 1 = n + 2
        \/ j + 1 >= Runs + 3 /\ n = Runs + 1
    BY <1>1, <1>3, <2>2, <2>3
  <2>5. QED
    BY <1>5, <2>2, <2>4
<1>10. BKeepsStep(c)
  <2>1. SUFFICES ASSUME NEW j \in Nat \ {0}, NEW k \in 1..Len(Q), InStep(c, j, k),
                        ~Receives(Q[k])
                 PROVE  InStep(c, j, k + 1)
    BY DEF BKeepsStep, Q
  <2>2. PICK n \in 0..(Runs + 1) :
          /\ \/ j = n + 2
             \/ j = 1 /\ n = 0
             \/ j >= Runs + 3 /\ n = Runs + 1
          /\ \/ k = 2 * n + 2 \/ k = 2 * n + 1
             \/ k >= 2 * Runs + 3 /\ n = Runs + 1
    BY <1>5, <2>1
  <2>3. k = 2 * n + 2 => n = Runs + 1
    <3>1. SUFFICES ASSUME k = 2 * n + 2, n # Runs + 1 PROVE FALSE
      OBVIOUS
    <3>2. n = 0 \/ n \in 1..Runs
      BY <1>1, <3>1
    <3>3. QED
      BY <1>7, <2>1, <3>1, <3>2
  <2>4. \/ k + 1 = 2 * n + 2
        \/ k + 1 >= 2 * Runs + 3 /\ n = Runs + 1
    BY <1>1, <1>4, <2>2, <2>3
  <2>5. QED
    BY <1>5, <2>2, <2>4
<1>11. BothStep(c)
  <2>1. SUFFICES ASSUME NEW j \in 1..Len(P), NEW k \in 1..Len(Q), InStep(c, j, k),
                        Messages(P[j]), Receives(Q[k])
                 PROVE  /\ InStep(c, j + 1, k + 1)
                        /\ P[j].op = "call" <=> Owes(c, k + 1)
    BY DEF BothStep, P, Q
  <2>2. PICK n \in 0..(Runs + 1) :
          /\ \/ j = n + 2
             \/ j = 1 /\ n = 0
             \/ j >= Runs + 3 /\ n = Runs + 1
          /\ \/ k = 2 * n + 2 \/ k = 2 * n + 1
             \/ k >= 2 * Runs + 3 /\ n = Runs + 1
    BY <1>5, <2>1
  <2>3. j \in 2..(Runs + 2)
    BY <1>6, <2>1
  <2>4. j = n + 2 /\ n \in 0..Runs
    BY <1>1, <2>2, <2>3
  <2>5. k # 2 * n + 1
    <3>1. SUFFICES ASSUME k = 2 * n + 1 PROVE FALSE
      OBVIOUS
    <3>2. CASE n = 0
      BY <1>7, <2>1, <3>1, <3>2
    <3>3. CASE n # 0
      <4>1. n \in 1..Runs
        BY <2>4, <3>3
      <4>2. QED
        BY <1>7, <2>1, <3>1, <4>1
    <3>4. QED
      BY <3>2, <3>3
  <2>6. k = 2 * n + 2
    BY <1>1, <2>2, <2>4, <2>5
  <2>7. InStep(c, j + 1, k + 1)
    <3>1. /\ n + 1 \in 0..(Runs + 1) /\ j + 1 = (n + 1) + 2
          /\ k + 1 = 2 * (n + 1) + 1
      BY <1>1, <2>4, <2>6
    <3>2. QED
      BY <1>5, <3>1
  <2>8. P[j].op = "call" <=> n < Runs
    BY <1>1, <1>6, <2>4
  <2>9. Owes(c, k + 1) <=> n < Runs
    BY <1>1, <1>5, <2>4, <2>6
  <2>10. QED
    BY <2>7, <2>8, <2>9
<1>12. BOwes(c)
  <2>1. SUFFICES ASSUME NEW k \in 1..Len(Q)
                 PROVE  /\ Q[k].op = "replyRecv" => Owes(c, k)
                        /\ Owes(c, k) => Q[k].op \notin {"recv", "send"}
                        /\ ~Receives(Q[k]) /\ Q[k].op # "goto" =>
                             (Owes(c, k) <=> Owes(c, k + 1))
                        /\ Q[k].op = "goto" => Owes(c, k) /\ Owes(c, Q[k].arg)
    BY DEF BOwes, Q
  <2>2. CASE k = 1 \/ k = 2
    <3>1. ~Owes(c, 1) /\ ~Owes(c, 2)
      BY <1>5
    <3>2. QED
      BY <1>7, <2>2, <3>1
  <2>3. CASE k = 2 * Runs + 3 \/ k = 2 * Runs + 4
    <3>1. ~Owes(c, k) /\ ~Owes(c, k + 1)
      BY <1>1, <1>5, <2>3
    <3>2. QED
      BY <1>7, <2>3, <3>1
  <2>4. ASSUME NEW n \in 1..Runs, k = 2 * n + 1
        PROVE  /\ Owes(c, k) /\ Owes(c, k + 1) /\ Q[k].op = "tick"
    <3>1. k \in 3..(2 * Runs + 2) /\ k + 1 \in 3..(2 * Runs + 2)
      BY <1>1, <2>4
    <3>2. QED
      BY <1>5, <1>7, <2>4, <3>1
  <2>5. ASSUME NEW n \in 1..Runs, k = 2 * n + 2
        PROVE  Owes(c, k) /\ Q[k].op = "replyRecv" /\ Receives(Q[k])
    <3>1. k \in 3..(2 * Runs + 2)
      BY <1>1, <2>5
    <3>2. QED
      BY <1>5, <1>7, <2>5, <3>1
  <2>6. QED
    BY <1>8, <2>2, <2>3, <2>4, <2>5
<1>13. QED
  BY <1>9, <1>10, <1>11, <1>12 DEF Protocol

\* The functional test on several cores.
LEMMA MultiProtocol ==
  ASSUME NEW c \in Config, c.bench = "funcMulti"
  PROVE  Protocol(c)
<1> DEFINE P == Programs[c][A]
           Q == Programs[c][B]
<1>1. /\ Len(P) = 3
      /\ P[1] = [op |-> "init", arg |-> syn_ep]
      /\ P[2] = [op |-> "call", arg |-> syn_ep]
      /\ P[3] = [op |-> "goto", arg |-> 2]
  BY AProgram
<1>2. /\ Len(Q) = 5
      /\ Q[1] = [op |-> "init", arg |-> syn_ep]
      /\ Q[2] = [op |-> "recv", arg |-> syn_ep]
      /\ Q[3] = [op |-> "tick", arg |-> syn_ep]
      /\ Q[4] = [op |-> "replyRecv", arg |-> syn_ep]
      /\ Q[5] = [op |-> "goto", arg |-> 3]
  BY BProgram
<1>3. /\ \A j, k : InStep(c, j, k)
      /\ \A k : Owes(c, k) <=> k \in 3..5
  BY DEF InStep, Owes
<1> HIDE DEF P, Q
<1>4. AKeepsStep(c) /\ BKeepsStep(c)
  BY <1>3 DEF AKeepsStep, BKeepsStep
<1>5. BothStep(c)
  <2>1. SUFFICES ASSUME NEW j \in 1..Len(P), NEW k \in 1..Len(Q),
                        Messages(P[j]), Receives(Q[k])
                 PROVE  P[j].op = "call" <=> Owes(c, k + 1)
    BY <1>3 DEF BothStep, P, Q
  <2>2. j = 2
    BY <1>1, <2>1 DEF Messages
  <2>3. k = 2 \/ k = 4
    BY <1>2, <2>1 DEF Receives
  <2>4. QED
    BY <1>1, <1>3, <2>2, <2>3
<1>6. BOwes(c)
  <2>1. SUFFICES ASSUME NEW k \in 1..Len(Q)
                 PROVE  /\ Q[k].op = "replyRecv" => Owes(c, k)
                        /\ Owes(c, k) => Q[k].op \notin {"recv", "send"}
                        /\ ~Receives(Q[k]) /\ Q[k].op # "goto" =>
                             (Owes(c, k) <=> Owes(c, k + 1))
                        /\ Q[k].op = "goto" => Owes(c, k) /\ Owes(c, Q[k].arg)
    BY DEF BOwes, Q
  <2>2. k = 1 \/ k = 2 \/ k = 3 \/ k = 4 \/ k = 5
    BY <1>2
  <2>3. QED
    BY <1>2, <1>3, <2>2 DEF Receives
<1>7. QED
  BY <1>4, <1>5, <1>6 DEF Protocol

\* What A does after its first message in the benchmarks with an idle thread.
Measuring ==
  Statements({"slice", "write", "yield"}, {syn_ep}) \cup
  Statements({"send"}, {a_ep}) \cup Statements({"recv"}, {syn_ep})

\* A flushing thread sends to its idle peer once, before it measures.
LEMMA FlushSends ==
  ASSUME NEW after \in {<<>>, Yield}
  PROVE  \E rest \in Seq(Measuring) :
           InitEnv \o FlushThread(after) = InitEnv \o (Send(syn_ep) \o rest)
<1> DEFINE S == Measuring \cup {[op |-> "send", arg |-> syn_ep]}
           body == NewTimeSlice \o Write \o after
           loop == Repeat(Runs, body)
           rest == loop \o NewTimeSlice \o Send(a_ep)
<1>1. Runs \in Nat
  BY BenchmarksAssumption
<1>2. /\ NewTimeSlice \in Seq(Measuring) /\ Write \in Seq(Measuring)
      /\ Yield \in Seq(Measuring) /\ Send(a_ep) \in Seq(Measuring)
      /\ Len(Write) = 1 /\ Len(NewTimeSlice) = 1
  BY DEF NewTimeSlice, Write, Yield, Send, Do, Measuring, Statements
<1>3. after \in Seq(Measuring)
  <2>1. <<>> \in Seq(Measuring)
    OBVIOUS
  <2>2. QED
    BY <1>2, <2>1, Zenon
<1>4. body \in Seq(Measuring) /\ Len(body) > 0
  <2> DEFINE first == NewTimeSlice \o Write
  <2>1. first \in Seq(Measuring) /\ Len(first) = 2
    <3>1. /\ NewTimeSlice \in Seq(Measuring) /\ Write \in Seq(Measuring)
          /\ Len(Write) = 1 /\ Len(NewTimeSlice) = 1
      BY <1>2
    <3>2. first \in Seq(Measuring) /\ Len(first) = Len(NewTimeSlice) + Len(Write)
      BY <3>1, Joined
    <3> HIDE DEF first
    <3>3. QED
      BY <3>1, <3>2
  <2> HIDE DEF first
  <2>2. first \o after \in Seq(Measuring) /\ Len(first \o after) = 2 + Len(after)
    BY <1>3, <2>1, Joined
  <2>3. Len(after) \in Nat
    BY <1>3
  <2>4. QED
    BY <2>2, <2>3 DEF first
<1> HIDE DEF body
<1>5. loop \in Seq(Measuring)
  BY <1>1, <1>4, LoopBody
<1>6. FlushThread(after) = Send(syn_ep) \o loop \o NewTimeSlice \o Send(a_ep)
  BY DEF FlushThread, body
<1> HIDE DEF loop
<1>7. loop \o NewTimeSlice \in Seq(Measuring) /\ rest \in Seq(Measuring)
  BY <1>2, <1>5, Joined
<1>8. /\ Measuring \subseteq S /\ Send(syn_ep) \in Seq(S)
  BY DEF Send, Do
<1> HIDE DEF S
<1>9. /\ loop \in Seq(S) /\ NewTimeSlice \in Seq(S) /\ Send(a_ep) \in Seq(S)
      /\ loop \o NewTimeSlice \in Seq(S)
  BY <1>2, <1>5, <1>7, <1>8, MoreStatements
<1>10. Send(syn_ep) \o (loop \o NewTimeSlice) = Send(syn_ep) \o loop \o NewTimeSlice
  <2>1. Send(syn_ep) \in Seq(S) /\ loop \in Seq(S) /\ NewTimeSlice \in Seq(S)
    BY <1>8, <1>9
  <2> HIDE DEF loop
  <2>2. QED
    BY <2>1, Grouping
<1>11. Send(syn_ep) \o rest = Send(syn_ep) \o (loop \o NewTimeSlice) \o Send(a_ep)
  BY <1>8, <1>9, Grouping
<1>12. FlushThread(after) = Send(syn_ep) \o rest
  BY <1>6, <1>10, <1>11
<1> HIDE DEF rest
<1>13. QED
  BY <1>7, <1>12

\* So does the SPLASH thread.
LEMMA SplashSends ==
  \E rest \in Seq(Measuring) : InitEnv \o Splash = InitEnv \o (Send(syn_ep) \o rest)
<1> DEFINE rest == NewTimeSlice \o Write \o Send(a_ep) \o Recv(syn_ep)
<1>1. rest \in Seq(Measuring)
  <2>1. /\ NewTimeSlice \in Seq(Measuring) /\ Write \in Seq(Measuring)
        /\ Send(a_ep) \in Seq(Measuring) /\ Recv(syn_ep) \in Seq(Measuring)
    BY DEF NewTimeSlice, Write, Send, Recv, Do, Measuring, Statements
  <2>2. QED
    BY <2>1, Joined
<1>2. Splash = Send(syn_ep) \o rest
  BY SMT DEF Splash, NewTimeSlice, Write, Send, Recv, Do
<1> HIDE DEF rest
<1>3. QED
  BY <1>1, <1>2

\* A thread that sends once, and an idle thread.
LEMMA IdleProtocol ==
  ASSUME NEW c \in Config, c.bench \in {"flush", "flushOnly", "splash"}
  PROVE  Protocol(c)
<1> DEFINE P == Programs[c][A]
           Q == Programs[c][B]
           e == [op |-> "init", arg |-> syn_ep]
           s == [op |-> "send", arg |-> syn_ep]
           S == Measuring \cup {e, s}
<1>1. PICK rest \in Seq(Measuring) : P = InitEnv \o (Send(syn_ep) \o rest)
  <2>1. \/ \E after \in {<<>>, Yield} : P = InitEnv \o FlushThread(after)
        \/ P = InitEnv \o Splash
    BY ProgramOf DEF CacheFlush, CacheFlushOnly
  <2> HIDE DEF P
  <2>2. QED
    BY <2>1, FlushSends, SplashSends, Zenon
<1>2. Q = InitEnv \o BenchIdle
  BY ProgramOf
<1> HIDE DEF P, Q
<1>3. /\ Len(Q) = 2 /\ Q[1] = e
      /\ Q[2] = [op |-> "recv", arg |-> syn_ep]
  BY <1>2, SMT DEF InitEnv, BenchIdle, Recv, Do
<1>4. P = <<e>> \o (<<s>> \o rest)
  BY <1>1 DEF InitEnv, Send, Do
<1>5. /\ Len(P) = Len(rest) + 2 /\ P[1] = e /\ P[2] = s
      /\ \A k \in 1..Len(rest) : P[k + 2] = rest[k]
  <2>1. Measuring \subseteq S /\ e \in S /\ s \in S
    OBVIOUS
  <2> HIDE DEF S, e, s
  <2>2. rest \in Seq(S)
    BY <2>1, MoreStatements
  <2>3. QED
    BY <1>4, <2>1, <2>2, FirstTwo
<1>6. \A x \in Measuring : ~Messages(x)
  BY BenchmarksAssumption DEF Measuring, Messages, Statements
<1>7. ASSUME NEW j \in 1..Len(P), Messages(P[j])
      PROVE  j = 2 /\ P[j].op = "send"
  <2>1. j # 1
    BY <1>5, <1>7 DEF Messages
  <2>2. ASSUME j > 2 PROVE FALSE
    <3>1. j - 2 \in 1..Len(rest) /\ (j - 2) + 2 = j
      BY <1>1, <1>5, <2>2
    <3>2. P[j] \in Measuring
      BY <1>1, <1>5, <3>1
    <3>3. QED
      BY <1>6, <1>7, <3>2
  <2>3. j = 2
    BY <2>1, <2>2
  <2>4. QED
    BY <1>5, <2>3
<1>8. /\ \A j, k : InStep(c, j, k) <=> (j <= 2 <=> k <= 2)
      /\ \A k : ~Owes(c, k)
  BY DEF InStep, Owes
<1>9. AKeepsStep(c)
  <2>1. SUFFICES ASSUME NEW j \in 1..Len(P), NEW k \in Nat \ {0}, InStep(c, j, k),
                        ~Messages(P[j])
                 PROVE  InStep(c, j + 1, k)
    BY DEF AKeepsStep, P
  <2>2. j # 2
    BY <1>5, <2>1 DEF Messages
  <2>3. j <= 2 <=> j + 1 <= 2
    BY <1>1, <1>5, <2>2
  <2>4. QED
    BY <1>8, <2>1, <2>3
<1>10. BKeepsStep(c)
  <2>1. SUFFICES ASSUME NEW j \in Nat \ {0}, NEW k \in 1..Len(Q), InStep(c, j, k),
                        ~Receives(Q[k])
                 PROVE  InStep(c, j, k + 1)
    BY DEF BKeepsStep, Q
  <2>2. k = 1
    BY <1>3, <2>1 DEF Receives
  <2>3. QED
    BY <1>8, <2>1, <2>2
<1>11. BothStep(c)
  <2>1. SUFFICES ASSUME NEW j \in 1..Len(P), NEW k \in 1..Len(Q),
                        Messages(P[j]), Receives(Q[k])
                 PROVE  /\ InStep(c, j + 1, k + 1)
                        /\ P[j].op = "call" <=> Owes(c, k + 1)
    BY DEF BothStep, P, Q
  <2>2. j = 2 /\ P[j].op = "send"
    BY <1>7, <2>1
  <2>3. k = 2
    BY <1>3, <2>1 DEF Receives
  <2>4. QED
    BY <1>8, <2>2, <2>3
<1>12. BOwes(c)
  <2>1. \A k \in 1..Len(Q) : Q[k].op \in {"init", "recv"}
    BY <1>3
  <2>2. QED
    BY <1>8, <2>1 DEF BOwes, Q
<1>13. QED
  BY <1>9, <1>10, <1>11, <1>12 DEF Protocol

\* The side channel has no synchronising messages.
LEMMA MastikProtocol ==
  ASSUME NEW c \in Config, c.bench = "mastik"
  PROVE  Protocol(c)
<1> DEFINE Q == Programs[c][B]
<1>1. Q = InitEnv \o <<>>
  BY ProgramOf
<1> HIDE DEF Q
<1>2. Len(Q) = 1 /\ Q[1] = [op |-> "init", arg |-> syn_ep]
  BY <1>1, SMT DEF InitEnv, Do
<1>3. \A k \in 1..Len(Q) : ~Receives(Q[k]) /\ Q[k].op = "init"
  BY <1>2 DEF Receives
<1>4. /\ \A j, k : InStep(c, j, k)
      /\ \A k : ~Owes(c, k)
  BY DEF InStep, Owes
<1>5. AKeepsStep(c) /\ BKeepsStep(c)
  BY <1>4 DEF AKeepsStep, BKeepsStep
<1>6. BothStep(c)
  BY <1>3 DEF BothStep, Q
<1>7. BOwes(c)
  BY <1>3, <1>4 DEF BOwes, Q
<1>8. QED
  BY <1>5, <1>6, <1>7 DEF Protocol

\* Every benchmark's programs keep step.
LEMMA ProtocolKept ==
  ASSUME NEW c \in Config
  PROVE  Protocol(c)
BY IpcProtocol, FuncProtocol, MultiProtocol, IdleProtocol, MastikProtocol
   DEF Config, Bench

-----------------------------------------------------------------------------
(* Every call has its reply *)

\* A thread blocked in a receive has just made it.
WaitsWhere ==
  \A t \in Thread, ep \in Endpoint :
    ipc[t] = Blocked("recv", ep) =>
      /\ pc[t] > 1 /\ Program(t)[pc[t] - 1].op \in {"recv", "replyRecv"}
      /\ Program(t)[pc[t] - 1].arg = ep

\* The statement a thread is at, as its peer sees it: a message or a receive
\* that is still waiting is not done.
Waits(t, op) == ipc[t] = Blocked(op, syn_ep)
PlaceOfA == IF Waits(A, "send") \/ Waits(A, "call") THEN pc[A] - 1 ELSE pc[A]
PlaceOfB == IF Waits(B, "recv") THEN pc[B] - 1 ELSE pc[B]

\* A waits for a reply exactly when B owes it one and is ready to give it.
Matched ==
  /\ \A t \in Thread : ipc[t] = BlockedOnReply => t = A /\ caller[B] = A
  /\ ipc[A] = BlockedOnReply <=> ipc[B] = Ready /\ Owes(config, pc[B])
  /\ InStep(config, PlaceOfA, PlaceOfB)

CInv == Inv /\ WaitsWhere /\ Matched

\* The statement a thread blocked in a receive has executed.
LEMMA ReceiverIn ==
  ASSUME Inv, WaitsWhere, NEW u \in Thread, NEW ep \in Endpoint,
         ipc[u] = Blocked("recv", ep)
  PROVE  /\ config \in Config /\ pc[u] \in Nat /\ pc[u] > 1
         /\ pc[u] - 1 \in 1..Len(Programs[config][u])
         /\ Programs[config][u][pc[u] - 1].op \in {"recv", "replyRecv"}
         /\ Programs[config][u][pc[u] - 1].arg = ep
         /\ ep # syn_ep => Programs[config][u][pc[u] - 1].op = "recv"
<1>1. /\ pc[u] > 1 /\ Program(u)[pc[u] - 1].op \in {"recv", "replyRecv"}
      /\ Program(u)[pc[u] - 1].arg = ep
  BY DEF WaitsWhere
<1>2. config \in Config /\ pc[u] \in Nat /\ pc[u] \in 1..(Len(Programs[config][u]) + 1)
  BY DEF Inv, TypeOK, Program
<1>3. Len(Programs[config][u]) \in Nat
  BY <1>2, ProgramLengths
<1>4. pc[u] - 1 \in 1..Len(Programs[config][u])
  BY <1>1, <1>2, <1>3
<1>5. ep # syn_ep => Programs[config][u][pc[u] - 1].op = "recv"
  BY <1>1, <1>2, <1>4, Says DEF Program
<1>6. QED
  BY <1>1, <1>2, <1>4, <1>5 DEF Program

\* The root task does not listen on the endpoint of A and B.
LEMMA RootListens ==
  ASSUME NEW c \in Config, NEW k \in 1..Len(Programs[c][Root]),
         Programs[c][Root][k].op = "recv"
  PROVE  Programs[c][Root][k].arg # syn_ep
<1> DEFINE P == Programs[c][Root]
           x == P[k]
           m == Images(c.kernels)
           n == SetupLength(c.bench)
<1>1. k > m + n
  BY RootSays
<1>2. /\ Len(P) \in Nat /\ RootForm(P, m, n, c.bench, c.kernels)
      /\ m \in Nat /\ n \in Nat
  BY RootProgram, Lengths
<1>3. k \in (m + n + 1)..Len(P)
  BY <1>1, <1>2
<1>4. x \in TailStatements(c.kernels)
  BY <1>2, <1>3 DEF RootForm
<1> HIDE DEF x
<1>5. x.op = "recv"
  BY DEF x
<1>6. x.arg # syn_ep
  BY <1>4, <1>5, BenchmarksAssumption DEF TailStatements, Statements
<1>7. QED
  BY <1>6 DEF x

\* After a statement that is no message of A's, B owes nothing.
LEMMA NothingOwed ==
  ASSUME NEW c \in Config, NEW k \in 1..Len(Programs[c][B]),
         Programs[c][B][k].op \in {"send", "recv"}
  PROVE  /\ ~Owes(c, k)
         /\ ~Receives(Programs[c][B][k]) => ~Owes(c, k + 1)
<1>1. BOwes(c)
  BY ProtocolKept DEF Protocol
<1>2. QED
  BY <1>1 DEF BOwes

\* The steps that concern one thread alone, and the others.
LEMMA StepsApart ==
  ASSUME NEW t \in Thread, Step(t)
  PROVE  \/ /\ UNCHANGED messageVars
            /\ \E op : At(t, op) /\ op \notin {"send", "call", "recv", "replyRecv"}
         \/ \E ep \in Endpoint : \/ SendStep(t, ep) \/ CallStep(t, ep)
                                 \/ RecvStep(t, ep) \/ ReplyRecvStep(t, ep)
<1>1. CASE \/ InitStep(t) \/ SliceStep(t) \/ LocalStep(t) \/ TickStep(t)
           \/ GotoStep(t) \/ AbortStep(t)
  BY <1>1 DEF InitStep, SliceStep, LocalStep, TickStep, GotoStep, AbortStep
<1>2. CASE t = Root /\ (SampleStep \/ CompareStep)
  BY <1>2 DEF SampleStep, CompareStep
<1>3. CASE t = Root /\ SetupStep
  BY <1>3 DEF SetupStep
<1>4. QED
  BY <1>1, <1>2, <1>3 DEF Step

\* A step preserves that blocked receivers have just made their call.
LEMMA StepWaits ==
  ASSUME Inv, WaitsWhere, NEW t \in Thread, Step(t)
  PROVE  WaitsWhere'
<1>1. TypeOK
  BY DEF Inv
<1>2. /\ pc \in [Thread -> Nat] /\ config \in Config
      /\ \A u \in Thread : pc[u] >= 1
  BY DEF Inv, TypeOK
<1>3. config' = config /\ \A u \in Thread \ {t} : pc'[u] = pc[u]
  BY <1>1, <1>2, StepMoves
<1>4. ipc[t] = Ready
  <2>1. \E op : At(t, op)
    BY <1>1, StepMoves
  <2>2. QED
    BY <2>1 DEF At, Executes
<1> DEFINE Received(u, ep) ==
             /\ pc'[u] > 1 /\ Programs[config][u][pc'[u] - 1].op \in {"recv", "replyRecv"}
             /\ Programs[config][u][pc'[u] - 1].arg = ep
<1>5. ASSUME NEW u \in Thread, NEW ep \in Endpoint,
             ipc'[u] = Blocked("recv", ep), ipc'[u] = ipc[u]
      PROVE  Received(u, ep)
  <2>1. u # t
    BY <1>4, <1>5, BlockedApart
  <2>2. QED
    BY <1>3, <1>5, <2>1 DEF WaitsWhere, Program
<1>6. ASSUME NEW op \in {"recv", "replyRecv"}, NEW ep \in Endpoint,
             AtEndpoint(t, op, ep), Advance(t)
      PROVE  Received(t, ep)
  <2>1. pc'[t] = pc[t] + 1 /\ pc'[t] - 1 = pc[t]
    BY <1>2, <1>6 DEF Advance
  <2>2. Program(t)[pc[t]].op = op /\ Program(t)[pc[t]].arg = ep
    BY <1>6 DEF AtEndpoint, At, Statement
  <2>3. QED
    BY <1>2, <2>1, <2>2 DEF Program
<1>7. SUFFICES ASSUME NEW u \in Thread, NEW e \in Endpoint, ipc'[u] = Blocked("recv", e)
               PROVE  Received(u, e)
  BY <1>3 DEF WaitsWhere, Blocked, Program
<1> HIDE DEF Received
<1>8. CASE UNCHANGED messageVars
  BY <1>5, <1>7, <1>8 DEF messageVars
<1>9. ASSUME NEW ep \in Endpoint, SendStep(t, ep)
      PROVE  Received(u, e)
  <2>1. \/ ipc'[u] = ipc[u]
        \/ ipc'[u] = Ready
        \/ u = t /\ ipc'[u] = Blocked("send", ep)
    BY <1>1, <1>9, SendMakes
  <2>2. QED
    BY <1>5, <1>7, <2>1, BlockedApart
<1>10. ASSUME NEW ep \in Endpoint, CallStep(t, ep)
       PROVE  Received(u, e)
  <2>1. \/ ipc'[u] = ipc[u]
        \/ ipc'[u] \in {Ready, BlockedOnReply}
        \/ u = t /\ ipc'[u] = Blocked("call", ep)
    BY <1>1, <1>10, CallMakes
  <2>2. QED
    BY <1>5, <1>7, <2>1, BlockedApart
<1>11. ASSUME NEW ep \in Endpoint, RecvStep(t, ep) \/ ReplyRecvStep(t, ep)
       PROVE  Received(u, e)
  <2>1. PICK replied : /\ replied = [v \in Thread |-> replied[v]]
                       /\ Receive(t, ep, replied)
                       /\ \A v \in Thread : replied[v] = ipc[v] \/ replied[v] = Ready
    BY <1>1, <1>11, RecvMakes
  <2>2. \/ ipc'[u] = replied[u]
        \/ u = t /\ ipc'[u] = Blocked("recv", ep)
        \/ ipc'[u] \in {Ready, BlockedOnReply}
    BY <1>1, <2>1, ReceiveMakes
  <2>3. CASE u = t /\ ipc'[u] = Blocked("recv", ep)
    <3>1. e = ep
      BY <1>7, <2>3, BlockedApart
    <3>2. PICK op \in {"recv", "replyRecv"} : AtEndpoint(t, op, ep) /\ Advance(t)
      BY <1>11 DEF RecvStep, ReplyRecvStep
    <3>3. QED
      BY <1>6, <2>3, <3>1, <3>2
  <2>4. QED
    BY <1>5, <1>7, <2>1, <2>2, <2>3, BlockedApart
<1>12. QED
  BY <1>8, <1>9, <1>10, <1>11, StepsApart

-----------------------------------------------------------------------------
(* Steps that leave A and B in step *)

\* Only A sends on the endpoint of A and B, and only A calls.
LEMMA OnlyASends ==
  ASSUME NEW c \in Config, NEW u \in Thread, NEW k \in 1..Len(Programs[c][u]),
         Programs[c][u][k].op \in {"send", "call"}
  PROVE  /\ Programs[c][u][k].arg = syn_ep => u = A
         /\ Programs[c][u][k].op = "call" => u = A /\ Programs[c][u][k].arg = syn_ep
<1>1. /\ u \in {Root, A, B} /\ syn_ep # a_ep /\ syn_ep # b_ep
  BY BenchmarksAssumption
<1>2. Programs[c][u][k].op = "call" => u = A /\ Programs[c][u][k].arg = syn_ep
  BY Says
<1>3. ASSUME Programs[c][u][k].op = "send", Programs[c][u][k].arg = syn_ep
      PROVE  u = A
  <2>1. u # Root
    BY <1>1, <1>3, RootSays
  <2>2. u # B
    BY <1>1, <1>3, BSays
  <2>3. QED
    BY <1>1, <2>1, <2>2
<1>4. QED
  BY <1>2, <1>3

\* Only B listens there, but for A's last receive.
LEMMA OnlyBListens ==
  ASSUME NEW c \in Config, NEW u \in Thread, NEW k \in 1..Len(Programs[c][u]),
         Programs[c][u][k].op \in {"recv", "replyRecv"},
         Programs[c][u][k].arg = syn_ep
  PROVE  u \in {A, B}
<1>1. u \in {Root, A, B} /\ Root # B
  BY BenchmarksAssumption
<1>2. Programs[c][u][k].op = "replyRecv" => u = B
  BY Says
<1>3. Programs[c][u][k].op = "recv" => u # Root
  BY RootListens
<1>4. QED
  BY <1>1, <1>2, <1>3

\* Whether B owes A a reply.
Owed == ipc[B] = Ready /\ Owes(config, pc[B])

\* A step in which A sends no message to B, and B receives none.
SendsNothing ==
  \/ ipc'[A] = ipc[A] /\ pc'[A] = pc[A]
  \/ /\ ~Waits(A, "send") /\ ~Waits(A, "call")
     /\ ~Waits(A, "send")' /\ ~Waits(A, "call")'
     /\ \/ pc'[A] = pc[A]
        \/ /\ pc[A] \in 1..Len(Programs[config][A]) /\ pc'[A] = pc[A] + 1
           /\ ~Messages(Programs[config][A][pc[A]])
        \/ config.bench = "funcMulti"

ReceivesNothing ==
  \/ ipc'[B] = ipc[B] /\ pc'[B] = pc[B]
  \/ /\ ~Waits(B, "recv") /\ ~Waits(B, "recv")'
     /\ \/ pc'[B] = pc[B]
        \/ /\ pc[B] \in 1..Len(Programs[config][B]) /\ pc'[B] = pc[B] + 1
           /\ ~Receives(Programs[config][B][pc[B]])
        \/ config.bench = "funcMulti"
     /\ Owed' <=> Owed

\* Where A and B are.
LEMMA PlacesAre ==
  ASSUME Inv, WaitsWhere
  PROVE  /\ PlaceOfA \in Nat \ {0} /\ PlaceOfB \in Nat \ {0}
         /\ config \in Config /\ pc \in [Thread -> Nat]
         /\ A \in Thread /\ B \in Thread /\ Root \in Thread /\ syn_ep \in Endpoint
         /\ \A u \in Thread : pc[u] \in Nat \ {0}
<1>1. /\ A \in Thread /\ B \in Thread /\ Root \in Thread /\ syn_ep \in Endpoint
  BY BenchmarksAssumption
<1>2. /\ config \in Config /\ pc \in [Thread -> Nat]
      /\ \A u \in Thread : pc[u] \in Nat /\ pc[u] >= 1
  BY DEF Inv, TypeOK
<1>3. Waits(A, "send") \/ Waits(A, "call") => pc[A] > 1
  BY <1>1, BlockedIn DEF Inv, Waits, Waiting
<1>4. Waits(B, "recv") => pc[B] > 1
  BY <1>1 DEF WaitsWhere, Waits
<1>5. QED
  BY <1>1, <1>2, <1>3, <1>4 DEF PlaceOfA, PlaceOfB

\* Such a step keeps them in step.
LEMMA StaysMatched ==
  ASSUME Inv, WaitsWhere, Matched, config' = config,
         SendsNothing, ReceivesNothing,
         ipc'[A] = BlockedOnReply <=> ipc[A] = BlockedOnReply,
         \A u \in Thread : ipc'[u] = BlockedOnReply => ipc[u] = BlockedOnReply,
         ipc[A] = BlockedOnReply => caller'[B] = caller[B]
  PROVE  Matched'
<1>1. /\ PlaceOfA \in Nat \ {0} /\ PlaceOfB \in Nat \ {0} /\ config \in Config
      /\ A \in Thread /\ B \in Thread /\ pc[A] \in Nat \ {0} /\ pc[B] \in Nat \ {0}
  BY PlacesAre
<1>2. /\ AKeepsStep(config) /\ BKeepsStep(config)
  BY <1>1, ProtocolKept DEF Protocol
<1>3. config.bench = "funcMulti" => \A j, k : InStep(config, j, k)
  BY DEF InStep
<1>4. PlaceOfA' \in Nat \ {0} \/ config.bench = "funcMulti"
  BY <1>1 DEF PlaceOfA, SendsNothing, Waits
<1>5. InStep(config, PlaceOfA, PlaceOfB)
  BY DEF Matched
<1>6. InStep(config, PlaceOfA', PlaceOfB)
  <2>1. CASE ipc'[A] = ipc[A] /\ pc'[A] = pc[A]
    <3>1. PlaceOfA' = PlaceOfA
      BY <2>1 DEF PlaceOfA, Waits
    <3>2. QED
      BY <1>5, <3>1
  <2>2. CASE /\ ~Waits(A, "send") /\ ~Waits(A, "call")
             /\ ~Waits(A, "send")' /\ ~Waits(A, "call")'
    <3>1. PlaceOfA = pc[A] /\ PlaceOfA' = pc'[A]
      BY <2>2 DEF PlaceOfA
    <3>2. CASE pc'[A] = pc[A]
      BY <1>5, <3>1, <3>2
    <3>3. CASE /\ pc[A] \in 1..Len(Programs[config][A]) /\ pc'[A] = pc[A] + 1
               /\ ~Messages(Programs[config][A][pc[A]])
      BY <1>1, <1>2, <1>5, <3>1, <3>3 DEF AKeepsStep
    <3>4. CASE config.bench = "funcMulti"
      BY <1>3, <3>4
    <3>5. CASE ipc'[A] = ipc[A] /\ pc'[A] = pc[A]
      BY <3>2, <3>5
    <3>6. QED
      BY <3>2, <3>3, <3>4, <3>5 DEF SendsNothing
  <2>3. QED
    BY <2>1, <2>2 DEF SendsNothing
<1>7. InStep(config, PlaceOfA', PlaceOfB')
  <2>1. CASE ipc'[B] = ipc[B] /\ pc'[B] = pc[B]
    <3>1. PlaceOfB' = PlaceOfB
      BY <2>1 DEF PlaceOfB, Waits
    <3>2. QED
      BY <1>6, <3>1
  <2>2. CASE ~Waits(B, "recv") /\ ~Waits(B, "recv")'
    <3>1. PlaceOfB = pc[B] /\ PlaceOfB' = pc'[B]
      BY <2>2 DEF PlaceOfB
    <3>2. CASE pc'[B] = pc[B]
      BY <1>6, <3>1, <3>2
    <3>3. CASE config.bench = "funcMulti"
      BY <1>3, <3>3
    <3>4. CASE /\ pc[B] \in 1..Len(Programs[config][B]) /\ pc'[B] = pc[B] + 1
               /\ ~Receives(Programs[config][B][pc[B]])
               /\ config.bench # "funcMulti"
      BY <1>1, <1>2, <1>4, <1>6, <3>1, <3>4 DEF BKeepsStep
    <3>5. CASE ipc'[B] = ipc[B] /\ pc'[B] = pc[B]
      BY <3>2, <3>5
    <3>6. QED
      BY <3>2, <3>3, <3>4, <3>5 DEF ReceivesNothing
  <2>3. QED
    BY <2>1, <2>2 DEF ReceivesNothing
<1>8. Owed' <=> Owed
  BY DEF ReceivesNothing, Owed
<1>9. (ipc[A] = BlockedOnReply <=> ipc[B] = Ready /\ Owes(config, pc[B]))'
  BY <1>8 DEF Matched, Owed
<1>10. \A u \in Thread : ipc'[u] = BlockedOnReply => u = A /\ caller'[B] = A
  BY DEF Matched
<1>11. QED
  BY <1>7, <1>9, <1>10 DEF Matched

\* A step of one thread alone ...
LEMMA QuietMatches ==
  ASSUME CInv, NEW t \in Thread, Step(t), UNCHANGED messageVars, NEW op, At(t, op),
         op \notin {"send", "call", "recv", "replyRecv"}
  PROVE  Matched'
<1>1. Inv /\ WaitsWhere /\ Matched /\ TypeOK
  BY DEF CInv, Inv
<1>2. ipc' = ipc /\ caller' = caller
  BY DEF messageVars
<1>3. /\ config \in Config /\ pc[t] \in 1..Len(Programs[config][t])
      /\ Statement(t) = Programs[config][t][pc[t]] /\ Programs[config][t][pc[t]].op = op
      /\ ipc[t] = Ready
  BY <1>1, AtProgram
<1>4. config' = config
  BY <1>1, StepMoves
<1>5. /\ \A u \in Thread : u # t => pc'[u] = pc[u]
      /\ \/ op # "goto" /\ pc'[t] \in {pc[t], pc[t] + 1}
         \/ op = "goto" /\ pc'[t] = Programs[config][t][pc[t]].arg
  <2>1. \/ pc' = [pc EXCEPT ![t] = pc[t] + 1]
        \/ At(t, "goto") /\ pc' = [pc EXCEPT ![t] = Statement(t).arg]
        \/ pc' = pc
    BY <1>1, StepMoves
  <2>2. At(t, "goto") => op = "goto"
    BY OneOp
  <2>3. op = "goto" => GotoStep(t)
    <3>1. ASSUME NEW o, At(t, o), o # "goto"
          PROVE  op # "goto"
      BY <3>1, OneOp
    <3>2. CASE \/ InitStep(t) \/ SliceStep(t) \/ LocalStep(t) \/ TickStep(t)
               \/ AbortStep(t)
      BY <3>1, <3>2 DEF InitStep, SliceStep, LocalStep, TickStep, AbortStep
    <3>3. CASE t = Root /\ (SampleStep \/ CompareStep)
      BY <3>1, <3>3 DEF SampleStep, CompareStep
    <3>4. CASE t = Root /\ SetupStep
      BY <3>1, <3>4 DEF SetupStep
    <3>5. CASE \E ep \in Endpoint : \/ SendStep(t, ep) \/ CallStep(t, ep)
                                    \/ RecvStep(t, ep) \/ ReplyRecvStep(t, ep)
      BY <3>1, <3>5 DEF SendStep, CallStep, RecvStep, ReplyRecvStep, AtEndpoint
    <3>6. QED
      BY <3>2, <3>3, <3>4, <3>5 DEF Step
  <2>4. op = "goto" => pc' = [pc EXCEPT ![t] = Statement(t).arg]
    BY <2>3 DEF GotoStep
  <2>5. pc \in [Thread -> Nat]
    BY <1>1 DEF TypeOK
  <2>6. QED
    BY <1>3, <2>1, <2>2, <2>4, <2>5
<1>6. op = "goto" => config.bench = "funcMulti" /\ (t = B => pc'[t] = 3)
  <2>1. SUFFICES ASSUME op = "goto"
                 PROVE  config.bench = "funcMulti" /\ (t = B => pc'[t] = 3)
    OBVIOUS
  <2>2. A # B
    BY BenchmarksAssumption
  <2>3. /\ config.bench = "funcMulti"
        /\ \/ t = A /\ Programs[config][t][pc[t]].arg = 2
           \/ t = B /\ Programs[config][t][pc[t]].arg = 3
    BY <1>3, <2>1, Says
  <2>4. QED
    BY <1>5, <2>1, <2>2, <2>3
<1>7. SendsNothing
  <2>1. CASE t # A
    BY <1>2, <1>5, <2>1, PlacesAre, <1>1 DEF SendsNothing
  <2>2. CASE t = A
    <3>1. /\ ~Waits(A, "send") /\ ~Waits(A, "call")
          /\ ~Waits(A, "send")' /\ ~Waits(A, "call")'
      BY <1>2, <1>3, <2>2, BlockedApart DEF Waits
    <3>2. ~Messages(Programs[config][A][pc[A]])
      BY <1>3, <2>2 DEF Messages
    <3>3. QED
      BY <1>3, <1>5, <1>6, <2>2, <3>1, <3>2 DEF SendsNothing
  <2>3. QED
    BY <2>1, <2>2
<1>8. ReceivesNothing
  <2>1. CASE t # B
    BY <1>2, <1>5, <2>1, PlacesAre, <1>1 DEF ReceivesNothing
  <2>2. CASE t = B
    <3>1. ~Waits(B, "recv") /\ ~Waits(B, "recv")'
      BY <1>2, <1>3, <2>2, BlockedApart DEF Waits
    <3>2. ~Receives(Programs[config][B][pc[B]])
      BY <1>3, <2>2 DEF Receives
    <3>3. BOwes(config)
      BY <1>3, ProtocolKept DEF Protocol
    <3>4. Owes(config, pc'[B]) <=> Owes(config, pc[B])
      <4>1. CASE op # "goto"
        BY <1>3, <1>5, <2>2, <3>2, <3>3, <4>1 DEF BOwes
      <4>2. CASE op = "goto"
        BY <1>3, <1>5, <2>2, <3>3, <4>2 DEF BOwes
      <4>3. QED
        BY <4>1, <4>2
    <3>5. Owed' <=> Owed
      BY <1>2, <1>4, <3>4 DEF Owed
    <3>6. QED
      BY <1>3, <1>5, <1>6, <2>2, <3>1, <3>2, <3>5 DEF ReceivesNothing
  <2>3. QED
    BY <2>1, <2>2
<1>9. QED
  BY <1>1, <1>2, <1>4, <1>7, <1>8, StaysMatched

\* ... a message on another endpoint ...
LEMMA SendMatches ==
  ASSUME CInv, NEW t \in Thread, NEW ep \in Endpoint, ep # syn_ep, Step(t),
         SendStep(t, ep)
  PROVE  Matched'
<1>1. Inv /\ WaitsWhere /\ Matched /\ TypeOK
  BY DEF CInv, Inv
<1>2. /\ config \in Config /\ pc \in [Thread -> Nat]
      /\ A \in Thread /\ B \in Thread /\ syn_ep \in Endpoint
  BY <1>1, PlacesAre
<1>3. At(t, "send") /\ Statement(t).arg = ep /\ Advance(t)
  BY DEF SendStep, AtEndpoint
<1>4. /\ pc[t] \in 1..Len(Programs[config][t])
      /\ Programs[config][t][pc[t]].op = "send" /\ Programs[config][t][pc[t]].arg = ep
      /\ ipc[t] = Ready
  BY <1>1, <1>3, AtProgram
<1>5. /\ config' = config /\ pc'[t] = pc[t] + 1
      /\ \A u \in Thread : u # t => pc'[u] = pc[u]
  BY <1>2, <1>3 DEF Advance
<1>6. /\ caller' = caller
      /\ \A u \in Thread : \/ ipc'[u] = ipc[u]
                           \/ ipc[u] = Blocked("recv", ep) /\ ipc'[u] = Ready
                           \/ u = t /\ ipc'[u] = Blocked("send", ep)
  BY <1>1, SendMakes
<1>7. SendsNothing
  <2>1. CASE t = A
    <3>1. ipc[A] = Ready /\ ipc'[A] \in {Ready, Blocked("send", ep)}
      BY <1>2, <1>4, <1>6, <2>1
    <3>2. ~Messages(Programs[config][A][pc[A]])
      BY <1>4, <2>1 DEF Messages
    <3>3. QED
      BY <1>4, <1>5, <2>1, <3>1, <3>2, BlockedApart DEF SendsNothing, Waits
  <2>2. CASE t # A
    <3>1. CASE ipc'[A] = ipc[A]
      BY <1>2, <1>5, <2>2, <3>1 DEF SendsNothing
    <3>2. CASE ipc[A] = Blocked("recv", ep) /\ ipc'[A] = Ready
      BY <1>2, <1>5, <2>2, <3>2, BlockedApart DEF SendsNothing, Waits
    <3>3. QED
      BY <1>2, <1>6, <2>2, <3>1, <3>2
  <2>3. QED
    BY <2>1, <2>2
<1>8. ReceivesNothing
  <2>1. CASE t = B
    <3>1. ipc[B] = Ready /\ ipc'[B] \in {Ready, Blocked("send", ep)}
      BY <1>2, <1>4, <1>6, <2>1
    <3>2. ~Receives(Programs[config][B][pc[B]])
      BY <1>4, <2>1 DEF Receives
    <3>3. ~Owes(config, pc[B]) /\ ~Owes(config, pc[B] + 1)
      BY <1>2, <1>4, <2>1, <3>2, NothingOwed
    <3>4. ~Owed /\ ~Owed'
      BY <1>5, <2>1, <3>3 DEF Owed
    <3>5. QED
      BY <1>4, <1>5, <2>1, <3>1, <3>2, <3>4, BlockedApart DEF ReceivesNothing, Waits
  <2>2. CASE t # B
    <3>1. CASE ipc'[B] = ipc[B]
      BY <1>2, <1>5, <2>2, <3>1 DEF ReceivesNothing
    <3>2. CASE ipc[B] = Blocked("recv", ep) /\ ipc'[B] = Ready
      <4>1. /\ pc[B] \in Nat /\ pc[B] - 1 \in 1..Len(Programs[config][B])
            /\ Programs[config][B][pc[B] - 1].arg = ep
            /\ Programs[config][B][pc[B] - 1].op = "recv"
        BY <1>1, <1>2, <3>2, ReceiverIn
      <4>2. ~Receives(Programs[config][B][pc[B] - 1])
        BY <4>1 DEF Receives
      <4>3. ~Owes(config, (pc[B] - 1) + 1)
        BY <1>2, <4>1, <4>2, NothingOwed
      <4>4. (pc[B] - 1) + 1 = pc[B]
        BY <4>1
      <4>5. ~Owed /\ ~Owed'
        BY <1>2, <1>5, <2>2, <4>3, <4>4 DEF Owed
      <4>6. QED
        BY <1>2, <1>5, <2>2, <3>2, <4>5, BlockedApart DEF ReceivesNothing, Waits
    <3>3. QED
      BY <1>2, <1>6, <2>2, <3>1, <3>2
  <2>3. QED
    BY <2>1, <2>2
<1>9. /\ \A u \in Thread : ipc'[u] = BlockedOnReply => ipc[u] = BlockedOnReply
      /\ ipc[A] = BlockedOnReply => ipc'[A] = BlockedOnReply
  BY <1>2, <1>4, <1>6, BlockedApart
<1>10. QED
  BY <1>1, <1>2, <1>5, <1>6, <1>7, <1>8, <1>9, StaysMatched

\* ... and a receive that is not B's on their own.
LEMMA RecvMatches ==
  ASSUME CInv, NEW t \in Thread, NEW ep \in Endpoint, ~(t = B /\ ep = syn_ep),
         RecvStep(t, ep)
  PROVE  Matched'
<1>1. Inv /\ WaitsWhere /\ Matched /\ TypeOK /\ BlockedWhere
  BY DEF CInv, Inv
<1>2. /\ config \in Config /\ pc \in [Thread -> Nat]
      /\ A \in Thread /\ B \in Thread /\ syn_ep \in Endpoint
  BY <1>1, PlacesAre
<1>3. At(t, "recv") /\ Statement(t).arg = ep /\ Advance(t) /\ Receive(t, ep, ipc)
  BY DEF RecvStep, AtEndpoint
<1>4. /\ pc[t] \in 1..Len(Programs[config][t])
      /\ Programs[config][t][pc[t]].op = "recv" /\ Programs[config][t][pc[t]].arg = ep
      /\ ipc[t] = Ready
  BY <1>1, <1>3, AtProgram
<1>5. /\ config' = config /\ pc'[t] = pc[t] + 1
      /\ \A u \in Thread : u # t => pc'[u] = pc[u]
  BY <1>2, <1>3 DEF Advance
<1>6. /\ ipc = [u \in Thread |-> ipc[u]] /\ caller = [u \in Thread |-> caller[u]]
  BY <1>1 DEF TypeOK
<1>7. ep = syn_ep => t = A
  BY <1>2, <1>4, OnlyBListens
<1>8. ASSUME NEW o \in {"send", "call"}, NEW s \in Waiting(o, ep)
      PROVE  s \in Thread /\ s # t /\ o = "send" /\ ep # syn_ep /\ ipc[s] = Blocked(o, ep)
  <2>1. s \in Thread /\ ipc[s] = Blocked(o, ep)
    BY DEF Waiting
  <2>2. s # t
    BY <1>4, <1>8, <2>1, BlockedApart
  <2>3. /\ pc[s] - 1 \in 1..Len(Programs[config][s])
        /\ Programs[config][s][pc[s] - 1].op = o
        /\ Programs[config][s][pc[s] - 1].arg = ep
    BY <1>1, <2>1, BlockedIn
  <2>4. (ep = syn_ep => s = A) /\ (o = "call" => s = A /\ ep = syn_ep)
    BY <1>2, <1>8, <2>1, <2>3, OnlyASends
  <2>5. QED
    BY <1>7, <1>8, <2>1, <2>2, <2>4
<1>9. /\ \A u \in Thread : \/ ipc'[u] = ipc[u]
                           \/ u = t /\ ipc'[u] = Blocked("recv", ep)
                           \/ /\ u # t /\ ep # syn_ep
                              /\ ipc[u] = Blocked("send", ep) /\ ipc'[u] = Ready
      /\ \A u \in Thread : u # t => caller'[u] = caller[u]
  <2>1. CASE /\ ipc' = [ipc EXCEPT ![t] = Blocked("recv", ep)]
             /\ caller' = [caller EXCEPT ![t] = NoThread]
    BY <1>6, <2>1
  <2>2. CASE \E s \in Waiting("send", ep) :
               /\ ipc' = [ipc EXCEPT ![s] = Ready]
               /\ caller' = [caller EXCEPT ![t] = NoThread]
    <3>1. PICK s \in Waiting("send", ep) :
               /\ ipc' = [ipc EXCEPT ![s] = Ready]
               /\ caller' = [caller EXCEPT ![t] = NoThread]
      BY <2>2
    <3>2. s \in Thread /\ s # t /\ ep # syn_ep /\ ipc[s] = Blocked("send", ep)
      BY <1>8
    <3>3. QED
      BY <1>6, <3>1, <3>2
  <2>3. Waiting("call", ep) = {}
    BY <1>8
  <2>4. QED
    BY <1>3, <2>1, <2>2, <2>3 DEF Receive
<1>10. SendsNothing
  <2>1. CASE t = A
    <3>1. ipc[A] = Ready /\ ipc'[A] \in {Ready, Blocked("recv", ep)}
      BY <1>2, <1>4, <1>9, <2>1
    <3>2. ~Messages(Programs[config][A][pc[A]])
      BY <1>4, <2>1 DEF Messages
    <3>3. QED
      BY <1>4, <1>5, <2>1, <3>1, <3>2, BlockedApart DEF SendsNothing, Waits
  <2>2. CASE t # A
    <3>1. CASE ipc'[A] = ipc[A]
      BY <1>2, <1>5, <2>2, <3>1 DEF SendsNothing
    <3>2. CASE ep # syn_ep /\ ipc[A] = Blocked("send", ep) /\ ipc'[A] = Ready
      BY <1>2, <1>5, <2>2, <3>2, BlockedApart DEF SendsNothing, Waits
    <3>3. QED
      BY <1>2, <1>9, <2>2, <3>1, <3>2
  <2>3. QED
    BY <2>1, <2>2
<1>11. ReceivesNothing
  <2>1. CASE t = B
    <3>1. ipc[B] = Ready /\ ipc'[B] \in {Ready, Blocked("recv", ep)} /\ ep # syn_ep
      BY <1>2, <1>4, <1>9, <2>1
    <3>2. ~Receives(Programs[config][B][pc[B]])
      BY <1>4, <2>1, <3>1 DEF Receives
    <3>3. ~Owes(config, pc[B]) /\ ~Owes(config, pc[B] + 1)
      BY <1>2, <1>4, <2>1, <3>2, NothingOwed
    <3>4. ~Owed /\ ~Owed'
      BY <1>5, <2>1, <3>3 DEF Owed
    <3>5. QED
      BY <1>4, <1>5, <2>1, <3>1, <3>2, <3>4, BlockedApart DEF ReceivesNothing, Waits
  <2>2. CASE t # B
    <3>1. CASE ipc'[B] = ipc[B]
      BY <1>2, <1>5, <2>2, <3>1 DEF ReceivesNothing
    <3>2. CASE ep # syn_ep /\ ipc[B] = Blocked("send", ep) /\ ipc'[B] = Ready
      <4>1. /\ pc[B] \in Nat /\ pc[B] - 1 \in 1..Len(Programs[config][B])
            /\ Programs[config][B][pc[B] - 1].arg = ep
            /\ Programs[config][B][pc[B] - 1].op = "send"
        BY <1>1, <1>2, <3>2, BlockedIn DEF Waiting
      <4>2. ~Receives(Programs[config][B][pc[B] - 1])
        BY <4>1 DEF Receives
      <4>3. ~Owes(config, (pc[B] - 1) + 1)
        BY <1>2, <4>1, <4>2, NothingOwed
      <4>4. (pc[B] - 1) + 1 = pc[B]
        BY <4>1
      <4>5. ~Owed /\ ~Owed'
        BY <1>2, <1>5, <2>2, <4>3, <4>4 DEF Owed
      <4>6. QED
        BY <1>2, <1>5, <2>2, <3>2, <4>5, BlockedApart DEF ReceivesNothing, Waits
    <3>3. QED
      BY <1>2, <1>9, <2>2, <3>1, <3>2
  <2>3. QED
    BY <2>1, <2>2
<1>12. /\ \A u \in Thread : ipc'[u] = BlockedOnReply => ipc[u] = BlockedOnReply
       /\ ipc[A] = BlockedOnReply => ipc'[A] = BlockedOnReply
  BY <1>2, <1>4, <1>9, BlockedApart
<1>13. ipc[A] = BlockedOnReply => caller'[B] = caller[B]
  <2>1. CASE t = B
    <3>1. ~Owes(config, pc[B])
      BY <1>2, <1>4, <2>1, NothingOwed
    <3>2. QED
      BY <1>1, <3>1 DEF Matched
  <2>2. CASE t # B
    BY <1>2, <1>9, <2>2
  <2>3. QED
    BY <2>1, <2>2
<1>14. QED
  BY <1>1, <1>2, <1>5, <1>10, <1>11, <1>12, <1>13, StaysMatched

-----------------------------------------------------------------------------
(* Steps in which A's message meets B's receive *)

\* The message is handed over: B owes a reply exactly when it was a call.
LEMMA MessageHandedOver ==
  ASSUME Inv, WaitsWhere, config' = config,
         NEW j \in 1..Len(Programs[config][A]), NEW k \in 1..Len(Programs[config][B]),
         InStep(config, j, k),
         Messages(Programs[config][A][j]), Receives(Programs[config][B][k]),
         pc'[A] = j + 1, pc'[B] = k + 1, ipc'[B] = Ready,
         \/ Programs[config][A][j].op = "send" /\ ipc'[A] = Ready
         \/ /\ Programs[config][A][j].op = "call"
            /\ ipc'[A] = BlockedOnReply /\ caller'[B] = A,
         \A u \in Thread : ipc'[u] = BlockedOnReply => u = A
  PROVE  Matched'
<1>1. config \in Config /\ A \in Thread
  BY PlacesAre
<1>2. BothStep(config)
  BY <1>1, ProtocolKept DEF Protocol
<1>3. /\ InStep(config, j + 1, k + 1)
      /\ Programs[config][A][j].op = "call" <=> Owes(config, k + 1)
  BY <1>2 DEF BothStep
<1>4. ~Waits(A, "send")' /\ ~Waits(A, "call")' /\ ~Waits(B, "recv")'
  BY BlockedApart DEF Waits
<1>5. PlaceOfA' = j + 1 /\ PlaceOfB' = k + 1
  BY <1>4 DEF PlaceOfA, PlaceOfB
<1>6. ipc'[A] = BlockedOnReply <=> Owes(config, k + 1)
  BY <1>3, BlockedApart
<1>7. \A u \in Thread : ipc'[u] = BlockedOnReply => u = A /\ caller'[B] = A
  BY BlockedApart
<1>8. QED
  BY <1>3, <1>5, <1>6, <1>7 DEF Matched

\* One of the two has come and waits for the other.
LEMMA WaitsForPeer ==
  ASSUME Matched, config' = config, ipc'[A] # BlockedOnReply, ~Owed',
         \A u \in Thread : u # A => ipc'[u] # BlockedOnReply,
         PlaceOfA' = PlaceOfA, PlaceOfB' = PlaceOfB
  PROVE  Matched'
BY DEF Matched, Owed

\* A's send or call to B.
LEMMA MessageMatches ==
  ASSUME CInv, SendStep(A, syn_ep) \/ CallStep(A, syn_ep)
  PROVE  Matched'
<1>1. Inv /\ WaitsWhere /\ Matched /\ TypeOK
  BY DEF CInv, Inv
<1>2. /\ config \in Config /\ pc \in [Thread -> Nat]
      /\ A \in Thread /\ B \in Thread /\ syn_ep \in Endpoint /\ A # B
      /\ Thread = {Root, A, B}
  BY <1>1, PlacesAre, BenchmarksAssumption
<1>3. PICK op \in {"send", "call"} :
        /\ At(A, op) /\ Statement(A).arg = syn_ep /\ Advance(A)
        /\ op = "send" => SendStep(A, syn_ep)
        /\ op = "call" => CallStep(A, syn_ep)
  BY DEF SendStep, CallStep, AtEndpoint
<1>4. /\ pc[A] \in 1..Len(Programs[config][A])
      /\ Programs[config][A][pc[A]].op = op
      /\ Programs[config][A][pc[A]].arg = syn_ep
      /\ ipc[A] = Ready
  BY <1>1, <1>2, <1>3, AtProgram
<1>5. /\ config' = config /\ pc'[A] = pc[A] + 1 /\ pc'[B] = pc[B]
  BY <1>2, <1>3 DEF Advance
<1>6. ipc = [u \in Thread |-> ipc[u]] /\ caller = [u \in Thread |-> caller[u]]
  BY <1>1 DEF TypeOK
<1>7. \A u \in Thread : ipc[u] # BlockedOnReply
  BY <1>1, <1>4, BlockedApart DEF Matched
<1>8. PlaceOfA = pc[A]
  BY <1>4, BlockedApart DEF PlaceOfA, Waits
<1>9. CASE Waiting("recv", syn_ep) = {}
  <2>1. ipc' = [ipc EXCEPT ![A] = Blocked(op, syn_ep)]
    BY <1>3, <1>9 DEF SendStep, CallStep, SendTransfer
  <2>2. ipc'[A] = Blocked(op, syn_ep) /\ \A u \in Thread : u # A => ipc'[u] = ipc[u]
    BY <1>2, <1>6, <2>1
  <2>3. PlaceOfA' = pc[A]
    BY <1>2, <1>5, <2>2 DEF PlaceOfA, Waits
  <2>4. PlaceOfB' = PlaceOfB
    BY <1>2, <1>5, <2>2 DEF PlaceOfB, Waits
  <2>5. ~Owed
    BY <1>1, <1>2, <1>7 DEF Matched, Owed
  <2>6. ~Owed'
    BY <1>2, <1>5, <2>2, <2>5 DEF Owed
  <2>7. QED
    BY <1>1, <1>5, <1>7, <1>8, <2>2, <2>3, <2>4, <2>6, BlockedApart, WaitsForPeer
<1>10. CASE Waiting("recv", syn_ep) # {}
  <2>1. PICK r \in Waiting("recv", syn_ep) :
          /\ op = "send" => ipc' = [ipc EXCEPT ![r] = Ready]
          /\ op = "call" => /\ ipc' = [ipc EXCEPT ![r] = Ready, ![A] = BlockedOnReply]
                            /\ caller' = [caller EXCEPT ![r] = A]
    BY <1>3, <1>10 DEF SendStep, CallStep, SendTransfer
  <2>2. r \in Thread /\ ipc[r] = Blocked("recv", syn_ep)
    BY DEF Waiting
  <2>3. /\ pc[r] \in Nat /\ pc[r] - 1 \in 1..Len(Programs[config][r])
        /\ Programs[config][r][pc[r] - 1].op \in {"recv", "replyRecv"}
        /\ Programs[config][r][pc[r] - 1].arg = syn_ep
    BY <1>1, <1>2, <2>2, ReceiverIn
  <2>4. r = B
    <3>1. r # A
      BY <1>4, <2>2, BlockedApart
    <3>2. QED
      BY <1>2, <2>2, <2>3, <3>1, OnlyBListens
  <2> DEFINE k == pc[B] - 1
  <2>5. k \in 1..Len(Programs[config][B]) /\ pc'[B] = k + 1 /\ PlaceOfB = k
    BY <1>5, <2>2, <2>3, <2>4 DEF PlaceOfB, Waits
  <2>6. Receives(Programs[config][B][k])
    BY <2>3, <2>4 DEF Receives
  <2> HIDE DEF k
  <2>7. Messages(Programs[config][A][pc[A]])
    BY <1>4 DEF Messages
  <2>8. InStep(config, pc[A], k)
    BY <1>1, <1>8, <2>5 DEF Matched
  <2>9. /\ ipc'[B] = Ready /\ \A u \in Thread : u # A => ipc'[u] # BlockedOnReply
        /\ op = "send" => ipc'[A] = Ready
        /\ op = "call" => ipc'[A] = BlockedOnReply /\ caller'[B] = A
    BY <1>2, <1>4, <1>6, <1>7, <2>1, <2>4, BlockedApart
  <2>10. QED
    BY <1>1, <1>4, <1>5, <2>5, <2>6, <2>7, <2>8, <2>9, MessageHandedOver
<1>11. QED
  BY <1>9, <1>10

\* B's receive.
LEMMA AnswerMatches ==
  ASSUME CInv, RecvStep(B, syn_ep)
  PROVE  Matched'
<1>1. Inv /\ WaitsWhere /\ Matched /\ TypeOK /\ BlockedWhere
  BY DEF CInv, Inv
<1>2. /\ config \in Config /\ pc \in [Thread -> Nat]
      /\ A \in Thread /\ B \in Thread /\ syn_ep \in Endpoint /\ A # B
  BY <1>1, PlacesAre, BenchmarksAssumption
<1>3. /\ At(B, "recv") /\ Statement(B).arg = syn_ep /\ Advance(B)
      /\ Receive(B, syn_ep, ipc)
  BY DEF RecvStep, AtEndpoint
<1>4. /\ pc[B] \in 1..Len(Programs[config][B])
      /\ Programs[config][B][pc[B]].op = "recv"
      /\ Programs[config][B][pc[B]].arg = syn_ep
      /\ ipc[B] = Ready
  BY <1>1, <1>2, <1>3, AtProgram
<1>5. /\ config' = config /\ pc'[B] = pc[B] + 1 /\ pc'[A] = pc[A]
  BY <1>2, <1>3 DEF Advance
<1>6. ipc = [u \in Thread |-> ipc[u]] /\ caller = [u \in Thread |-> caller[u]]
  BY <1>1 DEF TypeOK
<1>7. \A u \in Thread : ipc[u] # BlockedOnReply
  <2>1. ~Owes(config, pc[B])
    BY <1>2, <1>4, NothingOwed
  <2>2. QED
    BY <1>1, <2>1 DEF Matched
<1>8. PlaceOfB = pc[B]
  BY <1>4, BlockedApart DEF PlaceOfB, Waits
<1>9. CASE ipc' = [ipc EXCEPT ![B] = Blocked("recv", syn_ep)]
  <2>1. ipc'[B] = Blocked("recv", syn_ep) /\ \A u \in Thread : u # B => ipc'[u] = ipc[u]
    BY <1>2, <1>6, <1>9
  <2>2. PlaceOfB' = pc[B]
    BY <1>2, <1>5, <2>1 DEF PlaceOfB, Waits
  <2>3. PlaceOfA' = PlaceOfA
    BY <1>2, <1>5, <2>1 DEF PlaceOfA, Waits
  <2>4. ~Owed' /\ \A u \in Thread : ipc'[u] # BlockedOnReply
    BY <1>2, <1>7, <2>1, BlockedApart DEF Owed
  <2>5. QED
    BY <1>1, <1>2, <1>5, <1>8, <2>2, <2>3, <2>4, WaitsForPeer
<1>10. ASSUME NEW op \in {"send", "call"}, NEW s \in Waiting(op, syn_ep),
              op = "send" => ipc' = [ipc EXCEPT ![s] = Ready],
              op = "call" => /\ ipc' = [ipc EXCEPT ![s] = BlockedOnReply]
                             /\ caller' = [caller EXCEPT ![B] = s]
       PROVE  Matched'
  <2>1. s \in Thread /\ ipc[s] = Blocked(op, syn_ep)
    BY DEF Waiting
  <2>2. /\ pc[s] \in Nat /\ pc[s] - 1 \in 1..Len(Programs[config][s])
        /\ Programs[config][s][pc[s] - 1].op = op
        /\ Programs[config][s][pc[s] - 1].arg = syn_ep
    BY <1>1, <1>2, <2>1, BlockedIn
  <2>3. s = A
    BY <1>2, <2>1, <2>2, OnlyASends
  <2> DEFINE j == pc[A] - 1
  <2>4. j \in 1..Len(Programs[config][A]) /\ pc'[A] = j + 1 /\ PlaceOfA = j
    BY <1>5, <2>1, <2>2, <2>3 DEF PlaceOfA, Waits
  <2>5. Messages(Programs[config][A][j]) /\ Programs[config][A][j].op = op
    BY <2>2, <2>3 DEF Messages
  <2> HIDE DEF j
  <2>6. Receives(Programs[config][B][pc[B]])
    BY <1>4 DEF Receives
  <2>7. InStep(config, j, pc[B])
    BY <1>1, <1>8, <2>4 DEF Matched
  <2>8. /\ ipc'[B] = Ready /\ \A u \in Thread : u # A => ipc'[u] # BlockedOnReply
        /\ op = "send" => ipc'[A] = Ready
        /\ op = "call" => ipc'[A] = BlockedOnReply /\ caller'[B] = A
    BY <1>2, <1>4, <1>6, <1>7, <1>10, <2>3, BlockedApart
  <2>9. QED
    BY <1>1, <1>4, <1>5, <2>4, <2>5, <2>6, <2>7, <2>8, MessageHandedOver
<1>11. QED
  BY <1>3, <1>9, <1>10 DEF Receive

\* B's reply: A waits for it, so nobody waits to be received.
LEMMA ReplyMatches ==
  ASSUME CInv, NEW t \in Thread, NEW ep \in Endpoint, ReplyRecvStep(t, ep)
  PROVE  Matched'
<1>1. Inv /\ WaitsWhere /\ Matched /\ TypeOK /\ BlockedWhere
  BY DEF CInv, Inv
<1>2. /\ config \in Config /\ pc \in [Thread -> Nat]
      /\ A \in Thread /\ B \in Thread /\ A # B /\ NoThread \notin Thread
  BY <1>1, PlacesAre, BenchmarksAssumption
<1>3. At(t, "replyRecv") /\ Statement(t).arg = ep /\ Advance(t)
  BY DEF ReplyRecvStep, AtEndpoint
<1>4. /\ pc[t] \in 1..Len(Programs[config][t])
      /\ Programs[config][t][pc[t]].op = "replyRecv"
      /\ Programs[config][t][pc[t]].arg = ep /\ ipc[t] = Ready
  BY <1>1, <1>3, AtProgram
<1>5. t = B /\ ep = syn_ep
  BY <1>2, <1>4, Says
<1>6. /\ config' = config /\ pc'[B] = pc[B] + 1 /\ pc'[A] = pc[A]
  BY <1>2, <1>3, <1>5 DEF Advance
<1>7. Owes(config, pc[B])
  <2>1. BOwes(config)
    BY <1>2, ProtocolKept DEF Protocol
  <2>2. QED
    BY <1>4, <1>5, <2>1 DEF BOwes
<1>8. ipc[A] = BlockedOnReply /\ caller[B] = A
  BY <1>1, <1>2, <1>4, <1>5, <1>7 DEF Matched
<1>9. Waiting("send", ep) \cup Waiting("call", ep) = {}
  <2>1. ASSUME NEW o \in {"send", "call"}, NEW s \in Waiting(o, ep)
        PROVE  FALSE
    <3>1. s \in Thread /\ ipc[s] = Blocked(o, ep)
      BY DEF Waiting
    <3>2. /\ pc[s] - 1 \in 1..Len(Programs[config][s])
          /\ Programs[config][s][pc[s] - 1].op = o
          /\ Programs[config][s][pc[s] - 1].arg = ep
      BY <1>1, <3>1, BlockedIn
    <3>3. s = A
      BY <1>2, <1>5, <3>1, <3>2, OnlyASends
    <3>4. QED
      BY <1>8, <3>1, <3>3, BlockedApart
  <2>2. QED
    BY <2>1
<1>10. ipc' = [[ipc EXCEPT ![A] = Ready] EXCEPT ![B] = Blocked("recv", ep)]
  <2>1. Receive(B, ep, [ipc EXCEPT ![A] = Ready])
    BY <1>2, <1>5, <1>8 DEF ReplyRecvStep
  <2>2. QED
    BY <1>9, <2>1 DEF Receive
<1>11. /\ ipc'[A] = Ready /\ ipc'[B] = Blocked("recv", syn_ep)
       /\ \A u \in Thread : u \notin {A, B} => ipc'[u] = ipc[u]
  <2>1. ipc = [u \in Thread |-> ipc[u]]
    BY <1>1 DEF TypeOK
  <2>2. QED
    BY <1>2, <1>5, <1>10, <2>1
<1>12. \A u \in Thread : ipc'[u] # BlockedOnReply
  BY <1>1, <1>2, <1>11, BlockedApart DEF Matched
<1>13. ~Owed'
  BY <1>11, BlockedApart DEF Owed
<1>14. PlaceOfA' = PlaceOfA
  BY <1>6, <1>8, <1>11, BlockedApart DEF PlaceOfA, Waits
<1>15. PlaceOfB' = PlaceOfB
  BY <1>2, <1>4, <1>5, <1>6, <1>11, BlockedApart DEF PlaceOfB, Waits
<1>16. QED
  BY <1>1, <1>2, <1>6, <1>12, <1>13, <1>14, <1>15, WaitsForPeer

-----------------------------------------------------------------------------
\* Every step keeps A and B in step.
LEMMA StepMatched ==
  ASSUME CInv, NEW t \in Thread, Step(t)
  PROVE  Matched'
<1>1. TypeOK /\ config \in Config /\ B \in Thread
  BY PlacesAre DEF CInv, Inv
<1>2. ASSUME NEW ep \in Endpoint, SendStep(t, ep)
      PROVE  Matched'
  <2>1. CASE ep # syn_ep
    BY <1>2, <2>1, SendMatches
  <2>2. CASE ep = syn_ep
    <3>1. At(t, "send") /\ Statement(t).arg = ep
      BY <1>2 DEF SendStep, AtEndpoint
    <3>2. /\ pc[t] \in 1..Len(Programs[config][t])
          /\ Programs[config][t][pc[t]].op = "send"
          /\ Programs[config][t][pc[t]].arg = syn_ep
      BY <1>1, <2>2, <3>1, AtProgram
    <3>3. t = A
      BY <1>1, <3>2, OnlyASends
    <3>4. QED
      BY <1>2, <2>2, <3>3, MessageMatches
  <2>3. QED
    BY <2>1, <2>2
<1>3. ASSUME NEW ep \in Endpoint, CallStep(t, ep)
      PROVE  Matched'
  <2>1. At(t, "call") /\ Statement(t).arg = ep
    BY <1>3 DEF CallStep, AtEndpoint
  <2>2. /\ pc[t] \in 1..Len(Programs[config][t])
        /\ Programs[config][t][pc[t]].op = "call"
        /\ Programs[config][t][pc[t]].arg = ep
    BY <1>1, <2>1, AtProgram
  <2>3. t = A /\ ep = syn_ep
    BY <1>1, <2>2, Says
  <2>4. QED
    BY <1>3, <2>3, MessageMatches
<1>4. ASSUME NEW ep \in Endpoint, RecvStep(t, ep)
      PROVE  Matched'
  BY <1>4, RecvMatches, AnswerMatches
<1>5. ASSUME NEW ep \in Endpoint, ReplyRecvStep(t, ep)
      PROVE  Matched'
  BY <1>5, ReplyMatches
<1>6. ASSUME UNCHANGED messageVars, NEW op, At(t, op),
             op \notin {"send", "call", "recv", "replyRecv"}
      PROVE  Matched'
  BY <1>6, QuietMatches
<1>7. QED
  BY <1>2, <1>3, <1>4, <1>5, <1>6, StepsApart

\* They start in step.
LEMMA InitMatched ==
  ASSUME Init
  PROVE  WaitsWhere /\ Matched
<1>1. /\ config \in Config /\ A \in Thread /\ B \in Thread
      /\ pc[A] = 1 /\ pc[B] = 1 /\ \A u \in Thread : ipc[u] = Ready
      /\ Runs \in Nat /\ Warmups \in Nat
  BY BenchmarksAssumption DEF Init
<1>2. WaitsWhere
  BY <1>1, BlockedApart DEF WaitsWhere
<1>3. PlaceOfA = 1 /\ PlaceOfB = 1
  BY <1>1, BlockedApart DEF PlaceOfA, PlaceOfB, Waits
<1>4. IpcInStep(1, 1)
  <2>1. 0 \in 0..Runs /\ 0 \in 0..Warmups /\ 1 = 1 + 0 * (Warmups + 2)
    BY <1>1
  <2>2. QED
    BY <2>1 DEF IpcInStep
<1>5. FuncInStep(1, 1)
  <2>1. 0 \in 0..(Runs + 1) /\ 1 = 2 * 0 + 1
    BY <1>1
  <2>2. QED
    BY <2>1 DEF FuncInStep
<1>6. InStep(config, 1, 1)
  BY <1>4, <1>5 DEF InStep
<1>7. ~Owes(config, 1)
  BY <1>1 DEF Owes
<1>8. QED
  BY <1>1, <1>2, <1>3, <1>6, <1>7, BlockedApart DEF Matched

\* For every number of runs and warmups: where A waits for a reply, B is
\* ready to give it, in every benchmark with messages between the two.
THEOREM StaysInStep == Spec => []CInv
<1>1. Init => CInv
  BY InitHolds, InitMatched DEF CInv
<1>2. CInv /\ [Next]_vars => CInv'
  <2>1. SUFFICES ASSUME CInv, [Next]_vars
                 PROVE  CInv'
    OBVIOUS
  <2>2. Inv'
    BY <2>1, StepHolds DEF CInv
  <2>3. CASE UNCHANGED vars
    <3>1. UNCHANGED <<ipc, caller, config, pc>>
      BY <2>3 DEF vars, messageVars
    <3>2. WaitsWhere'
      BY <2>1, <3>1 DEF CInv, WaitsWhere, Program
    <3>3. Matched'
      BY <2>1, <3>1 DEF CInv, Matched, PlaceOfA, PlaceOfB, Waits
    <3>4. QED
      BY <2>2, <3>2, <3>3 DEF CInv
  <2>4. CASE Next
    <3>1. PICK t \in Thread : Step(t)
      BY <2>4 DEF Next
    <3>2. WaitsWhere' /\ Matched'
      BY <2>1, <3>1, StepWaits, StepMatched DEF CInv
    <3>3. QED
      BY <2>2, <3>2 DEF CInv
  <2>5. QED
    BY <2>1, <2>3, <2>4
<1>3. QED
  BY <1>1, <1>2, PTL DEF Spec

\* So a reply always has a caller, and no caller is forgotten: IPC_RUNS,
\* IPC_WARMUPS and ipc_runs may have any value, as long as the functions of
\* the two threads use the same.
THEOREM RepliesHaveCallers == Spec => []CallsMatchReplies
<1>1. CInv => CallsMatchReplies
  <2>1. SUFFICES ASSUME CInv PROVE CallsMatchReplies
    OBVIOUS
  <2>2. Inv /\ WaitsWhere /\ Matched /\ TypeOK
    BY <2>1 DEF CInv, Inv
  <2>3. config \in Config /\ B \in Thread /\ A \in Thread /\ NoThread \notin Thread
    BY <2>2, PlacesAre, BenchmarksAssumption
  <2>4. ASSUME NEW t \in Thread, At(t, "replyRecv")
        PROVE  caller[t] # NoThread
    <3>1. /\ pc[t] \in 1..Len(Programs[config][t])
          /\ Programs[config][t][pc[t]].op = "replyRecv" /\ ipc[t] = Ready
      BY <2>2, <2>4, AtProgram
    <3>2. t = B
      BY <2>3, <3>1, Says
    <3>3. BOwes(config)
      BY <2>3, ProtocolKept DEF Protocol
    <3>4. Owes(config, pc[B])
      BY <3>1, <3>2, <3>3 DEF BOwes
    <3>5. ipc[A] = BlockedOnReply
      BY <2>2, <3>1, <3>2, <3>4 DEF Matched
    <3>6. QED
      BY <2>2, <2>3, <3>2, <3>5 DEF Matched
  <2>5. \A t \in Thread : ipc[t] = BlockedOnReply => \E u \in Thread : caller[u] = t
    BY <2>2, <2>3 DEF Matched
  <2>6. QED
    BY <2>4, <2>5 DEF CallsMatchReplies
<1>2. QED
  BY <1>1, StaysInStep, PTL
=============================================================================
