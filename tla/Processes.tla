------------------------------- MODULE Processes -------------------------------
(***************************************************************************)
(* Benchmark processes and kernel images: what the root task gives to a    *)
(* process before it is launched, how the process works out from that what *)
(* it owns, and which kernel it runs on.                                   *)
(*                                                                         *)
(* A process is the record process[t].  Its capabilities are slot numbers, *)
(* laid out as in sel4utils_cspace_layout; frames are the buffers mapped   *)
(* into its address space, known those its own allocator has been told of. *)
(***************************************************************************)
EXTENDS Integers, FiniteSets

CONSTANTS
  Process,      \* the benchmark processes
  Image,        \* the indices of env->kimages
  Master,       \* the kernel image created at bootup
  NoKernel,     \* the kernel of a process that is not there yet
  UntypeCount,  \* CONFIG_BENCH_UNTYPE_COUNT
  TimerCaps,    \* capabilities of the timer objects
  AsidPoolSlot, SchedContextSlot, FirstFreeSlot

ASSUME ProcessesAssumption ==
  /\ {Master, NoKernel} \cap Image = {} /\ Master # NoKernel
  /\ {UntypeCount, TimerCaps, AsidPoolSlot, SchedContextSlot} \subseteq Nat \ {0}
  /\ AsidPoolSlot + 1 < SchedContextSlot
  /\ FirstFreeSlot \in Nat /\ SchedContextSlot + 1 < FirstFreeSlot

VARIABLES
  platform, \* [x86_64 |-> ..., rt |-> ...]: what the layout depends on
  image,    \* image[k]: "none", "cloned" or "destroyed"
  process

processVars == <<platform, image, process>>

Kernel == Image \cup {Master}

\* The slots of the layout that stay empty.
Holes ==
  (IF platform.x86_64 THEN {AsidPoolSlot} ELSE {}) \cup
  (IF platform.rt THEN {} ELSE {SchedContextSlot, SchedContextSlot + 1})

Buffer == {"args", "stack", "shared", "record", "morecore"}

ProcessRecord ==
  [kernel: Kernel \cup {NoKernel}, untype_none: BOOLEAN, running: BOOLEAN,
   caps: SUBSET Nat, next: Nat, first_free: Nat,
   frames: SUBSET Buffer, known: SUBSET Buffer]

NoProcess ==
  [kernel |-> NoKernel, untype_none |-> FALSE, running |-> FALSE, caps |-> {},
   next |-> 0, first_free |-> 0, frames |-> {}, known |-> {}]

ProcessesTypeOK ==
  /\ platform \in [x86_64: BOOLEAN, rt: BOOLEAN]
  /\ image \in [Image -> {"none", "cloned", "destroyed"}]
  /\ process \in [Process -> ProcessRecord]

ProcessesInit ==
  /\ platform \in [x86_64: BOOLEAN, rt: BOOLEAN]
  /\ image = [k \in Image |-> "none"]
  /\ process = [t \in Process |-> NoProcess]

-----------------------------------------------------------------------------
(* Kernel images *)

Live(k) == k = Master \/ (k \in Image /\ image[k] = "cloned")

\* Allocate the image and its memory, give it an ASID, clone the master.
CreateKi(k) ==
  image' = [image EXCEPT ![k] = "cloned"] /\ UNCHANGED <<platform, process>>

\* Revoke and delete; the slot may be empty already.
DestroyKi(k) ==
  image' = [image EXCEPT ![k] = "destroyed"] /\ UNCHANGED <<platform, process>>

\* Mutant: a thread whose kernel is gone is moved to the master kernel.
SetKernelOrMaster(t, k) ==
  /\ process' = [process EXCEPT ![t].kernel = IF Live(k) THEN k ELSE Master]
  /\ UNCHANGED <<platform, image>>

\* The kernel refuses an image that is not cloned, or not any more.
SetKernel(t, k) ==
  /\ process' = [process EXCEPT ![t].kernel = IF Live(k) THEN k ELSE @]
  /\ UNCHANGED <<platform, image>>

-----------------------------------------------------------------------------
(* Creating and launching processes *)

\* p with n more capabilities, in consecutive slots.
WithCaps(p, n) ==
  [p EXCEPT !.caps = @ \cup p.next..(p.next + n - 1), !.next = @ + n]

\* Configure a process on a live kernel and copy ep and r_ep into it.
CreateThread(t, k, untype_none) ==
  /\ Live(k)
  /\ process' = [process EXCEPT ![t] =
       WithCaps([NoProcess EXCEPT !.kernel = k,
                                  !.untype_none = untype_none,
                                  !.frames = {"stack"},
                                  !.caps = 1..(FirstFreeSlot - 1) \ Holes,
                                  !.next = FirstFreeSlot], 2)]
  /\ UNCHANGED <<platform, image>>

CopyCaps(t, n) ==
  /\ process' = [process EXCEPT ![t] = WithCaps(@, n)]
  /\ UNCHANGED <<platform, image>>

MapBuf(t, buffer) ==
  /\ process' = [process EXCEPT ![t].frames = @ \cup {buffer}]
  /\ UNCHANGED <<platform, image>>

MapSharedBuf(owner, share) ==
  /\ process' = [process EXCEPT ![owner].frames = @ \cup {"shared"},
                                ![share].frames = @ \cup {"shared"}]
  /\ UNCHANGED <<platform, image>>

\* Map the page with the arguments, copy the untypeds, unless the process
\* goes without, and start it.
LaunchThread(t) ==
  /\ process' = [process EXCEPT ![t] =
       LET p == IF @.untype_none THEN @ ELSE WithCaps(@, UntypeCount)
       IN  [p EXCEPT !.running = TRUE, !.frames = @ \cup {"args"},
                     !.first_free = IF p.untype_none THEN 0 ELSE p.next]]
  /\ UNCHANGED <<platform, image>>

\* A process executes when it was launched and its kernel still exists.
CanRun(t) == process[t].running /\ Live(process[t].kernel)

-----------------------------------------------------------------------------
(* What a process works out about itself *)

\* Mutant: the pages of the record are not listed.
BenchInitEnvNoRecord(t) ==
  /\ process' = [process EXCEPT ![t].known =
       IF process[t].untype_none THEN {}
       ELSE process[t].frames \cap {"args", "stack", "shared"}]
  /\ UNCHANGED <<platform, image>>

\* init_vspace tells the allocator which frames exist.
BenchInitEnv(t) ==
  /\ process' = [process EXCEPT ![t].known =
       IF process[t].untype_none THEN {}
       ELSE process[t].frames \cap {"args", "stack", "shared", "record"}]
  /\ UNCHANGED <<platform, image>>

get_cap_count(first_free) ==
  first_free - 1 - (IF platform.x86_64 THEN 1 ELSE 0)
                 - (IF platform.rt THEN 0 ELSE 2)

\* Mutant: the hole of the ASID pool is introduced one slot late.
get_nth_cap_late(n) ==
  LET m == n + 1
      a == IF platform.x86_64 /\ m > AsidPoolSlot THEN m + 1 ELSE m
  IN  IF ~platform.rt /\ a >= SchedContextSlot THEN a + 2 ELSE a

get_nth_cap(n) ==
  LET m == n + 1
      a == IF platform.x86_64 /\ m >= AsidPoolSlot THEN m + 1 ELSE m
  IN  IF ~platform.rt /\ a >= SchedContextSlot THEN a + 2 ELSE a

\* The capabilities a process finds if it enumerates them.
CapsFound(first_free) ==
  {get_nth_cap(n) : n \in 0..(get_cap_count(first_free) - 1)}

\* A process that allocates knows its capabilities, each of them once: the
\* count is derived from first_free alone ("this is the last cap we copy").
CapsExact ==
  \A t \in Process :
    process[t].running /\ ~process[t].untype_none =>
      /\ CapsFound(process[t].first_free) = process[t].caps
      /\ get_cap_count(process[t].first_free) = Cardinality(process[t].caps)

\* A process that has initialised itself has told its allocator of every buffer
\* mapped to it, but for the morecore area: the root task maps nothing to a
\* process that may be running.
FramesKnown ==
  \A t \in Process :
    process[t].known # {} => process[t].known = process[t].frames \ {"morecore"}

-----------------------------------------------------------------------------
(* The protocol every benchmark's entry point follows: a process is created *)
(* once, gets capabilities and buffers while it does not run, is launched   *)
(* once, and then only its kernel changes.                                  *)

Fresh(t) == process[t].kernel # NoKernel /\ ~process[t].running

Setup ==
  \/ \E k \in Image : CreateKi(k) \/ DestroyKi(k)
  \/ \E t \in Process, k \in Kernel :
       \/ process[t].kernel # NoKernel /\ SetKernel(t, k)
       \/ /\ process[t].kernel = NoKernel
          /\ \E untype_none \in BOOLEAN : CreateThread(t, k, untype_none)
  \/ \E t \in Process :
       /\ Fresh(t)
       /\ \/ \E n \in {1, TimerCaps} : CopyCaps(t, n)
          \/ \E buffer \in {"record", "morecore"} : MapBuf(t, buffer)
          \/ LaunchThread(t)
  \/ \E owner, share \in Process :
       Fresh(owner) /\ Fresh(share) /\ MapSharedBuf(owner, share)
  \/ \E t \in Process : process[t].running /\ BenchInitEnv(t)

SetupSpec == ProcessesInit /\ [][Setup]_processVars

-----------------------------------------------------------------------------
(* The strengthening that makes CapsExact and FramesKnown inductive. *)

\* Slots are filled from the left, and what first_free says stays true.
SlotsInOrder ==
  \A t \in Process :
    /\ process[t].kernel # NoKernel =>
         /\ process[t].next >= FirstFreeSlot
         /\ process[t].caps = 1..(process[t].next - 1) \ Holes
    /\ process[t].running =>
         /\ process[t].kernel # NoKernel
         /\ ~process[t].untype_none => process[t].first_free = process[t].next

\* Only a running process knows frames, and it knows all of them.
FramesOfRunning ==
  \A t \in Process : process[t].known # {} => process[t].running

SetupInv == ProcessesTypeOK /\ SlotsInOrder /\ FramesOfRunning /\ FramesKnown
=============================================================================
