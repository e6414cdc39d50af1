-------------------------------- MODULE Sel4 --------------------------------
(***************************************************************************)
(* The scheduler of one core as the benchmarks observe it: priorities,     *)
(* round robin, and the timer tick the covert channels wait for ("a system *)
(* tick").  The kernel is not part of this repository; this module says    *)
(* what the code under src/ relies on.                                     *)
(***************************************************************************)
EXTENDS Endpoints

CONSTANTS
  Root,  \* the root task (apps/manager), above all others in priority
  Idle,  \* not a thread: nothing is runnable
  Slice  \* steps a benchmark thread can take between two timer ticks

ASSUME Sel4Assumption ==
  /\ Root \in Thread
  /\ Idle \notin Thread
  /\ Slice \in Nat \ {0}

VARIABLES
  cur,   \* the thread the core executes, or Idle
  left,  \* steps left until the next timer tick
  away   \* away[t]: t was switched out since it last read the time stamp

kernelVars == <<ipc, cur, left, away>>

Worker == Thread \ {Root}

KernelTypeOK ==
  /\ ipc \in [Thread -> IpcState]
  /\ cur \in Thread \cup {Idle}
  /\ left \in 0..Slice
  /\ away \in [Thread -> BOOLEAN]

\* The core never executes a blocked thread.
CurReady == cur \in Thread => ipc[cur] = Ready

\* The benchmark starts while the root task runs; the others are created
\* but cannot preempt it.  The tick phase is arbitrary.
KernelInit ==
  /\ ipc = [t \in Thread |-> Ready]
  /\ cur = Root
  /\ left \in 1..Slice
  /\ away = [t \in Thread |-> FALSE]

-----------------------------------------------------------------------------
(* Scheduling *)

Runnable == {t \in Thread : ipc[t] = Ready}

\* Who may run when S is runnable: the root task first, else any worker
\* (all workers have priority 100; the kernel version decides whether an
\* unblocked peer of equal priority runs at once), else nobody.
Eligible(S) ==
  IF S = {} THEN {Idle} ELSE IF Root \in S THEN {Root} ELSE S

\* The core goes on with next; the thread it leaves will see a gap in the
\* time stamps.
SwitchTo(next) ==
  /\ cur' = next
  /\ away' = [t \in Thread |-> away[t] \/ (t = cur /\ next # t)]

\* t may execute its next statement: it holds the core and the timer tick
\* has not fired yet.
Runs(t) == cur = t /\ (t # Root => left > 0)

\* A statement of t that is no system call.
Compute(t) ==
  /\ Runs(t)
  /\ left' = IF t = Root THEN left ELSE left - 1
  /\ UNCHANGED <<ipc, cur>>

\* The timer interrupt.  A thread that polls or spins may wait for it with
\* any number of steps left; a thread inside its loop body has used its
\* slice up.  Round robin: another runnable worker runs if there is one.
Tick(spinning) ==
  /\ cur \in Worker
  /\ left = 0 \/ cur \in spinning
  /\ LET others == Runnable \ {cur, Root}
     IN  \E next \in IF others = {} THEN {cur} ELSE others : SwitchTo(next)
  /\ left' = Slice
  /\ UNCHANGED ipc

-----------------------------------------------------------------------------
(* System calls *)

\* After a system call of t the kernel picks who runs; when the root task
\* gives up the core the tick phase is arbitrary.
Reschedule(t) ==
  /\ \E next \in Eligible(Runnable') :
        /\ SwitchTo(next)
        /\ left' \in IF t # Root THEN {left - 1}
                     ELSE IF next = Root THEN {left} ELSE 1..Slice

Send(t, ep) == Runs(t) /\ SendTransfer(t, ep) /\ Reschedule(t)
Recv(t, ep) == Runs(t) /\ RecvTransfer(t, ep) /\ Reschedule(t)
=============================================================================
