----------------------------- MODULE TimerChannel -----------------------------
(***************************************************************************)
(* The channel through timer interrupts (timer_high, timer_low).  HIGH     *)
(* programs its timer in its own time slice so that the interrupt arrives  *)
(* in LOW's; LOW polls the time stamp and records how long it ran between  *)
(* two gaps, whether an interrupt or a change of slice made the gap.       *)
(*                                                                         *)
(* A time unit (a millisecond) is long for a statement: a thread executes  *)
(* all it can, and time passes while it polls.  Slice units make a tick.   *)
(***************************************************************************)
EXTENDS Endpoints

CONSTANTS
  Root, High, Low, Idle,
  t_ep, s_ep, syn_ep,
  Slice,               \* CONFIG_TIMER_TICK_MS
  Signals,             \* the secrets, in time units: SIGNAL_RANGE + 11
  DataPoints, Warmups,
  NoLabel

ASSUME TimerAssumption ==
  /\ Thread = {Root, High, Low}
  /\ Root # High /\ Root # Low /\ High # Low
  /\ Endpoint = {t_ep, s_ep, syn_ep}
  /\ t_ep # s_ep /\ t_ep # syn_ep /\ s_ep # syn_ep
  /\ Idle \notin Thread
  /\ Slice \in Nat \ {0}
  /\ Signals # {} /\ Signals \subseteq (Slice + 1)..(2 * Slice - 1)
  /\ DataPoints \in Nat \ {0} /\ Warmups \in 0..DataPoints
  /\ NoLabel \notin Signals

VARIABLES
  cur,     \* the thread that executes
  pos,     \* time units since the last tick
  timer,   \* time units until the timer fires, 0 when it is off
  badge,   \* the timer's notification is pending
  away,    \* High was switched out since it last read the time stamp
  jump,    \* Low will see a gap at its next read of the time stamp
  ran,     \* prev - start in Low
  pc, i,
  secret,  \* High's secret
  shared,  \* *share_vaddr
  prev_s,  \* Low's prev_s
  rec,     \* Low's record: [sec, online], and whether the phase was right
  printed,
  aligned, \* history variable: High armed the timer at the start of a slice
  phase    \* history variable: aligned, when Low's online time started

clock == <<pos, timer, badge, jump>>
lowVars == <<ran, prev_s, rec, phase>>
highVars == <<secret, shared, aligned>>
vars == <<ipc, cur, clock, away, pc, i, lowVars, highVars, printed>>

Slot == 0..(DataPoints - 1)
Label == Signals \cup {NoLabel}
Sample == [sec: Label, online: 0..Slice, ok: BOOLEAN]

TypeOK ==
  /\ ipc \in [Thread -> IpcState]
  /\ cur \in Thread \cup {Idle}
  /\ pos \in 0..(Slice - 1)
  /\ timer \in 0..(2 * Slice)
  /\ {badge, away, jump, aligned, phase} \subseteq BOOLEAN
  /\ ran \in 0..Slice
  /\ i \in [Thread -> 0..DataPoints]
  /\ secret \in Label /\ shared \in Label /\ prev_s \in Label
  /\ rec \in [Slot -> Sample]
  /\ printed \subseteq Slot \X Sample

Init ==
  /\ ipc = [t \in Thread |-> Ready]
  /\ cur = Root
  /\ pos \in 0..(Slice - 1)
  /\ timer = 0 /\ badge = FALSE
  /\ away = FALSE /\ jump = FALSE
  /\ ran = 0
  /\ pc = [t \in Thread |-> IF t = Root THEN "high"
                          ELSE IF t = High THEN "ready" ELSE "sync"]
  /\ i = [t \in Thread |-> IF t = Root THEN Warmups ELSE 0]
  /\ secret = NoLabel /\ shared = NoLabel /\ prev_s = NoLabel
  /\ rec = [k \in Slot |-> [sec |-> NoLabel, online |-> 0, ok |-> FALSE]]
  /\ printed = {}
  /\ aligned = FALSE /\ phase = FALSE

-----------------------------------------------------------------------------
(* The core *)

Runnable == {t \in Thread : ipc[t] = Ready}

Goto(t, label) == pc' = [pc EXCEPT ![t] = label]
At(t, label) == cur = t /\ ipc[t] = Ready /\ pc[t] = label

\* What High and Low will notice when next gets the core.
SwitchTo(next) ==
  /\ cur' = next
  /\ away' = (away \/ (cur = High /\ next # High))

\* After a system call: the root task if it can run, else any worker.
Reschedule ==
  /\ \E next \in IF Root \in Runnable' THEN {Root}
                 ELSE IF Runnable' = {} THEN {Idle} ELSE Runnable' :
       /\ SwitchTo(next)
       /\ jump' = (jump \/ (cur = Low /\ next # Low))
  /\ UNCHANGED <<pos, timer, badge>>

Local == UNCHANGED <<ipc, cur, clock, away>>

Polls(t) ==
  \/ pc[t] = "wait" /\ ~away
  \/ pc[t] = "poll" /\ ~badge
  \/ pc[t] = "watch" /\ ~jump
  \/ pc[t] = "spin" /\ t # Root

\* A time unit passes while the running thread polls.  The timer's interrupt
\* reaches the notification and is a gap for Low if Low runs; at the end of
\* the slice the tick is one too, and hands over if the peer is runnable.
\* A tick that finds no peer may be too short to be noticed.
PassTime ==
  /\ cur \in {High, Low} /\ Polls(cur)
  /\ timer' = IF timer = 0 THEN 0 ELSE timer - 1
  /\ badge' = (badge \/ timer = 1)
  /\ pos' = (pos + 1) % Slice
  /\ ran' = IF cur = Low /\ pc[Low] = "watch" THEN ran + 1 ELSE ran
  /\ LET others == Runnable \ {cur, Root}
         irq == cur = Low /\ timer = 1
     IN  IF pos' = 0 /\ others # {}
         THEN /\ \E next \in others : SwitchTo(next)
              /\ jump' = (jump \/ cur = Low)
         ELSE /\ UNCHANGED <<cur, away>>
              /\ jump' \in IF pos' = 0 /\ cur = Low THEN {jump \/ irq, TRUE}
                           ELSE {jump \/ irq}
  /\ UNCHANGED <<ipc, pc, i, prev_s, rec, phase, highVars, printed>>

-----------------------------------------------------------------------------
(* HIGH *)

HighReady ==
  /\ At(High, "ready")
  /\ SendTransfer(High, t_ep) /\ Reschedule
  /\ Goto(High, "sync")
  /\ UNCHANGED <<i, lowVars, highVars, printed>>

\* ltimer_reset, then the message to Low.
HighSync ==
  /\ At(High, "sync")
  /\ SendTransfer(High, syn_ep) /\ Reschedule
  /\ Goto(High, "arm")
  /\ UNCHANGED <<i, lowVars, highVars, printed>>

\* Mutant: the secrets exceed two slices, so the interrupt meets HIGH.
HighArmLong ==
  /\ At(High, "arm")
  /\ \E s \in Signals : secret' = s /\ timer' = s + Slice
  /\ aligned' = (pos = 0)
  /\ Goto(High, "publish")
  /\ UNCHANGED <<ipc, cur, pos, badge, jump, away, i, lowVars, shared, printed>>

\* Draw a secret and program the timer with it.
HighArm ==
  /\ At(High, "arm")
  /\ \E s \in Signals : secret' = s /\ timer' = s
  /\ aligned' = (pos = 0)
  /\ Goto(High, "publish")
  /\ UNCHANGED <<ipc, cur, pos, badge, jump, away, i, lowVars, shared, printed>>

\* The word is written once before the loop and once in each round.
HighPublish ==
  /\ At(High, "publish")
  /\ shared' = secret
  /\ Goto(High, IF i[High] < DataPoints THEN "enter" ELSE "end")
  /\ Local
  /\ UNCHANGED <<i, lowVars, secret, aligned, printed>>

\* newTimeSlice: the first read of the time stamp, and the gap.
HighEnter ==
  /\ At(High, "enter")
  /\ away' = FALSE
  /\ Goto(High, "wait")
  /\ UNCHANGED <<ipc, cur, clock, i, lowVars, highVars, printed>>

HighNewSlice ==
  /\ At(High, "wait") /\ away
  /\ Goto(High, "poll")
  /\ Local
  /\ UNCHANGED <<i, lowVars, highVars, printed>>

\* seL4_Poll until the badge is there; handle the interrupt.
HighPoll ==
  /\ At(High, "poll") /\ badge
  /\ badge' = FALSE
  /\ i' = [i EXCEPT ![High] = @ + 1]
  /\ Goto(High, "arm")
  /\ UNCHANGED <<ipc, cur, pos, timer, jump, away, lowVars, highVars, printed>>

\* "waiting on ep never return"
HighEnd ==
  /\ At(High, "end")
  /\ RecvTransfer(High, syn_ep) /\ Reschedule
  /\ Goto(High, "spin")
  /\ UNCHANGED <<i, lowVars, highVars, printed>>

-----------------------------------------------------------------------------
(* LOW *)

LowSync ==
  /\ At(Low, "sync")
  /\ RecvTransfer(Low, syn_ep) /\ Reschedule
  /\ Goto(Low, "start")
  /\ UNCHANGED <<i, lowVars, highVars, printed>>

LowStart ==
  /\ At(Low, "start")
  /\ ran' = 0 /\ jump' = FALSE
  /\ prev_s' = shared /\ phase' = aligned
  /\ Goto(Low, "watch")
  /\ UNCHANGED <<ipc, cur, pos, timer, badge, away, i, rec, highVars, printed>>

\* Mutant: the loop condition is i <= CONFIG_BENCH_DATA_POINTS.
NextSampleOffByOne ==
  /\ i' = [i EXCEPT ![Low] = @ + 1]
  /\ Goto(Low, IF i[Low] < DataPoints THEN "watch" ELSE "done")

NextSample ==
  /\ i' = [i EXCEPT ![Low] = @ + 1]
  /\ Goto(Low, IF i[Low] + 1 < DataPoints THEN "watch" ELSE "done")

\* Mutant: the online time is labelled with the secret read after the gap.
LowRecordCurrent ==
  /\ At(Low, "watch") /\ jump
  /\ rec' = [rec EXCEPT ![i[Low]] =
                [sec |-> shared, online |-> ran, ok |-> phase]]
  /\ prev_s' = shared /\ phase' = aligned
  /\ ran' = 0 /\ jump' = FALSE
  /\ NextSample
  /\ UNCHANGED <<ipc, cur, pos, timer, badge, away, highVars, printed>>

\* A gap of TIMER_DETECT_INTERVAL_NS: record the online time before it.
LowRecord ==
  /\ At(Low, "watch") /\ jump
  /\ rec' = [rec EXCEPT ![i[Low]] =
                [sec |-> prev_s, online |-> ran, ok |-> phase]]
  /\ prev_s' = shared /\ phase' = aligned
  /\ ran' = 0 /\ jump' = FALSE
  /\ NextSample
  /\ UNCHANGED <<ipc, cur, pos, timer, badge, away, highVars, printed>>

\* Mutant: Low reports to its peer.
LowDoneWrongEndpoint ==
  /\ At(Low, "done")
  /\ SendTransfer(Low, syn_ep) /\ Reschedule
  /\ Goto(Low, "spin")
  /\ UNCHANGED <<i, lowVars, highVars, printed>>

\* The result message; the process then halts in main.
LowDone ==
  /\ At(Low, "done")
  /\ SendTransfer(Low, s_ep) /\ Reschedule
  /\ Goto(Low, "spin")
  /\ UNCHANGED <<i, lowVars, highVars, printed>>

-----------------------------------------------------------------------------
(* The root task: run_single_timer *)

RootAwaitHigh ==
  /\ At(Root, "high")
  /\ RecvTransfer(Root, t_ep) /\ Reschedule
  /\ Goto(Root, "low")
  /\ UNCHANGED <<i, lowVars, highVars, printed>>

RootAwaitLow ==
  /\ At(Root, "low")
  /\ RecvTransfer(Root, s_ep) /\ Reschedule
  /\ Goto(Root, "report")
  /\ UNCHANGED <<i, lowVars, highVars, printed>>

RootPrint ==
  /\ At(Root, "report")
  /\ IF i[Root] < DataPoints
     THEN /\ printed' = printed \cup {<<i[Root], rec[i[Root]]>>}
          /\ i' = [i EXCEPT ![Root] = @ + 1]
          /\ UNCHANGED pc
     ELSE Goto(Root, "spin") /\ UNCHANGED <<i, printed>>
  /\ Local
  /\ UNCHANGED <<lowVars, highVars>>

RootSpin == At(Root, "spin") /\ UNCHANGED vars

Next ==
  \/ PassTime
  \/ HighReady \/ HighSync \/ HighArm \/ HighPublish \/ HighEnter
  \/ HighNewSlice \/ HighPoll \/ HighEnd
  \/ LowSync \/ LowStart \/ LowRecord \/ LowDone
  \/ RootAwaitHigh \/ RootAwaitLow \/ RootPrint \/ RootSpin

Spec == Init /\ [][Next]_vars

\* The core always executes; time passes while a thread polls.
FairSpec == Spec /\ WF_vars(Next)

-----------------------------------------------------------------------------
\* Once the phase is right, every line printed carries the secret that
\* determined its online time: the part of Low's slice before the interrupt
\* or the part after it ("prev secret affect online time").
OnlineTime ==
  \A line \in printed :
    line[2].ok => /\ line[2].sec \in Signals
                  /\ line[2].online \in {line[2].sec - Slice,
                                         2 * Slice - line[2].sec}

\* "assuming the interrupt is received while the low is running": when High
\* has once armed the timer at the start of a slice, it always does.
StaysAligned == [][aligned => aligned']_vars

\* Low collects its samples before High stops interrupting it.
Terminates == <>(pc[Root] = "spin")
=============================================================================
