-------------------------- MODULE TimerChannelProofs --------------------------
(***************************************************************************)
(* Proofs about TimerChannel, for every length of a tick, every set of     *)
(* secrets between one and two ticks and every number of data points: once *)
(* HIGH has armed its timer at the start of a slice it always does, and    *)
(* from then on every online time LOW records is the part of its slice     *)
(* before the interrupt, or the part after it, of the secret it is         *)
(* labelled with.                                                          *)
(***************************************************************************)
EXTENDS TimerChannel, TLAPS

IsReady(t, label) == pc[t] = label /\ ipc[t] = Ready
IsBlocked(t, label, op, ep) == pc[t] = label /\ ipc[t] = Blocked(op, ep)
HighAt(S) == pc[High] \in S
LowAt(S) == pc[Low] \in S
RootWaits == IsBlocked(Root, "report", "recv", s_ep)
Count(b) == IF b THEN 1 ELSE 0

\* A sample labelled with the secret that determined its online time.
Right(sec, online) ==
  sec \in Signals /\ online \in {sec - Slice, 2 * Slice - sec}

-----------------------------------------------------------------------------
(* The stages *)

LowUnsynced == IsReady(Low, "sync") \/ IsBlocked(Low, "start", "recv", syn_ep)

\* No round has begun.
Handshaking ==
  /\ i[High] = 0 /\ i[Low] = 0
  /\ timer = 0 /\ ~badge /\ ~aligned /\ ~phase /\ ran = 0
  /\ \/ IsReady(Root, "high") /\ IsReady(High, "ready") /\ LowUnsynced
     \/ IsBlocked(Root, "low", "recv", t_ep) /\ IsReady(High, "ready") /\ LowUnsynced
     \/ IsReady(Root, "low") /\ IsReady(High, "sync") /\ LowUnsynced
     \/ RootWaits /\ IsReady(High, "sync") /\ LowUnsynced
     \/ RootWaits /\ IsBlocked(High, "arm", "send", syn_ep) /\ IsReady(Low, "sync")

\* Both workers are in their loops, and the root task waits for the result.
Measuring ==
  /\ RootWaits /\ ipc[High] = Ready /\ ipc[Low] = Ready
  /\ HighAt({"arm", "publish", "enter", "wait", "poll", "end"})
  /\ LowAt({"start", "watch", "done"})

\* HIGH has stopped.
HighGone ==
  /\ RootWaits /\ IsBlocked(High, "spin", "recv", syn_ep) /\ ipc[Low] = Ready
  /\ LowAt({"watch", "done"})

\* The root task has the result and keeps the core.
Finished == pc[Root] \in {"report", "spin"} /\ ipc[Root] = Ready

Stage == Handshaking \/ Measuring \/ HighGone \/ Finished

-----------------------------------------------------------------------------
(* The clocks *)

\* HIGH's timer, and its distance from the end of HIGH's next slice: what is
\* armed in a slice fires before that one ends.
HighClock ==
  /\ HighAt({"arm"}) => timer = 0 /\ ~badge /\ (aligned => pos = 0)
  /\ HighAt({"publish", "enter", "end"}) =>
       /\ timer = secret /\ secret \in Signals /\ ~badge /\ (aligned => pos = 0)
       /\ ~HighAt({"publish"}) => shared = secret
  /\ HighAt({"wait", "poll"}) =>
       /\ secret \in Signals /\ shared = secret /\ (badge <=> timer = 0)
  /\ HighAt({"wait"}) /\ ~away =>
       /\ timer > 0 => timer + pos <= 3 * Slice - 2
       /\ aligned => timer = secret - pos
  /\ (HighAt({"wait"}) /\ away) \/ HighAt({"poll"}) =>
       /\ timer > 0 => timer + pos <= Slice - 2
       /\ aligned => pos = 0 /\ badge

\* LOW has a sample to record; the label is that of the interrupt that limited
\* its online time.
SamplePending ==
  /\ pc[Low] = "watch" /\ jump
  /\ phase => Right(prev_s, ran)

\* LOW has recorded at least once for each of HIGH's rounds, and once more when
\* the interrupt came in its slice.
HighsTurn ==
  /\ HighClock
  /\ pc[Low] = "start" \/ SamplePending
  /\ IF (HighAt({"wait"}) /\ away) \/ HighAt({"poll"})
     THEN pc[Low] = "watch" /\ i[Low] >= i[High] + Count(phase)
     ELSE i[Low] + 1 >= i[High] + Count(phase)

\* LOW has the core before HIGH has begun.
LowFirst ==
  /\ HighAt({"arm"}) /\ i[High] = 0 /\ timer = 0 /\ ~badge /\ ~aligned
  /\ LowAt({"start", "watch"})
  /\ pc[Low] = "watch" => ~jump

\* LOW's slice while HIGH waits.  Before it runs LOW records the gap that HIGH's
\* slice made; the interrupt comes secret - Slice after that.
LowsRound ==
  /\ HighAt({"wait"}) /\ away /\ secret \in Signals /\ shared = secret
  /\ badge <=> timer = 0
  /\ timer > 0 => timer + pos <= 2 * Slice - 2
  /\ aligned => IF timer = 0 THEN pos >= secret - Slice ELSE timer = secret - Slice - pos
  /\ pc[Low] = "start" \/ jump =>
       /\ i[Low] + 1 >= i[High] + Count(phase)
       /\ aligned => IF timer = 0 THEN pc[Low] = "watch" /\ phase /\ pos = secret - Slice
                     ELSE pos = 0
  /\ LowAt({"watch"}) /\ ~jump =>
       /\ i[Low] >= i[High] + Count(phase /\ badge)
       /\ phase <=> aligned
       /\ aligned => prev_s = secret /\ ran = IF timer = 0 THEN pos - (secret - Slice) ELSE pos

LowsTurn ==
  /\ LowAt({"start", "watch"})
  /\ LowFirst \/ LowsRound
  /\ pc[Low] = "watch" /\ jump => SamplePending
  /\ pc[Low] = "watch" /\ ~jump => ran <= pos

\* Whose slice it is; the peer of a thread that runs has been switched out, or
\* has not begun.
Turns ==
  /\ Measuring /\ cur = High => HighsTurn
  /\ Measuring /\ cur = Low /\ pc[Low] # "done" => LowsTurn
  /\ HighGone /\ pc[Low] # "done" =>
       pc[Low] = "watch" /\ jump /\ ~phase /\ i[Low] = DataPoints - 1

-----------------------------------------------------------------------------
(* The rest *)

\* The core executes somebody, the root task when it can.
OnCore ==
  /\ cur \in Thread /\ ipc[cur] = Ready
  /\ ipc[Root] = Ready => cur = Root

\* The loop indices.
Rounds ==
  /\ HighAt({"enter", "wait", "poll"}) => i[High] < DataPoints
  /\ HighAt({"end"}) => i[High] = DataPoints
  /\ LowAt({"start", "watch"}) => i[Low] < DataPoints
  /\ pc[Low] = "start" => i[High] = 0

\* What LOW has recorded in phase is right, and stays so when it is printed.
Recorded ==
  /\ phase => aligned
  /\ \A k \in Slot : rec[k].ok => Right(rec[k].sec, rec[k].online)

Types == TypeOK /\ pc = [t \in Thread |-> pc[t]]

TimerInv == Types /\ OnCore /\ Stage /\ Rounds /\ Turns /\ Recorded /\ OnlineTime

-----------------------------------------------------------------------------
(* The kernel's operations *)

\* The kinds of blocking differ from each other and from being ready.
LEMMA BlockedDiffers ==
  ASSUME NEW o1, NEW e1, NEW o2, NEW e2
  PROVE  /\ Blocked(o1, e1) # Ready
         /\ Blocked(o1, e1) = Blocked(o2, e2) => o1 = o2 /\ e1 = e2
<1>1. DOMAIN Blocked(o1, e1) = {"op", "ep"} /\ DOMAIN Ready = {"op"}
  BY DEF Blocked, Ready
<1>2. Blocked(o1, e1).op = o1 /\ Blocked(o1, e1).ep = e1
  BY DEF Blocked
<1>3. Blocked(o2, e2).op = o2 /\ Blocked(o2, e2).ep = e2
  BY DEF Blocked
<1> QED
  BY <1>1, <1>2, <1>3

\* The constants, and how blocked states are told apart.
LEMMA Facts ==
  /\ Root \in Thread /\ High \in Thread /\ Low \in Thread
  /\ \A t \in Thread : t = Root \/ t = High \/ t = Low
  /\ Root # High /\ Root # Low /\ High # Low
  /\ t_ep \in Endpoint /\ s_ep \in Endpoint /\ syn_ep \in Endpoint
  /\ t_ep # s_ep /\ t_ep # syn_ep /\ s_ep # syn_ep
  /\ \A o1, e1, o2, e2 :
        /\ Blocked(o1, e1) # Ready
        /\ Blocked(o1, e1) = Blocked(o2, e2) => o1 = o2 /\ e1 = e2
  /\ Slice \in Nat /\ Slice >= 2 /\ DataPoints \in Nat /\ DataPoints >= 1 /\ Warmups \in Nat
  /\ \A s \in Signals : s \in Nat /\ s > Slice /\ s < 2 * Slice
<1>1. Slice \in Nat \ {0} /\ Signals # {} /\ Signals \subseteq (Slice + 1)..(2 * Slice - 1)
  BY TimerAssumption
<1>2. \A s \in Signals : s \in Nat /\ s > Slice /\ s < 2 * Slice
  BY <1>1
<1>3. PICK s \in Signals : TRUE
  BY <1>1
<1>4. Slice >= 2
  BY <1>1, <1>2, <1>3
<1> QED
  BY <1>1, <1>2, <1>4, TimerAssumption, BlockedDiffers

\* A send wakes a receiver or blocks the sender ...
LEMMA SendCases ==
  ASSUME Types, NEW t \in Thread, NEW ep \in Endpoint, SendTransfer(t, ep)
  PROVE  /\ ipc' \in [Thread -> IpcState]
         /\ \/ \E r \in Thread : /\ ipc[r] = Blocked("recv", ep)
                                 /\ ipc' = [ipc EXCEPT ![r] = Ready]
            \/ /\ \A r \in Thread : ipc[r] # Blocked("recv", ep)
               /\ ipc' = [ipc EXCEPT ![t] = Blocked("send", ep)]
<1>1. Ready \in IpcState /\ Blocked("send", ep) \in IpcState
  BY DEF IpcState, Blocked
<1> QED
  BY <1>1 DEF SendTransfer, Waiting, Types, TypeOK

\* ... and a receive releases a sender or blocks the receiver.
LEMMA RecvCases ==
  ASSUME Types, NEW t \in Thread, NEW ep \in Endpoint, RecvTransfer(t, ep)
  PROVE  /\ ipc' \in [Thread -> IpcState]
         /\ \/ \E s \in Thread : /\ ipc[s] = Blocked("send", ep)
                                 /\ ipc' = [ipc EXCEPT ![s] = Ready]
            \/ /\ \A s \in Thread : ipc[s] # Blocked("send", ep)
               /\ ipc' = [ipc EXCEPT ![t] = Blocked("recv", ep)]
<1>1. Ready \in IpcState /\ Blocked("recv", ep) \in IpcState
  BY DEF IpcState, Blocked
<1> QED
  BY <1>1 DEF RecvTransfer, Waiting, Types, TypeOK

\* After a system call the core goes on with the root task or anybody who can
\* run; the clock stands.
LEMMA RescheduleEffect ==
  ASSUME Types, Reschedule, \E u \in Thread : ipc'[u] = Ready
  PROVE  /\ OnCore'
         /\ {away', jump'} \subseteq BOOLEAN
         /\ UNCHANGED <<pos, timer, badge>>
         /\ jump /\ cur # Low => jump'
         /\ ~jump /\ cur # Low => ~jump'
<1>1. Runnable' # {} /\ Runnable' \subseteq Thread
  BY DEF Runnable
<1>2. PICK next \in IF Root \in Runnable' THEN {Root} ELSE Runnable' :
        SwitchTo(next) /\ jump' = (jump \/ (cur = Low /\ next # Low))
  BY <1>1 DEF Reschedule
<1>3. next \in Runnable' /\ (Root \in Runnable' => next = Root)
  BY <1>1, <1>2
<1>4. cur' = next
  BY <1>2 DEF SwitchTo
<1>5. OnCore'
  BY <1>3, <1>4, Facts DEF OnCore, Runnable
<1>6. away' \in BOOLEAN /\ jump' \in BOOLEAN
  BY <1>2 DEF SwitchTo
<1> QED
  BY <1>2, <1>5, <1>6 DEF Reschedule

-----------------------------------------------------------------------------
(* Where the steps of the loops are taken *)

\* HIGH executes its loop only while both measure, in its turn.
LEMMA HighRuns ==
  ASSUME TimerInv, cur = High, HighAt({"arm", "publish", "enter", "wait", "poll", "end"})
  PROVE  Measuring /\ HighsTurn
<1>1. Measuring
  BY Facts DEF TimerInv, OnCore, Stage, Handshaking, HighGone, Finished, IsReady, IsBlocked,
     HighAt
<1> QED
  BY <1>1 DEF TimerInv, Turns

\* LOW executes its loop while both measure, in its turn, or alone.
LEMMA LowRuns ==
  ASSUME TimerInv, cur = Low, LowAt({"start", "watch", "done"})
  PROVE  \/ Measuring /\ (pc[Low] # "done" => LowsTurn)
         \/ /\ HighGone
            /\ pc[Low] # "done" =>
                 pc[Low] = "watch" /\ jump /\ ~phase /\ i[Low] = DataPoints - 1
<1>1. Measuring \/ HighGone
  BY Facts DEF TimerInv, OnCore, Stage, Handshaking, LowUnsynced, Finished, IsReady, IsBlocked,
     LowAt
<1> QED
  BY <1>1 DEF TimerInv, Turns

\* A step in a loop that is no system call keeps the stage.
LEMMA StayMeasuring ==
  ASSUME TimerInv, Measuring, UNCHANGED <<ipc, cur>>, pc'[Root] = pc[Root],
         HighAt({"arm", "publish", "enter", "wait", "poll", "end"})',
         LowAt({"start", "watch", "done"})'
  PROVE  /\ Measuring' /\ Stage' /\ OnCore' /\ ~HighGone'
         /\ cur = High /\ HighsTurn' => Turns'
         /\ cur = Low /\ (LowsTurn' \/ pc'[Low] = "done") => Turns'
<1>1. Measuring' /\ OnCore'
  BY DEF TimerInv, OnCore, Measuring, RootWaits, IsBlocked
<1>2. ~HighGone'
  BY <1>1, Facts DEF Measuring, HighGone, IsBlocked
<1> QED
  BY <1>1, <1>2, Facts DEF Stage, Turns

\* A step that records and prints nothing keeps what is recorded and printed.
LEMMA KeepsRecord ==
  ASSUME TimerInv, UNCHANGED <<phase, rec, printed>>, aligned => aligned'
  PROVE  Recorded' /\ OnlineTime'
BY DEF TimerInv, Recorded, OnlineTime

-----------------------------------------------------------------------------
(* Steps of HIGH *)

\* HIGH draws a secret and arms its timer.
LEMMA HighArmInv ==
  ASSUME TimerInv, HighArm
  PROVE  TimerInv'
<1> USE Facts DEF HighAt, LowAt
<1>1. Measuring /\ HighsTurn /\ cur = High
  BY HighRuns DEF HighArm, At
<1>2. PICK s \in Signals :
        /\ secret' = s /\ timer' = s
        /\ aligned' = (pos = 0)
        /\ pc[High] = "arm" /\ pc' = [pc EXCEPT ![High] = "publish"]
        /\ UNCHANGED <<ipc, cur, pos, badge, jump, away, i, lowVars, shared, printed>>
  BY DEF HighArm, At, Goto
<1>3. /\ pc'[High] = "publish" /\ pc'[Low] = pc[Low] /\ pc'[Root] = pc[Root]
      /\ UNCHANGED <<ran, prev_s, rec, phase>>
  BY <1>2 DEF TimerInv, Types, lowVars
<1>4. timer = 0 /\ ~badge /\ (aligned => pos = 0)
  BY <1>1, <1>2 DEF HighsTurn, HighClock
<1>5. Types'
  BY <1>2, <1>3 DEF TimerInv, Types, TypeOK, Label
<1>6. Rounds'
  BY <1>1, <1>2, <1>3 DEF TimerInv, Rounds, Measuring
<1>7. HighClock'
  BY <1>2, <1>3, <1>4 DEF HighClock
<1>8. HighsTurn'
  BY <1>1, <1>2, <1>3, <1>7 DEF HighsTurn, SamplePending
<1>9. Recorded' /\ OnlineTime'
  BY <1>2, <1>3, <1>4, KeepsRecord
<1> QED
  BY <1>1, <1>2, <1>3, <1>5, <1>6, <1>8, <1>9, StayMeasuring DEF TimerInv, Measuring

\* It publishes the secret ...
LEMMA HighPublishInv ==
  ASSUME TimerInv, HighPublish
  PROVE  TimerInv'
<1> USE Facts DEF HighAt, LowAt
<1>1. Measuring /\ HighsTurn /\ cur = High
  BY HighRuns DEF HighPublish, At
<1>2. /\ shared' = secret /\ pc[High] = "publish"
      /\ pc' = [pc EXCEPT ![High] = IF i[High] < DataPoints THEN "enter" ELSE "end"]
      /\ UNCHANGED <<ipc, cur, pos, timer, badge, jump, away, i, ran, prev_s, rec, phase,
                     secret, aligned, printed>>
  BY DEF HighPublish, At, Goto, Local, clock, lowVars
<1>3. /\ pc'[High] = IF i[High] < DataPoints THEN "enter" ELSE "end"
      /\ pc'[Low] = pc[Low] /\ pc'[Root] = pc[Root]
  BY <1>2 DEF TimerInv, Types
<1>4. Types'
  BY <1>2, <1>3 DEF TimerInv, Types, TypeOK
<1>5. Rounds'
  BY <1>1, <1>2, <1>3 DEF TimerInv, Types, TypeOK, Rounds, Measuring
<1>6. HighClock'
  BY <1>1, <1>2, <1>3 DEF HighsTurn, HighClock
<1>7. HighsTurn'
  BY <1>1, <1>2, <1>3, <1>6 DEF HighsTurn, SamplePending
<1>8. Recorded' /\ OnlineTime'
  BY <1>2, KeepsRecord
<1> QED
  BY <1>1, <1>2, <1>3, <1>4, <1>5, <1>7, <1>8, StayMeasuring DEF TimerInv, Measuring

\* ... and reads the time stamp for the first time.
LEMMA HighEnterInv ==
  ASSUME TimerInv, HighEnter
  PROVE  TimerInv'
<1> USE Facts DEF HighAt, LowAt
<1>1. Measuring /\ HighsTurn /\ cur = High
  BY HighRuns DEF HighEnter, At
<1>2. /\ ~away' /\ away' \in BOOLEAN /\ pc[High] = "enter" /\ pc' = [pc EXCEPT ![High] = "wait"]
      /\ UNCHANGED <<ipc, cur, pos, timer, badge, jump, i, ran, prev_s, rec, phase,
                     secret, shared, aligned, printed>>
  BY DEF HighEnter, At, Goto, clock, lowVars, highVars
<1>3. pc'[High] = "wait" /\ pc'[Low] = pc[Low] /\ pc'[Root] = pc[Root]
  BY <1>2 DEF TimerInv, Types
<1>4. Types'
  BY <1>2, <1>3 DEF TimerInv, Types, TypeOK
<1>5. Rounds'
  BY <1>1, <1>2, <1>3 DEF TimerInv, Rounds, Measuring
<1>6. HighClock'
  <2>1. /\ timer = secret /\ secret \in Signals /\ ~badge /\ (aligned => pos = 0)
        /\ shared = secret
    BY <1>1, <1>2 DEF HighsTurn, HighClock
  <2>2. pos \in Nat /\ pos <= Slice - 1
    BY DEF TimerInv, Types, TypeOK
  <2> QED
    BY <1>2, <1>3, <2>1, <2>2 DEF HighClock
<1>7. HighsTurn'
  BY <1>1, <1>2, <1>3, <1>6 DEF HighsTurn, SamplePending
<1>8. Recorded' /\ OnlineTime'
  BY <1>2, KeepsRecord
<1> QED
  BY <1>1, <1>2, <1>3, <1>4, <1>5, <1>7, <1>8, StayMeasuring DEF TimerInv, Measuring

\* It sees the gap that LOW's slice made ...
LEMMA HighNewSliceInv ==
  ASSUME TimerInv, HighNewSlice
  PROVE  TimerInv'
<1> USE Facts DEF HighAt, LowAt
<1>1. Measuring /\ HighsTurn /\ cur = High
  BY HighRuns DEF HighNewSlice, At
<1>2. /\ away /\ pc[High] = "wait" /\ pc' = [pc EXCEPT ![High] = "poll"]
      /\ UNCHANGED <<ipc, cur, pos, timer, badge, jump, away, i, ran, prev_s, rec, phase,
                     secret, shared, aligned, printed>>
  BY DEF HighNewSlice, At, Goto, Local, clock, lowVars, highVars
<1>3. pc'[High] = "poll" /\ pc'[Low] = pc[Low] /\ pc'[Root] = pc[Root]
  BY <1>2 DEF TimerInv, Types
<1>4. Types'
  BY <1>2, <1>3 DEF TimerInv, Types, TypeOK
<1>5. Rounds'
  BY <1>1, <1>2, <1>3 DEF TimerInv, Rounds, Measuring
<1>6. HighClock'
  BY <1>1, <1>2, <1>3 DEF HighsTurn, HighClock
<1>7. HighsTurn'
  BY <1>1, <1>2, <1>3, <1>6 DEF HighsTurn, SamplePending
<1>8. Recorded' /\ OnlineTime'
  BY <1>2, KeepsRecord
<1> QED
  BY <1>1, <1>2, <1>3, <1>4, <1>5, <1>7, <1>8, StayMeasuring DEF TimerInv, Measuring

\* ... and takes the interrupt.
LEMMA HighPollInv ==
  ASSUME TimerInv, HighPoll
  PROVE  TimerInv'
<1> USE Facts DEF HighAt, LowAt
<1>1. Measuring /\ HighsTurn /\ cur = High
  BY HighRuns DEF HighPoll, At
<1>2. /\ badge /\ ~badge' /\ badge' \in BOOLEAN /\ pc[High] = "poll"
      /\ pc' = [pc EXCEPT ![High] = "arm"] /\ i' = [i EXCEPT ![High] = @ + 1]
      /\ UNCHANGED <<ipc, cur, pos, timer, jump, away, ran, prev_s, rec, phase,
                     secret, shared, aligned, printed>>
  BY DEF HighPoll, At, Goto, clock, lowVars, highVars
<1>3. /\ pc'[High] = "arm" /\ pc'[Low] = pc[Low] /\ pc'[Root] = pc[Root]
      /\ i'[High] = i[High] + 1 /\ i'[Low] = i[Low] /\ i[High] \in Nat /\ i[Low] \in Nat
  BY <1>2 DEF TimerInv, Types, TypeOK
<1>4. pc[Low] = "watch" /\ i[Low] >= i[High] + Count(phase) /\ timer = 0
      /\ (aligned => pos = 0)
  BY <1>1, <1>2 DEF HighsTurn, HighClock
<1>5. Types'
  <2>1. i[High] < DataPoints
    BY <1>2 DEF TimerInv, Rounds
  <2> QED
    BY <1>2, <1>3, <2>1 DEF TimerInv, Types, TypeOK
<1>6. Rounds'
  BY <1>1, <1>2, <1>3, <1>4 DEF TimerInv, Rounds, Measuring
<1>7. HighClock'
  BY <1>2, <1>3, <1>4 DEF HighClock
<1>8. HighsTurn'
  BY <1>1, <1>2, <1>3, <1>4, <1>7 DEF HighsTurn, SamplePending, Count
<1>9. Recorded' /\ OnlineTime'
  BY <1>2, KeepsRecord
<1> QED
  BY <1>1, <1>2, <1>3, <1>5, <1>6, <1>8, <1>9, StayMeasuring DEF TimerInv, Measuring

-----------------------------------------------------------------------------
(* Steps of LOW *)

\* LOW reads the secret and the time stamp before its first sample.
LEMMA LowStartInv ==
  ASSUME TimerInv, LowStart
  PROVE  TimerInv'
<1> USE Facts DEF HighAt, LowAt
<1>1. Measuring /\ LowsTurn /\ cur = Low
  BY LowRuns DEF LowStart, At, HighGone
<1>2. /\ ran' = 0 /\ ~jump' /\ jump' \in BOOLEAN /\ prev_s' = shared
      /\ phase' = aligned
      /\ pc[Low] = "start" /\ pc' = [pc EXCEPT ![Low] = "watch"]
      /\ UNCHANGED <<ipc, cur, pos, timer, badge, away, i, rec, secret, shared, aligned, printed>>
  BY DEF LowStart, At, Goto, highVars
<1>3. pc'[Low] = "watch" /\ pc'[High] = pc[High] /\ pc'[Root] = pc[Root]
  BY <1>2 DEF TimerInv, Types
<1>4. pos \in Nat /\ i[Low] \in Nat /\ i[High] = 0 /\ i[Low] < DataPoints
      /\ {aligned, badge, phase} \subseteq BOOLEAN
  BY <1>2 DEF TimerInv, Types, TypeOK, Rounds
<1>5. Types'
  BY <1>2, <1>3 DEF TimerInv, Types, TypeOK
<1>6. Rounds'
  BY <1>1, <1>2, <1>3 DEF TimerInv, Rounds, Measuring
<1>7. LowsTurn'
  <2>1. CASE LowFirst
    BY <1>2, <1>3, <1>4, <2>1 DEF LowsTurn, LowFirst
  <2>2. CASE LowsRound
    <3>1. LowsRound'
      BY <1>2, <1>3, <1>4, <2>2 DEF LowsRound, Count
    <3> QED
      BY <1>2, <1>3, <1>4, <3>1 DEF LowsTurn
  <2> QED
    BY <1>1, <2>1, <2>2 DEF LowsTurn
<1>8. Recorded' /\ OnlineTime'
  BY <1>2 DEF TimerInv, Recorded, OnlineTime
<1> QED
  BY <1>1, <1>2, <1>3, <1>5, <1>6, <1>7, <1>8, StayMeasuring DEF TimerInv, Measuring

\* What LOW records is right when its phase is.
LEMMA LowRecordRight ==
  ASSUME TimerInv, LowRecord
  PROVE  Recorded' /\ OnlineTime'
<1> USE Facts
<1>1. phase => Right(prev_s, ran)
  BY LowRuns DEF LowRecord, At, LowAt, LowsTurn, SamplePending
<1>2. /\ rec' = [rec EXCEPT ![i[Low]] = [sec |-> prev_s, online |-> ran, ok |-> phase]]
      /\ phase' = aligned /\ aligned' = aligned /\ printed' = printed
      /\ rec = [k \in Slot |-> rec[k]]
  BY DEF LowRecord, highVars, TimerInv, Types, TypeOK
<1>3. ASSUME NEW k \in Slot, rec'[k].ok PROVE Right(rec'[k].sec, rec'[k].online)
  <2>1. CASE k = i[Low]
    <3>1. rec'[k] = [sec |-> prev_s, online |-> ran, ok |-> phase]
      BY <1>2, <2>1
    <3> QED
      BY <1>1, <1>3, <3>1
  <2>2. CASE k # i[Low]
    <3>1. rec'[k] = rec[k]
      BY <1>2, <2>2
    <3> QED
      BY <1>3, <3>1 DEF TimerInv, Recorded
  <2> QED
    BY <2>1, <2>2
<1>4. OnlineTime'
  BY <1>2 DEF TimerInv, OnlineTime
<1>5. phase' => aligned'
  BY <1>2
<1> QED
  BY <1>3, <1>4, <1>5 DEF Recorded

\* LOW records a gap.
LEMMA LowRecordInv ==
  ASSUME TimerInv, LowRecord
  PROVE  TimerInv'
<1> USE Facts DEF HighAt, LowAt
<1>1. /\ ran' = 0 /\ ~jump' /\ jump' \in BOOLEAN /\ prev_s' = shared
      /\ phase' = aligned
      /\ pc[Low] = "watch" /\ jump /\ cur = Low
      /\ pc' = [pc EXCEPT ![Low] = IF i[Low] + 1 < DataPoints THEN "watch" ELSE "done"]
      /\ i' = [i EXCEPT ![Low] = @ + 1]
      /\ rec' = [rec EXCEPT ![i[Low]] = [sec |-> prev_s, online |-> ran, ok |-> phase]]
      /\ UNCHANGED <<ipc, cur, pos, timer, badge, away, secret, shared, aligned, printed>>
  BY DEF LowRecord, At, NextSample, Goto, highVars
<1>2. /\ pc'[Low] = IF i[Low] + 1 < DataPoints THEN "watch" ELSE "done"
      /\ pc'[High] = pc[High] /\ pc'[Root] = pc[Root]
      /\ i'[Low] = i[Low] + 1 /\ i'[High] = i[High] /\ i[Low] \in Nat /\ i[High] \in Nat
      /\ i[Low] < DataPoints
  BY <1>1 DEF TimerInv, Types, TypeOK, Rounds
<1>3. {aligned, badge, phase} \subseteq BOOLEAN /\ pos \in Nat
  BY DEF TimerInv, Types, TypeOK
<1>4. Types'
  <2>1. [sec |-> prev_s, online |-> ran, ok |-> phase] \in Sample
    BY DEF TimerInv, Types, TypeOK, Sample
  <2>2. rec' \in [Slot -> Sample]
    BY <1>1, <2>1 DEF TimerInv, Types, TypeOK
  <2>3. i' \in [Thread -> 0..DataPoints]
    BY <1>1, <1>2 DEF TimerInv, Types, TypeOK
  <2>4. {badge', away', jump', aligned', phase'} \subseteq BOOLEAN
    BY <1>1 DEF TimerInv, Types, TypeOK
  <2>5. pc' = [t \in Thread |-> pc'[t]]
    BY <1>1 DEF TimerInv, Types
  <2> QED
    BY <1>1, <2>2, <2>3, <2>4, <2>5 DEF TimerInv, Types, TypeOK
<1>5. Rounds'
  BY <1>1, <1>2 DEF TimerInv, Rounds
<1>6. CASE Measuring /\ LowsTurn
  <2>1. pc'[Low] = "watch" => LowsTurn'
    <3>1. LowsRound
      BY <1>1, <1>6 DEF LowsTurn, LowFirst
    <3>2. pc'[Low] = "watch" => LowsRound'
      BY <1>1, <1>2, <1>3, <3>1 DEF LowsRound, Count
    <3> QED
      BY <1>1, <1>2, <1>3, <3>2 DEF LowsTurn
  <2>2. HighAt({"arm", "publish", "enter", "wait", "poll", "end"})'
        /\ LowAt({"start", "watch", "done"})'
    BY <1>2, <1>6 DEF Measuring
  <2> QED
    BY <1>1, <1>2, <1>4, <1>5, <1>6, <2>1, <2>2, LowRecordRight, StayMeasuring DEF TimerInv
<1>7. CASE HighGone /\ i[Low] = DataPoints - 1
  <2>1. HighGone' /\ pc'[Low] = "done" /\ ~Measuring'
    BY <1>1, <1>2, <1>7 DEF HighGone, Measuring, RootWaits, IsBlocked
  <2>2. OnCore'
    BY <1>1 DEF TimerInv, OnCore
  <2>3. Stage' /\ Turns'
    BY <2>1 DEF Stage, Turns
  <2> QED
    BY <1>4, <1>5, <2>2, <2>3, LowRecordRight DEF TimerInv
<1> QED
  BY <1>1, <1>6, <1>7, LowRuns

-----------------------------------------------------------------------------
(* Time *)

\* The next position in the tick.
LEMMA NextPos ==
  ASSUME NEW p \in 0..(Slice - 1)
  PROVE  (p + 1) % Slice = IF p = Slice - 1 THEN 0 ELSE p + 1
<1>1. CASE p = Slice - 1
  BY <1>1, Facts
<1>2. CASE p # Slice - 1
  BY <1>2, Facts
<1> QED
  BY <1>1, <1>2

\* A time unit while both measure: HIGH or LOW polls; at the end of the slice
\* the peer gets the core.
LEMMA PassTimeEffect ==
  ASSUME TimerInv, PassTime
  PROVE  /\ Measuring
         /\ UNCHANGED <<ipc, pc, i, prev_s, rec, phase, secret, shared, aligned, printed>>
         /\ timer' = IF timer = 0 THEN 0 ELSE timer - 1
         /\ badge' <=> badge \/ timer = 1
         /\ {badge', away', jump'} \subseteq BOOLEAN
         /\ pos' = IF pos = Slice - 1 THEN 0 ELSE pos + 1
         /\ \/ /\ cur = High /\ HighsTurn /\ ran' = ran
               /\ (pc[High] = "wait" /\ ~away) \/ (pc[High] = "poll" /\ ~badge)
               /\ IF pos = Slice - 1 THEN cur' = Low /\ away' ELSE cur' = High /\ (away' <=> away)
               /\ jump' <=> jump
            \/ /\ cur = Low /\ LowsTurn /\ ran' = ran + 1
               /\ pc[Low] = "watch" /\ ~jump
               /\ away' <=> away
               /\ cur' = IF pos = Slice - 1 THEN High ELSE Low
               /\ jump' <=> pos = Slice - 1 \/ timer = 1
<1> USE Facts DEF HighAt, LowAt
<1>1. /\ cur \in {High, Low} /\ Polls(cur) /\ ipc[cur] = Ready
      /\ timer' = IF timer = 0 THEN 0 ELSE timer - 1
      /\ badge' = (badge \/ timer = 1)
      /\ pos' = (pos + 1) % Slice
      /\ ran' = IF cur = Low /\ pc[Low] = "watch" THEN ran + 1 ELSE ran
      /\ UNCHANGED <<ipc, pc, i, prev_s, rec, phase, secret, shared, aligned, printed>>
  BY DEF PassTime, highVars, TimerInv, OnCore
<1>2. /\ Measuring
      /\ \/ /\ cur = High /\ HighsTurn
            /\ (pc[High] = "wait" /\ ~away) \/ (pc[High] = "poll" /\ ~badge)
         \/ cur = Low /\ LowsTurn /\ pc[Low] = "watch" /\ ~jump
  <2>1. CASE cur = High
    <3>1. Measuring
      BY <1>1, <2>1 DEF TimerInv, OnCore, Stage, Handshaking, HighGone, Finished, IsReady,
         IsBlocked, Polls
    <3> QED
      BY <1>1, <2>1, <3>1 DEF TimerInv, Turns, Measuring, Polls
  <2>2. CASE cur = Low
    <3>1. Measuring \/ HighGone
      BY <1>1, <2>2 DEF TimerInv, OnCore, Stage, Handshaking, LowUnsynced, Finished, IsReady,
         IsBlocked, Polls
    <3>2. pc[Low] = "watch" /\ ~jump
      <4>1. pc[Low] \in {"start", "watch", "done"}
        BY <3>1 DEF Measuring, HighGone
      <4> QED
        BY <1>1, <2>2, <4>1 DEF Polls
    <3> QED
      BY <2>2, <3>1, <3>2 DEF TimerInv, Turns
  <2> QED
    BY <1>1, <2>1, <2>2
<1>3. Runnable = {High, Low}
  BY <1>2 DEF Runnable, Measuring, RootWaits, IsBlocked
<1>4. pos' = IF pos = Slice - 1 THEN 0 ELSE pos + 1
  BY <1>1, NextPos DEF TimerInv, Types, TypeOK
<1>5. pos \in Nat /\ pos <= Slice - 1 /\ {away, jump, badge} \subseteq BOOLEAN
  BY DEF TimerInv, Types, TypeOK
<1>6. CASE cur = High
  <2>1. Runnable \ {cur, Root} = {Low}
    BY <1>3, <1>6
  <2>2. CASE pos = Slice - 1
    <3>1. SwitchTo(Low) /\ jump' = (jump \/ cur = Low)
      BY <1>4, <2>1, <2>2 DEF PassTime
    <3> QED
      BY <1>1, <1>2, <1>4, <1>5, <1>6, <2>2, <3>1 DEF SwitchTo
  <2>3. CASE pos # Slice - 1
    <3>1. cur' = cur /\ away' = away /\ jump' = (jump \/ (cur = Low /\ timer = 1))
      BY <1>4, <1>5, <1>6, <2>3 DEF PassTime
    <3> QED
      BY <1>1, <1>2, <1>4, <1>5, <1>6, <2>3, <3>1
  <2> QED
    BY <2>2, <2>3
<1>7. CASE cur = Low
  <2>1. Runnable \ {cur, Root} = {High}
    BY <1>3, <1>7
  <2>2. CASE pos = Slice - 1
    <3>1. SwitchTo(High) /\ jump' = (jump \/ cur = Low)
      BY <1>4, <2>1, <2>2 DEF PassTime
    <3> QED
      BY <1>1, <1>2, <1>4, <1>5, <1>7, <2>2, <3>1 DEF SwitchTo
  <2>3. CASE pos # Slice - 1
    <3>0. pos' # 0
      BY <1>4, <1>5, <2>3
    <3>1. cur' = cur /\ away' = away /\ jump' = (jump \/ (cur = Low /\ timer = 1))
      BY <3>0 DEF PassTime
    <3> QED
      BY <1>1, <1>2, <1>4, <1>5, <1>7, <2>3, <3>1
  <2> QED
    BY <2>2, <2>3
<1> QED
  BY <1>1, <1>6, <1>7

\* A time unit of HIGH's slice.
LEMMA HighPassesTime ==
  ASSUME TimerInv, PassTime, cur = High
  PROVE  \/ cur' = High /\ HighsTurn'
         \/ cur' = Low /\ LowsTurn'
<1> USE Facts DEF HighAt, LowAt
<1>1. /\ HighsTurn
      /\ UNCHANGED <<pc, i, prev_s, ran, phase, secret, shared, aligned>>
      /\ timer' = IF timer = 0 THEN 0 ELSE timer - 1
      /\ badge' <=> badge \/ timer = 1
      /\ {badge', away', jump'} \subseteq BOOLEAN
      /\ pos' = IF pos = Slice - 1 THEN 0 ELSE pos + 1
      /\ (pc[High] = "wait" /\ ~away) \/ (pc[High] = "poll" /\ ~badge)
      /\ IF pos = Slice - 1 THEN cur' = Low /\ away' ELSE cur' = High /\ (away' <=> away)
      /\ jump' <=> jump
  BY PassTimeEffect
<1>2. /\ pos \in Nat /\ pos <= Slice - 1 /\ timer \in Nat /\ i[Low] \in Nat /\ i[High] \in Nat
      /\ {aligned, badge, phase, jump, away} \subseteq BOOLEAN
      /\ i[Low] < DataPoints
  <2>1. pc[Low] \in {"start", "watch"}
    BY <1>1 DEF HighsTurn, SamplePending
  <2> QED
    BY <2>1 DEF TimerInv, Types, TypeOK, Rounds
<1>3. pc[Low] = "start" \/ SamplePending
  BY <1>1 DEF HighsTurn
<1>4. SamplePending => SamplePending'
  BY <1>1 DEF SamplePending
<1>5. CASE pc[High] = "poll" /\ ~badge
  <2>1. timer > 0 /\ timer + pos <= Slice - 2 /\ ~aligned /\ secret \in Signals /\ shared = secret
    BY <1>1, <1>2, <1>5 DEF HighsTurn, HighClock
  <2>2. HighClock'
    BY <1>1, <1>2, <1>5, <2>1 DEF HighClock
  <2> QED
    BY <1>1, <1>2, <1>3, <1>4, <1>5, <2>1, <2>2 DEF HighsTurn
<1>6. CASE pc[High] = "wait" /\ ~away
  <2>1. /\ secret \in Signals /\ shared = secret /\ (badge <=> timer = 0)
        /\ timer > 0 => timer + pos <= 3 * Slice - 2
        /\ aligned => timer = secret - pos
        /\ i[Low] + 1 >= i[High] + Count(phase)
    BY <1>1, <1>6 DEF HighsTurn, HighClock
  <2>2. CASE pos # Slice - 1
    <3>1. HighClock'
      BY <1>1, <1>2, <1>6, <2>1, <2>2 DEF HighClock
    <3> QED
      BY <1>1, <1>3, <1>4, <1>6, <2>1, <2>2, <3>1 DEF HighsTurn
  <2>3. CASE pos = Slice - 1
    <3>1. aligned => timer' = secret - Slice /\ timer' > 0
      BY <1>1, <1>2, <2>1, <2>3
    <3>2. LowsRound'
      BY <1>1, <1>2, <1>3, <1>6, <2>1, <2>3, <3>1 DEF LowsRound, SamplePending
    <3> QED
      BY <1>1, <1>3, <1>4, <2>3, <3>2 DEF LowsTurn, SamplePending
  <2> QED
    BY <2>2, <2>3
<1> QED
  BY <1>1, <1>5, <1>6

\* A time unit of LOW's slice.
LEMMA LowPassesTime ==
  ASSUME TimerInv, PassTime, cur = Low
  PROVE  \/ cur' = High /\ HighsTurn'
         \/ cur' = Low /\ LowsTurn'
<1> USE Facts DEF HighAt, LowAt
<1>1. /\ LowsTurn
      /\ UNCHANGED <<pc, i, prev_s, phase, secret, shared, aligned>>
      /\ ran' = ran + 1
      /\ timer' = IF timer = 0 THEN 0 ELSE timer - 1
      /\ badge' <=> badge \/ timer = 1
      /\ {badge', away', jump'} \subseteq BOOLEAN
      /\ pos' = IF pos = Slice - 1 THEN 0 ELSE pos + 1
      /\ pc[Low] = "watch" /\ ~jump /\ (away' <=> away)
      /\ cur' = IF pos = Slice - 1 THEN High ELSE Low
      /\ jump' <=> pos = Slice - 1 \/ timer = 1
  BY PassTimeEffect
<1>2. /\ pos \in Nat /\ pos <= Slice - 1 /\ timer \in Nat /\ i[Low] \in Nat /\ i[High] \in Nat
      /\ ran \in Nat /\ {aligned, badge, phase, jump, away} \subseteq BOOLEAN
      /\ phase => aligned
  BY DEF TimerInv, Types, TypeOK, Recorded
<1>3. ran <= pos
  BY <1>1 DEF LowsTurn
<1>4. CASE LowFirst
  <2>1. HighAt({"arm"}) /\ i[High] = 0 /\ timer = 0 /\ ~badge /\ ~aligned /\ ~phase
    BY <1>2, <1>4 DEF LowFirst
  <2>2. CASE pos # Slice - 1
    BY <1>1, <1>2, <1>3, <2>1, <2>2 DEF LowsTurn, LowFirst
  <2>3. CASE pos = Slice - 1
    <3>1. HighClock'
      BY <1>1, <2>1 DEF HighClock
    <3> QED
      BY <1>1, <1>2, <2>1, <2>3, <3>1 DEF HighsTurn, SamplePending, Count
  <2> QED
    BY <2>2, <2>3
<1>5. CASE LowsRound
  <2>1. /\ pc[High] = "wait" /\ away /\ secret \in Signals /\ shared = secret
        /\ badge <=> timer = 0
        /\ timer > 0 => timer + pos <= 2 * Slice - 2
        /\ aligned =>
             /\ IF timer = 0 THEN pos >= secret - Slice ELSE timer = secret - Slice - pos
             /\ prev_s = secret /\ ran = IF timer = 0 THEN pos - (secret - Slice) ELSE pos
        /\ i[Low] >= i[High] + Count(phase /\ badge)
        /\ phase <=> aligned
    BY <1>1, <1>5 DEF LowsRound
  <2>2. aligned /\ pos = Slice - 1 => timer = 0
    BY <1>2, <2>1
  <2>3. jump' => SamplePending'
    <3>1. CASE phase /\ timer = 1
      BY <1>1, <1>2, <2>1, <2>2, <3>1 DEF SamplePending, Right
    <3>2. CASE phase /\ pos = Slice - 1
      BY <1>1, <1>2, <2>1, <2>2, <3>2 DEF SamplePending, Right
    <3>3. CASE ~phase
      BY <1>1, <3>3 DEF SamplePending
    <3> QED
      BY <1>1, <1>2, <3>1, <3>2, <3>3
  <2>4. CASE pos # Slice - 1
    <3>1. LowsRound'
      BY <1>1, <1>2, <2>1, <2>4 DEF LowsRound, Count
    <3> QED
      BY <1>1, <1>2, <1>3, <2>3, <2>4, <3>1 DEF LowsTurn
  <2>5. CASE pos = Slice - 1
    <3>1. HighClock'
      BY <1>1, <1>2, <2>1, <2>2, <2>5 DEF HighClock
    <3>2. i[Low] >= i[High] + Count(phase)
      BY <1>2, <2>1, <2>2, <2>5 DEF Count
    <3> QED
      BY <1>1, <1>2, <2>1, <2>3, <2>5, <3>1, <3>2 DEF HighsTurn
  <2> QED
    BY <2>4, <2>5
<1> QED
  BY <1>1, <1>4, <1>5 DEF LowsTurn

\* Time passes.
LEMMA PassTimeInv ==
  ASSUME TimerInv, PassTime
  PROVE  TimerInv'
<1> USE Facts DEF HighAt, LowAt
<1>1. /\ Measuring
      /\ UNCHANGED <<ipc, pc, i, prev_s, rec, phase, secret, shared, aligned, printed>>
      /\ timer' = IF timer = 0 THEN 0 ELSE timer - 1
      /\ {badge', away', jump'} \subseteq BOOLEAN
      /\ pos' = IF pos = Slice - 1 THEN 0 ELSE pos + 1
      /\ cur' \in {High, Low} /\ cur \in {High, Low}
      /\ ran' \in {ran, ran + 1}
  BY PassTimeEffect DEF PassTime
<1>2. ran' \in 0..Slice
  <2>1. CASE cur = High
    BY <2>1, PassTimeEffect DEF TimerInv, Types, TypeOK
  <2>2. CASE cur = Low
    <3>1. ran' = ran + 1 /\ ran <= pos
      BY <2>2, PassTimeEffect DEF LowsTurn
    <3> QED
      BY <3>1 DEF TimerInv, Types, TypeOK
  <2> QED
    BY <1>1, <2>1, <2>2
<1>3. Types'
  BY <1>1, <1>2 DEF TimerInv, Types, TypeOK
<1>4. Rounds'
  BY <1>1 DEF TimerInv, Rounds
<1>5. Measuring' /\ OnCore' /\ ~HighGone'
  BY <1>1 DEF OnCore, Measuring, RootWaits, IsBlocked, HighGone
<1>6. Turns'
  BY <1>1, <1>5, HighPassesTime, LowPassesTime DEF Turns
<1>7. Recorded' /\ OnlineTime'
  BY <1>1, KeepsRecord
<1> QED
  BY <1>3, <1>4, <1>5, <1>6, <1>7 DEF TimerInv, Stage

-----------------------------------------------------------------------------
(* System calls *)

\* What every system call leaves alone, and what it keeps.
LEMMA SystemCall ==
  ASSUME TimerInv, ipc' \in [Thread -> IpcState], \E u \in Thread : ipc'[u] = Ready,
         Reschedule, NEW t \in Thread, NEW label, Goto(t, label),
         UNCHANGED <<i, lowVars, highVars, printed>>
  PROVE  /\ Types' /\ OnCore' /\ Recorded' /\ OnlineTime'
         /\ UNCHANGED <<i, pos, timer, badge, ran, prev_s, phase, secret, shared, aligned>>
         /\ pc'[t] = label /\ \A u \in Thread : u # t => pc'[u] = pc[u]
<1>1. UNCHANGED <<i, pos, timer, badge, ran, prev_s, rec, phase, secret, shared, aligned, printed>>
  BY RescheduleEffect DEF TimerInv, lowVars, highVars
<1>2. OnCore' /\ {away', jump'} \subseteq BOOLEAN
  BY RescheduleEffect DEF TimerInv
<1>3. pc' = [u \in Thread |-> pc'[u]] /\ pc'[t] = label /\ \A u \in Thread : u # t => pc'[u] = pc[u]
  BY DEF TimerInv, Types, Goto
<1>4. Types'
  BY <1>1, <1>2, <1>3 DEF TimerInv, Types, TypeOK, OnCore
<1> QED
  BY <1>1, <1>2, <1>3, <1>4, KeepsRecord

\* HIGH tells the root task that it is there.
LEMMA HighReadyInv ==
  ASSUME TimerInv, HighReady
  PROVE  TimerInv'
<1> USE Facts DEF HighAt, LowAt
<1>1. cur = High /\ ipc[High] = Ready /\ pc[High] = "ready"
  BY DEF HighReady, At
<1>2. Handshaking /\ IsBlocked(Root, "low", "recv", t_ep) /\ LowUnsynced
  BY <1>1 DEF TimerInv, OnCore, Stage, Handshaking, Measuring, HighGone, Finished, IsReady,
     IsBlocked
<1>3. ipc' \in [Thread -> IpcState] /\ ipc' = [ipc EXCEPT ![Root] = Ready]
  BY <1>1, <1>2, SendCases DEF TimerInv, HighReady, LowUnsynced, IsReady, IsBlocked
<1>4. /\ ipc'[Root] = Ready /\ ipc'[High] = Ready /\ ipc'[Low] = ipc[Low]
  BY <1>1, <1>3 DEF TimerInv, Types, TypeOK
<1>5. /\ Types' /\ OnCore' /\ Recorded' /\ OnlineTime'
      /\ UNCHANGED <<i, timer, badge, ran, phase, aligned>>
      /\ pc'[High] = "sync" /\ pc'[Root] = pc[Root] /\ pc'[Low] = pc[Low]
  BY <1>3, <1>4, SystemCall DEF HighReady
<1>6. Handshaking'
  BY <1>2, <1>4, <1>5 DEF Handshaking, LowUnsynced, IsReady, IsBlocked
<1>7. Rounds'
  BY <1>5 DEF TimerInv, Rounds
<1>8. Turns'
  BY <1>4 DEF Turns, Measuring, HighGone, RootWaits, IsBlocked
<1> QED
  BY <1>5, <1>6, <1>7, <1>8 DEF TimerInv, Stage

\* HIGH and LOW meet: both are before their first round.
LEMMA BothBegin ==
  ASSUME TimerInv, Types', OnCore', Recorded', OnlineTime', Measuring',
         pc'[High] = "arm", pc'[Low] = "start",
         i'[High] = 0, i'[Low] = 0, timer' = 0, ~badge', ~aligned', ~phase'
  PROVE  TimerInv'
<1> USE Facts DEF HighAt, LowAt
<1>1. HighsTurn' /\ LowsTurn'
  BY DEF HighsTurn, HighClock, LowsTurn, LowFirst, Count
<1>2. ~HighGone'
  BY DEF Measuring, HighGone, IsBlocked
<1>3. Rounds'
  BY DEF Rounds
<1> QED
  BY <1>1, <1>2, <1>3 DEF TimerInv, Turns, Stage

\* HIGH's message to LOW.
LEMMA HighSyncInv ==
  ASSUME TimerInv, HighSync
  PROVE  TimerInv'
<1> USE Facts DEF HighAt, LowAt
<1>1. cur = High /\ ipc[High] = Ready /\ pc[High] = "sync"
  BY DEF HighSync, At
<1>2. Handshaking /\ RootWaits /\ LowUnsynced
  BY <1>1 DEF TimerInv, OnCore, Stage, Handshaking, Measuring, HighGone, Finished, IsReady,
     IsBlocked
<1>3. CASE IsBlocked(Low, "start", "recv", syn_ep)
  <2>1. ipc' \in [Thread -> IpcState] /\ ipc' = [ipc EXCEPT ![Low] = Ready]
    BY <1>1, <1>2, <1>3, SendCases DEF TimerInv, HighSync, RootWaits, IsBlocked
  <2>2. ipc'[Root] = ipc[Root] /\ ipc'[High] = Ready /\ ipc'[Low] = Ready
    BY <1>1, <2>1 DEF TimerInv, Types, TypeOK
  <2>3. /\ Types' /\ OnCore' /\ Recorded' /\ OnlineTime'
        /\ UNCHANGED <<i, timer, badge, phase, aligned>>
        /\ pc'[High] = "arm" /\ pc'[Root] = pc[Root] /\ pc'[Low] = pc[Low]
    BY <2>1, <2>2, SystemCall DEF HighSync
  <2>4. Measuring'
    BY <1>2, <1>3, <2>2, <2>3 DEF Measuring, RootWaits, IsBlocked
  <2> QED
    BY <1>2, <1>3, <2>3, <2>4, BothBegin DEF Handshaking, IsBlocked
<1>4. CASE IsReady(Low, "sync")
  <2>1. ipc' \in [Thread -> IpcState] /\ ipc' = [ipc EXCEPT ![High] = Blocked("send", syn_ep)]
    BY <1>1, <1>2, <1>4, SendCases DEF TimerInv, HighSync, RootWaits, IsReady, IsBlocked
  <2>2. /\ ipc'[Root] = ipc[Root] /\ ipc'[High] = Blocked("send", syn_ep) /\ ipc'[Low] = Ready
    BY <1>4, <2>1 DEF TimerInv, Types, TypeOK, IsReady
  <2>3. /\ Types' /\ OnCore' /\ Recorded' /\ OnlineTime'
        /\ UNCHANGED <<i, timer, badge, ran, phase, aligned>>
        /\ pc'[High] = "arm" /\ pc'[Root] = pc[Root] /\ pc'[Low] = pc[Low]
    BY <2>1, <2>2, SystemCall DEF HighSync
  <2>4. Handshaking'
    BY <1>2, <1>4, <2>2, <2>3 DEF Handshaking, RootWaits, IsReady, IsBlocked
  <2>5. Rounds' /\ Turns'
    BY <1>4, <2>2, <2>3 DEF TimerInv, Rounds, Turns, Measuring, HighGone, IsReady, IsBlocked
  <2> QED
    BY <2>3, <2>4, <2>5 DEF TimerInv, Stage
<1> QED
  BY <1>2, <1>3, <1>4 DEF LowUnsynced

\* HIGH waits for a message that never comes; LOW has one sample to record.
LEMMA HighEndInv ==
  ASSUME TimerInv, HighEnd
  PROVE  TimerInv'
<1> USE Facts DEF HighAt, LowAt
<1>1. cur = High /\ ipc[High] = Ready /\ pc[High] = "end"
  BY DEF HighEnd, At
<1>2. Measuring /\ HighsTurn
  BY <1>1, HighRuns
<1>3. /\ pc[Low] = "watch" /\ jump /\ ~phase /\ i[Low] = DataPoints - 1
  <2>1. i[High] = DataPoints
    BY <1>1 DEF TimerInv, Rounds
  <2>2. pc[Low] = "watch" /\ jump
    BY <1>2, <2>1 DEF TimerInv, Rounds, HighsTurn, SamplePending
  <2>3. i[Low] + 1 >= DataPoints + Count(phase)
    BY <1>1, <1>2, <2>1 DEF HighsTurn
  <2>4. i[Low] \in Nat /\ i[Low] < DataPoints
    BY <2>2 DEF TimerInv, Types, TypeOK, Rounds
  <2> QED
    BY <2>2, <2>3, <2>4 DEF Count
<1>4. ipc' \in [Thread -> IpcState] /\ ipc' = [ipc EXCEPT ![High] = Blocked("recv", syn_ep)]
  BY <1>1, <1>2, RecvCases DEF TimerInv, HighEnd, Measuring, RootWaits, IsBlocked
<1>5. ipc'[Root] = ipc[Root] /\ ipc'[High] = Blocked("recv", syn_ep) /\ ipc'[Low] = Ready
  BY <1>2, <1>4 DEF TimerInv, Types, TypeOK, Measuring
<1>6. /\ Types' /\ OnCore' /\ Recorded' /\ OnlineTime'
      /\ UNCHANGED <<i, phase>>
      /\ pc'[High] = "spin" /\ pc'[Root] = pc[Root] /\ pc'[Low] = pc[Low]
  BY <1>4, <1>5, SystemCall DEF HighEnd
<1>7. jump'
  BY <1>1, <1>3, <1>5, RescheduleEffect DEF TimerInv, HighEnd
<1>8. HighGone' /\ ~Measuring'
  BY <1>2, <1>3, <1>5, <1>6 DEF HighGone, Measuring, RootWaits, IsBlocked
<1>9. Rounds' /\ Turns'
  BY <1>3, <1>6, <1>7, <1>8 DEF TimerInv, Rounds, Turns
<1> QED
  BY <1>6, <1>8, <1>9 DEF TimerInv, Stage

\* LOW waits for HIGH's message.
LEMMA LowSyncInv ==
  ASSUME TimerInv, LowSync
  PROVE  TimerInv'
<1> USE Facts DEF HighAt, LowAt
<1>1. cur = Low /\ ipc[Low] = Ready /\ pc[Low] = "sync"
  BY DEF LowSync, At
<1>2. Handshaking /\ ipc[Root] # Ready
  BY <1>1 DEF TimerInv, OnCore, Stage, Measuring, HighGone, Finished
<1>3. CASE RootWaits /\ IsBlocked(High, "arm", "send", syn_ep)
  <2>1. ipc' \in [Thread -> IpcState] /\ ipc' = [ipc EXCEPT ![High] = Ready]
    BY <1>1, <1>2, <1>3, RecvCases DEF TimerInv, LowSync, RootWaits, IsBlocked
  <2>2. ipc'[Root] = ipc[Root] /\ ipc'[High] = Ready /\ ipc'[Low] = Ready
    BY <1>1, <2>1 DEF TimerInv, Types, TypeOK
  <2>3. /\ Types' /\ OnCore' /\ Recorded' /\ OnlineTime'
        /\ UNCHANGED <<i, timer, badge, phase, aligned>>
        /\ pc'[Low] = "start" /\ pc'[Root] = pc[Root] /\ pc'[High] = pc[High]
    BY <2>1, <2>2, SystemCall DEF LowSync
  <2>4. Measuring'
    BY <1>3, <2>2, <2>3 DEF Measuring, RootWaits, IsBlocked
  <2> QED
    BY <1>2, <1>3, <2>3, <2>4, BothBegin DEF Handshaking, IsBlocked
<1>4. CASE \/ IsBlocked(Root, "low", "recv", t_ep) /\ IsReady(High, "ready")
           \/ RootWaits /\ IsReady(High, "sync")
  <2>1. ipc' \in [Thread -> IpcState] /\ ipc' = [ipc EXCEPT ![Low] = Blocked("recv", syn_ep)]
    BY <1>1, <1>4, RecvCases DEF TimerInv, LowSync, RootWaits, IsReady, IsBlocked
  <2>2. /\ ipc'[Root] = ipc[Root] /\ ipc'[High] = Ready /\ ipc'[Low] = Blocked("recv", syn_ep)
    BY <1>4, <2>1 DEF TimerInv, Types, TypeOK, IsReady
  <2>3. /\ Types' /\ OnCore' /\ Recorded' /\ OnlineTime'
        /\ UNCHANGED <<i, timer, badge, ran, phase, aligned>>
        /\ pc'[Low] = "start" /\ pc'[Root] = pc[Root] /\ pc'[High] = pc[High]
    BY <2>1, <2>2, SystemCall DEF LowSync
  <2>4. Handshaking'
    BY <1>2, <1>4, <2>2, <2>3 DEF Handshaking, LowUnsynced, RootWaits, IsReady, IsBlocked
  <2>5. Rounds' /\ Turns'
    BY <1>2, <1>4, <2>2, <2>3 DEF TimerInv, Handshaking, Rounds, Turns, Measuring, HighGone,
       IsReady, IsBlocked
  <2> QED
    BY <2>3, <2>4, <2>5 DEF TimerInv, Stage
<1> QED
  BY <1>1, <1>2, <1>3, <1>4 DEF Handshaking, IsReady, IsBlocked

\* LOW's result wakes the root task, which keeps the core.
LEMMA LowDoneInv ==
  ASSUME TimerInv, LowDone
  PROVE  TimerInv'
<1> USE Facts DEF HighAt, LowAt
<1>1. cur = Low /\ ipc[Low] = Ready /\ pc[Low] = "done"
  BY DEF LowDone, At
<1>2. RootWaits /\ ipc[High] # Blocked("recv", s_ep)
  BY <1>1, LowRuns DEF Measuring, HighGone, IsBlocked
<1>3. ipc' \in [Thread -> IpcState] /\ ipc' = [ipc EXCEPT ![Root] = Ready]
  BY <1>1, <1>2, SendCases DEF TimerInv, LowDone, RootWaits, IsBlocked
<1>4. ipc'[Root] = Ready
  BY <1>3 DEF TimerInv, Types, TypeOK
<1>5. /\ Types' /\ OnCore' /\ Recorded' /\ OnlineTime'
      /\ UNCHANGED i
      /\ pc'[Low] = "spin" /\ pc'[Root] = pc[Root] /\ pc'[High] = pc[High]
  BY <1>3, <1>4, SystemCall DEF LowDone
<1>6. Finished' /\ Rounds' /\ Turns'
  BY <1>2, <1>4, <1>5 DEF TimerInv, Finished, Rounds, Turns, Measuring, HighGone, RootWaits,
     IsBlocked
<1> QED
  BY <1>5, <1>6 DEF TimerInv, Stage

-----------------------------------------------------------------------------
(* The root task *)

\* It waits for HIGH ...
LEMMA RootAwaitHighInv ==
  ASSUME TimerInv, RootAwaitHigh
  PROVE  TimerInv'
<1> USE Facts DEF HighAt, LowAt
<1>1. cur = Root /\ ipc[Root] = Ready /\ pc[Root] = "high"
  BY DEF RootAwaitHigh, At
<1>2. Handshaking /\ IsReady(High, "ready") /\ LowUnsynced
  BY <1>1 DEF TimerInv, Stage, Handshaking, Measuring, HighGone, Finished, RootWaits, IsReady,
     IsBlocked
<1>3. ipc' \in [Thread -> IpcState] /\ ipc' = [ipc EXCEPT ![Root] = Blocked("recv", t_ep)]
  BY <1>1, <1>2, RecvCases DEF TimerInv, RootAwaitHigh, LowUnsynced, IsReady, IsBlocked
<1>4. ipc'[Root] = Blocked("recv", t_ep) /\ ipc'[High] = Ready /\ ipc'[Low] = ipc[Low]
  BY <1>2, <1>3 DEF TimerInv, Types, TypeOK, IsReady
<1>5. /\ Types' /\ OnCore' /\ Recorded' /\ OnlineTime'
      /\ UNCHANGED <<i, timer, badge, ran, phase, aligned>>
      /\ pc'[Root] = "low" /\ pc'[High] = pc[High] /\ pc'[Low] = pc[Low]
  BY <1>3, <1>4, SystemCall DEF RootAwaitHigh
<1>6. Handshaking'
  BY <1>2, <1>4, <1>5 DEF Handshaking, LowUnsynced, IsReady, IsBlocked
<1>7. Rounds' /\ Turns'
  BY <1>2, <1>5 DEF TimerInv, Rounds, Turns, Measuring, HighGone, IsReady, IsBlocked
<1> QED
  BY <1>5, <1>6, <1>7 DEF TimerInv, Stage

\* ... and for LOW.
LEMMA RootAwaitLowInv ==
  ASSUME TimerInv, RootAwaitLow
  PROVE  TimerInv'
<1> USE Facts DEF HighAt, LowAt
<1>1. cur = Root /\ ipc[Root] = Ready /\ pc[Root] = "low"
  BY DEF RootAwaitLow, At
<1>2. Handshaking /\ IsReady(High, "sync") /\ LowUnsynced
  BY <1>1 DEF TimerInv, Stage, Handshaking, Measuring, HighGone, Finished, RootWaits, IsReady,
     IsBlocked
<1>3. ipc' \in [Thread -> IpcState] /\ ipc' = [ipc EXCEPT ![Root] = Blocked("recv", s_ep)]
  BY <1>1, <1>2, RecvCases DEF TimerInv, RootAwaitLow, LowUnsynced, IsReady, IsBlocked
<1>4. ipc'[Root] = Blocked("recv", s_ep) /\ ipc'[High] = Ready /\ ipc'[Low] = ipc[Low]
  BY <1>2, <1>3 DEF TimerInv, Types, TypeOK, IsReady
<1>5. /\ Types' /\ OnCore' /\ Recorded' /\ OnlineTime'
      /\ UNCHANGED <<i, timer, badge, ran, phase, aligned>>
      /\ pc'[Root] = "report" /\ pc'[High] = pc[High] /\ pc'[Low] = pc[Low]
  BY <1>3, <1>4, SystemCall DEF RootAwaitLow
<1>6. Handshaking'
  BY <1>2, <1>4, <1>5 DEF Handshaking, RootWaits, LowUnsynced, IsReady, IsBlocked
<1>7. Rounds' /\ Turns'
  BY <1>2, <1>5 DEF TimerInv, Rounds, Turns, Measuring, HighGone, IsReady, IsBlocked
<1> QED
  BY <1>5, <1>6, <1>7 DEF TimerInv, Stage

\* It prints the record.
LEMMA RootPrintInv ==
  ASSUME TimerInv, RootPrint
  PROVE  TimerInv'
<1> USE Facts DEF HighAt, LowAt
<1>1. /\ cur = Root /\ ipc[Root] = Ready /\ pc[Root] = "report"
      /\ UNCHANGED <<ipc, cur, pos, timer, badge, jump, away, ran, prev_s, rec, phase,
                     secret, shared, aligned>>
      /\ \/ /\ i[Root] < DataPoints
            /\ printed' = printed \cup {<<i[Root], rec[i[Root]]>>}
            /\ i' = [i EXCEPT ![Root] = @ + 1] /\ pc' = pc
         \/ pc' = [pc EXCEPT ![Root] = "spin"] /\ i' = i /\ printed' = printed
  BY DEF RootPrint, At, Goto, Local, clock, lowVars, highVars
<1>2. i[Root] \in 0..DataPoints /\ rec \in [Slot -> Sample]
  BY DEF TimerInv, Types, TypeOK
<1>3. i[Root] < DataPoints => i[Root] \in Slot /\ rec[i[Root]] \in Sample
  BY <1>2 DEF Slot
<1>4. Types'
  <2>1. i' \in [Thread -> 0..DataPoints]
    BY <1>1, <1>2 DEF TimerInv, Types, TypeOK
  <2>2. printed' \subseteq Slot \X Sample
    BY <1>1, <1>3 DEF TimerInv, Types, TypeOK
  <2>3. pc' = [t \in Thread |-> pc'[t]]
    BY <1>1 DEF TimerInv, Types
  <2> QED
    BY <1>1, <2>1, <2>2, <2>3 DEF TimerInv, Types, TypeOK
<1>5. /\ i'[High] = i[High] /\ i'[Low] = i[Low] /\ pc'[High] = pc[High] /\ pc'[Low] = pc[Low]
      /\ pc'[Root] \in {"report", "spin"}
  BY <1>1 DEF TimerInv, Types, TypeOK
<1>6. Finished' /\ OnCore' /\ Rounds' /\ Turns'
  BY <1>1, <1>5 DEF TimerInv, OnCore, Finished, Rounds, Turns, Measuring, HighGone, RootWaits,
     IsBlocked
<1>7. Recorded'
  BY <1>1 DEF TimerInv, Recorded
<1>8. OnlineTime'
  <2>1. i[Root] < DataPoints /\ rec[i[Root]].ok =>
          Right(rec[i[Root]].sec, rec[i[Root]].online)
    BY <1>3 DEF TimerInv, Recorded
  <2>2. ASSUME NEW line \in printed', line[2].ok
        PROVE  Right(line[2].sec, line[2].online)
    <3>1. CASE line \in printed
      BY <2>2, <3>1 DEF TimerInv, OnlineTime, Right
    <3>2. CASE line \notin printed
      <4>1. i[Root] < DataPoints /\ line = <<i[Root], rec[i[Root]]>>
        BY <1>1, <2>2, <3>2
      <4>2. line[2] = rec[i[Root]]
        BY <4>1
      <4> QED
        BY <2>1, <2>2, <4>1, <4>2
    <3> QED
      BY <3>1, <3>2
  <2> QED
    BY <2>2 DEF OnlineTime, Right
<1> QED
  BY <1>4, <1>6, <1>7, <1>8 DEF TimerInv, Stage

-----------------------------------------------------------------------------
(* The invariant *)

\* Nothing has happened yet.
LEMMA InitTimerInv == Init => TimerInv
<1> SUFFICES ASSUME Init PROVE TimerInv
  OBVIOUS
<1> USE Facts DEF HighAt, LowAt
<1>1. /\ \A t \in Thread : ipc[t] = Ready
      /\ pc[Root] = "high" /\ pc[High] = "ready" /\ pc[Low] = "sync"
      /\ i[High] = 0 /\ i[Low] = 0
      /\ \A k \in Slot : ~rec[k].ok
  BY DEF Init
<1>2. Types
  <2>1. ipc \in [Thread -> IpcState] /\ i \in [Thread -> 0..DataPoints]
    BY TimerAssumption DEF Init, IpcState
  <2>2. rec \in [Slot -> Sample]
    BY DEF Init, Sample, Label
  <2>3. pos \in 0..(Slice - 1) /\ timer \in 0..(2 * Slice) /\ ran \in 0..Slice
    BY TimerAssumption DEF Init
  <2>4. {badge, away, jump, aligned, phase} \subseteq BOOLEAN
    BY DEF Init
  <2>5. cur \in Thread /\ printed \subseteq Slot \X Sample /\ pc = [t \in Thread |-> pc[t]]
    BY DEF Init
  <2>6. secret \in Label /\ shared \in Label /\ prev_s \in Label
    BY DEF Init, Label
  <2> QED
    BY <2>1, <2>2, <2>3, <2>4, <2>5, <2>6 DEF Types, TypeOK
<1>3. OnCore /\ Handshaking
  BY <1>1 DEF Init, OnCore, Handshaking, IsReady, LowUnsynced
<1>4. Rounds /\ Turns
  BY <1>1 DEF Rounds, Turns, Measuring, HighGone
<1>5. Recorded /\ OnlineTime
  BY <1>1 DEF Init, Recorded, OnlineTime
<1> QED
  BY <1>2, <1>3, <1>4, <1>5 DEF TimerInv, Stage

\* A step that changes no variable.
LEMMA StutterTimerInv ==
  ASSUME TimerInv, UNCHANGED vars
  PROVE  TimerInv'
BY DEF TimerInv, Types, TypeOK, OnCore, Stage, Handshaking, LowUnsynced, Measuring, HighGone,
   Finished, RootWaits, IsReady, IsBlocked, HighAt, LowAt, Rounds, Turns, HighsTurn, HighClock,
   LowsTurn, LowFirst, LowsRound, SamplePending, Recorded, OnlineTime, vars, clock, lowVars,
   highVars

LEMMA NextTimerInv == TimerInv /\ [Next]_vars => TimerInv'
<1> SUFFICES ASSUME TimerInv, Next \/ UNCHANGED vars PROVE TimerInv'
  OBVIOUS
<1>1. CASE Next
  BY <1>1, PassTimeInv, HighReadyInv, HighSyncInv, HighArmInv, HighPublishInv, HighEnterInv,
     HighNewSliceInv, HighPollInv, HighEndInv, LowSyncInv, LowStartInv, LowRecordInv, LowDoneInv,
     RootAwaitHighInv, RootAwaitLowInv, RootPrintInv, StutterTimerInv DEF Next, RootSpin
<1> QED
  BY <1>1, StutterTimerInv

\* Where HIGH's timer stands in each slice, and what LOW's record owes to it.
THEOREM TimerInvariance == Spec => []TimerInv
BY InitTimerInv, NextTimerInv, PTL DEF Spec

-----------------------------------------------------------------------------
(* What the benchmark promises *)

\* No index leaves its array and no online time exceeds a slice, although LOW
\* may run alone at the end.
THEOREM TimerTypeCorrect == Spec => []TypeOK
<1>1. TimerInv => TypeOK
  BY DEF TimerInv, Types
<1> QED
  BY <1>1, TimerInvariance, PTL

\* Once in phase, every printed line carries the secret that determined its
\* online time.
THEOREM OnlineTimeRight == Spec => []OnlineTime
<1>1. TimerInv => OnlineTime
  BY DEF TimerInv
<1> QED
  BY <1>1, TimerInvariance, PTL

\* Only the first rounds can be out of phase.
THEOREM AlignedForEver == Spec => StaysAligned
<1>1. ASSUME TimerInv, [Next]_vars, aligned PROVE aligned'
  <2>1. CASE HighArm
    <3>1. HighsTurn /\ pc[High] = "arm"
      BY <1>1, <2>1, HighRuns DEF HighArm, At, HighAt
    <3>2. pos = 0
      BY <1>1, <3>1 DEF HighsTurn, HighClock, HighAt
    <3> QED
      BY <2>1, <3>2 DEF HighArm
  <2>2. CASE ~HighArm
    <3>1. aligned' = aligned
      BY <1>1, <2>2 DEF Next, PassTime, HighReady, HighSync, HighPublish, HighEnter,
         HighNewSlice, HighPoll, HighEnd, LowSync, LowStart, LowRecord, LowDone, RootAwaitHigh,
         RootAwaitLow, RootPrint, RootSpin, vars, highVars
    <3> QED
      BY <1>1, <3>1
  <2> QED
    BY <2>1, <2>2
<1> QED
  BY <1>1, TimerInvariance, PTL DEF Spec, StaysAligned
=============================================================================
