--------------------------- MODULE SingleCoreProofs ---------------------------
(***************************************************************************)
(* Proofs about SingleCore, for every family of channels: types and the    *)
(* complete report without any assumption about time; and, if a loop body  *)
(* fits a time slice (SliceFits), that every line is labelled with the     *)
(* secret that caused it and that every sample measures a fresh secret.    *)
(*                                                                         *)
(* The first part is about CovertChannel alone, the common protocol: types *)
(* and that the root task prints a complete record which nobody writes any *)
(* more.  Its lemmas about the kernel's operations serve both parts.       *)
(*                                                                         *)
(* The invariant of SingleCore has two layers.  Base says who can be where,*)
(* with no regard to time.  Turns says whose slice it is, what the thread  *)
(* has still time for, and what the other one, preempted while it waits,   *)
(* will find.                                                              *)
(***************************************************************************)
EXTENDS SingleCore, FiniteSetTheorems, TLAPS

-----------------------------------------------------------------------------
(* The kernel's operations *)

\* Whoever is eligible to run is a thread or the idle marker.
LEMMA EligibleType ==
  ASSUME NEW S \in SUBSET Thread
  PROVE  Eligible(S) \subseteq S \cup {Idle}
BY Sel4Assumption DEF Eligible

\* A reschedule keeps the types of cur, left and away.
LEMMA RescheduleType ==
  ASSUME KernelTypeOK, NEW t \in Thread, Runs(t), Reschedule(t)
  PROVE  /\ cur' \in Thread \cup {Idle}
         /\ left' \in 0..Slice
         /\ away' \in [Thread -> BOOLEAN]
         /\ CurReady'
<1>1. PICK next \in Eligible(Runnable') :
        /\ SwitchTo(next)
        /\ left' \in IF t # Root THEN {left - 1}
                     ELSE IF next = Root THEN {left} ELSE 1..Slice
  BY DEF Reschedule
<1>2. Runnable' \in SUBSET Thread
  BY DEF Runnable
<1>3. cur' \in Runnable' \cup {Idle}
  BY <1>1, <1>2, EligibleType DEF SwitchTo
<1>6. cur' \in Thread \cup {Idle} /\ CurReady'
  BY <1>3, Sel4Assumption DEF Runnable, CurReady
<1>4. away' \in [Thread -> BOOLEAN]
  BY <1>1 DEF SwitchTo, KernelTypeOK
<1>5. left' \in 0..Slice
  BY <1>1, Sel4Assumption DEF KernelTypeOK, Runs
<1> QED
  BY <1>4, <1>5, <1>6

\* seL4_Send wakes one thread that receives on ep, or blocks the caller.
LEMMA SendEffect ==
  ASSUME KernelTypeOK, NEW t \in Thread, NEW ep \in Endpoint, Send(t, ep)
  PROVE  /\ KernelTypeOK' /\ CurReady'
         /\ \/ \E r \in Thread : /\ ipc[r] = Blocked("recv", ep)
                                 /\ ipc' = [ipc EXCEPT ![r] = Ready]
            \/ ipc' = [ipc EXCEPT ![t] = Blocked("send", ep)]
<1>1. \/ \E r \in Thread : /\ ipc[r] = Blocked("recv", ep)
                           /\ ipc' = [ipc EXCEPT ![r] = Ready]
      \/ ipc' = [ipc EXCEPT ![t] = Blocked("send", ep)]
  BY DEF Send, SendTransfer, Waiting
<1>2. Ready \in IpcState /\ Blocked("send", ep) \in IpcState
  BY DEF IpcState, Blocked
<1>3. ipc' \in [Thread -> IpcState]
  BY <1>1, <1>2 DEF KernelTypeOK
<1>4. Runs(t) /\ Reschedule(t)
  BY DEF Send
<1> QED
  BY <1>1, <1>3, <1>4, RescheduleType DEF KernelTypeOK

\* seL4_Recv releases one thread that sends on ep, or blocks the caller.
LEMMA RecvEffect ==
  ASSUME KernelTypeOK, NEW t \in Thread, NEW ep \in Endpoint, Recv(t, ep)
  PROVE  /\ KernelTypeOK' /\ CurReady'
         /\ \/ \E s \in Thread : /\ ipc[s] = Blocked("send", ep)
                                 /\ ipc' = [ipc EXCEPT ![s] = Ready]
            \/ ipc' = [ipc EXCEPT ![t] = Blocked("recv", ep)]
<1>1. \/ \E s \in Thread : /\ ipc[s] = Blocked("send", ep)
                           /\ ipc' = [ipc EXCEPT ![s] = Ready]
      \/ ipc' = [ipc EXCEPT ![t] = Blocked("recv", ep)]
  BY DEF Recv, RecvTransfer, Waiting
<1>2. Ready \in IpcState /\ Blocked("recv", ep) \in IpcState
  BY DEF IpcState, Blocked
<1>3. ipc' \in [Thread -> IpcState]
  BY <1>1, <1>2 DEF KernelTypeOK
<1>4. Runs(t) /\ Reschedule(t)
  BY DEF Recv
<1> QED
  BY <1>1, <1>3, <1>4, RescheduleType DEF KernelTypeOK

\* A computation step uses one step of the slice; ipc stays.
LEMMA ComputeEffect ==
  ASSUME KernelTypeOK, NEW t \in Thread, Compute(t),
         CurReady, away' \in [Thread -> BOOLEAN]
  PROVE  KernelTypeOK' /\ CurReady' /\ ipc' = ipc
BY Sel4Assumption DEF KernelTypeOK, Compute, Runs, CurReady

\* A timer tick keeps the kernel's types and ipc.
LEMMA TickEffect ==
  ASSUME KernelTypeOK, CurReady, NEW spinning, Tick(spinning)
  PROVE  KernelTypeOK' /\ CurReady' /\ ipc' = ipc
<1>1. cur \in Runnable
  BY DEF Tick, Worker, CurReady, Runnable
<1>2. PICK next \in Runnable : SwitchTo(next)
  BY <1>1 DEF Tick
<1>3. left' \in 0..Slice /\ ipc' = ipc
  BY Sel4Assumption DEF Tick
<1> QED
  BY <1>2, <1>3 DEF KernelTypeOK, SwitchTo, Runnable, CurReady

\* The kinds of blocking differ from each other and from being ready.
LEMMA BlockedDiffers ==
  ASSUME NEW o1, NEW e1, NEW o2, NEW e2
  PROVE  /\ Blocked(o1, e1) # Ready
         /\ Blocked(o1, e1) = Blocked(o2, e2) => o1 = o2 /\ e1 = e2
<1>1. DOMAIN Blocked(o1, e1) = {"op", "ep"} /\ DOMAIN Ready = {"op"}
  BY DEF Blocked, Ready
<1>2. Blocked(o1, e1).op = o1 /\ Blocked(o1, e1).ep = e1
  BY DEF Blocked
<1>3. Blocked(o2, e2).op = o2 /\ Blocked(o2, e2).ep = e2
  BY DEF Blocked
<1> QED
  BY <1>1, <1>2, <1>3

\* The configured channel: its secrets are labels, what a secret touches and
\* what the spy probes are sets of units.
LEMMA ChannelFacts ==
  ASSUME chan \in Family
  PROVE  /\ chan.order \in {"touchFirst", "publishFirst"}
         /\ chan.label \in Label
         /\ chan.secrets \subseteq Label
         /\ chan.probe \subseteq Unit
         /\ \A s \in chan.secrets : chan.touch[s] \subseteq Unit
<1>1. chan.order \in {"touchFirst", "publishFirst"} /\ chan.label \in Label
  BY ChannelAssumption
<1>2. chan.secrets \subseteq Label
  BY DEF Label
<1>3. chan.probe \subseteq Unit
  BY DEF Unit
<1>4. ASSUME NEW s \in chan.secrets
      PROVE  chan.touch[s] \subseteq Unit
  BY DEF Unit
<1> QED
  BY <1>1, <1>2, <1>3, <1>4

-----------------------------------------------------------------------------
(* The invariant *)

\* The facts every step of the proof uses: who the threads and endpoints are,
\* and that blocked states can be told apart.
LEMMA Facts ==
  /\ Root \in Thread /\ Trojan \in Thread /\ Spy \in Thread
  /\ t_ep \in Endpoint /\ s_ep \in Endpoint /\ syn_ep \in Endpoint
  /\ \A o1, e1, o2, e2 :
        /\ Blocked(o1, e1) # Ready
        /\ Blocked(o1, e1) = Blocked(o2, e2) => o1 = o2 /\ e1 = e2
BY ChannelAssumption, BlockedDiffers

\* When the threads start, nobody blocks, prints or has recorded.
LEMMA InitIInv == Init => IInv
<1> SUFFICES ASSUME Init PROVE IInv
  OBVIOUS
<1>1. KernelTypeOK
  BY Sel4Assumption DEF Init, StartAt, KernelInit, KernelTypeOK, IpcState
<1>2. TypeOK
  BY <1>1, ChannelAssumption DEF Init, StartAt, TypeOK, Slot, Sample, NoSample, Label
<1>3. Statements /\ Loops /\ Handshake
  BY ChannelAssumption DEF Init, StartAt, KernelInit, Statements, Loops, Handshake,
                           Reporting, CurReady
<1> QED
  BY <1>2, <1>3 DEF IInv

\* The trojan's first message wakes the root task, if anybody.
LEMMA TrojanReadyIInv == IInv /\ TrojanReady => IInv'
<1> SUFFICES ASSUME IInv, TrojanReady PROVE IInv'
  OBVIOUS
<1> USE Facts, ChannelAssumption
<1>1. KernelTypeOK /\ Send(Trojan, t_ep)
  BY DEF IInv, TypeOK, TrojanReady
<1>2. /\ KernelTypeOK' /\ CurReady'
      /\ \/ \E u \in Thread : /\ ipc[u] = Blocked("recv", t_ep)
                              /\ ipc' = [ipc EXCEPT ![u] = Ready]
         \/ ipc' = [ipc EXCEPT ![Trojan] = Blocked("send", t_ep)]
  BY <1>1, SendEffect
<1>3. TypeOK'
  BY <1>2 DEF IInv, TypeOK, TrojanReady, Goto, FirstStatement,
              trojanVars, spyVars
<1>4. Statements' /\ Loops'
  BY DEF IInv, TypeOK, Statements, Loops, TrojanReady, Goto, FirstStatement,
         trojanVars, spyVars
<1>5. Handshake'
  BY <1>2 DEF IInv, TypeOK, KernelTypeOK, Statements, Handshake, Reporting,
              TrojanReady, Goto, FirstStatement
<1> QED
  BY <1>3, <1>4, <1>5 DEF IInv

\* The trojan's second message wakes the spy, if anybody: the root task
\* never receives on syn_ep.
LEMMA TrojanSyncIInv == IInv /\ TrojanSync => IInv'
<1> SUFFICES ASSUME IInv, TrojanSync PROVE IInv'
  OBVIOUS
<1> USE Facts, ChannelAssumption
<1>1. KernelTypeOK /\ Send(Trojan, syn_ep)
  BY DEF IInv, TypeOK, TrojanSync
<1>2. /\ KernelTypeOK' /\ CurReady'
      /\ \/ \E u \in Thread : /\ ipc[u] = Blocked("recv", syn_ep)
                              /\ ipc' = [ipc EXCEPT ![u] = Ready]
         \/ ipc' = [ipc EXCEPT ![Trojan] = Blocked("send", syn_ep)]
  BY <1>1, SendEffect
<1>3. TypeOK'
  BY <1>2 DEF IInv, TypeOK, TrojanSync, Goto, FirstStatement,
              trojanVars, spyVars
<1>4. Statements' /\ Loops'
  BY DEF IInv, TypeOK, Statements, Loops, TrojanSync, Goto, FirstStatement,
         trojanVars, spyVars
<1>5. Handshake'
  BY <1>2 DEF IInv, TypeOK, KernelTypeOK, Statements, Handshake, Reporting,
              TrojanSync, Goto, FirstStatement
<1> QED
  BY <1>3, <1>4, <1>5 DEF IInv

\* The spy's receive on syn_ep releases the trojan, if anybody.
LEMMA SpySyncIInv == IInv /\ SpySync => IInv'
<1> SUFFICES ASSUME IInv, SpySync PROVE IInv'
  OBVIOUS
<1> USE Facts, ChannelAssumption
<1>1. KernelTypeOK /\ Recv(Spy, syn_ep)
  BY DEF IInv, TypeOK, SpySync
<1>2. /\ KernelTypeOK' /\ CurReady'
      /\ \/ \E u \in Thread : /\ ipc[u] = Blocked("send", syn_ep)
                              /\ ipc' = [ipc EXCEPT ![u] = Ready]
         \/ ipc' = [ipc EXCEPT ![Spy] = Blocked("recv", syn_ep)]
  BY <1>1, RecvEffect
<1>3. TypeOK'
  BY <1>2 DEF IInv, TypeOK, SpySync, Goto, FirstStatement,
              trojanVars, spyVars
<1>4. Statements' /\ Loops'
  BY DEF IInv, TypeOK, Statements, Loops, SpySync, Goto, FirstStatement,
         trojanVars, spyVars
<1>5. Handshake'
  BY <1>2 DEF IInv, TypeOK, KernelTypeOK, Statements, Handshake, Reporting,
              SpySync, Goto, FirstStatement
<1> QED
  BY <1>3, <1>4, <1>5 DEF IInv

\* The spy's result message: it has recorded every data point by then.
LEMMA SpyDoneIInv == IInv /\ SpyDone => IInv'
<1> SUFFICES ASSUME IInv, SpyDone PROVE IInv'
  OBVIOUS
<1> USE Facts, ChannelAssumption
<1>1. KernelTypeOK /\ Send(Spy, s_ep)
  BY DEF IInv, TypeOK, SpyDone
<1>2. /\ KernelTypeOK' /\ CurReady'
      /\ \/ \E u \in Thread : /\ ipc[u] = Blocked("recv", s_ep)
                              /\ ipc' = [ipc EXCEPT ![u] = Ready]
         \/ ipc' = [ipc EXCEPT ![Spy] = Blocked("send", s_ep)]
  BY <1>1, SendEffect
<1>3. TypeOK'
  BY <1>2 DEF IInv, TypeOK, SpyDone, Goto, FirstStatement,
              trojanVars, spyVars
<1>4. Statements' /\ Loops'
  BY DEF IInv, TypeOK, Statements, Loops, SpyDone, Goto, FirstStatement,
         trojanVars, spyVars
<1>5. Handshake'
  BY <1>2 DEF IInv, TypeOK, KernelTypeOK, Statements, Handshake, Reporting,
              SpyDone, Goto, FirstStatement
<1> QED
  BY <1>3, <1>4, <1>5 DEF IInv

\* The root task's first receive, on t_ep.
LEMMA RootAwaitTrojanIInv == IInv /\ RootAwaitTrojan => IInv'
<1> SUFFICES ASSUME IInv, RootAwaitTrojan PROVE IInv'
  OBVIOUS
<1> USE Facts, ChannelAssumption
<1>1. KernelTypeOK /\ Recv(Root, t_ep)
  BY DEF IInv, TypeOK, RootAwaitTrojan
<1>2. /\ KernelTypeOK' /\ CurReady'
      /\ \/ \E u \in Thread : /\ ipc[u] = Blocked("send", t_ep)
                              /\ ipc' = [ipc EXCEPT ![u] = Ready]
         \/ ipc' = [ipc EXCEPT ![Root] = Blocked("recv", t_ep)]
  BY <1>1, RecvEffect
<1>3. TypeOK'
  BY <1>2 DEF IInv, TypeOK, RootAwaitTrojan, Goto, FirstStatement,
              trojanVars, spyVars
<1>4. Statements' /\ Loops'
  BY DEF IInv, TypeOK, Statements, Loops, RootAwaitTrojan, Goto, FirstStatement,
         trojanVars, spyVars
<1>5. Handshake'
  BY <1>2 DEF IInv, TypeOK, KernelTypeOK, Statements, Handshake, Reporting,
              RootAwaitTrojan, Goto, FirstStatement
<1> QED
  BY <1>3, <1>4, <1>5 DEF IInv

\* The root task's second receive, on s_ep: only the spy's result message
\* lets it go on, so the record is complete when it does.
LEMMA RootAwaitSpyIInv == IInv /\ RootAwaitSpy => IInv'
<1> SUFFICES ASSUME IInv, RootAwaitSpy PROVE IInv'
  OBVIOUS
<1> USE Facts, ChannelAssumption
<1>1. KernelTypeOK /\ Recv(Root, s_ep)
  BY DEF IInv, TypeOK, RootAwaitSpy
<1>2. /\ KernelTypeOK' /\ CurReady'
      /\ \/ \E u \in Thread : /\ ipc[u] = Blocked("send", s_ep)
                              /\ ipc' = [ipc EXCEPT ![u] = Ready]
         \/ ipc' = [ipc EXCEPT ![Root] = Blocked("recv", s_ep)]
  BY <1>1, RecvEffect
<1>3. TypeOK'
  BY <1>2 DEF IInv, TypeOK, RootAwaitSpy, Goto, FirstStatement,
              trojanVars, spyVars
<1>4. Statements' /\ Loops'
  BY DEF IInv, TypeOK, Statements, Loops, RootAwaitSpy, Goto, FirstStatement,
         trojanVars, spyVars
<1>5. ASSUME NEW u \in Thread, ipc[u] = Blocked("send", s_ep)
      PROVE  u = Spy /\ pc[Spy] = "spin"
  <2>1. ipc[Root] # Blocked("send", s_ep)
    BY DEF IInv, Handshake
  <2>2. ipc[Trojan] # Blocked("send", s_ep)
    BY DEF IInv, Handshake
  <2>3. u = Spy
    BY <1>5, <2>1, <2>2
  <2> QED
    BY <1>5, <2>3 DEF IInv, Handshake
<1>6. Handshake'
  <2>1. CASE ipc' = [ipc EXCEPT ![Root] = Blocked("recv", s_ep)]
    BY <1>2, <2>1 DEF IInv, TypeOK, KernelTypeOK, Handshake, Reporting,
                      RootAwaitSpy, Goto
  <2>2. CASE /\ pc[Spy] = "spin"
             /\ ipc' = [ipc EXCEPT ![Spy] = Ready]
    <3>1. ipc[Root] = Ready
      BY DEF IInv, Handshake, CurReady, RootAwaitSpy, Recv, Runs
    <3> QED
      BY <1>2, <2>2, <3>1 DEF IInv, TypeOK, KernelTypeOK, Handshake,
                              Reporting, RootAwaitSpy, Goto
  <2> QED
    BY <1>2, <1>5, <2>1, <2>2
<1> QED
  BY <1>3, <1>4, <1>6 DEF IInv

\* The trojan draws a secret: the record and the endpoints stay.
LEMMA TrojanBeginIInv == IInv /\ TrojanBegin => IInv'
<1> SUFFICES ASSUME IInv, TrojanBegin PROVE IInv'
  OBVIOUS
<1> USE Facts, ChannelAssumption
<1>1. KernelTypeOK' /\ CurReady' /\ ipc' = ipc
  BY ComputeEffect DEF IInv, Handshake, TypeOK, KernelTypeOK, TrojanBegin, NewTimeSlice
<1>2. TypeOK'
  BY <1>1, ChannelFacts DEF IInv, TypeOK, Statements, Loops, TrojanBegin, NewTimeSlice,
     Goto, NextRound, Slot, Sample, threadVars, trojanVars, spyVars
<1>3. Statements' /\ Loops'
  BY DEF IInv, TypeOK, Statements, Loops, TrojanBegin, NewTimeSlice, Goto, NextRound,
         threadVars, trojanVars, spyVars
<1>4. Handshake'
  BY <1>1 DEF IInv, TypeOK, Statements, Handshake, Reporting, TrojanBegin, NewTimeSlice,
              Goto, NextRound, threadVars
<1> QED
  BY <1>2, <1>3, <1>4 DEF IInv

\* The trojan touches a unit: the record and the endpoints stay.
LEMMA TrojanTouchIInv == IInv /\ TrojanTouch => IInv'
<1> SUFFICES ASSUME IInv, TrojanTouch PROVE IInv'
  OBVIOUS
<1> USE Facts, ChannelAssumption
<1>1. KernelTypeOK' /\ CurReady' /\ ipc' = ipc
  BY ComputeEffect DEF IInv, Handshake, TypeOK, KernelTypeOK, TrojanTouch
<1>2. TypeOK'
  BY <1>1, ChannelFacts DEF IInv, TypeOK, Statements, Loops, TrojanTouch,
     Goto, NextRound, Slot, Sample, threadVars, trojanVars, spyVars
<1>3. Statements' /\ Loops'
  BY DEF IInv, TypeOK, Statements, Loops, TrojanTouch, Goto, NextRound,
         threadVars, trojanVars, spyVars
<1>4. Handshake'
  BY <1>1 DEF IInv, TypeOK, Statements, Handshake, Reporting, TrojanTouch,
              Goto, NextRound, threadVars
<1> QED
  BY <1>2, <1>3, <1>4 DEF IInv

\* The trojan publishes: at most one publication in each round.
LEMMA TrojanPublishIInv == IInv /\ TrojanPublish => IInv'
<1> SUFFICES ASSUME IInv, TrojanPublish PROVE IInv'
  OBVIOUS
<1> USE Facts, ChannelAssumption
<1>1. KernelTypeOK' /\ CurReady' /\ ipc' = ipc
  BY ComputeEffect DEF IInv, Handshake, TypeOK, KernelTypeOK, TrojanPublish
<1>2. TypeOK'
  BY <1>1, ChannelFacts DEF IInv, TypeOK, Statements, Loops, TrojanPublish,
     Goto, NextRound, Slot, Sample, threadVars, trojanVars, spyVars
<1>3. Statements' /\ Loops'
  BY DEF IInv, TypeOK, Statements, Loops, TrojanPublish, Goto, NextRound,
         threadVars, trojanVars, spyVars
<1>4. Handshake'
  BY <1>1 DEF IInv, TypeOK, Statements, Handshake, Reporting, TrojanPublish,
              Goto, NextRound, threadVars
<1> QED
  BY <1>2, <1>3, <1>4 DEF IInv

\* The branch predictor trojan publishes before it trains.
LEMMA TrojanPickIInv == IInv /\ TrojanPick => IInv'
<1> SUFFICES ASSUME IInv, TrojanPick PROVE IInv'
  OBVIOUS
<1> USE Facts, ChannelAssumption
<1>1. KernelTypeOK' /\ CurReady' /\ ipc' = ipc
  BY ComputeEffect DEF IInv, Handshake, TypeOK, KernelTypeOK, TrojanPick
<1>2. TypeOK'
  BY <1>1, ChannelFacts DEF IInv, TypeOK, Statements, Loops, TrojanPick,
     Goto, NextRound, Slot, Sample, threadVars, trojanVars, spyVars
<1>3. Statements' /\ Loops'
  BY DEF IInv, TypeOK, Statements, Loops, TrojanPick, Goto, NextRound,
         threadVars, trojanVars, spyVars
<1>4. Handshake'
  BY <1>1 DEF IInv, TypeOK, Statements, Handshake, Reporting, TrojanPick,
              Goto, NextRound, threadVars
<1> QED
  BY <1>2, <1>3, <1>4 DEF IInv

\* The branch predictor trojan trains, or ends its round.
LEMMA TrojanTrainIInv == IInv /\ TrojanTrain => IInv'
<1> SUFFICES ASSUME IInv, TrojanTrain PROVE IInv'
  OBVIOUS
<1> USE Facts, ChannelAssumption
<1>1. KernelTypeOK' /\ CurReady' /\ ipc' = ipc
  BY ComputeEffect DEF IInv, Handshake, TypeOK, KernelTypeOK, TrojanTrain
<1>2. TypeOK'
  BY <1>1, ChannelFacts DEF IInv, TypeOK, Statements, Loops, TrojanTrain,
     Goto, NextRound, Slot, Sample, threadVars, trojanVars, spyVars
<1>3. Statements' /\ Loops'
  BY DEF IInv, TypeOK, Statements, Loops, TrojanTrain, Goto, NextRound,
         threadVars, trojanVars, spyVars
<1>4. Handshake'
  BY <1>1 DEF IInv, TypeOK, Statements, Handshake, Reporting, TrojanTrain,
              Goto, NextRound, threadVars
<1> QED
  BY <1>2, <1>3, <1>4 DEF IInv

\* The spy starts to probe.
LEMMA SpyBeginIInv == IInv /\ SpyBegin => IInv'
<1> SUFFICES ASSUME IInv, SpyBegin PROVE IInv'
  OBVIOUS
<1> USE Facts, ChannelAssumption
<1>1. KernelTypeOK' /\ CurReady' /\ ipc' = ipc
  BY ComputeEffect DEF IInv, Handshake, TypeOK, KernelTypeOK, SpyBegin, NewTimeSlice
<1>2. TypeOK'
  BY <1>1, ChannelFacts DEF IInv, TypeOK, Statements, Loops, SpyBegin, NewTimeSlice,
     Goto, NextRound, Slot, Sample, threadVars, trojanVars, spyVars
<1>3. Statements' /\ Loops'
  BY DEF IInv, TypeOK, Statements, Loops, SpyBegin, NewTimeSlice, Goto, NextRound,
         threadVars, trojanVars, spyVars
<1>4. Handshake'
  BY <1>1 DEF IInv, TypeOK, Statements, Handshake, Reporting, SpyBegin, NewTimeSlice,
              Goto, NextRound, threadVars
<1> QED
  BY <1>2, <1>3, <1>4 DEF IInv

\* The spy probes a unit.
LEMMA SpyProbeIInv == IInv /\ SpyProbe => IInv'
<1> SUFFICES ASSUME IInv, SpyProbe PROVE IInv'
  OBVIOUS
<1> USE Facts, ChannelAssumption
<1>1. KernelTypeOK' /\ CurReady' /\ ipc' = ipc
  BY ComputeEffect DEF IInv, Handshake, TypeOK, KernelTypeOK, SpyProbe
<1>2. TypeOK'
  BY <1>1, ChannelFacts DEF IInv, TypeOK, Statements, Loops, SpyProbe,
     Goto, NextRound, Slot, Sample, threadVars, trojanVars, spyVars
<1>3. Statements' /\ Loops'
  BY DEF IInv, TypeOK, Statements, Loops, SpyProbe, Goto, NextRound,
         threadVars, trojanVars, spyVars
<1>4. Handshake'
  BY <1>1 DEF IInv, TypeOK, Statements, Handshake, Reporting, SpyProbe,
              Goto, NextRound, threadVars
<1> QED
  BY <1>2, <1>3, <1>4 DEF IInv

\* The spy records a sample in a round it has not finished, so never after
\* its result message.
LEMMA SpyRecordIInv == IInv /\ SpyRecord => IInv'
<1> SUFFICES ASSUME IInv, SpyRecord PROVE IInv'
  OBVIOUS
<1> USE Facts, ChannelAssumption
<1>1. KernelTypeOK' /\ CurReady' /\ ipc' = ipc
  BY ComputeEffect DEF IInv, Handshake, TypeOK, KernelTypeOK, SpyRecord
<1>2. TypeOK'
  BY <1>1, ChannelFacts DEF IInv, TypeOK, Statements, Loops, SpyRecord,
     Goto, NextRound, Slot, Sample, threadVars, trojanVars, spyVars
<1>3. Statements' /\ Loops'
  BY DEF IInv, TypeOK, Statements, Loops, SpyRecord, Goto, NextRound,
         threadVars, trojanVars, spyVars
<1>4. Handshake'
  BY <1>1 DEF IInv, TypeOK, Statements, Handshake, Reporting, SpyRecord,
              Goto, NextRound, threadVars
<1> QED
  BY <1>2, <1>3, <1>4 DEF IInv

\* The root task prints a line, or leaves the loop.
LEMMA RootPrintIInv == IInv /\ RootPrint => IInv'
<1> SUFFICES ASSUME IInv, RootPrint PROVE IInv'
  OBVIOUS
<1> USE Facts, ChannelAssumption
<1>1. KernelTypeOK' /\ CurReady' /\ ipc' = ipc
  BY ComputeEffect DEF IInv, Handshake, TypeOK, KernelTypeOK, RootPrint
<1>2. TypeOK'
  BY <1>1, ChannelFacts DEF IInv, TypeOK, Statements, Loops, RootPrint,
     Goto, NextRound, Slot, Sample, threadVars, trojanVars, spyVars
<1>3. Statements' /\ Loops'
  BY DEF IInv, TypeOK, Statements, Loops, RootPrint, Goto, NextRound,
         threadVars, trojanVars, spyVars
<1>4. Handshake'
  BY <1>1 DEF IInv, TypeOK, KernelTypeOK, Statements, Handshake, Reporting,
         CurReady, RootPrint, Compute, Runs,
              Goto, NextRound, threadVars
<1> QED
  BY <1>2, <1>3, <1>4 DEF IInv

\* A thread enters newTimeSlice.
LEMMA EnterNewTimeSliceIInv ==
  ASSUME NEW t \in {Trojan, Spy}
  PROVE  IInv /\ EnterNewTimeSlice(t) => IInv'
<1> SUFFICES ASSUME IInv, EnterNewTimeSlice(t) PROVE IInv'
  OBVIOUS
<1> USE Facts, ChannelAssumption
<1>1. KernelTypeOK' /\ CurReady' /\ ipc' = ipc
  BY ComputeEffect DEF IInv, Handshake, TypeOK, KernelTypeOK, EnterNewTimeSlice
<1>2. TypeOK'
  BY <1>1 DEF IInv, TypeOK, EnterNewTimeSlice, Goto, trojanVars, spyVars
<1>3. Statements' /\ Loops'
  BY DEF IInv, TypeOK, Statements, Loops, EnterNewTimeSlice, Goto,
         trojanVars, spyVars
<1>4. Handshake'
  BY <1>1 DEF IInv, TypeOK, Statements, Handshake, Reporting,
              EnterNewTimeSlice, Goto
<1> QED
  BY <1>2, <1>3, <1>4 DEF IInv

\* The timer tick preempts a thread, but wakes and blocks nobody.
LEMMA TimerTickIInv == IInv /\ TimerTick => IInv'
<1> SUFFICES ASSUME IInv, TimerTick PROVE IInv'
  OBVIOUS
<1>1. KernelTypeOK' /\ CurReady' /\ ipc' = ipc
  BY TickEffect DEF IInv, Handshake, TypeOK, TimerTick
<1> QED
  BY <1>1 DEF IInv, TypeOK, Statements, Loops, Handshake, Reporting,
              TimerTick, threadVars, trojanVars, spyVars

\* A step that changes no variable.
LEMMA StutterIInv == IInv /\ UNCHANGED vars => IInv'
BY DEF IInv, TypeOK, KernelTypeOK, CurReady, Statements, Loops, Handshake,
       Reporting, vars, kernelVars, threadVars, trojanVars, spyVars

\* IInv is inductive.
LEMMA NextIInv == IInv /\ [Next]_vars => IInv'
<1> SUFFICES ASSUME IInv, [Next]_vars PROVE IInv'
  OBVIOUS
<1>1. CASE TrojanNext
  BY <1>1, TrojanReadyIInv, TrojanSyncIInv, EnterNewTimeSliceIInv,
     TrojanBeginIInv, TrojanTouchIInv, TrojanPublishIInv, TrojanPickIInv,
     TrojanTrainIInv DEF TrojanNext
<1>2. CASE SpyNext
  BY <1>2, SpySyncIInv, EnterNewTimeSliceIInv, SpyBeginIInv, SpyProbeIInv,
     SpyRecordIInv, SpyDoneIInv DEF SpyNext
<1>3. CASE RootNext
  BY <1>3, RootAwaitTrojanIInv, RootAwaitSpyIInv, RootPrintIInv, StutterIInv
     DEF RootNext, RootSpin
<1>4. CASE TimerTick
  BY <1>4, TimerTickIInv
<1>5. CASE UNCHANGED vars
  BY <1>5, StutterIInv
<1> QED
  BY <1>1, <1>2, <1>3, <1>4, <1>5 DEF Next

\* The inductive invariant holds in every reachable state.
THEOREM Invariance == Spec => []IInv
BY InitIInv, NextIInv, PTL DEF Spec

-----------------------------------------------------------------------------
(* The results *)

\* Every variable keeps its type: no index leaves the record arrays, no
\* thread publishes more secrets than there are data points.
THEOREM TypeCorrect == Spec => []TypeOK
<1>1. IInv => TypeOK
  BY DEF IInv
<1> QED
  BY <1>1, Invariance, PTL

\* The root task starts to print only when the spy has recorded every data
\* point (run_single_l1 after its second seL4_Recv).
THEOREM ReportIsComplete == Spec => []ReportComplete
<1>1. IInv => ReportComplete
  BY DEF IInv, Loops, Handshake, ReportComplete
<1> QED
  BY <1>1, Invariance, PTL

\* While the root task prints, no step writes the shared record.
THEOREM RecordIsStable == Spec => RecordStable
<1>1. IInv /\ [Next]_vars => [Reporting => UNCHANGED rec]_vars
  <2> SUFFICES ASSUME IInv, Next, Reporting PROVE rec' = rec
    BY DEF vars, spyVars
  <2>1. pc[Spy] = "spin"
    BY DEF IInv, Handshake
  <2>2. ~SpyRecord
    BY <2>1 DEF SpyRecord
  <2> QED
    BY <2>2 DEF Next, TrojanNext, SpyNext, RootNext, TimerTick, TrojanReady,
       TrojanSync, EnterNewTimeSlice, TrojanBegin, TrojanTouch, TrojanPublish,
       TrojanPick, TrojanTrain, SpySync, SpyBegin, SpyProbe, SpyDone,
       RootAwaitTrojan, RootAwaitSpy, RootPrint, RootSpin, vars, spyVars
<1> QED
  BY <1>1, Invariance, PTL DEF Spec, RecordStable

-----------------------------------------------------------------------------
(* All single-core channels *)

PublishFirst == chan.order = "publishFirst"
Scheduling == chan.protocol = "schedule"
TrojanAt(S) == pc[Trojan] \in S
SpyAt(S) == pc[Spy] \in S

IsReady(t, label) == pc[t] = label /\ ipc[t] = Ready
IsBlocked(t, label, op, ep) == pc[t] = label /\ ipc[t] = Blocked(op, ep)

\* The statements of a worker from its synchronisation on.
TrojanLoop == IF PublishFirst THEN {"pick", "enter", "train", "spin"}
              ELSE {"enter", "wait", "touch", "publish", "spin"}
SpyLoop == IF Scheduling THEN {"enter", "start", "poll", "record", "done"}
           ELSE {"enter", "wait", "probe", "record", "done"}

-----------------------------------------------------------------------------
(* Base: the handshakes *)

\* The places where a worker is between two of its messages.
SpyUnsynced ==
  IsReady(Spy, "sync") \/ IsBlocked(Spy, "enter", "recv", syn_ep)
SpyUntimed ==
  IsReady(Spy, "time") \/ IsBlocked(Spy, "sync", "recv", s_ep)
TrojanUntimed ==
  IsReady(Trojan, "time") \/ IsBlocked(Trojan, "sync", "recv", t_ep)
TrojanSends == IsBlocked(Trojan, FirstStatement, "send", syn_ep)

RootWaits == IsBlocked(Root, "report", "recv", s_ep)

\* run_single_l1: one message from the trojan.
PlainHandshake ==
  /\ chan.protocol # "kernel" /\ SpyUnsynced
  /\ \/ IsReady(Root, "trojan") /\ IsReady(Trojan, "ready")
     \/ IsBlocked(Root, "spy", "recv", t_ep) /\ IsReady(Trojan, "ready")
     \/ IsReady(Root, "spy") /\ IsReady(Trojan, "sync")

\* run_covert_llc_kernel: the spy announces, both are released.
KernelHandshake ==
  /\ chan.protocol = "kernel"
  /\ \/ /\ IsReady(Root, "spyReady") \/ IsBlocked(Root, "timeTrojan", "recv", s_ep)
        /\ TrojanUntimed /\ IsReady(Spy, "search")
     \/ IsReady(Root, "timeTrojan") /\ TrojanUntimed /\ IsReady(Spy, "time")
     \/ IsBlocked(Root, "timeSpy", "send", t_ep) /\ IsReady(Trojan, "time") /\ SpyUntimed
     \/ IsReady(Root, "timeSpy") /\ IsReady(Trojan, "sync") /\ SpyUntimed
     \/ /\ IsBlocked(Root, "spy", "send", s_ep) /\ IsReady(Spy, "time")
        /\ IsReady(Trojan, "sync") \/ TrojanSends
     \/ /\ IsReady(Root, "spy") /\ IsReady(Spy, "sync")
        /\ IsReady(Trojan, "sync") \/ TrojanSends

\* The trojan's message to the spy.
Synchronising ==
  /\ RootWaits
  /\ \/ IsReady(Trojan, "sync") /\ SpyUnsynced
     \/ TrojanSends /\ IsReady(Spy, "sync")

Handshaking ==
  /\ i[Trojan] = 0 /\ i[Spy] = 0
  /\ PlainHandshake \/ KernelHandshake \/ Synchronising

\* Both workers are in their loops, and nobody but they can run.
Measuring ==
  /\ RootWaits /\ ipc[Trojan] = Ready /\ ipc[Spy] = Ready
  /\ TrojanAt(TrojanLoop) /\ SpyAt(SpyLoop)

\* The root task has the result and keeps the core.
Finished ==
  /\ pc[Root] \in {"report", "spin"} /\ ipc[Root] = Ready
  /\ TrojanAt(TrojanLoop) /\ pc[Spy] = "spin"

\* The loop indices, and what the trojan has drawn and published by then.
Rounds ==
  /\ i[Trojan] < DataPoints <=> pc[Trojan] # "spin"
  /\ i[Spy] < DataPoints <=> pc[Spy] \notin {"done", "spin"}
  /\ TrojanAt({"touch", "publish"}) => secret \in chan.secrets
  /\ PublishFirst /\ TrojanAt({"enter", "train", "spin"}) =>
       secret \in chan.secrets /\ shared = secret
  /\ pubs = i[Trojan] + IF PublishFirst /\ TrojanAt({"enter", "train"}) THEN 1 ELSE 0

\* What is printed is the record, from the first sample after the warmups on.
Lines ==
  /\ ~Finished => printed = {}
  /\ i[Root] >= Warmups
  /\ \A line \in printed :
       line[1] \in Warmups..(DataPoints - 1) /\ line[2] = rec[line[1]]

\* Somebody can always run, and the root task runs when it can.
OnCore ==
  /\ cur \in Thread /\ ipc[cur] = Ready
  /\ ipc[Root] = Ready => cur = Root

Types == TypeOK /\ prev_s \in Label /\ prevSec \in [Slot -> Label]

Stage == Handshaking \/ Measuring \/ Finished

Base == Types /\ OnCore /\ Stage /\ Rounds /\ Lines

-----------------------------------------------------------------------------
(* The effect of the kernel's operations *)

\* A reschedule leaves the core to the root task or to anybody who can run.
LEMMA RescheduleOnCore ==
  ASSUME NEW t \in Thread, Reschedule(t), \E u \in Thread : ipc'[u] = Ready
  PROVE  OnCore'
<1>1. PICK next \in Eligible(Runnable') : cur' = next
  BY DEF Reschedule, SwitchTo
<1>2. Runnable' # {}
  BY DEF Runnable
<1>3. next \in Runnable' /\ (Root \in Runnable' => next = Root)
  BY <1>2 DEF Eligible
<1>4. Root \in Thread
  BY Sel4Assumption
<1> QED
  BY <1>1, <1>3, <1>4 DEF OnCore, Runnable

\* seL4_Send, with the thread it wakes.
LEMMA SendCases ==
  ASSUME KernelTypeOK, NEW t \in Thread, NEW ep \in Endpoint, Send(t, ep)
  PROVE  /\ KernelTypeOK' /\ Reschedule(t)
         /\ \/ \E r \in Thread : /\ ipc[r] = Blocked("recv", ep)
                                 /\ ipc' = [ipc EXCEPT ![r] = Ready]
            \/ /\ \A r \in Thread : ipc[r] # Blocked("recv", ep)
               /\ ipc' = [ipc EXCEPT ![t] = Blocked("send", ep)]
<1>1. KernelTypeOK'
  BY SendEffect
<1> QED
  BY <1>1 DEF Send, SendTransfer, Waiting

\* seL4_Recv, with the thread it releases.
LEMMA RecvCases ==
  ASSUME KernelTypeOK, NEW t \in Thread, NEW ep \in Endpoint, Recv(t, ep)
  PROVE  /\ KernelTypeOK' /\ Reschedule(t)
         /\ \/ \E s \in Thread : /\ ipc[s] = Blocked("send", ep)
                                 /\ ipc' = [ipc EXCEPT ![s] = Ready]
            \/ /\ \A s \in Thread : ipc[s] # Blocked("send", ep)
               /\ ipc' = [ipc EXCEPT ![t] = Blocked("recv", ep)]
<1>1. KernelTypeOK'
  BY RecvEffect
<1> QED
  BY <1>1 DEF Recv, RecvTransfer, Waiting

\* A computation changes nothing about who can run.
LEMMA ComputeOnCore ==
  ASSUME Base, NEW t \in Thread, Compute(t), away' \in [Thread -> BOOLEAN]
  PROVE  KernelTypeOK' /\ OnCore' /\ ipc' = ipc /\ cur = t
BY ComputeEffect DEF Base, Types, TypeOK, OnCore, CurReady, Compute, Runs

\* Neither does a tick.
LEMMA TickOnCore ==
  ASSUME Base, NEW spinning, Tick(spinning)
  PROVE  KernelTypeOK' /\ OnCore' /\ ipc' = ipc
<1>1. KernelTypeOK' /\ ipc' = ipc
  BY TickEffect DEF Base, Types, TypeOK, OnCore, CurReady
<1>2. cur \in Runnable /\ cur # Root
  BY DEF Tick, Worker, Base, OnCore, Runnable
<1>3. cur' \in Runnable
  BY <1>2 DEF Tick, SwitchTo
<1> QED
  BY <1>1, <1>2, <1>3 DEF Base, OnCore, Runnable

-----------------------------------------------------------------------------
(* Base is inductive *)

\* A worker that executes its loop does so while both measure.
LEMMA InLoop ==
  ASSUME Base
  PROVE  /\ cur = Trojan /\ pc[Trojan] \notin {"ready", "time", "sync"} => Measuring
         /\ cur = Spy /\ pc[Spy] \notin {"search", "time", "sync"} => Measuring
BY Facts, ChannelAssumption
   DEF Base, OnCore, Stage, Handshaking, PlainHandshake, KernelHandshake, Synchronising,
       Finished, SpyUnsynced, SpyUntimed, TrojanUntimed, TrojanSends, IsReady, IsBlocked

\* A step in the loop of a worker keeps the stage.
LEMMA StayMeasuring ==
  ASSUME Base, Measuring, ipc' = ipc, pc'[Root] = pc[Root], chan' = chan,
         TrojanAt(TrojanLoop)', SpyAt(SpyLoop)', printed' = printed, i'[Root] = i[Root]
  PROVE  Stage' /\ Lines'
<1>1. Measuring'
  BY DEF Measuring, RootWaits, IsBlocked
<1>2. printed = {}
  BY Facts DEF Base, Lines, Measuring, RootWaits, IsBlocked, Finished
<1> QED
  BY <1>1, <1>2 DEF Stage, Base, Lines

\* The trojan reads the time stamp for the first time.
LEMMA EnterTrojanBase ==
  ASSUME Base, EnterNewTimeSlice(Trojan), UNCHANGED kdVars
  PROVE  Base' /\ Measuring /\ cur = Trojan
<1> USE Facts, ChannelAssumption, SingleAssumption
<1>1. /\ KernelTypeOK' /\ OnCore' /\ ipc' = ipc /\ cur = Trojan
      /\ chan' = chan /\ printed' = printed /\ pc'[Root] = pc[Root] /\ i'[Root] = i[Root]
  BY ComputeOnCore DEF Base, Types, TypeOK, KernelTypeOK, EnterNewTimeSlice, Goto, threadVars,
     trojanVars, spyVars, kdVars
<1>2. Measuring
  BY <1>1, InLoop DEF EnterNewTimeSlice
<1>3. Types'
  BY <1>1, <1>2, ChannelFacts DEF Base, Types, TypeOK, Rounds, Measuring, TrojanAt, SpyAt,
     TrojanLoop, SpyLoop, PublishFirst, Scheduling, Slot, Sample, EnterNewTimeSlice, Goto,
     threadVars, trojanVars, spyVars, kdVars
<1>4. TrojanAt(TrojanLoop)' /\ SpyAt(SpyLoop)'
  BY <1>1, <1>2 DEF Base, Types, TypeOK, Measuring, TrojanAt, SpyAt, TrojanLoop, SpyLoop,
     PublishFirst, Scheduling, EnterNewTimeSlice, Goto, threadVars, trojanVars, spyVars, kdVars
<1>5. Rounds'
  BY <1>1, <1>2 DEF Base, Types, TypeOK, Rounds, Measuring, TrojanAt, SpyAt, TrojanLoop, SpyLoop,
     PublishFirst, Scheduling, EnterNewTimeSlice, Goto, threadVars, trojanVars, spyVars, kdVars
<1> QED
  BY <1>1, <1>2, <1>3, <1>4, <1>5, StayMeasuring DEF Base

\* The trojan draws a secret.
LEMMA TrojanBeginBase ==
  ASSUME Base, TrojanBegin, UNCHANGED kdVars
  PROVE  Base' /\ Measuring /\ cur = Trojan
<1> USE Facts, ChannelAssumption, SingleAssumption
<1>1. /\ KernelTypeOK' /\ OnCore' /\ ipc' = ipc /\ cur = Trojan
      /\ chan' = chan /\ printed' = printed /\ pc'[Root] = pc[Root] /\ i'[Root] = i[Root]
  BY ComputeOnCore DEF Base, Types, TypeOK, KernelTypeOK, TrojanBegin, NewTimeSlice, Goto,
     threadVars, trojanVars, spyVars, kdVars
<1>2. Measuring
  BY <1>1, InLoop DEF TrojanBegin, NewTimeSlice
<1>3. Types'
  BY <1>1, <1>2, ChannelFacts DEF Base, Types, TypeOK, Rounds, Measuring, TrojanAt, SpyAt,
     TrojanLoop, SpyLoop, PublishFirst, Scheduling, Slot, Sample, TrojanBegin, NewTimeSlice, Goto,
     threadVars, trojanVars, spyVars, kdVars
<1>4. TrojanAt(TrojanLoop)' /\ SpyAt(SpyLoop)'
  BY <1>1, <1>2 DEF Base, Types, TypeOK, Measuring, TrojanAt, SpyAt, TrojanLoop, SpyLoop,
     PublishFirst, Scheduling, TrojanBegin, NewTimeSlice, Goto, threadVars, trojanVars, spyVars,
     kdVars
<1>5. Rounds'
  BY <1>1, <1>2 DEF Base, Types, TypeOK, Rounds, Measuring, TrojanAt, SpyAt, TrojanLoop, SpyLoop,
     PublishFirst, Scheduling, TrojanBegin, NewTimeSlice, Goto, threadVars, trojanVars, spyVars,
     kdVars
<1> QED
  BY <1>1, <1>2, <1>3, <1>4, <1>5, StayMeasuring DEF Base

\* The trojan touches a unit.
LEMMA TrojanTouchBase ==
  ASSUME Base, TrojanTouch, UNCHANGED kdVars
  PROVE  Base' /\ Measuring /\ cur = Trojan
<1> USE Facts, ChannelAssumption, SingleAssumption
<1>1. /\ KernelTypeOK' /\ OnCore' /\ ipc' = ipc /\ cur = Trojan
      /\ chan' = chan /\ printed' = printed /\ pc'[Root] = pc[Root] /\ i'[Root] = i[Root]
  BY ComputeOnCore DEF Base, Types, TypeOK, KernelTypeOK, TrojanTouch, Goto, threadVars, trojanVars,
     spyVars, kdVars
<1>2. Measuring
  BY <1>1, InLoop DEF TrojanTouch
<1>3. Types'
  BY <1>1, <1>2, ChannelFacts DEF Base, Types, TypeOK, Rounds, Measuring, TrojanAt, SpyAt,
     TrojanLoop, SpyLoop, PublishFirst, Scheduling, Slot, Sample, TrojanTouch, Goto, threadVars,
     trojanVars, spyVars, kdVars
<1>4. TrojanAt(TrojanLoop)' /\ SpyAt(SpyLoop)'
  BY <1>1, <1>2 DEF Base, Types, TypeOK, Measuring, TrojanAt, SpyAt, TrojanLoop, SpyLoop,
     PublishFirst, Scheduling, TrojanTouch, Goto, threadVars, trojanVars, spyVars, kdVars
<1>5. Rounds'
  BY <1>1, <1>2 DEF Base, Types, TypeOK, Rounds, Measuring, TrojanAt, SpyAt, TrojanLoop, SpyLoop,
     PublishFirst, Scheduling, TrojanTouch, Goto, threadVars, trojanVars, spyVars, kdVars
<1> QED
  BY <1>1, <1>2, <1>3, <1>4, <1>5, StayMeasuring DEF Base

\* The trojan publishes: once in each round.
LEMMA TrojanPublishBase ==
  ASSUME Base, TrojanPublish, UNCHANGED kdVars
  PROVE  Base' /\ Measuring /\ cur = Trojan
<1> USE Facts, ChannelAssumption, SingleAssumption
<1>1. /\ KernelTypeOK' /\ OnCore' /\ ipc' = ipc /\ cur = Trojan
      /\ chan' = chan /\ printed' = printed /\ pc'[Root] = pc[Root] /\ i'[Root] = i[Root]
  BY ComputeOnCore DEF Base, Types, TypeOK, KernelTypeOK, TrojanPublish, NextRound, Goto,
     threadVars, trojanVars, spyVars, kdVars
<1>2. Measuring
  BY <1>1, InLoop DEF TrojanPublish, NextRound
<1>3. Types'
  BY <1>1, <1>2, ChannelFacts DEF Base, Types, TypeOK, Rounds, Measuring, TrojanAt, SpyAt,
     TrojanLoop, SpyLoop, PublishFirst, Scheduling, Slot, Sample, TrojanPublish, NextRound, Goto,
     threadVars, trojanVars, spyVars, kdVars
<1>4. TrojanAt(TrojanLoop)' /\ SpyAt(SpyLoop)'
  BY <1>1, <1>2 DEF Base, Types, TypeOK, Measuring, TrojanAt, SpyAt, TrojanLoop, SpyLoop,
     PublishFirst, Scheduling, TrojanPublish, NextRound, Goto, threadVars, trojanVars, spyVars,
     kdVars
<1>5. Rounds'
  BY <1>1, <1>2 DEF Base, Types, TypeOK, Rounds, Measuring, TrojanAt, SpyAt, TrojanLoop, SpyLoop,
     PublishFirst, Scheduling, TrojanPublish, NextRound, Goto, threadVars, trojanVars, spyVars,
     kdVars
<1> QED
  BY <1>1, <1>2, <1>3, <1>4, <1>5, StayMeasuring DEF Base

\* The trojan of the branch predictor publishes first ...
LEMMA TrojanPickBase ==
  ASSUME Base, TrojanPick, UNCHANGED kdVars
  PROVE  Base' /\ Measuring /\ cur = Trojan
<1> USE Facts, ChannelAssumption, SingleAssumption
<1>1. /\ KernelTypeOK' /\ OnCore' /\ ipc' = ipc /\ cur = Trojan
      /\ chan' = chan /\ printed' = printed /\ pc'[Root] = pc[Root] /\ i'[Root] = i[Root]
  BY ComputeOnCore DEF Base, Types, TypeOK, KernelTypeOK, TrojanPick, Goto, threadVars, trojanVars,
     spyVars, kdVars
<1>2. Measuring
  BY <1>1, InLoop DEF TrojanPick
<1>3. Types'
  BY <1>1, <1>2, ChannelFacts DEF Base, Types, TypeOK, Rounds, Measuring, TrojanAt, SpyAt,
     TrojanLoop, SpyLoop, PublishFirst, Scheduling, Slot, Sample, TrojanPick, Goto, threadVars,
     trojanVars, spyVars, kdVars
<1>4. TrojanAt(TrojanLoop)' /\ SpyAt(SpyLoop)'
  BY <1>1, <1>2 DEF Base, Types, TypeOK, Measuring, TrojanAt, SpyAt, TrojanLoop, SpyLoop,
     PublishFirst, Scheduling, TrojanPick, Goto, threadVars, trojanVars, spyVars, kdVars
<1>5. Rounds'
  BY <1>1, <1>2 DEF Base, Types, TypeOK, Rounds, Measuring, TrojanAt, SpyAt, TrojanLoop, SpyLoop,
     PublishFirst, Scheduling, TrojanPick, Goto, threadVars, trojanVars, spyVars, kdVars
<1> QED
  BY <1>1, <1>2, <1>3, <1>4, <1>5, StayMeasuring DEF Base

\* ... and trains.
LEMMA TrojanTrainBase ==
  ASSUME Base, TrojanTrain, UNCHANGED kdVars
  PROVE  Base' /\ Measuring /\ cur = Trojan
<1> USE Facts, ChannelAssumption, SingleAssumption
<1>1. /\ KernelTypeOK' /\ OnCore' /\ ipc' = ipc /\ cur = Trojan
      /\ chan' = chan /\ printed' = printed /\ pc'[Root] = pc[Root] /\ i'[Root] = i[Root]
  BY ComputeOnCore DEF Base, Types, TypeOK, KernelTypeOK, TrojanTrain, NextRound, Goto, threadVars,
     trojanVars, spyVars, kdVars
<1>2. Measuring
  BY <1>1, InLoop DEF TrojanTrain, NextRound
<1>3. Types'
  BY <1>1, <1>2, ChannelFacts DEF Base, Types, TypeOK, Rounds, Measuring, TrojanAt, SpyAt,
     TrojanLoop, SpyLoop, PublishFirst, Scheduling, Slot, Sample, TrojanTrain, NextRound, Goto,
     threadVars, trojanVars, spyVars, kdVars
<1>4. TrojanAt(TrojanLoop)' /\ SpyAt(SpyLoop)'
  BY <1>1, <1>2 DEF Base, Types, TypeOK, Measuring, TrojanAt, SpyAt, TrojanLoop, SpyLoop,
     PublishFirst, Scheduling, TrojanTrain, NextRound, Goto, threadVars, trojanVars, spyVars, kdVars
<1>5. Rounds'
  BY <1>1, <1>2 DEF Base, Types, TypeOK, Rounds, Measuring, TrojanAt, SpyAt, TrojanLoop, SpyLoop,
     PublishFirst, Scheduling, TrojanTrain, NextRound, Goto, threadVars, trojanVars, spyVars, kdVars
<1> QED
  BY <1>1, <1>2, <1>3, <1>4, <1>5, StayMeasuring DEF Base

\* The spy reads the time stamp for the first time.
LEMMA EnterSpyBase ==
  ASSUME Base, ~Scheduling, EnterNewTimeSlice(Spy), UNCHANGED kdVars
  PROVE  Base' /\ Measuring /\ cur = Spy
<1> USE Facts, ChannelAssumption, SingleAssumption
<1>1. /\ KernelTypeOK' /\ OnCore' /\ ipc' = ipc /\ cur = Spy
      /\ chan' = chan /\ printed' = printed /\ pc'[Root] = pc[Root] /\ i'[Root] = i[Root]
  BY ComputeOnCore DEF Base, Types, TypeOK, KernelTypeOK, EnterNewTimeSlice, Goto, threadVars,
     trojanVars, spyVars, kdVars
<1>2. Measuring
  BY <1>1, InLoop DEF EnterNewTimeSlice
<1>3. Types'
  BY <1>1, <1>2, ChannelFacts DEF Base, Types, TypeOK, Rounds, Measuring, TrojanAt, SpyAt,
     TrojanLoop, SpyLoop, PublishFirst, Scheduling, Slot, Sample, EnterNewTimeSlice, Goto,
     threadVars, trojanVars, spyVars, kdVars
<1>4. TrojanAt(TrojanLoop)' /\ SpyAt(SpyLoop)'
  BY <1>1, <1>2 DEF Base, Types, TypeOK, Measuring, TrojanAt, SpyAt, TrojanLoop, SpyLoop,
     PublishFirst, Scheduling, EnterNewTimeSlice, Goto, threadVars, trojanVars, spyVars, kdVars
<1>5. Rounds'
  BY <1>1, <1>2 DEF Base, Types, TypeOK, Rounds, Measuring, TrojanAt, SpyAt, TrojanLoop, SpyLoop,
     PublishFirst, Scheduling, EnterNewTimeSlice, Goto, threadVars, trojanVars, spyVars, kdVars
<1> QED
  BY <1>1, <1>2, <1>3, <1>4, <1>5, StayMeasuring DEF Base

\* The spy starts to probe.
LEMMA SpyBeginBase ==
  ASSUME Base, SpyBegin, UNCHANGED kdVars
  PROVE  Base' /\ Measuring /\ cur = Spy
<1> USE Facts, ChannelAssumption, SingleAssumption
<1>1. /\ KernelTypeOK' /\ OnCore' /\ ipc' = ipc /\ cur = Spy
      /\ chan' = chan /\ printed' = printed /\ pc'[Root] = pc[Root] /\ i'[Root] = i[Root]
  BY ComputeOnCore DEF Base, Types, TypeOK, KernelTypeOK, SpyBegin, NewTimeSlice, Goto, threadVars,
     trojanVars, spyVars, kdVars
<1>2. Measuring
  BY <1>1, InLoop DEF SpyBegin, NewTimeSlice
<1>3. Types'
  BY <1>1, <1>2, ChannelFacts DEF Base, Types, TypeOK, Rounds, Measuring, TrojanAt, SpyAt,
     TrojanLoop, SpyLoop, PublishFirst, Scheduling, Slot, Sample, SpyBegin, NewTimeSlice, Goto,
     threadVars, trojanVars, spyVars, kdVars
<1>4. TrojanAt(TrojanLoop)' /\ SpyAt(SpyLoop)'
  BY <1>1, <1>2 DEF Base, Types, TypeOK, Measuring, TrojanAt, SpyAt, TrojanLoop, SpyLoop,
     PublishFirst, Scheduling, SpyBegin, NewTimeSlice, Goto, threadVars, trojanVars, spyVars, kdVars
<1>5. Rounds'
  BY <1>1, <1>2 DEF Base, Types, TypeOK, Rounds, Measuring, TrojanAt, SpyAt, TrojanLoop, SpyLoop,
     PublishFirst, Scheduling, SpyBegin, NewTimeSlice, Goto, threadVars, trojanVars, spyVars, kdVars
<1> QED
  BY <1>1, <1>2, <1>3, <1>4, <1>5, StayMeasuring DEF Base

\* The spy probes a unit.
LEMMA SpyProbeBase ==
  ASSUME Base, SpyProbe, UNCHANGED kdVars
  PROVE  Base' /\ Measuring /\ cur = Spy
<1> USE Facts, ChannelAssumption, SingleAssumption
<1>1. /\ KernelTypeOK' /\ OnCore' /\ ipc' = ipc /\ cur = Spy
      /\ chan' = chan /\ printed' = printed /\ pc'[Root] = pc[Root] /\ i'[Root] = i[Root]
  BY ComputeOnCore DEF Base, Types, TypeOK, KernelTypeOK, SpyProbe, Goto, threadVars, trojanVars,
     spyVars, kdVars
<1>2. Measuring
  BY <1>1, InLoop DEF SpyProbe
<1>3. Types'
  BY <1>1, <1>2, ChannelFacts DEF Base, Types, TypeOK, Rounds, Measuring, TrojanAt, SpyAt,
     TrojanLoop, SpyLoop, PublishFirst, Scheduling, Slot, Sample, SpyProbe, Goto, threadVars,
     trojanVars, spyVars, kdVars
<1>4. TrojanAt(TrojanLoop)' /\ SpyAt(SpyLoop)'
  BY <1>1, <1>2 DEF Base, Types, TypeOK, Measuring, TrojanAt, SpyAt, TrojanLoop, SpyLoop,
     PublishFirst, Scheduling, SpyProbe, Goto, threadVars, trojanVars, spyVars, kdVars
<1>5. Rounds'
  BY <1>1, <1>2 DEF Base, Types, TypeOK, Rounds, Measuring, TrojanAt, SpyAt, TrojanLoop, SpyLoop,
     PublishFirst, Scheduling, SpyProbe, Goto, threadVars, trojanVars, spyVars, kdVars
<1> QED
  BY <1>1, <1>2, <1>3, <1>4, <1>5, StayMeasuring DEF Base

\* The spy records a sample.
LEMMA SpyRecordBase ==
  ASSUME Base, ~Scheduling, SpyRecord, UNCHANGED kdVars
  PROVE  Base' /\ Measuring /\ cur = Spy
<1> USE Facts, ChannelAssumption, SingleAssumption
<1>1. /\ KernelTypeOK' /\ OnCore' /\ ipc' = ipc /\ cur = Spy
      /\ chan' = chan /\ printed' = printed /\ pc'[Root] = pc[Root] /\ i'[Root] = i[Root]
  BY ComputeOnCore DEF Base, Types, TypeOK, KernelTypeOK, SpyRecord, NextRound, Goto, threadVars,
     trojanVars, spyVars, kdVars
<1>2. Measuring
  BY <1>1, InLoop DEF SpyRecord, NextRound
<1>3. Types'
  BY <1>1, <1>2, ChannelFacts DEF Base, Types, TypeOK, Rounds, Measuring, TrojanAt, SpyAt,
     TrojanLoop, SpyLoop, PublishFirst, Scheduling, Slot, Sample, SpyRecord, NextRound, Goto,
     threadVars, trojanVars, spyVars, kdVars
<1>4. TrojanAt(TrojanLoop)' /\ SpyAt(SpyLoop)'
  BY <1>1, <1>2 DEF Base, Types, TypeOK, Measuring, TrojanAt, SpyAt, TrojanLoop, SpyLoop,
     PublishFirst, Scheduling, SpyRecord, NextRound, Goto, threadVars, trojanVars, spyVars, kdVars
<1>5. Rounds'
  BY <1>1, <1>2 DEF Base, Types, TypeOK, Rounds, Measuring, TrojanAt, SpyAt, TrojanLoop, SpyLoop,
     PublishFirst, Scheduling, SpyRecord, NextRound, Goto, threadVars, trojanVars, spyVars, kdVars
<1> QED
  BY <1>1, <1>2, <1>3, <1>4, <1>5, StayMeasuring DEF Base

\* The spy of the scheduling channel reads the secret ...
LEMMA SpyReadSecretBase ==
  ASSUME Base, Scheduling, SpyReadSecret
  PROVE  Base' /\ Measuring /\ cur = Spy
<1> USE Facts, ChannelAssumption, SingleAssumption
<1>1. /\ KernelTypeOK' /\ OnCore' /\ ipc' = ipc /\ cur = Spy
      /\ chan' = chan /\ printed' = printed /\ pc'[Root] = pc[Root] /\ i'[Root] = i[Root]
  BY ComputeOnCore DEF Base, Types, TypeOK, KernelTypeOK, SpyReadSecret, Goto, threadVars,
     trojanVars, spyVars, kdVars
<1>2. Measuring
  BY <1>1, InLoop DEF SpyReadSecret
<1>3. Types'
  BY <1>1, <1>2, ChannelFacts DEF Base, Types, TypeOK, Rounds, Measuring, TrojanAt, SpyAt,
     TrojanLoop, SpyLoop, PublishFirst, Scheduling, Slot, Sample, SpyReadSecret, Goto, threadVars,
     trojanVars, spyVars, kdVars
<1>4. TrojanAt(TrojanLoop)' /\ SpyAt(SpyLoop)'
  BY <1>1, <1>2 DEF Base, Types, TypeOK, Measuring, TrojanAt, SpyAt, TrojanLoop, SpyLoop,
     PublishFirst, Scheduling, SpyReadSecret, Goto, threadVars, trojanVars, spyVars, kdVars
<1>5. Rounds'
  BY <1>1, <1>2 DEF Base, Types, TypeOK, Rounds, Measuring, TrojanAt, SpyAt, TrojanLoop, SpyLoop,
     PublishFirst, Scheduling, SpyReadSecret, Goto, threadVars, trojanVars, spyVars, kdVars
<1> QED
  BY <1>1, <1>2, <1>3, <1>4, <1>5, StayMeasuring DEF Base

\* ... and the clock.
LEMMA SpyStartBase ==
  ASSUME Base, SpyStart
  PROVE  Base' /\ Measuring /\ cur = Spy
<1> USE Facts, ChannelAssumption, SingleAssumption
<1>1. /\ KernelTypeOK' /\ OnCore' /\ ipc' = ipc /\ cur = Spy
      /\ chan' = chan /\ printed' = printed /\ pc'[Root] = pc[Root] /\ i'[Root] = i[Root]
  BY ComputeOnCore DEF Base, Types, TypeOK, KernelTypeOK, SpyStart, Goto, threadVars, trojanVars,
     spyVars, kdVars
<1>2. Measuring
  BY <1>1, InLoop DEF SpyStart
<1>3. Types'
  BY <1>1, <1>2, ChannelFacts DEF Base, Types, TypeOK, Rounds, Measuring, TrojanAt, SpyAt,
     TrojanLoop, SpyLoop, PublishFirst, Scheduling, Slot, Sample, SpyStart, Goto, threadVars,
     trojanVars, spyVars, kdVars
<1>4. TrojanAt(TrojanLoop)' /\ SpyAt(SpyLoop)'
  BY <1>1, <1>2 DEF Base, Types, TypeOK, Measuring, TrojanAt, SpyAt, TrojanLoop, SpyLoop,
     PublishFirst, Scheduling, SpyStart, Goto, threadVars, trojanVars, spyVars, kdVars
<1>5. Rounds'
  BY <1>1, <1>2 DEF Base, Types, TypeOK, Rounds, Measuring, TrojanAt, SpyAt, TrojanLoop, SpyLoop,
     PublishFirst, Scheduling, SpyStart, Goto, threadVars, trojanVars, spyVars, kdVars
<1> QED
  BY <1>1, <1>2, <1>3, <1>4, <1>5, StayMeasuring DEF Base

\* It sees a gap ...
LEMMA SpyGapBase ==
  ASSUME Base, SpyGap
  PROVE  Base' /\ Measuring /\ cur = Spy
<1> USE Facts, ChannelAssumption, SingleAssumption
<1>1. /\ KernelTypeOK' /\ OnCore' /\ ipc' = ipc /\ cur = Spy
      /\ chan' = chan /\ printed' = printed /\ pc'[Root] = pc[Root] /\ i'[Root] = i[Root]
  BY ComputeOnCore DEF Base, Types, TypeOK, KernelTypeOK, SpyGap, Goto, threadVars, trojanVars,
     spyVars, kdVars
<1>2. Measuring
  BY <1>1, InLoop DEF SpyGap
<1>3. Types'
  BY <1>1, <1>2, ChannelFacts DEF Base, Types, TypeOK, Rounds, Measuring, TrojanAt, SpyAt,
     TrojanLoop, SpyLoop, PublishFirst, Scheduling, Slot, Sample, SpyGap, Goto, threadVars,
     trojanVars, spyVars, kdVars
<1>4. TrojanAt(TrojanLoop)' /\ SpyAt(SpyLoop)'
  BY <1>1, <1>2 DEF Base, Types, TypeOK, Measuring, TrojanAt, SpyAt, TrojanLoop, SpyLoop,
     PublishFirst, Scheduling, SpyGap, Goto, threadVars, trojanVars, spyVars, kdVars
<1>5. Rounds'
  BY <1>1, <1>2 DEF Base, Types, TypeOK, Rounds, Measuring, TrojanAt, SpyAt, TrojanLoop, SpyLoop,
     PublishFirst, Scheduling, SpyGap, Goto, threadVars, trojanVars, spyVars, kdVars
<1> QED
  BY <1>1, <1>2, <1>3, <1>4, <1>5, StayMeasuring DEF Base

\* ... and records it.
LEMMA SpyRecordGapBase ==
  ASSUME Base, Scheduling, SpyRecordGap
  PROVE  Base' /\ Measuring /\ cur = Spy
<1> USE Facts, ChannelAssumption, SingleAssumption
<1>1. /\ KernelTypeOK' /\ OnCore' /\ ipc' = ipc /\ cur = Spy
      /\ chan' = chan /\ printed' = printed /\ pc'[Root] = pc[Root] /\ i'[Root] = i[Root]
  BY ComputeOnCore DEF Base, Types, TypeOK, KernelTypeOK, SpyRecordGap, NextRound, Goto, threadVars,
     trojanVars, spyVars, kdVars
<1>2. Measuring
  BY <1>1, InLoop DEF SpyRecordGap, NextRound
<1>3. Types'
  BY <1>1, <1>2, ChannelFacts DEF Base, Types, TypeOK, Rounds, Measuring, TrojanAt, SpyAt,
     TrojanLoop, SpyLoop, PublishFirst, Scheduling, Slot, Sample, SpyRecordGap, NextRound, Goto,
     threadVars, trojanVars, spyVars, kdVars
<1>4. TrojanAt(TrojanLoop)' /\ SpyAt(SpyLoop)'
  BY <1>1, <1>2 DEF Base, Types, TypeOK, Measuring, TrojanAt, SpyAt, TrojanLoop, SpyLoop,
     PublishFirst, Scheduling, SpyRecordGap, NextRound, Goto, threadVars, trojanVars, spyVars,
     kdVars
<1>5. Rounds'
  BY <1>1, <1>2 DEF Base, Types, TypeOK, Rounds, Measuring, TrojanAt, SpyAt, TrojanLoop, SpyLoop,
     PublishFirst, Scheduling, SpyRecordGap, NextRound, Goto, threadVars, trojanVars, spyVars,
     kdVars
<1> QED
  BY <1>1, <1>2, <1>3, <1>4, <1>5, StayMeasuring DEF Base

\* The trojan's first message wakes the root task.
LEMMA TrojanReadyBase ==
  ASSUME Base, TrojanReady, UNCHANGED kdVars
  PROVE  Base' /\ Handshaking
<1> USE Facts, ChannelAssumption, SingleAssumption
<1> DEFINE Before ==
      PlainHandshake /\ IsBlocked(Root, "spy", "recv", t_ep)
<1>1. /\ cur = Trojan /\ ipc[Trojan] = Ready /\ ipc \in [Thread -> IpcState]
      /\ pc = [u \in Thread |-> pc[u]] /\ chan \in Family
  BY DEF Base, OnCore, Types, TypeOK, KernelTypeOK, TrojanReady, Send, Runs
<1>2. Before /\ i[Trojan] = 0 /\ i[Spy] = 0
  BY <1>1 DEF Base, OnCore, Stage, Measuring, Finished, TrojanLoop, SpyLoop, TrojanAt, SpyAt,
     FirstStatement, Handshaking, PlainHandshake, KernelHandshake, Synchronising, SpyUnsynced,
     SpyUntimed, TrojanUntimed, TrojanSends, RootWaits, IsReady, IsBlocked, TrojanReady
<1>3. /\ KernelTypeOK' /\ Reschedule(Trojan)
      /\ \/ \E u \in Thread : /\ ipc[u] = Blocked("recv", t_ep)
                              /\ ipc' = [ipc EXCEPT ![u] = Ready]
         \/ /\ \A u \in Thread : ipc[u] # Blocked("recv", t_ep)
            /\ ipc' = [ipc EXCEPT ![Trojan] = Blocked("send", t_ep)]
  BY SendCases DEF Base, Types, TypeOK, TrojanReady
<1>4. ipc' = [ipc EXCEPT ![Root] = Ready]
  BY <1>1, <1>2, <1>3 DEF Handshaking, PlainHandshake, KernelHandshake, Synchronising, SpyUnsynced,
     SpyUntimed, TrojanUntimed, TrojanSends, RootWaits, IsReady, IsBlocked, TrojanReady
<1>5. PlainHandshake'
  BY <1>1, <1>2, <1>4 DEF FirstStatement, TrojanLoop, SpyLoop, TrojanAt, SpyAt, PublishFirst,
     Scheduling, Handshaking, PlainHandshake, KernelHandshake, Synchronising, SpyUnsynced,
     SpyUntimed, TrojanUntimed, TrojanSends, RootWaits, IsReady, IsBlocked, Goto, TrojanReady
<1>6. OnCore'
  <2>1. \E u \in Thread : ipc'[u] = Ready
    BY <1>1, <1>2, <1>4 DEF Handshaking, PlainHandshake, KernelHandshake, Synchronising,
       SpyUnsynced, SpyUntimed, TrojanUntimed, TrojanSends, RootWaits, IsReady, IsBlocked
  <2> QED
    BY <1>3, <2>1, RescheduleOnCore
<1>7. Types' /\ Rounds'
  BY <1>1, <1>2, <1>3 DEF Base, Types, TypeOK, Rounds, TrojanAt, PublishFirst, Goto, FirstStatement,
     trojanVars, spyVars, kdVars, TrojanReady
<1>8. Stage'
  BY <1>2, <1>5 DEF Stage, Handshaking, TrojanReady
<1>9. Lines'
  <2>1. printed = {}
    BY <1>2 DEF Base, Lines, Finished, Handshaking, PlainHandshake, KernelHandshake, Synchronising,
       SpyUnsynced, SpyUntimed, TrojanUntimed, TrojanSends, RootWaits, IsReady, IsBlocked
  <2> QED
    BY <1>1, <2>1 DEF Base, Lines, TrojanReady
<1> QED
  BY <1>2, <1>5, <1>6, <1>7, <1>8, <1>9 DEF Base, Handshaking

\* The trojan's second message wakes the spy, or waits for it.
LEMMA TrojanSyncBase ==
  ASSUME Base, TrojanSync, UNCHANGED kdVars
  PROVE  Base' /\ Handshaking
<1> USE Facts, ChannelAssumption, SingleAssumption
<1> DEFINE Before ==
      \/ Synchronising /\ SpyUnsynced
      \/ KernelHandshake /\ IsBlocked(Root, "spy", "send", s_ep) /\ IsReady(Spy, "time")
<1>1. /\ cur = Trojan /\ ipc[Trojan] = Ready /\ ipc \in [Thread -> IpcState]
      /\ pc = [u \in Thread |-> pc[u]] /\ chan \in Family
  BY DEF Base, OnCore, Types, TypeOK, KernelTypeOK, TrojanSync, Send, Runs
<1>2. Before /\ i[Trojan] = 0 /\ i[Spy] = 0
  BY <1>1 DEF Base, OnCore, Stage, Measuring, Finished, TrojanLoop, SpyLoop, TrojanAt, SpyAt,
     FirstStatement, Handshaking, PlainHandshake, KernelHandshake, Synchronising, SpyUnsynced,
     SpyUntimed, TrojanUntimed, TrojanSends, RootWaits, IsReady, IsBlocked, TrojanSync
<1>3. /\ KernelTypeOK' /\ Reschedule(Trojan)
      /\ \/ \E u \in Thread : /\ ipc[u] = Blocked("recv", syn_ep)
                              /\ ipc' = [ipc EXCEPT ![u] = Ready]
         \/ /\ \A u \in Thread : ipc[u] # Blocked("recv", syn_ep)
            /\ ipc' = [ipc EXCEPT ![Trojan] = Blocked("send", syn_ep)]
  BY SendCases DEF Base, Types, TypeOK, TrojanSync
<1>4. \/ /\ ipc[Spy] = Blocked("recv", syn_ep)
         /\ ipc' = [ipc EXCEPT ![Spy] = Ready]
      \/ /\ ipc[Spy] # Blocked("recv", syn_ep)
         /\ ipc' = [ipc EXCEPT ![Trojan] = Blocked("send", syn_ep)]
  BY <1>1, <1>2, <1>3 DEF Handshaking, PlainHandshake, KernelHandshake, Synchronising, SpyUnsynced,
     SpyUntimed, TrojanUntimed, TrojanSends, RootWaits, IsReady, IsBlocked, TrojanSync
<1>5. (Handshaking \/ Measuring)'
  BY <1>1, <1>2, <1>4 DEF Measuring, FirstStatement, TrojanLoop, SpyLoop, TrojanAt, SpyAt,
     PublishFirst, Scheduling, Handshaking, PlainHandshake, KernelHandshake, Synchronising,
     SpyUnsynced, SpyUntimed, TrojanUntimed, TrojanSends, RootWaits, IsReady, IsBlocked, Goto,
     TrojanSync
<1>6. OnCore'
  <2>1. \E u \in Thread : ipc'[u] = Ready
    BY <1>1, <1>2, <1>4 DEF Handshaking, PlainHandshake, KernelHandshake, Synchronising,
       SpyUnsynced, SpyUntimed, TrojanUntimed, TrojanSends, RootWaits, IsReady, IsBlocked
  <2> QED
    BY <1>3, <2>1, RescheduleOnCore
<1>7. Types' /\ Rounds'
  BY <1>1, <1>2, <1>3 DEF Base, Types, TypeOK, Rounds, TrojanAt, PublishFirst, Goto, FirstStatement,
     trojanVars, spyVars, kdVars, TrojanSync
<1>8. Stage'
  BY <1>2, <1>5 DEF Stage, Handshaking, TrojanSync
<1>9. Lines'
  <2>1. printed = {}
    BY <1>2 DEF Base, Lines, Finished, Handshaking, PlainHandshake, KernelHandshake, Synchronising,
       SpyUnsynced, SpyUntimed, TrojanUntimed, TrojanSends, RootWaits, IsReady, IsBlocked
  <2> QED
    BY <1>1, <2>1 DEF Base, Lines, TrojanSync
<1> QED
  BY <1>2, <1>5, <1>6, <1>7, <1>8, <1>9 DEF Base, Handshaking

\* The spy waits for the trojan, or releases it.
LEMMA SpySyncBase ==
  ASSUME Base, SpySync, UNCHANGED kdVars
  PROVE  Base' /\ Handshaking
<1> USE Facts, ChannelAssumption, SingleAssumption
<1> DEFINE Before ==
      \/ PlainHandshake /\ IsBlocked(Root, "spy", "recv", t_ep)
      \/ Synchronising
<1>1. /\ cur = Spy /\ ipc[Spy] = Ready /\ ipc \in [Thread -> IpcState]
      /\ pc = [u \in Thread |-> pc[u]] /\ chan \in Family
  BY DEF Base, OnCore, Types, TypeOK, KernelTypeOK, SpySync, Recv, Runs
<1>2. Before /\ i[Trojan] = 0 /\ i[Spy] = 0
  BY <1>1 DEF Base, OnCore, Stage, Measuring, Finished, TrojanLoop, SpyLoop, TrojanAt, SpyAt,
     FirstStatement, Handshaking, PlainHandshake, KernelHandshake, Synchronising, SpyUnsynced,
     SpyUntimed, TrojanUntimed, TrojanSends, RootWaits, IsReady, IsBlocked, SpySync
<1>3. /\ KernelTypeOK' /\ Reschedule(Spy)
      /\ \/ \E u \in Thread : /\ ipc[u] = Blocked("send", syn_ep)
                              /\ ipc' = [ipc EXCEPT ![u] = Ready]
         \/ /\ \A u \in Thread : ipc[u] # Blocked("send", syn_ep)
            /\ ipc' = [ipc EXCEPT ![Spy] = Blocked("recv", syn_ep)]
  BY RecvCases DEF Base, Types, TypeOK, SpySync
<1>4. \/ /\ ipc[Trojan] = Blocked("send", syn_ep)
         /\ ipc' = [ipc EXCEPT ![Trojan] = Ready]
      \/ /\ ipc[Trojan] # Blocked("send", syn_ep)
         /\ ipc' = [ipc EXCEPT ![Spy] = Blocked("recv", syn_ep)]
  BY <1>1, <1>2, <1>3 DEF Handshaking, PlainHandshake, KernelHandshake, Synchronising, SpyUnsynced,
     SpyUntimed, TrojanUntimed, TrojanSends, RootWaits, IsReady, IsBlocked, SpySync
<1>5. (Handshaking \/ Measuring)'
  BY <1>1, <1>2, <1>4 DEF Measuring, FirstStatement, TrojanLoop, SpyLoop, TrojanAt, SpyAt,
     PublishFirst, Scheduling, Handshaking, PlainHandshake, KernelHandshake, Synchronising,
     SpyUnsynced, SpyUntimed, TrojanUntimed, TrojanSends, RootWaits, IsReady, IsBlocked, Goto,
     SpySync
<1>6. OnCore'
  <2>1. \E u \in Thread : ipc'[u] = Ready
    BY <1>1, <1>2, <1>4 DEF Handshaking, PlainHandshake, KernelHandshake, Synchronising,
       SpyUnsynced, SpyUntimed, TrojanUntimed, TrojanSends, RootWaits, IsReady, IsBlocked
  <2> QED
    BY <1>3, <2>1, RescheduleOnCore
<1>7. Types' /\ Rounds'
  BY <1>1, <1>2, <1>3 DEF Base, Types, TypeOK, Rounds, TrojanAt, PublishFirst, Goto, FirstStatement,
     trojanVars, spyVars, kdVars, SpySync
<1>8. Stage'
  BY <1>2, <1>5 DEF Stage, Handshaking, SpySync
<1>9. Lines'
  <2>1. printed = {}
    BY <1>2 DEF Base, Lines, Finished, Handshaking, PlainHandshake, KernelHandshake, Synchronising,
       SpyUnsynced, SpyUntimed, TrojanUntimed, TrojanSends, RootWaits, IsReady, IsBlocked
  <2> QED
    BY <1>1, <2>1 DEF Base, Lines, SpySync
<1> QED
  BY <1>2, <1>5, <1>6, <1>7, <1>8, <1>9 DEF Base, Handshaking

\* The root task waits for the trojan.
LEMMA RootAwaitTrojanBase ==
  ASSUME Base, RootAwaitTrojan, UNCHANGED kdVars
  PROVE  Base' /\ Handshaking
<1> USE Facts, ChannelAssumption, SingleAssumption
<1> DEFINE Before ==
      PlainHandshake /\ IsReady(Trojan, "ready")
<1>1. /\ cur = Root /\ ipc[Root] = Ready /\ ipc \in [Thread -> IpcState]
      /\ pc = [u \in Thread |-> pc[u]] /\ chan \in Family
  BY DEF Base, OnCore, Types, TypeOK, KernelTypeOK, RootAwaitTrojan, Recv, Runs
<1>2. Before /\ i[Trojan] = 0 /\ i[Spy] = 0
  BY <1>1 DEF Base, OnCore, Stage, Measuring, Finished, TrojanLoop, SpyLoop, TrojanAt, SpyAt,
     FirstStatement, Handshaking, PlainHandshake, KernelHandshake, Synchronising, SpyUnsynced,
     SpyUntimed, TrojanUntimed, TrojanSends, RootWaits, IsReady, IsBlocked, RootAwaitTrojan
<1>3. /\ KernelTypeOK' /\ Reschedule(Root)
      /\ \/ \E u \in Thread : /\ ipc[u] = Blocked("send", t_ep)
                              /\ ipc' = [ipc EXCEPT ![u] = Ready]
         \/ /\ \A u \in Thread : ipc[u] # Blocked("send", t_ep)
            /\ ipc' = [ipc EXCEPT ![Root] = Blocked("recv", t_ep)]
  BY RecvCases DEF Base, Types, TypeOK, RootAwaitTrojan
<1>4. ipc' = [ipc EXCEPT ![Root] = Blocked("recv", t_ep)]
  BY <1>1, <1>2, <1>3 DEF Handshaking, PlainHandshake, KernelHandshake, Synchronising, SpyUnsynced,
     SpyUntimed, TrojanUntimed, TrojanSends, RootWaits, IsReady, IsBlocked, RootAwaitTrojan
<1>5. PlainHandshake'
  BY <1>1, <1>2, <1>4 DEF FirstStatement, TrojanLoop, SpyLoop, TrojanAt, SpyAt, PublishFirst,
     Scheduling, Handshaking, PlainHandshake, KernelHandshake, Synchronising, SpyUnsynced,
     SpyUntimed, TrojanUntimed, TrojanSends, RootWaits, IsReady, IsBlocked, Goto, RootAwaitTrojan
<1>6. OnCore'
  <2>1. \E u \in Thread : ipc'[u] = Ready
    BY <1>1, <1>2, <1>4 DEF Handshaking, PlainHandshake, KernelHandshake, Synchronising,
       SpyUnsynced, SpyUntimed, TrojanUntimed, TrojanSends, RootWaits, IsReady, IsBlocked
  <2> QED
    BY <1>3, <2>1, RescheduleOnCore
<1>7. Types' /\ Rounds'
  BY <1>1, <1>2, <1>3 DEF Base, Types, TypeOK, Rounds, TrojanAt, PublishFirst, Goto, FirstStatement,
     trojanVars, spyVars, kdVars, RootAwaitTrojan
<1>8. Stage'
  BY <1>2, <1>5 DEF Stage, Handshaking, RootAwaitTrojan
<1>9. Lines'
  <2>1. printed = {}
    BY <1>2 DEF Base, Lines, Finished, Handshaking, PlainHandshake, KernelHandshake, Synchronising,
       SpyUnsynced, SpyUntimed, TrojanUntimed, TrojanSends, RootWaits, IsReady, IsBlocked
  <2> QED
    BY <1>1, <2>1 DEF Base, Lines, RootAwaitTrojan
<1> QED
  BY <1>2, <1>5, <1>6, <1>7, <1>8, <1>9 DEF Base, Handshaking

\* The root task waits for the result.
LEMMA RootAwaitSpyBase ==
  ASSUME Base, RootAwaitSpy, UNCHANGED kdVars
  PROVE  Base' /\ Handshaking
<1> USE Facts, ChannelAssumption, SingleAssumption
<1> DEFINE Before ==
      \/ PlainHandshake /\ IsReady(Trojan, "sync")
      \/ KernelHandshake /\ IsReady(Spy, "sync") /\ (IsReady(Trojan, "sync") \/ TrojanSends)
<1>1. /\ cur = Root /\ ipc[Root] = Ready /\ ipc \in [Thread -> IpcState]
      /\ pc = [u \in Thread |-> pc[u]] /\ chan \in Family
  BY DEF Base, OnCore, Types, TypeOK, KernelTypeOK, RootAwaitSpy, Recv, Runs
<1>2. Before /\ i[Trojan] = 0 /\ i[Spy] = 0
  BY <1>1 DEF Base, OnCore, Stage, Measuring, Finished, TrojanLoop, SpyLoop, TrojanAt, SpyAt,
     FirstStatement, Handshaking, PlainHandshake, KernelHandshake, Synchronising, SpyUnsynced,
     SpyUntimed, TrojanUntimed, TrojanSends, RootWaits, IsReady, IsBlocked, RootAwaitSpy
<1>3. /\ KernelTypeOK' /\ Reschedule(Root)
      /\ \/ \E u \in Thread : /\ ipc[u] = Blocked("send", s_ep)
                              /\ ipc' = [ipc EXCEPT ![u] = Ready]
         \/ /\ \A u \in Thread : ipc[u] # Blocked("send", s_ep)
            /\ ipc' = [ipc EXCEPT ![Root] = Blocked("recv", s_ep)]
  BY RecvCases DEF Base, Types, TypeOK, RootAwaitSpy
<1>4. ipc' = [ipc EXCEPT ![Root] = Blocked("recv", s_ep)]
  BY <1>1, <1>2, <1>3 DEF Handshaking, PlainHandshake, KernelHandshake, Synchronising, SpyUnsynced,
     SpyUntimed, TrojanUntimed, TrojanSends, RootWaits, IsReady, IsBlocked, RootAwaitSpy
<1>5. Synchronising'
  BY <1>1, <1>2, <1>4 DEF FirstStatement, TrojanLoop, SpyLoop, TrojanAt, SpyAt, PublishFirst,
     Scheduling, Handshaking, PlainHandshake, KernelHandshake, Synchronising, SpyUnsynced,
     SpyUntimed, TrojanUntimed, TrojanSends, RootWaits, IsReady, IsBlocked, Goto, RootAwaitSpy
<1>6. OnCore'
  <2>1. \E u \in Thread : ipc'[u] = Ready
    BY <1>1, <1>2, <1>4 DEF Handshaking, PlainHandshake, KernelHandshake, Synchronising,
       SpyUnsynced, SpyUntimed, TrojanUntimed, TrojanSends, RootWaits, IsReady, IsBlocked
  <2> QED
    BY <1>3, <2>1, RescheduleOnCore
<1>7. Types' /\ Rounds'
  BY <1>1, <1>2, <1>3 DEF Base, Types, TypeOK, Rounds, TrojanAt, PublishFirst, Goto, FirstStatement,
     trojanVars, spyVars, kdVars, RootAwaitSpy
<1>8. Stage'
  BY <1>2, <1>5 DEF Stage, Handshaking, RootAwaitSpy
<1>9. Lines'
  <2>1. printed = {}
    BY <1>2 DEF Base, Lines, Finished, Handshaking, PlainHandshake, KernelHandshake, Synchronising,
       SpyUnsynced, SpyUntimed, TrojanUntimed, TrojanSends, RootWaits, IsReady, IsBlocked
  <2> QED
    BY <1>1, <2>1 DEF Base, Lines, RootAwaitSpy
<1> QED
  BY <1>2, <1>5, <1>6, <1>7, <1>8, <1>9 DEF Base, Handshaking

\* The spy of the kernel channel announces that it has its lists.
LEMMA SpyAnnounceBase ==
  ASSUME Base, SpyAnnounce, UNCHANGED kdVars
  PROVE  Base' /\ Handshaking
<1> USE Facts, ChannelAssumption, SingleAssumption
<1> DEFINE Before ==
      KernelHandshake /\ IsBlocked(Root, "timeTrojan", "recv", s_ep) /\ TrojanUntimed
<1>1. /\ cur = Spy /\ ipc[Spy] = Ready /\ ipc \in [Thread -> IpcState]
      /\ pc = [u \in Thread |-> pc[u]] /\ chan \in Family
  BY DEF Base, OnCore, Types, TypeOK, KernelTypeOK, SpyAnnounce, Send, Runs
<1>2. Before /\ i[Trojan] = 0 /\ i[Spy] = 0
  BY <1>1 DEF Base, OnCore, Stage, Measuring, Finished, TrojanLoop, SpyLoop, TrojanAt, SpyAt,
     FirstStatement, Handshaking, PlainHandshake, KernelHandshake, Synchronising, SpyUnsynced,
     SpyUntimed, TrojanUntimed, TrojanSends, RootWaits, IsReady, IsBlocked, SpyAnnounce
<1>3. /\ KernelTypeOK' /\ Reschedule(Spy)
      /\ \/ \E u \in Thread : /\ ipc[u] = Blocked("recv", s_ep)
                              /\ ipc' = [ipc EXCEPT ![u] = Ready]
         \/ /\ \A u \in Thread : ipc[u] # Blocked("recv", s_ep)
            /\ ipc' = [ipc EXCEPT ![Spy] = Blocked("send", s_ep)]
  BY SendCases DEF Base, Types, TypeOK, SpyAnnounce
<1>4. ipc' = [ipc EXCEPT ![Root] = Ready]
  BY <1>1, <1>2, <1>3 DEF Handshaking, PlainHandshake, KernelHandshake, Synchronising, SpyUnsynced,
     SpyUntimed, TrojanUntimed, TrojanSends, RootWaits, IsReady, IsBlocked, SpyAnnounce
<1>5. KernelHandshake'
  BY <1>1, <1>2, <1>4 DEF FirstStatement, TrojanLoop, SpyLoop, TrojanAt, SpyAt, PublishFirst,
     Scheduling, Handshaking, PlainHandshake, KernelHandshake, Synchronising, SpyUnsynced,
     SpyUntimed, TrojanUntimed, TrojanSends, RootWaits, IsReady, IsBlocked, Goto, SpyAnnounce
<1>6. OnCore'
  <2>1. \E u \in Thread : ipc'[u] = Ready
    BY <1>1, <1>2, <1>4 DEF Handshaking, PlainHandshake, KernelHandshake, Synchronising,
       SpyUnsynced, SpyUntimed, TrojanUntimed, TrojanSends, RootWaits, IsReady, IsBlocked
  <2> QED
    BY <1>3, <2>1, RescheduleOnCore
<1>7. Types' /\ Rounds'
  BY <1>1, <1>2, <1>3 DEF Base, Types, TypeOK, Rounds, TrojanAt, PublishFirst, Goto, FirstStatement,
     trojanVars, spyVars, kdVars, SpyAnnounce
<1>8. Stage'
  BY <1>2, <1>5 DEF Stage, Handshaking, SpyAnnounce
<1>9. Lines'
  <2>1. printed = {}
    BY <1>2 DEF Base, Lines, Finished, Handshaking, PlainHandshake, KernelHandshake, Synchronising,
       SpyUnsynced, SpyUntimed, TrojanUntimed, TrojanSends, RootWaits, IsReady, IsBlocked
  <2> QED
    BY <1>1, <2>1 DEF Base, Lines, SpyAnnounce
<1> QED
  BY <1>2, <1>5, <1>6, <1>7, <1>8, <1>9 DEF Base, Handshaking

\* The spy waits to be released.
LEMMA SpyTimeBase ==
  ASSUME Base, SpyTime, UNCHANGED kdVars
  PROVE  Base' /\ Handshaking
<1> USE Facts, ChannelAssumption, SingleAssumption
<1> DEFINE Before ==
      /\ KernelHandshake
      /\ \/ IsBlocked(Root, "timeSpy", "send", t_ep) /\ IsReady(Trojan, "time")
         \/ IsBlocked(Root, "spy", "send", s_ep) /\ (IsReady(Trojan, "sync") \/ TrojanSends)
<1>1. /\ cur = Spy /\ ipc[Spy] = Ready /\ ipc \in [Thread -> IpcState]
      /\ pc = [u \in Thread |-> pc[u]] /\ chan \in Family
  BY DEF Base, OnCore, Types, TypeOK, KernelTypeOK, SpyTime, Recv, Runs
<1>2. Before /\ i[Trojan] = 0 /\ i[Spy] = 0
  BY <1>1 DEF Base, OnCore, Stage, Measuring, Finished, TrojanLoop, SpyLoop, TrojanAt, SpyAt,
     FirstStatement, Handshaking, PlainHandshake, KernelHandshake, Synchronising, SpyUnsynced,
     SpyUntimed, TrojanUntimed, TrojanSends, RootWaits, IsReady, IsBlocked, SpyTime
<1>3. /\ KernelTypeOK' /\ Reschedule(Spy)
      /\ \/ \E u \in Thread : /\ ipc[u] = Blocked("send", s_ep)
                              /\ ipc' = [ipc EXCEPT ![u] = Ready]
         \/ /\ \A u \in Thread : ipc[u] # Blocked("send", s_ep)
            /\ ipc' = [ipc EXCEPT ![Spy] = Blocked("recv", s_ep)]
  BY RecvCases DEF Base, Types, TypeOK, SpyTime
<1>4. \/ /\ ipc[Root] = Blocked("send", s_ep)
         /\ ipc' = [ipc EXCEPT ![Root] = Ready]
      \/ /\ ipc[Root] # Blocked("send", s_ep)
         /\ ipc' = [ipc EXCEPT ![Spy] = Blocked("recv", s_ep)]
  BY <1>1, <1>2, <1>3 DEF Handshaking, PlainHandshake, KernelHandshake, Synchronising, SpyUnsynced,
     SpyUntimed, TrojanUntimed, TrojanSends, RootWaits, IsReady, IsBlocked, SpyTime
<1>5. KernelHandshake'
  BY <1>1, <1>2, <1>4 DEF FirstStatement, TrojanLoop, SpyLoop, TrojanAt, SpyAt, PublishFirst,
     Scheduling, Handshaking, PlainHandshake, KernelHandshake, Synchronising, SpyUnsynced,
     SpyUntimed, TrojanUntimed, TrojanSends, RootWaits, IsReady, IsBlocked, Goto, SpyTime
<1>6. OnCore'
  <2>1. \E u \in Thread : ipc'[u] = Ready
    BY <1>1, <1>2, <1>4 DEF Handshaking, PlainHandshake, KernelHandshake, Synchronising,
       SpyUnsynced, SpyUntimed, TrojanUntimed, TrojanSends, RootWaits, IsReady, IsBlocked
  <2> QED
    BY <1>3, <2>1, RescheduleOnCore
<1>7. Types' /\ Rounds'
  BY <1>1, <1>2, <1>3 DEF Base, Types, TypeOK, Rounds, TrojanAt, PublishFirst, Goto, FirstStatement,
     trojanVars, spyVars, kdVars, SpyTime
<1>8. Stage'
  BY <1>2, <1>5 DEF Stage, Handshaking, SpyTime
<1>9. Lines'
  <2>1. printed = {}
    BY <1>2 DEF Base, Lines, Finished, Handshaking, PlainHandshake, KernelHandshake, Synchronising,
       SpyUnsynced, SpyUntimed, TrojanUntimed, TrojanSends, RootWaits, IsReady, IsBlocked
  <2> QED
    BY <1>1, <2>1 DEF Base, Lines, SpyTime
<1> QED
  BY <1>2, <1>5, <1>6, <1>7, <1>8, <1>9 DEF Base, Handshaking

\* The trojan waits to be released.
LEMMA TrojanTimeBase ==
  ASSUME Base, TrojanTime, UNCHANGED kdVars
  PROVE  Base' /\ Handshaking
<1> USE Facts, ChannelAssumption, SingleAssumption
<1> DEFINE Before ==
      /\ KernelHandshake
      /\ \/ IsBlocked(Root, "timeTrojan", "recv", s_ep) /\ IsReady(Spy, "search")
         \/ IsBlocked(Root, "timeSpy", "send", t_ep) /\ SpyUntimed
<1>1. /\ cur = Trojan /\ ipc[Trojan] = Ready /\ ipc \in [Thread -> IpcState]
      /\ pc = [u \in Thread |-> pc[u]] /\ chan \in Family
  BY DEF Base, OnCore, Types, TypeOK, KernelTypeOK, TrojanTime, Recv, Runs
<1>2. Before /\ i[Trojan] = 0 /\ i[Spy] = 0
  BY <1>1 DEF Base, OnCore, Stage, Measuring, Finished, TrojanLoop, SpyLoop, TrojanAt, SpyAt,
     FirstStatement, Handshaking, PlainHandshake, KernelHandshake, Synchronising, SpyUnsynced,
     SpyUntimed, TrojanUntimed, TrojanSends, RootWaits, IsReady, IsBlocked, TrojanTime
<1>3. /\ KernelTypeOK' /\ Reschedule(Trojan)
      /\ \/ \E u \in Thread : /\ ipc[u] = Blocked("send", t_ep)
                              /\ ipc' = [ipc EXCEPT ![u] = Ready]
         \/ /\ \A u \in Thread : ipc[u] # Blocked("send", t_ep)
            /\ ipc' = [ipc EXCEPT ![Trojan] = Blocked("recv", t_ep)]
  BY RecvCases DEF Base, Types, TypeOK, TrojanTime
<1>4. \/ /\ ipc[Root] = Blocked("send", t_ep)
         /\ ipc' = [ipc EXCEPT ![Root] = Ready]
      \/ /\ ipc[Root] # Blocked("send", t_ep)
         /\ ipc' = [ipc EXCEPT ![Trojan] = Blocked("recv", t_ep)]
  BY <1>1, <1>2, <1>3 DEF Handshaking, PlainHandshake, KernelHandshake, Synchronising, SpyUnsynced,
     SpyUntimed, TrojanUntimed, TrojanSends, RootWaits, IsReady, IsBlocked, TrojanTime
<1>5. KernelHandshake'
  BY <1>1, <1>2, <1>4 DEF FirstStatement, TrojanLoop, SpyLoop, TrojanAt, SpyAt, PublishFirst,
     Scheduling, Handshaking, PlainHandshake, KernelHandshake, Synchronising, SpyUnsynced,
     SpyUntimed, TrojanUntimed, TrojanSends, RootWaits, IsReady, IsBlocked, Goto, TrojanTime
<1>6. OnCore'
  <2>1. \E u \in Thread : ipc'[u] = Ready
    BY <1>1, <1>2, <1>4 DEF Handshaking, PlainHandshake, KernelHandshake, Synchronising,
       SpyUnsynced, SpyUntimed, TrojanUntimed, TrojanSends, RootWaits, IsReady, IsBlocked
  <2> QED
    BY <1>3, <2>1, RescheduleOnCore
<1>7. Types' /\ Rounds'
  BY <1>1, <1>2, <1>3 DEF Base, Types, TypeOK, Rounds, TrojanAt, PublishFirst, Goto, FirstStatement,
     trojanVars, spyVars, kdVars, TrojanTime
<1>8. Stage'
  BY <1>2, <1>5 DEF Stage, Handshaking, TrojanTime
<1>9. Lines'
  <2>1. printed = {}
    BY <1>2 DEF Base, Lines, Finished, Handshaking, PlainHandshake, KernelHandshake, Synchronising,
       SpyUnsynced, SpyUntimed, TrojanUntimed, TrojanSends, RootWaits, IsReady, IsBlocked
  <2> QED
    BY <1>1, <2>1 DEF Base, Lines, TrojanTime
<1> QED
  BY <1>2, <1>5, <1>6, <1>7, <1>8, <1>9 DEF Base, Handshaking

\* The root task waits for the announcement.
LEMMA RootAwaitSearchBase ==
  ASSUME Base, RootAwaitSearch, UNCHANGED kdVars
  PROVE  Base' /\ Handshaking
<1> USE Facts, ChannelAssumption, SingleAssumption
<1> DEFINE Before ==
      KernelHandshake /\ TrojanUntimed /\ IsReady(Spy, "search")
<1>1. /\ cur = Root /\ ipc[Root] = Ready /\ ipc \in [Thread -> IpcState]
      /\ pc = [u \in Thread |-> pc[u]] /\ chan \in Family
  BY DEF Base, OnCore, Types, TypeOK, KernelTypeOK, RootAwaitSearch, Recv, Runs
<1>2. Before /\ i[Trojan] = 0 /\ i[Spy] = 0
  BY <1>1 DEF Base, OnCore, Stage, Measuring, Finished, TrojanLoop, SpyLoop, TrojanAt, SpyAt,
     FirstStatement, Handshaking, PlainHandshake, KernelHandshake, Synchronising, SpyUnsynced,
     SpyUntimed, TrojanUntimed, TrojanSends, RootWaits, IsReady, IsBlocked, RootAwaitSearch
<1>3. /\ KernelTypeOK' /\ Reschedule(Root)
      /\ \/ \E u \in Thread : /\ ipc[u] = Blocked("send", s_ep)
                              /\ ipc' = [ipc EXCEPT ![u] = Ready]
         \/ /\ \A u \in Thread : ipc[u] # Blocked("send", s_ep)
            /\ ipc' = [ipc EXCEPT ![Root] = Blocked("recv", s_ep)]
  BY RecvCases DEF Base, Types, TypeOK, RootAwaitSearch
<1>4. ipc' = [ipc EXCEPT ![Root] = Blocked("recv", s_ep)]
  BY <1>1, <1>2, <1>3 DEF Handshaking, PlainHandshake, KernelHandshake, Synchronising, SpyUnsynced,
     SpyUntimed, TrojanUntimed, TrojanSends, RootWaits, IsReady, IsBlocked, RootAwaitSearch
<1>5. KernelHandshake'
  BY <1>1, <1>2, <1>4 DEF FirstStatement, TrojanLoop, SpyLoop, TrojanAt, SpyAt, PublishFirst,
     Scheduling, Handshaking, PlainHandshake, KernelHandshake, Synchronising, SpyUnsynced,
     SpyUntimed, TrojanUntimed, TrojanSends, RootWaits, IsReady, IsBlocked, Goto, RootAwaitSearch
<1>6. OnCore'
  <2>1. \E u \in Thread : ipc'[u] = Ready
    BY <1>1, <1>2, <1>4 DEF Handshaking, PlainHandshake, KernelHandshake, Synchronising,
       SpyUnsynced, SpyUntimed, TrojanUntimed, TrojanSends, RootWaits, IsReady, IsBlocked
  <2> QED
    BY <1>3, <2>1, RescheduleOnCore
<1>7. Types' /\ Rounds'
  BY <1>1, <1>2, <1>3 DEF Base, Types, TypeOK, Rounds, TrojanAt, PublishFirst, Goto, FirstStatement,
     trojanVars, spyVars, kdVars, RootAwaitSearch
<1>8. Stage'
  BY <1>2, <1>5 DEF Stage, Handshaking, RootAwaitSearch
<1>9. Lines'
  <2>1. printed = {}
    BY <1>2 DEF Base, Lines, Finished, Handshaking, PlainHandshake, KernelHandshake, Synchronising,
       SpyUnsynced, SpyUntimed, TrojanUntimed, TrojanSends, RootWaits, IsReady, IsBlocked
  <2> QED
    BY <1>1, <2>1 DEF Base, Lines, RootAwaitSearch
<1> QED
  BY <1>2, <1>5, <1>6, <1>7, <1>8, <1>9 DEF Base, Handshaking

\* The root task releases the trojan ...
LEMMA RootTimeTrojanBase ==
  ASSUME Base, RootTimeTrojan, UNCHANGED kdVars
  PROVE  Base' /\ Handshaking
<1> USE Facts, ChannelAssumption, SingleAssumption
<1> DEFINE Before ==
      KernelHandshake /\ TrojanUntimed /\ IsReady(Spy, "time")
<1>1. /\ cur = Root /\ ipc[Root] = Ready /\ ipc \in [Thread -> IpcState]
      /\ pc = [u \in Thread |-> pc[u]] /\ chan \in Family
  BY DEF Base, OnCore, Types, TypeOK, KernelTypeOK, RootTimeTrojan, Send, Runs
<1>2. Before /\ i[Trojan] = 0 /\ i[Spy] = 0
  BY <1>1 DEF Base, OnCore, Stage, Measuring, Finished, TrojanLoop, SpyLoop, TrojanAt, SpyAt,
     FirstStatement, Handshaking, PlainHandshake, KernelHandshake, Synchronising, SpyUnsynced,
     SpyUntimed, TrojanUntimed, TrojanSends, RootWaits, IsReady, IsBlocked, RootTimeTrojan
<1>3. /\ KernelTypeOK' /\ Reschedule(Root)
      /\ \/ \E u \in Thread : /\ ipc[u] = Blocked("recv", t_ep)
                              /\ ipc' = [ipc EXCEPT ![u] = Ready]
         \/ /\ \A u \in Thread : ipc[u] # Blocked("recv", t_ep)
            /\ ipc' = [ipc EXCEPT ![Root] = Blocked("send", t_ep)]
  BY SendCases DEF Base, Types, TypeOK, RootTimeTrojan
<1>4. \/ /\ ipc[Trojan] = Blocked("recv", t_ep)
         /\ ipc' = [ipc EXCEPT ![Trojan] = Ready]
      \/ /\ ipc[Trojan] # Blocked("recv", t_ep)
         /\ ipc' = [ipc EXCEPT ![Root] = Blocked("send", t_ep)]
  BY <1>1, <1>2, <1>3 DEF Handshaking, PlainHandshake, KernelHandshake, Synchronising, SpyUnsynced,
     SpyUntimed, TrojanUntimed, TrojanSends, RootWaits, IsReady, IsBlocked, RootTimeTrojan
<1>5. KernelHandshake'
  BY <1>1, <1>2, <1>4 DEF FirstStatement, TrojanLoop, SpyLoop, TrojanAt, SpyAt, PublishFirst,
     Scheduling, Handshaking, PlainHandshake, KernelHandshake, Synchronising, SpyUnsynced,
     SpyUntimed, TrojanUntimed, TrojanSends, RootWaits, IsReady, IsBlocked, Goto, RootTimeTrojan
<1>6. OnCore'
  <2>1. \E u \in Thread : ipc'[u] = Ready
    BY <1>1, <1>2, <1>4 DEF Handshaking, PlainHandshake, KernelHandshake, Synchronising,
       SpyUnsynced, SpyUntimed, TrojanUntimed, TrojanSends, RootWaits, IsReady, IsBlocked
  <2> QED
    BY <1>3, <2>1, RescheduleOnCore
<1>7. Types' /\ Rounds'
  BY <1>1, <1>2, <1>3 DEF Base, Types, TypeOK, Rounds, TrojanAt, PublishFirst, Goto, FirstStatement,
     trojanVars, spyVars, kdVars, RootTimeTrojan
<1>8. Stage'
  BY <1>2, <1>5 DEF Stage, Handshaking, RootTimeTrojan
<1>9. Lines'
  <2>1. printed = {}
    BY <1>2 DEF Base, Lines, Finished, Handshaking, PlainHandshake, KernelHandshake, Synchronising,
       SpyUnsynced, SpyUntimed, TrojanUntimed, TrojanSends, RootWaits, IsReady, IsBlocked
  <2> QED
    BY <1>1, <2>1 DEF Base, Lines, RootTimeTrojan
<1> QED
  BY <1>2, <1>5, <1>6, <1>7, <1>8, <1>9 DEF Base, Handshaking

\* ... and the spy.
LEMMA RootTimeSpyBase ==
  ASSUME Base, RootTimeSpy, UNCHANGED kdVars
  PROVE  Base' /\ Handshaking
<1> USE Facts, ChannelAssumption, SingleAssumption
<1> DEFINE Before ==
      KernelHandshake /\ IsReady(Trojan, "sync") /\ SpyUntimed
<1>1. /\ cur = Root /\ ipc[Root] = Ready /\ ipc \in [Thread -> IpcState]
      /\ pc = [u \in Thread |-> pc[u]] /\ chan \in Family
  BY DEF Base, OnCore, Types, TypeOK, KernelTypeOK, RootTimeSpy, Send, Runs
<1>2. Before /\ i[Trojan] = 0 /\ i[Spy] = 0
  BY <1>1 DEF Base, OnCore, Stage, Measuring, Finished, TrojanLoop, SpyLoop, TrojanAt, SpyAt,
     FirstStatement, Handshaking, PlainHandshake, KernelHandshake, Synchronising, SpyUnsynced,
     SpyUntimed, TrojanUntimed, TrojanSends, RootWaits, IsReady, IsBlocked, RootTimeSpy
<1>3. /\ KernelTypeOK' /\ Reschedule(Root)
      /\ \/ \E u \in Thread : /\ ipc[u] = Blocked("recv", s_ep)
                              /\ ipc' = [ipc EXCEPT ![u] = Ready]
         \/ /\ \A u \in Thread : ipc[u] # Blocked("recv", s_ep)
            /\ ipc' = [ipc EXCEPT ![Root] = Blocked("send", s_ep)]
  BY SendCases DEF Base, Types, TypeOK, RootTimeSpy
<1>4. \/ /\ ipc[Spy] = Blocked("recv", s_ep)
         /\ ipc' = [ipc EXCEPT ![Spy] = Ready]
      \/ /\ ipc[Spy] # Blocked("recv", s_ep)
         /\ ipc' = [ipc EXCEPT ![Root] = Blocked("send", s_ep)]
  BY <1>1, <1>2, <1>3 DEF Handshaking, PlainHandshake, KernelHandshake, Synchronising, SpyUnsynced,
     SpyUntimed, TrojanUntimed, TrojanSends, RootWaits, IsReady, IsBlocked, RootTimeSpy
<1>5. KernelHandshake'
  BY <1>1, <1>2, <1>4 DEF FirstStatement, TrojanLoop, SpyLoop, TrojanAt, SpyAt, PublishFirst,
     Scheduling, Handshaking, PlainHandshake, KernelHandshake, Synchronising, SpyUnsynced,
     SpyUntimed, TrojanUntimed, TrojanSends, RootWaits, IsReady, IsBlocked, Goto, RootTimeSpy
<1>6. OnCore'
  <2>1. \E u \in Thread : ipc'[u] = Ready
    BY <1>1, <1>2, <1>4 DEF Handshaking, PlainHandshake, KernelHandshake, Synchronising,
       SpyUnsynced, SpyUntimed, TrojanUntimed, TrojanSends, RootWaits, IsReady, IsBlocked
  <2> QED
    BY <1>3, <2>1, RescheduleOnCore
<1>7. Types' /\ Rounds'
  BY <1>1, <1>2, <1>3 DEF Base, Types, TypeOK, Rounds, TrojanAt, PublishFirst, Goto, FirstStatement,
     trojanVars, spyVars, kdVars, RootTimeSpy
<1>8. Stage'
  BY <1>2, <1>5 DEF Stage, Handshaking, RootTimeSpy
<1>9. Lines'
  <2>1. printed = {}
    BY <1>2 DEF Base, Lines, Finished, Handshaking, PlainHandshake, KernelHandshake, Synchronising,
       SpyUnsynced, SpyUntimed, TrojanUntimed, TrojanSends, RootWaits, IsReady, IsBlocked
  <2> QED
    BY <1>1, <2>1 DEF Base, Lines, RootTimeSpy
<1> QED
  BY <1>2, <1>5, <1>6, <1>7, <1>8, <1>9 DEF Base, Handshaking

\* The spy's result wakes the root task.
LEMMA SpyDoneBase ==
  ASSUME Base, SpyDone, UNCHANGED kdVars
  PROVE  Base' /\ Measuring /\ Finished'
<1> USE Facts, ChannelAssumption
<1>1. /\ cur = Spy /\ ipc \in [Thread -> IpcState] /\ pc = [u \in Thread |-> pc[u]]
      /\ chan' = chan
  BY DEF Base, OnCore, Types, TypeOK, KernelTypeOK, SpyDone, Send, Runs, Goto
<1>2. Measuring
  BY <1>1, InLoop DEF SpyDone
<1>3. /\ KernelTypeOK' /\ Reschedule(Spy)
      /\ \/ \E u \in Thread : /\ ipc[u] = Blocked("recv", s_ep)
                              /\ ipc' = [ipc EXCEPT ![u] = Ready]
         \/ /\ \A u \in Thread : ipc[u] # Blocked("recv", s_ep)
            /\ ipc' = [ipc EXCEPT ![Spy] = Blocked("send", s_ep)]
  BY SendCases DEF Base, Types, TypeOK, SpyDone
<1>4. ipc' = [ipc EXCEPT ![Root] = Ready]
  BY <1>1, <1>2, <1>3 DEF Measuring, RootWaits, IsBlocked
<1>5. Finished'
  BY <1>1, <1>2, <1>4 DEF Measuring, RootWaits, IsBlocked, Finished, TrojanAt, TrojanLoop,
     PublishFirst, SpyDone, Goto
<1>6. OnCore'
  BY <1>1, <1>3, <1>4, RescheduleOnCore
<1>7. Types' /\ Rounds'
  BY <1>1, <1>3 DEF Base, Types, TypeOK, Rounds, TrojanAt, PublishFirst, SpyDone, Goto,
     trojanVars, spyVars, kdVars
<1>8. Lines'
  <2>1. printed = {}
    BY <1>2 DEF Base, Lines, Measuring, RootWaits, IsBlocked, Finished
  <2> QED
    BY <1>1, <2>1 DEF Base, Lines, SpyDone
<1> QED
  BY <1>2, <1>5, <1>6, <1>7, <1>8 DEF Base, Stage

\* The root task prints a line, or leaves the loop.
LEMMA RootPrintBase ==
  ASSUME Base, RootPrint, UNCHANGED kdVars
  PROVE  Base' /\ Finished
<1> USE Facts, ChannelAssumption
<1>1. /\ KernelTypeOK' /\ OnCore' /\ ipc' = ipc /\ cur = Root /\ chan' = chan
      /\ pc[Root] = "report" /\ ipc[Root] = Ready
  BY ComputeOnCore DEF Base, OnCore, Types, TypeOK, KernelTypeOK, RootPrint, Goto
<1>2. Finished
  BY <1>1 DEF Base, Stage, Handshaking, PlainHandshake, KernelHandshake, Synchronising,
     Measuring, RootWaits, IsReady, IsBlocked
<1>3. Types' /\ Rounds'
  BY <1>1 DEF Base, Types, TypeOK, Rounds, TrojanAt, PublishFirst, RootPrint, Goto, Slot,
     trojanVars, spyVars, kdVars
<1>4. Finished'
  BY <1>1, <1>2 DEF Base, Types, TypeOK, Finished, TrojanAt, TrojanLoop, PublishFirst,
     RootPrint, Goto
<1>5. Lines'
  BY <1>1, <1>4 DEF Base, Types, TypeOK, Lines, RootPrint, Goto, spyVars
<1> QED
  BY <1>1, <1>2, <1>3, <1>4, <1>5 DEF Base, Stage

\* A step that changes nothing but the clock, who runs, and units.
LEMMA QuietBase ==
  ASSUME Base, KernelTypeOK', OnCore', dirty' \subseteq Unit,
         UNCHANGED <<ipc, chan, pc, i, secret, shared, pubs, spyVars, todo, printed, kdVars>>
  PROVE  Base'
<1>1. Types'
  BY DEF Base, Types, TypeOK, spyVars, kdVars
<1>2. Stage' /\ (Finished' <=> Finished)
  BY DEF Base, Stage, Handshaking, PlainHandshake, KernelHandshake, Synchronising, Measuring,
     Finished, SpyUnsynced, SpyUntimed, TrojanUntimed, TrojanSends, RootWaits, IsReady,
     IsBlocked, FirstStatement, TrojanAt, SpyAt, TrojanLoop, SpyLoop, PublishFirst, Scheduling
<1>3. Rounds'
  BY DEF Base, Rounds, TrojanAt, PublishFirst
<1>4. Lines'
  BY <1>2 DEF Base, Lines, spyVars
<1> QED
  BY <1>1, <1>2, <1>3, <1>4 DEF Base

\* The tick, whoever waits for it.
LEMMA TickBase ==
  ASSUME Base, NEW spinning, Tick(spinning),
         UNCHANGED <<threadVars, trojanVars, spyVars, todo, printed, kdVars>>
  PROVE  Base'
<1>1. KernelTypeOK' /\ OnCore' /\ ipc' = ipc
  BY TickOnCore
<1> QED
  BY <1>1, QuietBase DEF Base, Types, TypeOK, threadVars, trojanVars

\* The warmup of the scheduling channel's trojan, and the search for the
\* probe lists, disturb any units.
LEMMA WarmupBase ==
  ASSUME Base, TrojanWarmup \/ (SpySearch /\ UNCHANGED kdVars)
  PROVE  Base'
<1>1. \E t \in Thread : Compute(t) /\ away' = away
  BY Facts DEF TrojanWarmup, SpySearch
<1>2. KernelTypeOK' /\ OnCore' /\ ipc' = ipc
  BY <1>1, ComputeOnCore DEF Base, Types, TypeOK, KernelTypeOK
<1> QED
  BY <1>2, QuietBase DEF TrojanWarmup, SpySearch, threadVars

\* A step that changes no variable.
LEMMA StutterBase ==
  ASSUME Base, UNCHANGED allVars
  PROVE  Base'
<1>1. KernelTypeOK' /\ OnCore'
  BY DEF Base, Types, TypeOK, KernelTypeOK, OnCore, allVars, vars, kernelVars
<1> QED
  BY <1>1, QuietBase DEF Base, Types, TypeOK, allVars, vars, kernelVars, threadVars, trojanVars

\* Nothing has happened yet.
LEMMA InitBase == SingleInit => Base
<1> SUFFICES ASSUME SingleInit PROVE Base
  OBVIOUS
<1> USE Facts, ChannelAssumption, SingleAssumption
<1>1. /\ \/ chan.protocol # "kernel" /\ StartAt("trojan", "ready", "sync")
         \/ chan.protocol = "kernel" /\ StartAt("spyReady", "time", "search")
      /\ chan \in Family
  BY DEF SingleInit, Init, AkInit, StartAt
<1>2. KernelTypeOK /\ OnCore
  <2>1. KernelInit
    BY <1>1 DEF StartAt
  <2>2. KernelTypeOK
    BY <2>1, Sel4Assumption DEF KernelInit, KernelTypeOK, IpcState
  <2>3. OnCore
    BY <2>1 DEF KernelInit, OnCore
  <2> QED
    BY <2>2, <2>3
<1>3. Types
  BY <1>1, <1>2 DEF SingleInit, KdLocals, StartAt, Types, TypeOK, Slot, Sample, NoSample, Label
<1>4. Handshaking
  BY <1>1 DEF StartAt, KernelInit, Handshaking, PlainHandshake, KernelHandshake, SpyUnsynced,
     TrojanUntimed, IsReady
<1>5. Rounds /\ Lines
  BY <1>1 DEF StartAt, Rounds, Lines, TrojanAt
<1> QED
  BY <1>2, <1>3, <1>4, <1>5 DEF Base, Stage

-----------------------------------------------------------------------------
(* The steps of the three protocols *)

\* The steps in which both workers measure, and the others.
TrojanStep ==
  \/ EnterNewTimeSlice(Trojan) \/ TrojanBegin \/ TrojanTouch \/ TrojanPublish
  \/ TrojanPick \/ TrojanTrain
SpyStep ==
  \/ ~Scheduling /\ (EnterNewTimeSlice(Spy) \/ SpyBegin \/ SpyProbe \/ SpyRecord)
     /\ UNCHANGED kdVars
  \/ Scheduling /\ (SpyReadSecret \/ SpyStart \/ SpyGap \/ SpyRecordGap)
HandshakeStep ==
  \/ TrojanReady \/ TrojanSync \/ SpySync \/ RootAwaitTrojan \/ RootAwaitSpy
  \/ SpyAnnounce \/ SpyTime \/ TrojanTime \/ RootAwaitSearch \/ RootTimeTrojan \/ RootTimeSpy
WarmupStep == TrojanWarmup \/ (SpySearch /\ UNCHANGED kdVars)

\* Who lets time pass until the tick, in the loops of all three protocols.
Polling ==
  Spinning \cup {t \in Worker : \/ pc[t] = "search"
                                \/ pc[t] = "sync" /\ t = Trojan
                                \/ pc[t] = "poll" /\ ~away[t]}

TickStep ==
  /\ Tick(Polling)
  /\ UNCHANGED <<threadVars, trojanVars, spyVars, todo, printed, kdVars>>

\* More threads that may wait for the tick allow more ticks.
LEMMA TickWeaken ==
  ASSUME NEW S, NEW T, S \subseteq T, Tick(S)
  PROVE  Tick(T)
BY DEF Tick

\* Every step of SingleNext is one of these.
LEMMA StepCases ==
  ASSUME SingleNext
  PROVE  \/ TrojanStep /\ UNCHANGED kdVars
         \/ SpyStep
         \/ HandshakeStep /\ UNCHANGED kdVars
         \/ WarmupStep
         \/ SpyDone /\ UNCHANGED kdVars
         \/ RootPrint /\ UNCHANGED kdVars
         \/ TickStep
         \/ UNCHANGED allVars
<1>1. CASE chan.protocol = "single" /\ Next /\ UNCHANGED kdVars
  <2>1. CASE TrojanNext
    BY <1>1, <2>1 DEF TrojanNext, TrojanStep, HandshakeStep
  <2>2. CASE SpyNext
    BY <1>1, <2>2 DEF SpyNext, SpyStep, HandshakeStep, Scheduling
  <2>3. CASE RootNext
    BY <1>1, <2>3 DEF RootNext, HandshakeStep, RootSpin, allVars
  <2>4. CASE TimerTick
    BY <1>1, <2>4, TickWeaken DEF TimerTick, TickStep, Polling
  <2> QED
    BY <1>1, <2>1, <2>2, <2>3, <2>4 DEF Next
<1>2. CASE chan.protocol = "schedule" /\ KdNext
  <2>1. CASE KdTrojan
    BY <2>1 DEF KdTrojan, TrojanStep, HandshakeStep
  <2>2. CASE KdSpy
    BY <1>2, <2>2 DEF KdSpy, SpyStep, HandshakeStep, Scheduling
  <2>3. CASE KdRoot
    BY <2>3 DEF KdRoot, RootNext, HandshakeStep, RootSpin, allVars
  <2>4. CASE KdTick
    <3>1. {t \in Worker : \/ pc[t] = "sync" /\ t = Trojan
                          \/ pc[t] = "poll" /\ ~away[t]}
            \subseteq Polling
      BY DEF Polling
    <3> QED
      BY <2>4, <3>1, TickWeaken DEF KdTick, TickStep, Polling
  <2>5. CASE TrojanWarmup
    BY <2>5 DEF WarmupStep
  <2> QED
    BY <1>2, <2>1, <2>2, <2>3, <2>4, <2>5 DEF KdNext
<1>3. CASE chan.protocol = "kernel" /\ AkNext /\ UNCHANGED kdVars
  <2>1. CASE AkTrojan
    BY <1>3, <2>1 DEF AkTrojan, TrojanStep, HandshakeStep
  <2>2. CASE AkSpy
    BY <1>3, <2>2 DEF AkSpy, SpyStep, HandshakeStep, WarmupStep, Scheduling
  <2>3. CASE AkRoot
    BY <1>3, <2>3 DEF AkRoot, HandshakeStep, RootSpin, allVars
  <2>4. CASE AkTick
    <3>1. {t \in Worker : pc[t] = "search"} \subseteq Polling
      BY DEF Polling
    <3> QED
      BY <1>3, <2>4, <3>1, TickWeaken DEF AkTick, TickStep, Polling
  <2> QED
    BY <1>3, <2>1, <2>2, <2>3, <2>4 DEF AkNext
<1> QED
  BY <1>1, <1>2, <1>3 DEF SingleNext

\* The steps of the loops.
LEMMA LoopBase ==
  ASSUME Base, (TrojanStep /\ UNCHANGED kdVars) \/ SpyStep
  PROVE  Base' /\ Measuring
<1>1. CASE TrojanStep /\ UNCHANGED kdVars
  BY <1>1, EnterTrojanBase, TrojanBeginBase, TrojanTouchBase, TrojanPublishBase,
     TrojanPickBase, TrojanTrainBase DEF TrojanStep
<1>2. CASE SpyStep
  BY <1>2, EnterSpyBase, SpyBeginBase, SpyProbeBase, SpyRecordBase, SpyReadSecretBase,
     SpyStartBase, SpyGapBase, SpyRecordGapBase DEF SpyStep, SpyStart
<1> QED
  BY <1>1, <1>2

\* The steps of the handshakes.
LEMMA HandshakeBase ==
  ASSUME Base, HandshakeStep, UNCHANGED kdVars
  PROVE  Base' /\ Handshaking
BY TrojanReadyBase, TrojanSyncBase, SpySyncBase, RootAwaitTrojanBase, RootAwaitSpyBase,
   SpyAnnounceBase, SpyTimeBase, TrojanTimeBase, RootAwaitSearchBase, RootTimeTrojanBase,
   RootTimeSpyBase DEF HandshakeStep

\* Base is inductive.
LEMMA NextBase == Base /\ [SingleNext]_allVars => Base'
<1> SUFFICES ASSUME Base, SingleNext \/ UNCHANGED allVars PROVE Base'
  OBVIOUS
<1>1. CASE SingleNext
  BY <1>1, StepCases, LoopBase, HandshakeBase, WarmupBase, SpyDoneBase, RootPrintBase,
     TickBase, StutterBase DEF WarmupStep, TickStep
<1> QED
  BY <1>1, StutterBase

THEOREM BaseInvariance == SingleSpec => []Base
BY InitBase, NextBase, PTL DEF SingleSpec

-----------------------------------------------------------------------------
(* Turns: the slices *)

\* The units whose state a sample depends on.
Scope == IF Scheduling THEN Unit ELSE chan.probe

\* A worker that will see the gap when it gets the core.
TrojanParked == TrojanAt({"wait", "train"}) /\ away[Trojan]
SpyParked == SpyAt({"wait", "poll"}) /\ away[Spy]

\* Before its first slice.
SpyFresh == SpyAt({"enter", "start"}) /\ i[Spy] = 0
TrojanIdle == TrojanParked \/ TrojanAt({"pick", "enter"})

\* One secret was published since the last sample; or the trojan, which
\* publishes first, has stopped.
Fresh == pubs = seen + 1
Attributed ==
  shared \in chan.secrets /\ (Fresh \/ (PublishFirst /\ pc[Trojan] = "spin"))

\* What the spy finds at the start of its slice.
Loaded == Attributed /\ dirty \cap Scope = chan.touch[shared] \cap Scope

\* The trojan reaches the end of its loop body in this slice.
TrojanInTime ==
  /\ TrojanParked => left = Slice
  /\ pc[Trojan] = "touch" =>
       IsFiniteSet(todo[Trojan]) /\ left >= Cardinality(todo[Trojan]) + 3
  /\ pc[Trojan] = "publish" => left >= 2
  /\ pc[Trojan] = "pick" => left >= 3
  /\ pc[Trojan] = "enter" => left >= IF PublishFirst THEN 2 ELSE 1
  /\ pc[Trojan] = "train" => left >= 1 \/ dirty = chan.touch[secret]

TrojanCount ==
  IF TrojanParked \/ TrojanAt({"touch", "publish"}) THEN i[Trojan] <= i[Spy]
  ELSE i[Trojan] <= i[Spy] + 1

TrojanData ==
  /\ TrojanAt({"touch", "publish", "pick"}) \/ TrojanParked => pubs = seen
  /\ ~PublishFirst /\ TrojanParked => dirty \cap Scope = {}
  /\ pc[Trojan] = "touch" =>
       (dirty \cup todo[Trojan]) \cap Scope = chan.touch[secret] \cap Scope
  /\ pc[Trojan] = "publish" => dirty \cap Scope = chan.touch[secret] \cap Scope
  /\ ~PublishFirst /\ TrojanAt({"enter", "wait", "spin"}) /\ ~TrojanParked => Loaded
  /\ PublishFirst /\ TrojanAt({"enter", "train"}) /\ ~TrojanParked => Fresh
  /\ PublishFirst /\ pc[Trojan] = "spin" => dirty = chan.touch[secret]

\* The trojan's slice: the spy has not had one yet, or it waits with its last
\* sample taken.
TrojansTurn ==
  \/ /\ SpyFresh /\ i[Trojan] = 0
     /\ TrojanAt({"pick", "enter", "wait", "train"}) /\ ~TrojanParked
  \/ /\ SpyParked /\ TrojanInTime /\ TrojanCount
     /\ i[Spy] >= 1 => TrojanData

\* The spy reaches the end of its loop body in this slice.
SpyInTime ==
  /\ SpyParked => left = Slice
  /\ pc[Spy] = "probe" =>
       IsFiniteSet(todo[Spy]) /\ left >= Cardinality(todo[Spy]) + 3
  /\ pc[Spy] = "record" => left >= 2 /\ (Scheduling => ~away[Spy])
  /\ pc[Spy] = "enter" => left >= 1 /\ ~Scheduling
  /\ pc[Spy] # "start"

SpyCount ==
  IF SpyParked \/ SpyAt({"probe", "record"}) THEN i[Trojan] <= i[Spy] + 1
  ELSE i[Trojan] <= i[Spy] /\ i[Spy] >= 1

SpyData ==
  /\ SpyParked /\ i[Spy] >= 1 => Loaded
  /\ pc[Spy] = "probe" =>
       /\ todo[Spy] \subseteq chan.probe
       /\ dirty \cap (chan.probe \ todo[Spy]) = {}
       /\ i[Spy] >= 1 =>
            /\ Attributed
            /\ hits \cup (dirty \cap todo[Spy]) = chan.touch[shared] \cap chan.probe
  /\ pc[Spy] = "record" =>
       /\ dirty \cap Scope = {}
       /\ i[Spy] >= 1 => Attributed /\ hits = chan.touch[shared] \cap Scope
  /\ SpyAt({"enter", "wait", "poll"}) /\ ~SpyParked =>
       dirty \cap Scope = {} /\ pubs = seen

\* The spy's slice: its first one, the first wait for a gap, or a round.
SpysTurn ==
  \/ /\ SpyFresh /\ i[Trojan] = 0 /\ TrojanIdle
     /\ TrojanParked => left >= IF Scheduling /\ pc[Spy] = "enter" THEN 2 ELSE 1
  \/ /\ SpyAt({"wait", "poll"}) /\ ~away[Spy] /\ i[Spy] = 0 /\ i[Trojan] = 0
     /\ TrojanIdle
  \/ /\ TrojanParked \/ pc[Trojan] = "spin"
     /\ SpyInTime /\ SpyCount /\ SpyData

Turns ==
  Measuring /\ pc[Spy] # "done" =>
    /\ cur = Trojan => TrojansTurn
    /\ cur = Spy => SpysTurn

\* The samples after the first one.
Recorded ==
  /\ \A k \in Slot : 1 <= k /\ k < i[Spy] =>
       /\ rec[k].sec \in chan.secrets
       /\ rec[k].result = chan.touch[rec[k].sec] \cap Scope
       /\ Scheduling /\ k >= 2 => prevSec[k] = rec[k - 1].sec
  /\ Scheduling /\ 1 <= i[Spy] => prev_s = rec[i[Spy] - 1].sec

SingleInv == Base /\ Turns /\ Recorded

-----------------------------------------------------------------------------
(* Steps of the trojan *)

\* A slice has room for any loop body of the configured channel.
LEMMA BodyFits ==
  ASSUME SliceFits, chan \in Family
  PROVE  /\ Slice \in Nat /\ Slice >= 4
         /\ IsFiniteSet(chan.probe) /\ Cardinality(chan.probe) \in Nat
         /\ Cardinality(chan.probe) + 4 <= Slice
         /\ \A s \in chan.secrets :
              /\ IsFiniteSet(chan.touch[s]) /\ Cardinality(chan.touch[s]) \in Nat
              /\ Cardinality(chan.touch[s]) + 4 <= Slice
<1>1. /\ IsFiniteSet(chan.probe) /\ Cardinality(chan.probe) + 4 <= Slice
      /\ \A s \in chan.secrets :
           IsFiniteSet(chan.touch[s]) /\ Cardinality(chan.touch[s]) + 4 <= Slice
  BY DEF SliceFits
<1>2. Cardinality(chan.probe) \in Nat
  BY <1>1, FS_CardinalityType
<1>3. \A s \in chan.secrets : Cardinality(chan.touch[s]) \in Nat
  BY <1>1, FS_CardinalityType
<1>4. Slice \in Nat
  BY Sel4Assumption
<1> QED
  BY <1>1, <1>2, <1>3, <1>4

\* What is left to do shrinks by one.
LEMMA OneLess ==
  ASSUME NEW S, IsFiniteSet(S), NEW u \in S
  PROVE  /\ IsFiniteSet(S \ {u}) /\ Cardinality(S) \in Nat
         /\ Cardinality(S \ {u}) = Cardinality(S) - 1
BY FS_RemoveElement, FS_CardinalityType

\* The record stands until the spy records again.
LEMMA KeepsRecord ==
  ASSUME Base, Recorded, UNCHANGED <<chan, rec, prevSec>>, i'[Spy] = i[Spy],
         prev_s' = prev_s \/ i[Spy] = 0
  PROVE  Recorded'
BY DEF Recorded, Scope, Scheduling

\* The second half of Turns does not matter while the trojan has the core.
LEMMA TrojanTurns ==
  ASSUME cur' = Trojan, TrojansTurn'
  PROVE  Turns'
BY ChannelAssumption DEF Turns

\* The trojan reads the time stamp for the first time in its round.
LEMMA EnterTrojanTurns ==
  ASSUME SliceFits, SingleInv, EnterNewTimeSlice(Trojan), UNCHANGED kdVars
  PROVE  Turns' /\ Recorded'
<1>1. Measuring /\ cur = Trojan
  BY EnterTrojanBase DEF SingleInv
<1>2. /\ cur' = Trojan /\ left' = left - 1 /\ left \in Nat
      /\ pc[Trojan] = "enter" /\ pc'[Spy] = pc[Spy]
      /\ pc'[Trojan] = IF PublishFirst THEN "train" ELSE "wait"
      /\ ~away'[Trojan] /\ away'[Spy] = away[Spy]
      /\ UNCHANGED <<chan, i, trojanVars, spyVars, todo, kdVars>>
  <2>1. ~away'[Trojan] /\ away'[Spy] = away[Spy]
    BY Facts, ChannelAssumption DEF SingleInv, Base, Types, TypeOK, KernelTypeOK,
       EnterNewTimeSlice
  <2>2. pc'[Spy] = pc[Spy] /\ pc'[Trojan] = IF PublishFirst THEN "train" ELSE "wait"
    BY Facts, ChannelAssumption DEF SingleInv, Base, Types, TypeOK, EnterNewTimeSlice, Goto,
       PublishFirst
  <2>3. /\ pc[Trojan] = "enter" /\ cur' = Trojan /\ left' = left - 1 /\ left \in Nat
        /\ UNCHANGED <<chan, i, trojanVars, spyVars, todo, kdVars>>
    BY <1>1, Facts, ChannelAssumption, Sel4Assumption
       DEF SingleInv, Base, Types, TypeOK, KernelTypeOK, EnterNewTimeSlice, Compute, Goto
  <2> QED
    BY <2>1, <2>2, <2>3, <1>1
<1>3. Recorded'
  BY <1>2, KeepsRecord DEF SingleInv, spyVars, kdVars
<1>4. CASE pc[Spy] = "done"
  BY <1>2, <1>3, <1>4 DEF Turns
<1>5. CASE TrojansTurn
  <2>1. CASE SpyFresh /\ i[Trojan] = 0
    BY <1>2, <1>3, <2>1, TrojanTurns DEF TrojansTurn, SpyFresh, TrojanParked, TrojanAt, SpyAt
  <2>2. CASE SpyParked /\ TrojanInTime /\ TrojanCount /\ (i[Spy] >= 1 => TrojanData)
    <3>1. SpyParked' /\ TrojanInTime' /\ TrojanCount'
      BY <1>2, <2>2 DEF SpyParked, TrojanInTime, TrojanCount, TrojanParked, TrojanAt, SpyAt,
         PublishFirst
    <3>2. i[Spy] >= 1 => TrojanData'
      BY <1>2, <2>2 DEF TrojanData, Loaded, Attributed, Fresh, TrojanParked, TrojanAt,
         PublishFirst, Scope, Scheduling, trojanVars, spyVars
    <3> QED
      BY <1>2, <1>3, <3>1, <3>2, TrojanTurns DEF TrojansTurn
  <2> QED
    BY <1>5, <2>1, <2>2 DEF TrojansTurn
<1> QED
  BY <1>1, <1>4, <1>5 DEF SingleInv, Turns

\* The trojan draws a secret: the slice is new, and it begins with clean units.
LEMMA TrojanBeginTurns ==
  ASSUME SliceFits, SingleInv, TrojanBegin, UNCHANGED kdVars
  PROVE  Turns' /\ Recorded'
<1>1. Measuring /\ cur = Trojan
  BY TrojanBeginBase DEF SingleInv
<1>2. PICK s \in chan.secrets :
        /\ cur' = Trojan /\ left' = left - 1 /\ left \in Nat
        /\ pc[Trojan] = "wait" /\ away[Trojan]
        /\ pc'[Trojan] = "touch" /\ pc'[Spy] = pc[Spy]
        /\ secret' = s /\ todo'[Trojan] = chan.touch[s]
        /\ UNCHANGED <<chan, i, away, dirty, shared, pubs, spyVars, kdVars>>
  BY <1>1, Facts, ChannelAssumption DEF SingleInv, Base, Types, TypeOK, KernelTypeOK,
     TrojanBegin, NewTimeSlice, Compute, Goto
<1>3. Recorded'
  BY <1>2, KeepsRecord DEF SingleInv, spyVars, kdVars
<1>4. CASE pc[Spy] = "done"
  BY <1>2, <1>3, <1>4 DEF Turns
<1>5. CASE TrojansTurn
  <2>1. TrojanParked
    BY <1>2 DEF TrojanParked, TrojanAt
  <2>2. SpyParked /\ TrojanInTime /\ TrojanCount /\ (i[Spy] >= 1 => TrojanData)
    BY <1>5, <2>1 DEF TrojansTurn
  <2>3. ~PublishFirst
    BY <1>1, <1>2 DEF Measuring, TrojanAt, TrojanLoop
  <2>4. SpyParked' /\ TrojanInTime' /\ TrojanCount'
    BY <1>2, <2>1, <2>2, BodyFits DEF SingleInv, Base, Types, TypeOK, SpyParked, TrojanInTime,
       TrojanCount, TrojanParked, TrojanAt, SpyAt
  <2>5. i[Spy] >= 1 => TrojanData'
    <3>1. i[Spy] >= 1 => pubs = seen /\ dirty \cap Scope = {}
      BY <2>1, <2>2, <2>3 DEF TrojanData
    <3>2. Scope' = Scope
      BY <1>2 DEF Scope, Scheduling
    <3> QED
      BY <1>2, <2>3, <3>1, <3>2 DEF TrojanData, TrojanParked, TrojanAt, PublishFirst, spyVars
  <2> QED
    BY <1>2, <1>3, <2>4, <2>5, TrojanTurns DEF TrojansTurn
<1> QED
  BY <1>1, <1>4, <1>5 DEF SingleInv, Turns

\* The trojan touches a unit, or finds all of them touched.
LEMMA TrojanTouchTurns ==
  ASSUME SliceFits, SingleInv, TrojanTouch, UNCHANGED kdVars
  PROVE  Turns' /\ Recorded'
<1>1. Measuring /\ cur = Trojan
  BY TrojanTouchBase DEF SingleInv
<1>2. /\ cur' = Trojan /\ left' = left - 1 /\ left \in Nat
      /\ pc[Trojan] = "touch" /\ pc'[Spy] = pc[Spy]
      /\ UNCHANGED <<chan, i, away, secret, shared, pubs, spyVars, kdVars>>
      /\ \/ /\ todo[Trojan] = {} /\ dirty' = dirty /\ pc'[Trojan] = "publish"
         \/ /\ pc'[Trojan] = "touch"
            /\ \E u \in todo[Trojan] :
                 dirty' = dirty \cup {u} /\ todo'[Trojan] = todo[Trojan] \ {u}
  BY <1>1, Facts, ChannelAssumption DEF SingleInv, Base, Types, TypeOK, KernelTypeOK,
     TrojanTouch, Compute, Goto
<1>3. Recorded'
  BY <1>2, KeepsRecord DEF SingleInv, spyVars, kdVars
<1>4. CASE pc[Spy] = "done"
  BY <1>2, <1>3, <1>4 DEF Turns
<1>5. CASE TrojansTurn
  <2> USE DEF TrojanAt
  <2>1. ~PublishFirst
    BY <1>1, <1>2 DEF Measuring, TrojanLoop
  <2>2. SpyParked /\ TrojanInTime /\ TrojanCount /\ (i[Spy] >= 1 => TrojanData)
    BY <1>2, <1>5 DEF TrojansTurn
  <2>3. /\ IsFiniteSet(todo[Trojan]) /\ left >= Cardinality(todo[Trojan]) + 3
        /\ i[Trojan] <= i[Spy]
    BY <1>2, <2>2 DEF TrojanInTime, TrojanCount
  <2>4. i[Spy] >= 1 => /\ pubs = seen
                       /\ (dirty \cup todo[Trojan]) \cap Scope = chan.touch[secret] \cap Scope
    BY <1>2, <2>2 DEF TrojanData
  <2>5. SpyParked' /\ ~PublishFirst' /\ Scope' = Scope
    BY <1>2, <2>1, <2>2 DEF SpyParked, SpyAt, PublishFirst, Scope, Scheduling
  <2>6. CASE todo[Trojan] = {} /\ dirty' = dirty /\ pc'[Trojan] = "publish"
    <3>1. TrojanInTime' /\ TrojanCount'
      BY <1>2, <2>3, <2>6, FS_EmptySet DEF TrojanInTime, TrojanCount, TrojanParked
    <3>2. i[Spy] >= 1 => TrojanData'
      BY <1>2, <2>4, <2>5, <2>6 DEF TrojanData, TrojanParked, spyVars
    <3> QED
      BY <1>2, <1>3, <2>5, <3>1, <3>2, TrojanTurns DEF TrojansTurn
  <2>7. ASSUME pc'[Trojan] = "touch",
               NEW u \in todo[Trojan],
               dirty' = dirty \cup {u}, todo'[Trojan] = todo[Trojan] \ {u}
        PROVE  Turns'
    <3>0. /\ IsFiniteSet(todo'[Trojan]) /\ Cardinality(todo[Trojan]) \in Nat
          /\ Cardinality(todo'[Trojan]) = Cardinality(todo[Trojan]) - 1
      BY <2>3, <2>7, OneLess
    <3>1. TrojanInTime' /\ TrojanCount'
      BY <1>2, <2>3, <2>7, <3>0 DEF TrojanInTime, TrojanCount, TrojanParked
    <3>2. dirty' \cup todo'[Trojan] = dirty \cup todo[Trojan]
      BY <2>7
    <3>3. i[Spy] >= 1 => TrojanData'
      BY <1>2, <2>4, <2>5, <2>7, <3>2 DEF TrojanData, TrojanParked, spyVars
    <3> QED
      BY <1>2, <2>5, <3>1, <3>3, TrojanTurns DEF TrojansTurn
  <2> QED
    BY <1>2, <1>3, <2>6, <2>7
<1> QED
  BY <1>1, <1>4, <1>5 DEF SingleInv, Turns

\* The trojan publishes what it has just done.
LEMMA TrojanPublishTurns ==
  ASSUME SliceFits, SingleInv, TrojanPublish, UNCHANGED kdVars
  PROVE  Turns' /\ Recorded'
<1>1. Measuring /\ cur = Trojan
  BY TrojanPublishBase DEF SingleInv
<1>2. /\ cur' = Trojan /\ left' = left - 1 /\ left \in Nat
      /\ pc[Trojan] = "publish" /\ pc'[Spy] = pc[Spy] /\ pc'[Trojan] \in {"enter", "spin"}
      /\ i'[Trojan] = i[Trojan] + 1 /\ i'[Spy] = i[Spy] /\ i[Trojan] \in Nat /\ i[Spy] \in Nat
      /\ shared' = secret /\ pubs' = pubs + 1
      /\ UNCHANGED <<chan, away, secret, dirty, spyVars, kdVars>>
  BY <1>1, Facts, ChannelAssumption DEF SingleInv, Base, Types, TypeOK, KernelTypeOK,
     TrojanPublish, NextRound, Compute, Goto
<1>3. Recorded'
  BY <1>2, KeepsRecord DEF SingleInv, spyVars, kdVars
<1>4. CASE pc[Spy] = "done"
  BY <1>2, <1>3, <1>4 DEF Turns
<1>5. CASE TrojansTurn
  <2> USE DEF TrojanAt
  <2>1. ~PublishFirst
    BY <1>1, <1>2 DEF Measuring, TrojanLoop
  <2>2. SpyParked /\ TrojanInTime /\ TrojanCount /\ (i[Spy] >= 1 => TrojanData)
    BY <1>2, <1>5 DEF TrojansTurn
  <2>3. SpyParked' /\ ~PublishFirst' /\ Scope' = Scope /\ ~TrojanParked'
    BY <1>2, <2>1, <2>2 DEF SpyParked, SpyAt, PublishFirst, Scope, Scheduling, TrojanParked
  <2>4. TrojanInTime' /\ TrojanCount'
    BY <1>2, <2>2, <2>3 DEF TrojanInTime, TrojanCount
  <2>5. i[Spy] >= 1 => TrojanData'
    <3>1. secret \in chan.secrets
      BY <1>2 DEF SingleInv, Base, Rounds
    <3>2. i[Spy] >= 1 => Loaded'
      BY <1>2, <2>2, <2>3, <3>1 DEF TrojanData, Loaded, Attributed, Fresh, spyVars
    <3> QED
      BY <1>2, <2>3, <3>2 DEF TrojanData
  <2> QED
    BY <1>2, <1>3, <2>3, <2>4, <2>5, TrojanTurns DEF TrojansTurn
<1> QED
  BY <1>1, <1>4, <1>5 DEF SingleInv, Turns

\* The trojan of the branch predictor publishes what it is about to do.
LEMMA TrojanPickTurns ==
  ASSUME SliceFits, SingleInv, TrojanPick, UNCHANGED kdVars
  PROVE  Turns' /\ Recorded'
<1>1. Measuring /\ cur = Trojan
  BY TrojanPickBase DEF SingleInv
<1>2. /\ cur' = Trojan /\ left' = left - 1 /\ left \in Nat
      /\ pc[Trojan] = "pick" /\ pc'[Spy] = pc[Spy] /\ pc'[Trojan] = "enter"
      /\ pubs' = pubs + 1
      /\ UNCHANGED <<chan, i, away, dirty, spyVars, kdVars>>
  BY <1>1, Facts, ChannelAssumption DEF SingleInv, Base, Types, TypeOK, KernelTypeOK,
     TrojanPick, Compute, Goto
<1>3. Recorded'
  BY <1>2, KeepsRecord DEF SingleInv, spyVars, kdVars
<1>4. CASE pc[Spy] = "done"
  BY <1>2, <1>3, <1>4 DEF Turns
<1>5. CASE TrojansTurn
  <2> USE DEF TrojanAt
  <2>1. PublishFirst
    BY <1>1, <1>2 DEF Measuring, TrojanLoop
  <2>2. PublishFirst' /\ ~TrojanParked'
    BY <1>2, <2>1 DEF PublishFirst, TrojanParked
  <2>3. CASE SpyFresh /\ i[Trojan] = 0
    BY <1>2, <1>3, <2>2, <2>3, TrojanTurns DEF TrojansTurn, SpyFresh, SpyAt
  <2>4. CASE SpyParked /\ TrojanInTime /\ TrojanCount /\ (i[Spy] >= 1 => TrojanData)
    <3>1. SpyParked' /\ TrojanInTime' /\ TrojanCount'
      BY <1>2, <2>2, <2>4 DEF SpyParked, SpyAt, TrojanInTime, TrojanCount, TrojanParked
    <3>2. i[Spy] >= 1 => TrojanData'
      BY <1>2, <2>2, <2>4 DEF TrojanData, Fresh, TrojanParked, spyVars
    <3> QED
      BY <1>2, <1>3, <3>1, <3>2, TrojanTurns DEF TrojansTurn
  <2> QED
    BY <1>5, <2>3, <2>4 DEF TrojansTurn
<1> QED
  BY <1>1, <1>4, <1>5 DEF SingleInv, Turns

\* It trains the predictor until it sees the gap, and once more.
LEMMA TrojanTrainTurns ==
  ASSUME SliceFits, SingleInv, TrojanTrain, UNCHANGED kdVars
  PROVE  Turns' /\ Recorded'
<1>1. Measuring /\ cur = Trojan
  BY TrojanTrainBase DEF SingleInv
<1>2. /\ cur' = Trojan /\ left' = left - 1 /\ left \in Nat
      /\ pc[Trojan] = "train" /\ pc'[Spy] = pc[Spy]
      /\ dirty' = chan.touch[secret]
      /\ i'[Spy] = i[Spy] /\ i[Trojan] \in Nat /\ i[Spy] \in Nat
      /\ IF away[Trojan]
         THEN pc'[Trojan] \in {"pick", "spin"} /\ i'[Trojan] = i[Trojan] + 1
         ELSE pc'[Trojan] = "train" /\ i'[Trojan] = i[Trojan]
      /\ UNCHANGED <<chan, away, secret, shared, pubs, spyVars, kdVars>>
  BY <1>1, Facts, ChannelAssumption DEF SingleInv, Base, Types, TypeOK, KernelTypeOK,
     TrojanTrain, NextRound, Compute, Goto, threadVars
<1>3. Recorded'
  BY <1>2, KeepsRecord DEF SingleInv, spyVars, kdVars
<1>4. CASE pc[Spy] = "done"
  BY <1>2, <1>3, <1>4 DEF Turns
<1>5. CASE TrojansTurn
  <2> USE DEF TrojanAt
  <2>1. PublishFirst
    BY <1>1, <1>2 DEF Measuring, TrojanLoop
  <2>2. PublishFirst'
    BY <1>2, <2>1 DEF PublishFirst
  <2>3. CASE SpyFresh /\ i[Trojan] = 0 /\ ~TrojanParked
    BY <1>2, <1>3, <2>3, TrojanTurns DEF TrojansTurn, SpyFresh, SpyAt, TrojanParked
  <2>4. CASE SpyParked /\ TrojanInTime /\ TrojanCount /\ (i[Spy] >= 1 => TrojanData)
    <3>1. SpyParked'
      BY <1>2, <2>4 DEF SpyParked, SpyAt
    <3>2. TrojanInTime' /\ TrojanCount'
      BY <1>2, <2>4, BodyFits
         DEF SingleInv, Base, Types, TypeOK, TrojanInTime, TrojanCount, TrojanParked
    <3>3. i[Spy] >= 1 => TrojanData'
      <4>1. CASE away[Trojan]
        BY <1>2, <2>2, <2>4, <4>1 DEF TrojanData, TrojanParked, spyVars
      <4>2. CASE ~away[Trojan]
        BY <1>2, <2>1, <2>2, <2>4, <4>2 DEF TrojanData, Fresh, TrojanParked, spyVars
      <4> QED
        BY <4>1, <4>2
    <3> QED
      BY <1>2, <1>3, <3>1, <3>2, <3>3, TrojanTurns DEF TrojansTurn
  <2> QED
    BY <1>5, <2>3, <2>4 DEF TrojansTurn
<1> QED
  BY <1>1, <1>4, <1>5 DEF SingleInv, Turns

-----------------------------------------------------------------------------
(* Steps of the spy *)

\* The first half of Turns does not matter while the spy has the core.
LEMMA SpyTurns ==
  ASSUME cur' = Spy, SpysTurn' \/ pc'[Spy] = "done"
  PROVE  Turns'
BY ChannelAssumption DEF Turns

\* The spy reads the time stamp for the first time in its round.
LEMMA EnterSpyTurns ==
  ASSUME SliceFits, SingleInv, ~Scheduling, EnterNewTimeSlice(Spy), UNCHANGED kdVars
  PROVE  Turns' /\ Recorded'
<1>1. Measuring /\ cur = Spy
  BY EnterSpyBase DEF SingleInv
<1>2. /\ cur' = Spy /\ left' = left - 1 /\ left \in Nat
      /\ pc[Spy] = "enter" /\ pc'[Trojan] = pc[Trojan] /\ pc'[Spy] = "wait"
      /\ ~away'[Spy] /\ away'[Trojan] = away[Trojan]
      /\ UNCHANGED <<chan, i, trojanVars, spyVars, todo, kdVars>>
  <2>1. ~away'[Spy] /\ away'[Trojan] = away[Trojan]
    BY Facts, ChannelAssumption DEF SingleInv, Base, Types, TypeOK, KernelTypeOK,
       EnterNewTimeSlice
  <2>2. pc'[Trojan] = pc[Trojan] /\ pc'[Spy] = "wait"
    BY Facts, ChannelAssumption DEF SingleInv, Base, Types, TypeOK, EnterNewTimeSlice, Goto
  <2>3. /\ pc[Spy] = "enter" /\ cur' = Spy /\ left' = left - 1 /\ left \in Nat
        /\ UNCHANGED <<chan, i, trojanVars, spyVars, todo, kdVars>>
    BY <1>1, Facts, ChannelAssumption, Sel4Assumption
       DEF SingleInv, Base, Types, TypeOK, KernelTypeOK, EnterNewTimeSlice, Compute, Goto
  <2> QED
    BY <2>1, <2>2, <2>3, <1>1
<1>3. Recorded'
  BY <1>2, KeepsRecord DEF SingleInv, spyVars, kdVars
<1>4. SpysTurn
  BY <1>1, <1>2 DEF SingleInv, Turns
<1> USE DEF TrojanAt, SpyAt
<1>5. CASE SpyFresh /\ i[Trojan] = 0 /\ TrojanIdle
  BY <1>2, <1>3, <1>5, SpyTurns DEF SpysTurn, SpyFresh, TrojanIdle, TrojanParked
<1>6. CASE (TrojanParked \/ pc[Trojan] = "spin") /\ SpyInTime /\ SpyCount /\ SpyData
  <2>1. SpyInTime' /\ SpyCount'
    BY <1>2, <1>6 DEF SpyInTime, SpyCount, SpyParked
  <2>2. SpyData'
    BY <1>2, <1>6 DEF SpyData, SpyParked, Scope, Scheduling, trojanVars, spyVars
  <2> QED
    BY <1>2, <1>3, <1>6, <2>1, <2>2, SpyTurns DEF SpysTurn, TrojanParked
<1> QED
  BY <1>2, <1>4, <1>5, <1>6 DEF SpysTurn

\* The spy starts to probe: the slice is new, and the units are what the
\* published secret makes of them.
LEMMA SpyBeginTurns ==
  ASSUME SliceFits, SingleInv, ~Scheduling, SpyBegin, UNCHANGED kdVars
  PROVE  Turns' /\ Recorded'
<1>1. Measuring /\ cur = Spy
  BY SpyBeginBase DEF SingleInv
<1>2. /\ cur' = Spy /\ left' = left - 1 /\ left \in Nat
      /\ pc[Spy] = "wait" /\ away[Spy] /\ pc'[Trojan] = pc[Trojan] /\ pc'[Spy] = "probe"
      /\ todo'[Spy] = chan.probe /\ hits' = {}
      /\ UNCHANGED <<chan, away, i, trojanVars, rec, seen, kdVars>>
  BY <1>1, Facts, ChannelAssumption DEF SingleInv, Base, Types, TypeOK, KernelTypeOK,
     SpyBegin, NewTimeSlice, Compute, Goto
<1>3. Recorded'
  BY <1>2, KeepsRecord DEF SingleInv, kdVars
<1> USE DEF TrojanAt, SpyAt
<1>4. /\ TrojanParked \/ pc[Trojan] = "spin"
      /\ SpyParked /\ SpyInTime /\ SpyCount /\ SpyData
  BY <1>1, <1>2 DEF SingleInv, Turns, SpysTurn, SpyFresh, SpyParked
<1>5. SpyInTime' /\ SpyCount'
  BY <1>2, <1>4, BodyFits DEF SingleInv, Base, Types, TypeOK, SpyInTime, SpyCount, SpyParked
<1>6. SpyData'
  <2>1. Scope = chan.probe /\ (Attributed => Attributed')
    BY <1>2 DEF Scope, Scheduling, Attributed, Fresh, PublishFirst, trojanVars
  <2>2. i[Spy] >= 1 => Attributed /\ dirty \cap chan.probe = chan.touch[shared] \cap chan.probe
    BY <1>4, <2>1 DEF SpyData, Loaded
  <2> QED
    BY <1>2, <2>1, <2>2 DEF SpyData, SpyParked, trojanVars
<1> QED
  BY <1>2, <1>3, <1>4, <1>5, <1>6, SpyTurns DEF SpysTurn, TrojanParked

\* The spy probes a unit, or has probed all of them.
LEMMA SpyProbeTurns ==
  ASSUME SliceFits, SingleInv, ~Scheduling, SpyProbe, UNCHANGED kdVars
  PROVE  Turns' /\ Recorded'
<1>1. Measuring /\ cur = Spy
  BY SpyProbeBase DEF SingleInv
<1>2. /\ cur' = Spy /\ left' = left - 1 /\ left \in Nat
      /\ pc[Spy] = "probe" /\ pc'[Trojan] = pc[Trojan]
      /\ UNCHANGED <<chan, away, i, secret, shared, pubs, rec, seen, kdVars>>
      /\ \/ /\ todo[Spy] = {} /\ UNCHANGED <<dirty, hits>> /\ pc'[Spy] = "record"
         \/ /\ pc'[Spy] = "probe"
            /\ \E u \in todo[Spy] :
                 /\ hits' = hits \cup ({u} \cap dirty) /\ dirty' = dirty \ {u}
                 /\ todo'[Spy] = todo[Spy] \ {u}
  BY <1>1, Facts, ChannelAssumption DEF SingleInv, Base, Types, TypeOK, KernelTypeOK,
     SpyProbe, Compute, Goto
<1>3. Recorded'
  BY <1>2, KeepsRecord DEF SingleInv, kdVars
<1> USE DEF TrojanAt, SpyAt
<1>4. (TrojanParked \/ pc[Trojan] = "spin") /\ SpyInTime /\ SpyCount /\ SpyData
  BY <1>1, <1>2 DEF SingleInv, Turns, SpysTurn, SpyFresh
<1>5. /\ IsFiniteSet(todo[Spy]) /\ left >= Cardinality(todo[Spy]) + 3
      /\ i[Trojan] <= i[Spy] + 1
      /\ todo[Spy] \subseteq chan.probe /\ dirty \cap (chan.probe \ todo[Spy]) = {}
      /\ i[Spy] >= 1 =>
           /\ Attributed
           /\ hits \cup (dirty \cap todo[Spy]) = chan.touch[shared] \cap chan.probe
  BY <1>2, <1>4 DEF SpyInTime, SpyCount, SpyData
<1>6. Scope' = chan.probe /\ Scheduling' = FALSE /\ chan' = chan /\ (Attributed => Attributed')
  BY <1>2 DEF Scope, Scheduling, Attributed, Fresh, PublishFirst
<1>7. CASE todo[Spy] = {} /\ UNCHANGED <<dirty, hits>> /\ pc'[Spy] = "record"
  <2>1. SpyInTime' /\ SpyCount'
    BY <1>2, <1>5, <1>6, <1>7, FS_EmptySet DEF SpyInTime, SpyCount, SpyParked
  <2>2. SpyData'
    BY <1>2, <1>5, <1>6, <1>7 DEF SpyData, SpyParked
  <2> QED
    BY <1>2, <1>3, <1>4, <2>1, <2>2, SpyTurns DEF SpysTurn, TrojanParked
<1>8. ASSUME pc'[Spy] = "probe",
             NEW u \in todo[Spy],
             hits' = hits \cup ({u} \cap dirty), dirty' = dirty \ {u},
             todo'[Spy] = todo[Spy] \ {u}
      PROVE  Turns'
  <2>1. /\ IsFiniteSet(todo'[Spy]) /\ Cardinality(todo[Spy]) \in Nat
        /\ Cardinality(todo'[Spy]) = Cardinality(todo[Spy]) - 1
    BY <1>5, <1>8, OneLess
  <2>2. SpyInTime' /\ SpyCount'
    BY <1>2, <1>5, <1>8, <2>1 DEF SpyInTime, SpyCount, SpyParked
  <2>3. hits' \cup (dirty' \cap todo'[Spy]) = hits \cup (dirty \cap todo[Spy])
    BY <1>8
  <2>4. todo'[Spy] \subseteq chan.probe /\ dirty' \cap (chan.probe \ todo'[Spy]) = {}
    BY <1>5, <1>8
  <2>5. SpyData'
    BY <1>2, <1>5, <1>6, <1>8, <2>3, <2>4 DEF SpyData, SpyParked
  <2> QED
    BY <1>2, <1>4, <2>2, <2>5, SpyTurns DEF SpysTurn, TrojanParked
<1> QED
  BY <1>2, <1>3, <1>7, <1>8

\* The spy records what it found, with the published secret.
LEMMA SpyRecordTurns ==
  ASSUME SliceFits, SingleInv, ~Scheduling, SpyRecord, UNCHANGED kdVars
  PROVE  Turns' /\ Recorded'
<1>1. Measuring /\ cur = Spy
  BY SpyRecordBase DEF SingleInv
<1>2. /\ cur' = Spy /\ left' = left - 1 /\ left \in Nat
      /\ pc[Spy] = "record" /\ pc'[Trojan] = pc[Trojan] /\ pc'[Spy] \in {"enter", "done"}
      /\ i'[Spy] = i[Spy] + 1 /\ i'[Trojan] = i[Trojan] /\ i[Spy] \in Nat /\ i[Trojan] \in Nat
      /\ rec' = [rec EXCEPT ![i[Spy]] = [sec |-> shared, result |-> hits]]
      /\ seen' = pubs
      /\ UNCHANGED <<chan, away, trojanVars>>
  BY <1>1, Facts, ChannelAssumption DEF SingleInv, Base, Types, TypeOK, KernelTypeOK,
     SpyRecord, NextRound, Compute, Goto
<1> USE DEF TrojanAt, SpyAt
<1>3. (TrojanParked \/ pc[Trojan] = "spin") /\ SpyInTime /\ SpyCount /\ SpyData
  BY <1>1, <1>2 DEF SingleInv, Turns, SpysTurn, SpyFresh
<1>4. /\ dirty \cap Scope = {}
      /\ i[Spy] >= 1 => shared \in chan.secrets /\ hits = chan.touch[shared] \cap Scope
  BY <1>2, <1>3 DEF SpyData, Attributed
<1>5. Recorded'
  <2>1. Scope' = Scope /\ ~Scheduling'
    BY <1>2 DEF Scope, Scheduling
  <2>2. \A k \in Slot : k # i[Spy] => rec'[k] = rec[k]
    BY <1>2 DEF SingleInv, Base, Types, TypeOK
  <2>3. i[Spy] \in Slot =>
          rec'[i[Spy]].sec = shared /\ rec'[i[Spy]].result = hits
    BY <1>2 DEF SingleInv, Base, Types, TypeOK
  <2>4. ASSUME NEW k \in Slot, 1 <= k, k < i'[Spy]
        PROVE  rec'[k].sec \in chan.secrets /\ rec'[k].result = chan.touch[rec'[k].sec] \cap Scope
    <3>1. CASE k = i[Spy]
      BY <1>2, <1>4, <2>3, <2>4, <3>1
    <3>2. CASE k # i[Spy]
      <4>1. k < i[Spy]
        BY <1>2, <2>4, <3>2 DEF Slot
      <4> QED
        BY <2>2, <2>4, <3>2, <4>1 DEF SingleInv, Recorded
    <3> QED
      BY <3>1, <3>2
  <2> QED
    BY <1>2, <2>1, <2>4 DEF Recorded
<1>6. CASE pc'[Spy] = "enter"
  <2>1. SpyInTime' /\ SpyCount'
    BY <1>2, <1>3, <1>6 DEF SpyInTime, SpyCount, SpyParked, Scheduling
  <2>2. SpyData'
    BY <1>2, <1>4, <1>6 DEF SpyData, SpyParked, Scope, Scheduling, trojanVars
  <2> QED
    BY <1>2, <1>3, <1>5, <2>1, <2>2, SpyTurns DEF SpysTurn, TrojanParked
<1> QED
  BY <1>2, <1>5, <1>6, SpyTurns

\* The spy of the scheduling channel reads the secret once, before its rounds ...
LEMMA SpyReadSecretTurns ==
  ASSUME SliceFits, SingleInv, Scheduling, SpyReadSecret
  PROVE  Turns' /\ Recorded'
<1>1. Measuring /\ cur = Spy
  BY SpyReadSecretBase DEF SingleInv
<1>2. /\ cur' = Spy /\ left' = left - 1 /\ left \in Nat
      /\ pc[Spy] = "enter" /\ pc'[Trojan] = pc[Trojan] /\ pc'[Spy] = "start"
      /\ UNCHANGED <<chan, away, i, spyVars, prevSec>>
  BY <1>1, Facts, ChannelAssumption DEF SingleInv, Base, Types, TypeOK, KernelTypeOK,
     SpyReadSecret, Compute, Goto
<1> USE DEF TrojanAt, SpyAt
<1>3. /\ SpyFresh /\ i[Trojan] = 0 /\ TrojanIdle
      /\ TrojanParked => left >= IF Scheduling /\ pc[Spy] = "enter" THEN 2 ELSE 1
  BY <1>1, <1>2 DEF SingleInv, Turns, SpysTurn, SpyInTime
<1>4. Recorded'
  BY <1>2, <1>3, KeepsRecord DEF SingleInv, SpyFresh, spyVars
<1> QED
  BY <1>2, <1>3, <1>4, SpyTurns DEF SpysTurn, SpyFresh, TrojanIdle, TrojanParked

\* ... and the clock.
LEMMA SpyStartTurns ==
  ASSUME SliceFits, SingleInv, Scheduling, SpyStart
  PROVE  Turns' /\ Recorded'
<1>1. Measuring /\ cur = Spy
  BY SpyStartBase DEF SingleInv, SpyStart
<1>2. /\ cur' = Spy
      /\ pc[Spy] = "start" /\ pc'[Trojan] = pc[Trojan] /\ pc'[Spy] = "poll"
      /\ ~away'[Spy] /\ away'[Trojan] = away[Trojan]
      /\ UNCHANGED <<chan, i, spyVars, kdVars>>
  <2>1. ~away'[Spy] /\ away'[Trojan] = away[Trojan]
    BY Facts, ChannelAssumption DEF SingleInv, Base, Types, TypeOK, KernelTypeOK, SpyStart
  <2>2. /\ pc[Spy] = "start" /\ pc'[Trojan] = pc[Trojan] /\ pc'[Spy] = "poll" /\ cur' = Spy
        /\ UNCHANGED <<chan, i, spyVars, kdVars>>
    BY <1>1, Facts, ChannelAssumption DEF SingleInv, Base, Types, TypeOK, SpyStart, Compute,
       Goto
  <2> QED
    BY <2>1, <2>2
<1> USE DEF TrojanAt, SpyAt
<1>3. SpyFresh /\ i[Trojan] = 0 /\ TrojanIdle
  BY <1>1, <1>2 DEF SingleInv, Turns, SpysTurn, SpyInTime
<1>4. Recorded'
  BY <1>2, KeepsRecord DEF SingleInv, spyVars, kdVars
<1> QED
  BY <1>2, <1>3, <1>4, SpyTurns DEF SpysTurn, SpyFresh, TrojanIdle, TrojanParked

\* The spy sees a gap.
LEMMA SpyGapTurns ==
  ASSUME SliceFits, SingleInv, Scheduling, SpyGap
  PROVE  Turns' /\ Recorded'
<1>1. Measuring /\ cur = Spy
  BY SpyGapBase DEF SingleInv
<1>2. /\ cur' = Spy /\ left' = left - 1 /\ left \in Nat
      /\ pc[Spy] = "poll" /\ away[Spy] /\ pc'[Trojan] = pc[Trojan] /\ pc'[Spy] = "record"
      /\ ~away'[Spy] /\ away'[Trojan] = away[Trojan]
      /\ hits' = dirty /\ dirty' = {}
      /\ UNCHANGED <<chan, i, secret, shared, pubs, rec, seen, kdVars>>
  <2>1. ~away'[Spy] /\ away'[Trojan] = away[Trojan]
    BY Facts, ChannelAssumption DEF SingleInv, Base, Types, TypeOK, KernelTypeOK, SpyGap
  <2>2. /\ pc[Spy] = "poll" /\ pc'[Trojan] = pc[Trojan] /\ pc'[Spy] = "record"
        /\ hits' = dirty /\ dirty' = {}
        /\ UNCHANGED <<chan, i, secret, shared, pubs, rec, seen, kdVars>>
    BY Facts, ChannelAssumption DEF SingleInv, Base, Types, TypeOK, SpyGap, Goto
  <2>3. cur' = Spy /\ left' = left - 1 /\ left \in Nat /\ away[Spy]
    BY <1>1, Facts, ChannelAssumption, Sel4Assumption
       DEF SingleInv, Base, Types, TypeOK, KernelTypeOK, SpyGap, Compute
  <2> QED
    BY <2>1, <2>2, <2>3
<1>3. Recorded'
  BY <1>2, KeepsRecord DEF SingleInv, kdVars
<1> USE DEF TrojanAt, SpyAt
<1>4. /\ TrojanParked \/ pc[Trojan] = "spin"
      /\ SpyParked /\ SpyInTime /\ SpyCount /\ SpyData
  BY <1>1, <1>2 DEF SingleInv, Turns, SpysTurn, SpyFresh, SpyParked
<1>5. SpyInTime' /\ SpyCount'
  BY <1>2, <1>4, BodyFits DEF SingleInv, Base, Types, TypeOK, SpyInTime, SpyCount, SpyParked
<1>6. SpyData'
  <2>1. Scope = Unit /\ Scope' = Unit /\ (Attributed => Attributed')
    BY <1>2 DEF Scope, Scheduling, Attributed, Fresh, PublishFirst
  <2>2. i[Spy] >= 1 => Attributed /\ dirty \cap Unit = chan.touch[shared] \cap Unit
    BY <1>4, <2>1 DEF SpyData, Loaded
  <2>3. dirty \cap Unit = dirty
    BY DEF SingleInv, Base, Types, TypeOK
  <2> QED
    BY <1>2, <2>1, <2>2, <2>3 DEF SpyData, SpyParked
<1> QED
  BY <1>2, <1>3, <1>4, <1>5, <1>6, SpyTurns DEF SpysTurn, TrojanParked

\* It records the gap, and the secret of the gap before.
LEMMA SpyRecordGapTurns ==
  ASSUME SliceFits, SingleInv, Scheduling, SpyRecordGap
  PROVE  Turns' /\ Recorded'
<1>1. Measuring /\ cur = Spy
  BY SpyRecordGapBase DEF SingleInv
<1>2. /\ cur' = Spy /\ left' = left - 1 /\ left \in Nat
      /\ pc[Spy] = "record" /\ pc'[Trojan] = pc[Trojan] /\ pc'[Spy] \in {"poll", "done"}
      /\ i'[Spy] = i[Spy] + 1 /\ i'[Trojan] = i[Trojan] /\ i[Spy] \in Nat /\ i[Trojan] \in Nat
      /\ rec' = [rec EXCEPT ![i[Spy]] = [sec |-> shared, result |-> hits]]
      /\ prevSec' = [prevSec EXCEPT ![i[Spy]] = prev_s] /\ prev_s' = shared
      /\ seen' = pubs
      /\ UNCHANGED <<chan, away, trojanVars>>
  BY <1>1, Facts, ChannelAssumption DEF SingleInv, Base, Types, TypeOK, KernelTypeOK,
     SpyRecordGap, NextRound, Compute, Goto
<1> USE DEF TrojanAt, SpyAt
<1>3. (TrojanParked \/ pc[Trojan] = "spin") /\ SpyInTime /\ SpyCount /\ SpyData
  BY <1>1, <1>2 DEF SingleInv, Turns, SpysTurn, SpyFresh
<1>4. /\ dirty \cap Scope = {}
      /\ i[Spy] >= 1 => shared \in chan.secrets /\ hits = chan.touch[shared] \cap Scope
  BY <1>2, <1>3 DEF SpyData, Attributed
<1>5. Recorded'
  <2>1. Scope' = Scope /\ i[Spy] \in Slot
    BY <1>1, <1>2, ChannelAssumption DEF Scope, Scheduling, SingleInv, Base, Rounds, Slot
  <2>2. \A k \in Slot : k # i[Spy] => rec'[k] = rec[k] /\ prevSec'[k] = prevSec[k]
    BY <1>2 DEF SingleInv, Base, Types, TypeOK
  <2>3. /\ rec'[i[Spy]].sec = shared /\ rec'[i[Spy]].result = hits
        /\ prevSec'[i[Spy]] = prev_s
    BY <1>2, <2>1 DEF SingleInv, Base, Types, TypeOK
  <2>4. i[Spy] >= 1 => prev_s = rec[i[Spy] - 1].sec /\ rec'[i[Spy] - 1] = rec[i[Spy] - 1]
    BY <1>2, <2>1, <2>2 DEF SingleInv, Recorded, Slot
  <2>5. ASSUME NEW k \in Slot, 1 <= k, k < i'[Spy]
        PROVE  /\ rec'[k].sec \in chan.secrets
               /\ rec'[k].result = chan.touch[rec'[k].sec] \cap Scope
               /\ k >= 2 => prevSec'[k] = rec'[k - 1].sec
    <3>1. CASE k = i[Spy]
      BY <1>2, <1>4, <2>3, <2>4, <2>5, <3>1
    <3>2. CASE k # i[Spy]
      <4>1. k < i[Spy] /\ (k >= 2 => rec'[k - 1] = rec[k - 1])
        BY <1>2, <2>2, <2>5, <3>2 DEF Slot
      <4> QED
        BY <2>2, <2>5, <3>2, <4>1 DEF SingleInv, Recorded
    <3> QED
      BY <3>1, <3>2
  <2>6. prev_s' = rec'[i'[Spy] - 1].sec
    BY <1>2, <2>3
  <2> QED
    BY <1>2, <2>1, <2>5, <2>6 DEF Recorded
<1>6. CASE pc'[Spy] = "poll"
  <2>1. SpyInTime' /\ SpyCount'
    BY <1>2, <1>3, <1>6 DEF SpyInTime, SpyCount, SpyParked
  <2>2. SpyData'
    BY <1>2, <1>3, <1>4, <1>6 DEF SpyData, SpyInTime, SpyParked, Scope, Scheduling, trojanVars
  <2> QED
    BY <1>2, <1>3, <1>5, <2>1, <2>2, SpyTurns DEF SpysTurn, TrojanParked
<1> QED
  BY <1>2, <1>5, <1>6, SpyTurns

-----------------------------------------------------------------------------
(* The other steps *)

\* A tick gives the core to the other worker.
LEMMA TickSwitches ==
  ASSUME Base, Measuring, NEW spinning, Tick(spinning)
  PROVE  /\ left' = Slice /\ (left = 0 \/ cur \in spinning)
         /\ \/ /\ cur = Trojan /\ cur' = Spy
               /\ away'[Trojan] /\ away'[Spy] = away[Spy]
            \/ /\ cur = Spy /\ cur' = Trojan
               /\ away'[Spy] /\ away'[Trojan] = away[Trojan]
<1> USE Facts, ChannelAssumption
<1>1. cur \in {Trojan, Spy}
  BY DEF Tick, Worker
<1>2. Runnable = {Trojan, Spy}
  BY DEF Runnable, Measuring, RootWaits, IsBlocked
<1>3. /\ left' = Slice /\ (left = 0 \/ cur \in spinning)
      /\ \E next \in IF Runnable \ {cur, Root} = {} THEN {cur} ELSE Runnable \ {cur, Root} :
           SwitchTo(next)
  BY DEF Tick
<1>4. CASE cur = Trojan
  <2>1. SwitchTo(Spy)
    BY <1>2, <1>3, <1>4
  <2> QED
    BY <1>3, <1>4, <2>1 DEF SwitchTo, Base, Types, TypeOK, KernelTypeOK
<1>5. CASE cur = Spy
  <2>1. SwitchTo(Trojan)
    BY <1>2, <1>3, <1>5
  <2> QED
    BY <1>3, <1>5, <2>1 DEF SwitchTo, Base, Types, TypeOK, KernelTypeOK
<1> QED
  BY <1>1, <1>4, <1>5

\* The end of a slice of the trojan.
LEMMA TrojanTickTurns ==
  ASSUME SliceFits, SingleInv, TickStep, Measuring, pc[Spy] # "done", cur = Trojan
  PROVE  Turns'
<1> USE DEF TrojanAt, SpyAt
<1>1. /\ cur' = Spy /\ left' = Slice /\ away'[Trojan] /\ away'[Spy] = away[Spy]
      /\ UNCHANGED <<chan, pc, i, trojanVars, spyVars, todo, kdVars>>
      /\ left = 0 \/ Trojan \in Polling
  BY TickSwitches, ChannelAssumption DEF SingleInv, TickStep, threadVars
<1>2. Slice \in Nat /\ Slice >= 4
  BY BodyFits DEF SingleInv, Base, Types, TypeOK
<1>3. TrojansTurn
  BY DEF SingleInv, Turns
<1>4. CASE SpyFresh /\ i[Trojan] = 0 /\ TrojanAt({"pick", "enter", "wait", "train"})
  BY <1>1, <1>2, <1>4, SpyTurns DEF SpysTurn, SpyFresh, TrojanIdle, TrojanParked
<1>5. CASE SpyParked /\ TrojanInTime /\ TrojanCount /\ (i[Spy] >= 1 => TrojanData)
  <2>1. /\ pc[Trojan] \in {"wait", "train", "spin"} /\ ~TrojanParked
        /\ pc[Trojan] = "train" => dirty = chan.touch[secret]
    <3>1. CASE left = 0
      <4>1. pc[Trojan] = "touch" => Cardinality(todo[Trojan]) \in Nat
        BY <1>5, FS_CardinalityType DEF TrojanInTime
      <4> QED
        BY <1>2, <1>5, <3>1, <4>1 DEF TrojanInTime, Measuring, TrojanLoop
    <3>2. CASE Trojan \in Polling
      BY <3>2, ChannelAssumption DEF Polling, Spinning, Measuring, TrojanLoop, TrojanParked
    <3> QED
      BY <1>1, <3>1, <3>2
  <2>2. TrojanParked' \/ pc'[Trojan] = "spin"
    BY <1>1, <2>1 DEF TrojanParked
  <2>3. SpyInTime' /\ SpyCount'
    BY <1>1, <1>5, <2>1 DEF SpyInTime, SpyCount, SpyParked, TrojanCount
  <2>4. i[Spy] >= 1 => Loaded
    <3>1. CASE ~PublishFirst
      BY <1>5, <2>1, <3>1, <1>3 DEF TrojanData, Measuring, TrojanLoop
    <3>2. CASE PublishFirst
      <4>1. pc[Trojan] \in {"train", "spin"} /\ shared = secret /\ secret \in chan.secrets
        BY <2>1, <3>2 DEF SingleInv, Base, Rounds, Measuring, TrojanLoop
      <4> QED
        BY <1>5, <2>1, <3>2, <4>1 DEF TrojanData, Loaded, Attributed
    <3> QED
      BY <3>1, <3>2
  <2>5. SpyData'
    BY <1>1, <1>5, <2>4
       DEF SpyData, SpyParked, Loaded, Attributed, Fresh, PublishFirst, Scope, Scheduling,
           trojanVars, spyVars
  <2> QED
    BY <1>1, <2>2, <2>3, <2>5, SpyTurns DEF SpysTurn
<1> QED
  BY <1>3, <1>4, <1>5 DEF TrojansTurn

\* The end of a slice of the spy.
LEMMA SpyTickTurns ==
  ASSUME SliceFits, SingleInv, TickStep, Measuring, pc[Spy] # "done", cur = Spy
  PROVE  Turns'
<1> USE DEF TrojanAt, SpyAt
<1>1. /\ cur' = Trojan /\ left' = Slice /\ away'[Spy] /\ away'[Trojan] = away[Trojan]
      /\ UNCHANGED <<chan, pc, i, trojanVars, spyVars, todo, kdVars>>
      /\ left = 0 \/ Spy \in Polling
  BY TickSwitches, ChannelAssumption DEF SingleInv, TickStep, threadVars
<1>2. Slice \in Nat /\ Slice >= 4 /\ left \in Nat
  BY BodyFits DEF SingleInv, Base, Types, TypeOK, KernelTypeOK
<1>3. SpysTurn
  BY DEF SingleInv, Turns
<1>4. Spy \in Polling => ~away[Spy] /\ pc[Spy] \in {"wait", "poll"}
  BY ChannelAssumption DEF Polling, Spinning, Measuring, SpyLoop
<1>5. CASE SpyFresh /\ i[Trojan] = 0 /\ TrojanIdle /\ (TrojanParked => left >= 1)
  <2>1. left = 0 /\ pc[Trojan] \in {"pick", "enter"}
    BY <1>1, <1>4, <1>5 DEF SpyFresh, TrojanIdle
  <2> QED
    BY <1>1, <1>5, <2>1, TrojanTurns DEF TrojansTurn, SpyFresh, TrojanParked
<1>6. CASE /\ SpyAt({"wait", "poll"}) /\ i[Spy] = 0 /\ i[Trojan] = 0
           /\ TrojanIdle
  <2>1. SpyParked' /\ TrojanInTime' /\ TrojanCount'
    BY <1>1, <1>2, <1>6
       DEF SpyParked, TrojanInTime, TrojanCount, TrojanIdle, TrojanParked, PublishFirst
  <2> QED
    BY <1>1, <1>6, <2>1, TrojanTurns DEF TrojansTurn
<1>7. CASE (TrojanParked \/ pc[Trojan] = "spin") /\ SpyInTime /\ SpyCount /\ SpyData
  <2>1. SpyAt({"wait", "poll"}) /\ ~SpyParked
    <3>1. CASE left = 0
      <4>1. pc[Spy] = "probe" => Cardinality(todo[Spy]) \in Nat
        BY <1>7, FS_CardinalityType DEF SpyInTime
      <4> QED
        BY <1>2, <1>7, <3>1, <4>1 DEF SpyInTime, Measuring, SpyLoop
    <3>2. CASE Spy \in Polling
      BY <1>4, <3>2 DEF SpyParked
    <3> QED
      BY <1>1, <3>1, <3>2
  <2>2. i[Trojan] <= i[Spy] /\ i[Spy] >= 1
    BY <1>7, <2>1 DEF SpyCount
  <2>3. TrojanParked
    <3>1. i[Spy] < DataPoints /\ i[Spy] \in Nat /\ i[Trojan] \in Nat
      BY <2>1, Facts, ChannelAssumption DEF SingleInv, Base, Rounds, Types, TypeOK
    <3>2. i[Trojan] < DataPoints
      BY <2>2, <3>1, ChannelAssumption
    <3> QED
      BY <1>7, <3>2 DEF SingleInv, Base, Rounds
  <2>4. SpyParked' /\ TrojanParked'
    BY <1>1, <2>1, <2>3 DEF SpyParked, TrojanParked
  <2>5. TrojanInTime' /\ TrojanCount'
    BY <1>1, <1>2, <2>2, <2>3, <2>4 DEF TrojanInTime, TrojanCount, TrojanParked
  <2>6. TrojanData'
    BY <1>1, <1>7, <2>1, <2>3, <2>4
       DEF SpyData, TrojanData, TrojanParked, PublishFirst, Scope, Scheduling, trojanVars,
           spyVars
  <2> QED
    BY <1>1, <2>4, <2>5, <2>6, TrojanTurns DEF TrojansTurn
<1> QED
  BY <1>2, <1>3, <1>5, <1>6, <1>7 DEF SpysTurn

LEMMA TickTurns ==
  ASSUME SliceFits, SingleInv, TickStep
  PROVE  Turns' /\ Recorded'
<1>1. Recorded'
  BY KeepsRecord DEF SingleInv, TickStep, threadVars, spyVars, kdVars
<1>2. ipc' = ipc /\ pc' = pc /\ chan' = chan
  BY DEF TickStep, Tick, threadVars
<1>3. Measuring' => Measuring
  BY <1>2 DEF Measuring, RootWaits, IsBlocked, TrojanAt, SpyAt, TrojanLoop, SpyLoop,
     PublishFirst, Scheduling
<1>4. cur \in {Trojan, Spy}
  BY ChannelAssumption DEF TickStep, Tick, Worker
<1> QED
  BY <1>1, <1>2, <1>3, <1>4, TrojanTickTurns, SpyTickTurns DEF Turns

\* After the handshakes both workers are before their first round.
LEMMA HandshakeTurns ==
  ASSUME Base, HandshakeStep, UNCHANGED kdVars
  PROVE  Turns' /\ Recorded'
<1> USE Facts, ChannelAssumption DEF TrojanAt, SpyAt
<1>1. Handshaking
  BY HandshakeBase
<1>2. /\ i[Trojan] = 0 /\ i[Spy] = 0
      /\ pc[Trojan] \in {"ready", "sync", "time", FirstStatement}
      /\ pc[Spy] \in {"sync", "enter", "time", "search"}
  BY <1>1 DEF Handshaking, PlainHandshake, KernelHandshake, Synchronising, SpyUnsynced,
     SpyUntimed, TrojanUntimed, TrojanSends, IsReady, IsBlocked
<1>3. i' = i /\ chan' = chan
  BY DEF HandshakeStep, TrojanReady, TrojanSync, SpySync, RootAwaitTrojan, RootAwaitSpy,
     SpyAnnounce, SpyTime, TrojanTime, RootAwaitSearch, RootTimeTrojan, RootTimeSpy, Goto
<1>4. /\ pc'[Trojan] \in {"ready", "sync", "time", FirstStatement}
      /\ pc'[Spy] \in {"sync", "enter", "time", "search"}
  BY <1>2 DEF Base, Types, TypeOK, HandshakeStep, TrojanReady, TrojanSync, SpySync,
     RootAwaitTrojan, RootAwaitSpy, SpyAnnounce, SpyTime, TrojanTime, RootAwaitSearch,
     RootTimeTrojan, RootTimeSpy, Goto
<1>5. Recorded'
  BY <1>2, <1>3 DEF Recorded, Slot
<1>6. Turns'
  <2> SUFFICES ASSUME Measuring' PROVE TrojansTurn' /\ SpysTurn'
    BY DEF Turns
  <2>1. pc'[Trojan] \in {"pick", "enter"} /\ pc'[Spy] = "enter"
    BY <1>3, <1>4 DEF Measuring, TrojanLoop, SpyLoop, FirstStatement
  <2> QED
    BY <1>2, <1>3, <2>1 DEF TrojansTurn, SpysTurn, SpyFresh, TrojanIdle, TrojanParked
<1> QED
  BY <1>5, <1>6

\* The steps of the warmups, of the result and of the root task are outside
\* the rounds.
LEMMA OtherTurns ==
  ASSUME Base, Recorded,
         WarmupStep \/ (SpyDone /\ UNCHANGED kdVars) \/ (RootPrint /\ UNCHANGED kdVars)
  PROVE  Turns' /\ Recorded'
<1> USE Facts, ChannelAssumption DEF TrojanAt, SpyAt
<1>1. CASE WarmupStep
  <2>1. pc[Trojan] = "sync" \/ pc[Spy] = "search"
    BY <1>1 DEF WarmupStep, TrojanWarmup, SpySearch
  <2>2. UNCHANGED <<chan, pc, i, rec, kdVars>>
    BY <1>1 DEF WarmupStep, TrojanWarmup, SpySearch, threadVars, spyVars
  <2>3. ~Measuring'
    BY <2>1, <2>2 DEF Measuring, TrojanLoop, SpyLoop
  <2> QED
    BY <2>2, <2>3, KeepsRecord DEF Turns, kdVars
<1>2. CASE SpyDone /\ UNCHANGED kdVars
  <2>1. Finished'
    BY <1>2, SpyDoneBase
  <2>2. ~Measuring'
    BY <2>1 DEF Measuring, Finished, SpyLoop
  <2> QED
    BY <1>2, <2>2, KeepsRecord DEF Turns, SpyDone, Goto, spyVars, kdVars
<1>3. CASE RootPrint /\ UNCHANGED kdVars
  <2>1. Finished /\ i'[Spy] = i[Spy] /\ pc'[Spy] = pc[Spy] /\ UNCHANGED <<chan, rec, kdVars>>
    BY <1>3, RootPrintBase DEF Base, Types, TypeOK, RootPrint, Goto, spyVars
  <2>2. ~Measuring'
    BY <2>1 DEF Measuring, Finished, SpyLoop
  <2> QED
    BY <2>1, <2>2, KeepsRecord DEF Turns, kdVars
<1> QED
  BY <1>1, <1>2, <1>3

-----------------------------------------------------------------------------
(* The invariant *)

\* At the start nobody measures.
LEMMA InitSingleInv == SingleInit => SingleInv
<1> SUFFICES ASSUME SingleInit PROVE SingleInv
  OBVIOUS
<1>1. pc[Trojan] \in {"ready", "time"} /\ i[Spy] = 0
  BY Facts, ChannelAssumption DEF SingleInit, Init, AkInit, StartAt
<1>2. Turns
  BY <1>1 DEF Turns, Measuring, TrojanAt, TrojanLoop
<1>3. Recorded
  BY <1>1 DEF Recorded, Slot
<1> QED
  BY <1>2, <1>3, InitBase DEF SingleInv

\* Every step of the loops keeps the turns.
LEMMA LoopTurns ==
  ASSUME SliceFits, SingleInv, (TrojanStep /\ UNCHANGED kdVars) \/ SpyStep
  PROVE  Turns' /\ Recorded'
<1>1. CASE TrojanStep /\ UNCHANGED kdVars
  BY <1>1, EnterTrojanTurns, TrojanBeginTurns, TrojanTouchTurns, TrojanPublishTurns,
     TrojanPickTurns, TrojanTrainTurns DEF TrojanStep
<1>2. CASE SpyStep
  BY <1>2, EnterSpyTurns, SpyBeginTurns, SpyProbeTurns, SpyRecordTurns, SpyReadSecretTurns,
     SpyStartTurns, SpyGapTurns, SpyRecordGapTurns DEF SpyStep
<1> QED
  BY <1>1, <1>2

LEMMA NextSingleInv == SliceFits /\ SingleInv /\ [SingleNext]_allVars => SingleInv'
<1> SUFFICES ASSUME SliceFits, SingleInv, [SingleNext]_allVars PROVE SingleInv'
  OBVIOUS
<1>1. Base'
  BY NextBase DEF SingleInv
<1>2. CASE SingleNext /\ ~(UNCHANGED allVars)
  BY <1>1, <1>2, StepCases, LoopTurns, HandshakeTurns, OtherTurns, TickTurns DEF SingleInv
<1>3. CASE UNCHANGED allVars
  <2>1. UNCHANGED <<cur, left, away, ipc, chan, pc, i, todo, trojanVars, spyVars, kdVars>>
    BY <1>3 DEF allVars, vars, kernelVars, threadVars
  <2>2. Recorded'
    BY <2>1, KeepsRecord DEF SingleInv, spyVars, kdVars
  <2>3. Turns'
    BY <2>1 DEF SingleInv, Turns, Measuring, RootWaits, IsBlocked, TrojansTurn, SpysTurn,
       TrojanAt, SpyAt, TrojanLoop, SpyLoop, PublishFirst, Scheduling, SpyFresh, SpyParked,
       TrojanParked, TrojanIdle, TrojanInTime, TrojanCount, TrojanData, SpyInTime, SpyCount,
       SpyData, Loaded, Attributed, Fresh, Scope, trojanVars, spyVars
  <2> QED
    BY <1>1, <2>2, <2>3 DEF SingleInv
<1> QED
  BY <1>2, <1>3

\* If slices are long enough, who has the core has the time for its loop body,
\* and finds the units and the shared word as the other one left them.
THEOREM SingleInvariance == SliceFits => (SingleSpec => []SingleInv)
<1> SUFFICES ASSUME SliceFits PROVE SingleSpec => []SingleInv
  OBVIOUS
<1>1. SingleInv /\ [SingleNext]_allVars => SingleInv'
  BY NextSingleInv
<1> QED
  BY <1>1, InitSingleInv, PTL DEF SingleSpec

-----------------------------------------------------------------------------
(* What the benchmarks promise *)

\* Types, for every channel, whatever the length of a slice.
THEOREM SingleTypeCorrect == SingleSpec => []TypeOK
<1>1. Base => TypeOK
  BY DEF Base, Types
<1> QED
  BY <1>1, BaseInvariance, PTL

\* When the root task starts to print, the spy has filled every slot and writes
\* no more: the handshake of each protocol sees to it, whatever the time.
THEOREM SingleReportComplete == SingleSpec => []ReportComplete
<1>1. Base => ReportComplete
  <2> SUFFICES ASSUME Base, Reporting PROVE pc[Spy] = "spin" /\ i[Spy] = DataPoints
    BY DEF ReportComplete
  <2>1. Finished
    BY Facts, ChannelAssumption DEF Base, Stage, Reporting, Handshaking, PlainHandshake,
       KernelHandshake, Synchronising, Measuring, RootWaits, IsReady, IsBlocked
  <2>2. pc[Spy] = "spin"
    BY <2>1 DEF Finished
  <2>3. i[Spy] \in 0..DataPoints /\ ~(i[Spy] < DataPoints)
    BY <2>2, Facts DEF Base, Types, TypeOK, Rounds
  <2> QED
    BY <2>2, <2>3, ChannelAssumption
<1> QED
  BY <1>1, BaseInvariance, PTL

\* The shared record does not change any more once the root task reads it, in
\* any of the three protocols, although nothing locks it.
THEOREM SingleRecordStable == SingleSpec => RecordStable
<1>1. ASSUME Base, [SingleNext]_allVars, Reporting
      PROVE  UNCHANGED rec
  <2>1. Finished
    BY <1>1, Facts, ChannelAssumption DEF Base, Stage, Reporting, Handshaking, PlainHandshake,
       KernelHandshake, Synchronising, Measuring, RootWaits, IsReady, IsBlocked
  <2>2. pc[Spy] = "spin" /\ ~Measuring
    BY <1>1, <2>1, Facts DEF Finished, Measuring, RootWaits, IsBlocked, Reporting
  <2>3. CASE SingleNext
    <3>1. ~(TrojanStep /\ UNCHANGED kdVars) /\ ~SpyStep
      BY <1>1, <2>2, LoopBase
    <3>2. CASE HandshakeStep
      BY <3>2 DEF HandshakeStep, TrojanReady, TrojanSync, SpySync, RootAwaitTrojan,
         RootAwaitSpy, SpyAnnounce, SpyTime, TrojanTime, RootAwaitSearch, RootTimeTrojan,
         RootTimeSpy, spyVars
    <3>3. CASE WarmupStep \/ TickStep \/ SpyDone \/ RootPrint \/ UNCHANGED allVars
      BY <3>3 DEF WarmupStep, TrojanWarmup, SpySearch, TickStep, SpyDone, RootPrint,
         allVars, vars, threadVars, spyVars
    <3> QED
      BY <2>3, <3>1, <3>2, <3>3, StepCases
  <2> QED
    BY <1>1, <2>3 DEF allVars, vars, spyVars
<1> QED
  BY <1>1, BaseInvariance, PTL DEF SingleSpec, RecordStable

\* Every printed line pairs a measurement with the secret that caused it.
THEOREM EveryLineIsRight == SliceFits => (SingleSpec => []EveryLineAgrees)
<1> SUFFICES ASSUME SliceFits PROVE SingleSpec => []EveryLineAgrees
  OBVIOUS
<1>1. SingleInv => EveryLineAgrees
  <2> SUFFICES ASSUME SingleInv, NEW line \in printed
               PROVE  /\ line[2].sec \in chan.secrets
                      /\ line[2].result = chan.touch[line[2].sec] \cap Scope
                      /\ Scheduling => /\ line[2].result = chan.touch[line[2].sec]
                                       /\ chan.touch[prevSec[line[1]]] = rec[line[1] - 1].result
    BY DEF EveryLineAgrees, LabelsAgree, GapsAgree, Scope, Scheduling
  <2> DEFINE k == line[1]
  <2>1. /\ k \in Warmups..(DataPoints - 1) /\ line[2] = rec[k]
        /\ Finished
    BY DEF SingleInv, Base, Lines
  <2>2. chan \in Family /\ Warmups \in Nat /\ DataPoints \in Nat
    BY ChannelAssumption DEF SingleInv, Base, Types, TypeOK
  <2>3. Warmups >= IF Scheduling THEN 2 ELSE 1
    BY <2>2 DEF SliceFits, Scheduling
  <2>4. i[Spy] \in Nat /\ i[Spy] >= DataPoints
    BY <2>1, <2>2, Facts DEF SingleInv, Base, Types, TypeOK, Rounds, Finished
  <2>5. k \in Slot /\ 1 <= k /\ k < i[Spy]
    BY <2>1, <2>2, <2>3, <2>4 DEF Slot
  <2>6. /\ rec[k].sec \in chan.secrets
        /\ rec[k].result = chan.touch[rec[k].sec] \cap Scope
        /\ Scheduling /\ k >= 2 => prevSec[k] = rec[k - 1].sec
    BY <2>5 DEF SingleInv, Recorded
  <2>7. ASSUME Scheduling
        PROVE  /\ rec[k].result = chan.touch[rec[k].sec]
               /\ chan.touch[prevSec[k]] = rec[k - 1].result
    <3>1. k >= 2 /\ k - 1 \in Slot /\ 1 <= k - 1 /\ k - 1 < i[Spy]
      BY <2>1, <2>2, <2>3, <2>4, <2>7 DEF Slot
    <3>2. /\ rec[k - 1].sec \in chan.secrets
          /\ rec[k - 1].result = chan.touch[rec[k - 1].sec] \cap Unit
      BY <2>7, <3>1 DEF SingleInv, Recorded, Scope
    <3>3. \A s \in chan.secrets : chan.touch[s] \cap Unit = chan.touch[s]
      BY <2>2, ChannelFacts
    <3> QED
      BY <2>6, <2>7, <3>1, <3>2, <3>3 DEF Scope
  <2> QED
    BY <2>1, <2>6, <2>7
<1> QED
  <2>1. SingleSpec => []SingleInv
    BY SingleInvariance
  <2> QED
    BY <1>1, <2>1, PTL

\* The spy's loop index moves when it records, and only then.
LEMMA OnlyRecordingCounts ==
  ASSUME Base, SingleNext, i'[Spy] # i[Spy]
  PROVE  \/ ~Scheduling /\ SpyRecord /\ UNCHANGED kdVars
         \/ Scheduling /\ SpyRecordGap
<1> USE Facts, ChannelAssumption DEF Base, Types, TypeOK
<1>1. ~TrojanStep
  BY DEF TrojanStep, EnterNewTimeSlice, TrojanBegin, TrojanTouch, TrojanPublish, TrojanPick,
     TrojanTrain, NextRound, threadVars
<1>2. ~HandshakeStep
  BY DEF HandshakeStep, TrojanReady, TrojanSync, SpySync, RootAwaitTrojan, RootAwaitSpy,
     SpyAnnounce, SpyTime, TrojanTime, RootAwaitSearch, RootTimeTrojan, RootTimeSpy
<1>3. ~WarmupStep /\ ~TickStep /\ ~SpyDone /\ ~RootPrint /\ ~(UNCHANGED allVars)
  BY DEF WarmupStep, TrojanWarmup, SpySearch, TickStep, SpyDone, RootPrint, allVars, vars,
     threadVars
<1>4. SpyStep
  BY <1>1, <1>2, <1>3, StepCases
<1> QED
  BY <1>4 DEF SpyStep, EnterNewTimeSlice, SpyBegin, SpyProbe, SpyReadSecret, SpyStart, SpyGap

\* Every sample after the warmups measures a secret of its own, and a gap of the
\* scheduling channel exactly one.
THEOREM EverySecretIsFresh == SliceFits => (SingleSpec => FreshSecrets)
<1> SUFFICES ASSUME SliceFits PROVE SingleSpec => FreshSecrets
  OBVIOUS
<1>1. ASSUME SingleInv, [SingleNext]_allVars,
             i[Spy]' # i[Spy], i[Spy] >= Warmups,
             chan.order = "publishFirst" => i[Spy] < DataPoints - 1
      PROVE  IF chan.protocol = "schedule" THEN seen' = seen + 1 ELSE seen' > seen
  <2>1. \/ ~Scheduling /\ SpyRecord /\ UNCHANGED kdVars
        \/ Scheduling /\ SpyRecordGap
    BY <1>1, OnlyRecordingCounts DEF SingleInv, allVars, vars, threadVars
  <2>2. pc[Spy] = "record" /\ seen' = pubs /\ Measuring /\ cur = Spy
    BY <1>1, <2>1, SpyRecordBase, SpyRecordGapBase DEF SingleInv, SpyRecord, SpyRecordGap
  <2>3. SpyCount /\ SpyData
    BY <1>1, <2>2 DEF SingleInv, Turns, SpysTurn, SpyFresh, SpyAt
  <2>4. /\ i[Spy] \in Nat /\ i[Trojan] \in Nat /\ DataPoints \in Nat /\ Warmups \in Nat
        /\ seen \in Nat /\ chan \in Family
    BY <1>1, Facts, ChannelAssumption DEF SingleInv, Base, Types, TypeOK
  <2>5. Warmups >= 1
    BY <1>1, <2>4 DEF SliceFits
  <2>6. Attributed
    BY <1>1, <2>2, <2>3, <2>4, <2>5 DEF SpyData
  <2>7. ~(PublishFirst /\ pc[Trojan] = "spin")
    <3> SUFFICES ASSUME PublishFirst, pc[Trojan] = "spin" PROVE FALSE
      OBVIOUS
    <3>1. i[Trojan] <= i[Spy] + 1
      BY <2>2, <2>3 DEF SpyCount, SpyAt
    <3>2. i[Trojan] >= DataPoints
      BY <1>1, <2>4 DEF SingleInv, Base, Rounds
    <3> QED
      BY <1>1, <2>4, <3>1, <3>2 DEF PublishFirst
  <2> QED
    BY <2>2, <2>4, <2>6, <2>7 DEF Attributed, Fresh
<1> QED
  <2>1. SingleSpec => []SingleInv
    BY SingleInvariance
  <2> QED
    BY <1>1, <2>1, PTL DEF SingleSpec, FreshSecrets
=============================================================================
