---------------------------- MODULE CovertChannel ----------------------------
(***************************************************************************)
(* A covert timing channel benchmark on one core: the trojan modulates a   *)
(* micro-architectural structure, the spy measures it, and the root task   *)
(* starts both and prints what the spy recorded.                           *)
(*                                                                         *)
(* The three threads are l1_trojan, l1_spy and run_single_l1; every other  *)
(* channel of the family (L1 I-cache, TLB, BTB, branch predictor) has the  *)
(* same skeleton and differs in the record chan, see module Channels.      *)
(***************************************************************************)
EXTENDS Sel4

CONSTANTS
  Trojan, Spy,  \* the two benchmark threads
  t_ep, s_ep, syn_ep, \* trojan->root, spy->root, trojan->spy
  DataPoints,   \* CONFIG_BENCH_DATA_POINTS
  Warmups,      \* BENCH_TIMING_WARMUPS
  Family,       \* the channels: records [order, secrets, touch, probe, label]
  NoLabel       \* content of the shared word before anybody wrote it

Unit == UNION {c.probe \cup UNION {c.touch[s] : s \in c.secrets} : c \in Family}
Label == {NoLabel} \cup UNION {c.secrets : c \in Family}

ASSUME ChannelAssumption ==
  /\ Thread = {Root, Trojan, Spy}
  /\ Root # Trojan /\ Root # Spy /\ Trojan # Spy
  /\ Endpoint = {t_ep, s_ep, syn_ep}
  /\ t_ep # s_ep /\ t_ep # syn_ep /\ s_ep # syn_ep
  /\ DataPoints \in Nat \ {0}
  /\ Warmups \in 0..DataPoints
  /\ \A c \in Family :
       /\ c.order \in {"touchFirst", "publishFirst"}
       /\ c.secrets # {} /\ NoLabel \notin c.secrets
       /\ c.label \in Label
       /\ DOMAIN c.touch = c.secrets

VARIABLES
  chan,    \* the channel the image is configured for; it never changes
  pc,      \* the next statement of each thread
  i,       \* loop index of each thread
  secret,  \* the trojan's secret
  todo,    \* todo[t]: units the current loop body of t has still to visit
  dirty,   \* units the trojan has disturbed since the spy last probed them
  hits,    \* units the current probe found disturbed
  shared,  \* *shared_vaddr, the word the trojan publishes its secret in
  rec,     \* the spy's record: rec[k] = [sec, result]
  printed, \* the lines the root task has printed
  pubs,    \* history variable: secrets published so far
  seen     \* history variable: value of pubs when the spy last recorded

threadVars == <<chan, pc, i>>
trojanVars == <<secret, dirty, shared, pubs>>
spyVars == <<hits, rec, seen>>
vars == <<kernelVars, threadVars, trojanVars, spyVars, todo, printed>>

Slot == 0..(DataPoints - 1)
NoSample == [sec |-> NoLabel, result |-> {}]
Sample == [sec: Label, result: SUBSET Unit]

TypeOK ==
  /\ KernelTypeOK
  /\ chan \in Family
  /\ pc \in [Thread -> {"ready", "sync", "pick", "enter", "wait", "train",
                        "touch", "publish", "probe", "record", "done",
                        "trojan", "spy", "report", "spin",
                        \* KdChannel, ArmKernelChannel
                        "start", "poll",
                        "search", "announce", "time", "spyReady",
                        "timeTrojan", "timeSpy"}]
  /\ i \in [Thread -> 0..DataPoints]
  /\ secret \in Label
  /\ todo \in [Thread -> SUBSET Unit]
  /\ dirty \subseteq Unit
  /\ hits \subseteq Unit
  /\ shared \in Label
  /\ rec \in [Slot -> Sample]
  /\ printed \subseteq Slot \X Sample
  /\ pubs \in 0..DataPoints
  /\ seen \in 0..pubs

\* All threads before their first statement, given as a label for each.
StartAt(root, trojan, spy) ==
  /\ KernelInit
  /\ chan \in Family
  /\ pc = [t \in Thread |-> IF t = Root THEN root
                          ELSE IF t = Trojan THEN trojan ELSE spy]
  /\ i = [t \in Thread |-> IF t = Root THEN Warmups ELSE 0]
  /\ secret = NoLabel
  /\ todo = [t \in Thread |-> {}]
  /\ dirty = {}
  /\ hits = {}
  /\ shared = chan.label
  /\ rec = [k \in Slot |-> NoSample]
  /\ printed = {}
  /\ pubs = 0
  /\ seen = 0

Init == StartAt("trojan", "ready", "sync")

Goto(t, label) == pc' = [pc EXCEPT ![t] = label] /\ UNCHANGED chan

\* Mutant: the loop runs once too often.
NextRoundOffByOne(t, again, after) ==
  /\ i' = [i EXCEPT ![t] = @ + 1]
  /\ Goto(t, IF i[t] < DataPoints THEN again ELSE after)

\* The end of a loop body: the next round, or the code after the loop.
NextRound(t, again, after) ==
  /\ i' = [i EXCEPT ![t] = @ + 1]
  /\ Goto(t, IF i[t] + 1 < DataPoints THEN again ELSE after)

-----------------------------------------------------------------------------
(* newTimeSlice: read the time stamp until two reads are far apart *)

\* Mutant: the previous time stamp is kept from an earlier call.
EnterNewTimeSliceStale(t) ==
  /\ pc[t] = "enter"
  /\ Compute(t)
  /\ Goto(t, IF t = Trojan /\ chan.order = "publishFirst" THEN "train"
             ELSE "wait")
  /\ UNCHANGED <<away, i, trojanVars, spyVars, todo, printed>>

\* The first read.  A preemption before it goes unnoticed.
EnterNewTimeSlice(t) ==
  /\ pc[t] = "enter"
  /\ Compute(t)
  /\ away' = [away EXCEPT ![t] = FALSE]
  /\ Goto(t, IF t = Trojan /\ chan.order = "publishFirst" THEN "train"
             ELSE "wait")
  /\ UNCHANGED <<i, trojanVars, spyVars, todo, printed>>

\* Mutant: the gap is not compared with TS_THRESHOLD.
NewTimeSliceAnyGap(t) == pc[t] = "wait" /\ Compute(t) /\ UNCHANGED away

\* The gap is there: the function returns.
NewTimeSlice(t) == pc[t] = "wait" /\ away[t] /\ Compute(t) /\ UNCHANGED away

-----------------------------------------------------------------------------
(* The trojan *)

FirstStatement == IF chan.order = "publishFirst" THEN "pick" ELSE "enter"

TrojanReady ==
  /\ pc[Trojan] = "ready"
  /\ Send(Trojan, t_ep)
  /\ Goto(Trojan, "sync")
  /\ UNCHANGED <<i, trojanVars, spyVars, todo, printed>>

TrojanSync ==
  /\ pc[Trojan] = "sync"
  /\ Send(Trojan, syn_ep)
  /\ Goto(Trojan, FirstStatement)
  /\ UNCHANGED <<i, trojanVars, spyVars, todo, printed>>

\* A new slice: draw the secret and start on the units it selects.
TrojanBegin ==
  /\ NewTimeSlice(Trojan)
  /\ \E s \in chan.secrets :
        /\ secret' = s
        /\ todo' = [todo EXCEPT ![Trojan] = chan.touch[s]]
  /\ Goto(Trojan, "touch")
  /\ UNCHANGED <<i, dirty, shared, pubs, spyVars, printed>>

TrojanTouch ==
  /\ pc[Trojan] = "touch"
  /\ Compute(Trojan)
  /\ IF todo[Trojan] = {}
     THEN Goto(Trojan, "publish") /\ UNCHANGED <<todo, dirty>>
     ELSE \E u \in todo[Trojan] :
            /\ dirty' = dirty \cup {u}
            /\ todo' = [todo EXCEPT ![Trojan] = @ \ {u}]
            /\ UNCHANGED <<chan, pc>>
  /\ UNCHANGED <<away, i, secret, shared, pubs, spyVars, printed>>

TrojanPublish ==
  /\ pc[Trojan] = "publish"
  /\ Compute(Trojan)
  /\ shared' = secret
  /\ pubs' = pubs + 1
  /\ NextRound(Trojan, "enter", "spin")
  /\ UNCHANGED <<away, secret, dirty, spyVars, todo, printed>>

\* The branch predictor's trojan publishes first ...
TrojanPick ==
  /\ pc[Trojan] = "pick"
  /\ Compute(Trojan)
  /\ \E s \in chan.secrets : secret' = s /\ shared' = s
  /\ pubs' = pubs + 1
  /\ Goto(Trojan, "enter")
  /\ UNCHANGED <<away, i, dirty, spyVars, todo, printed>>

\* ... and trains the predictor until it sees the gap; the read of the time
\* stamp precedes the training, so a round trains once more after the gap.
TrojanTrain ==
  /\ pc[Trojan] = "train"
  /\ Compute(Trojan)
  /\ dirty' = chan.touch[secret]
  /\ IF away[Trojan] THEN NextRound(Trojan, "pick", "spin")
                     ELSE UNCHANGED threadVars
  /\ UNCHANGED <<away, secret, shared, pubs, spyVars, todo, printed>>

-----------------------------------------------------------------------------
(* The spy *)

SpySync ==
  /\ pc[Spy] = "sync"
  /\ Recv(Spy, syn_ep)
  /\ Goto(Spy, "enter")
  /\ UNCHANGED <<i, trojanVars, spyVars, todo, printed>>

SpyBegin ==
  /\ NewTimeSlice(Spy)
  /\ todo' = [todo EXCEPT ![Spy] = chan.probe]
  /\ hits' = {}
  /\ Goto(Spy, "probe")
  /\ UNCHANGED <<i, trojanVars, rec, seen, printed>>

\* Probing a unit measures whether it was disturbed and restores it.
SpyProbe ==
  /\ pc[Spy] = "probe"
  /\ Compute(Spy)
  /\ IF todo[Spy] = {}
     THEN Goto(Spy, "record") /\ UNCHANGED <<todo, dirty, hits>>
     ELSE \E u \in todo[Spy] :
            /\ hits' = hits \cup ({u} \cap dirty)
            /\ dirty' = dirty \ {u}
            /\ todo' = [todo EXCEPT ![Spy] = @ \ {u}]
            /\ UNCHANGED <<chan, pc>>
  /\ UNCHANGED <<away, i, secret, shared, pubs, rec, seen, printed>>

SpyRecord ==
  /\ pc[Spy] = "record"
  /\ Compute(Spy)
  /\ rec' = [rec EXCEPT ![i[Spy]] = [sec |-> shared, result |-> hits]]
  /\ seen' = pubs
  /\ NextRound(Spy, "enter", "done")
  /\ UNCHANGED <<away, trojanVars, hits, todo, printed>>

\* Mutant: the spy reports on the trojan's endpoint.
SpyDoneWrongEndpoint ==
  /\ pc[Spy] = "done"
  /\ Send(Spy, t_ep)
  /\ Goto(Spy, "spin")
  /\ UNCHANGED <<i, trojanVars, spyVars, todo, printed>>

SpyDone ==
  /\ pc[Spy] = "done"
  /\ Send(Spy, s_ep)
  /\ Goto(Spy, "spin")
  /\ UNCHANGED <<i, trojanVars, spyVars, todo, printed>>

-----------------------------------------------------------------------------
(* The root task: run_single_l1, then while (1) in main *)

\* Mutant: one seL4_Recv in place of two.
RootAwaitTrojanOnly ==
  /\ pc[Root] = "trojan"
  /\ Recv(Root, t_ep)
  /\ Goto(Root, "report")
  /\ UNCHANGED <<i, trojanVars, spyVars, todo, printed>>

RootAwaitTrojan ==
  /\ pc[Root] = "trojan"
  /\ Recv(Root, t_ep)
  /\ Goto(Root, "spy")
  /\ UNCHANGED <<i, trojanVars, spyVars, todo, printed>>

RootAwaitSpy ==
  /\ pc[Root] = "spy"
  /\ Recv(Root, s_ep)
  /\ Goto(Root, "report")
  /\ UNCHANGED <<i, trojanVars, spyVars, todo, printed>>

RootPrint ==
  /\ pc[Root] = "report"
  /\ Compute(Root)
  /\ IF i[Root] < DataPoints
     THEN /\ printed' = printed \cup {<<i[Root], rec[i[Root]]>>}
          /\ i' = [i EXCEPT ![Root] = @ + 1]
          /\ UNCHANGED <<chan, pc>>
     ELSE Goto(Root, "spin") /\ UNCHANGED <<i, printed>>
  /\ UNCHANGED <<away, trojanVars, spyVars, todo>>

RootSpin == pc[Root] = "spin" /\ Runs(Root) /\ UNCHANGED vars

-----------------------------------------------------------------------------
\* The places where a worker lets time pass: it polls the time stamp and has
\* seen no gap yet, has trained the predictor and goes on doing so, or is in
\* while (1).
Spinning ==
  {t \in Worker : \/ pc[t] = "spin"
                  \/ pc[t] = "wait" /\ ~away[t]
                  \/ pc[t] = "train" /\ ~away[t] /\ dirty = chan.touch[secret]}

TimerTick ==
  /\ Tick(Spinning)
  /\ UNCHANGED <<threadVars, trojanVars, spyVars, todo, printed>>

TrojanNext ==
  \/ TrojanReady \/ TrojanSync \/ EnterNewTimeSlice(Trojan)
  \/ TrojanBegin \/ TrojanTouch \/ TrojanPublish \/ TrojanPick \/ TrojanTrain
SpyNext ==
  \/ SpySync \/ EnterNewTimeSlice(Spy) \/ SpyBegin
  \/ SpyProbe \/ SpyRecord \/ SpyDone
RootNext == RootAwaitTrojan \/ RootAwaitSpy \/ RootPrint \/ RootSpin

Next == TrojanNext \/ SpyNext \/ RootNext \/ TimerTick

Spec == Init /\ [][Next]_vars

-----------------------------------------------------------------------------
Reporting == pc[Root] \in {"report", "spin"} /\ ipc[Root] = Ready

\* When the root task starts to print, the spy has filled every slot and is
\* past its last write (covert.c: "benchmark result ready").
ReportComplete == Reporting => pc[Spy] = "spin" /\ i[Spy] = DataPoints

\* The record, shared memory without a lock, does not change under the root
\* task's loop of printf.
RecordStable == [][Reporting => UNCHANGED rec]_vars

\* Every line printed pairs a measurement with the secret that caused it:
\* the units found disturbed are those the published secret touches.
LabelsAgree ==
  \A line \in printed :
    /\ line[2].sec \in chan.secrets
    /\ line[2].result = chan.touch[line[2].sec] \cap chan.probe

\* Every printed sample measures a secret published since the sample before
\* ("secret is updated by trojan in the previous system tick").
FreshSecret ==
  [][i[Spy]' # i[Spy] /\ i[Spy] >= Warmups => seen' > seen]_vars

-----------------------------------------------------------------------------
(* The strengthening that makes TypeOK and ReportComplete inductive. *)

\* The statements each thread can be at.
Statements ==
  /\ pc[Root] \in {"trojan", "spy", "report", "spin"}
  /\ pc[Trojan] \in IF chan.order = "publishFirst"
                    THEN {"ready", "sync", "pick", "enter", "train", "spin"}
                    ELSE {"ready", "sync", "enter", "wait", "touch",
                          "publish", "spin"}
  /\ pc[Spy] \in {"sync", "enter", "wait", "probe", "record", "done", "spin"}

\* Inside its loop a thread has rounds left; the trojan has a secret from the
\* draw on and has published once per round.
Loops ==
  /\ pc[Trojan] # "spin" => i[Trojan] < DataPoints
  /\ pc[Spy] \in {"done", "spin"} => i[Spy] = DataPoints
  /\ pc[Spy] \notin {"done", "spin"} => i[Spy] < DataPoints
  /\ \/ pc[Trojan] \in {"touch", "publish", "train"}
     \/ chan.order = "publishFirst" /\ pc[Trojan] = "enter"
     => secret \in chan.secrets
  /\ pubs = i[Trojan] + IF /\ chan.order = "publishFirst"
                           /\ pc[Trojan] \in {"enter", "train"}
                        THEN 1 ELSE 0

\* Who can be blocked where, and what a thread has done when it is.
Handshake ==
  /\ CurReady
  /\ \/ ipc[Trojan] = Ready
     \/ ipc[Trojan] = Blocked("send", t_ep)
     \/ ipc[Trojan] = Blocked("send", syn_ep)
  /\ \/ ipc[Spy] = Ready
     \/ ipc[Spy] = Blocked("recv", syn_ep)
     \/ ipc[Spy] = Blocked("send", s_ep) /\ pc[Spy] = "spin"
  /\ \/ ipc[Root] = Ready
     \/ ipc[Root] = Blocked("recv", t_ep) /\ pc[Root] = "spy"
     \/ ipc[Root] = Blocked("recv", s_ep) /\ pc[Root] = "report"
  /\ Reporting => pc[Spy] = "spin"

IInv == TypeOK /\ Statements /\ Loops /\ Handshake

\* The benchmark ends: the root task prints everything and halts.  The spy
\* can only finish because the finished trojan goes on spinning.
Terminates == <>(pc[Root] = "spin")
=============================================================================
