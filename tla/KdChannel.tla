------------------------------ MODULE KdChannel ------------------------------
(***************************************************************************)
(* The channel through deterministic kernel scheduling (l3_kd_trojan,      *)
(* l3_kd_spy).  The trojan is that of CovertChannel, after a warmup; the   *)
(* spy probes nothing.  It polls the time stamp, and at every gap records  *)
(* how long it was online before the gap and how long the gap lasted: both *)
(* depend on the cache lines the trojan has dirtied.                       *)
(*                                                                         *)
(* dirty is here the set of units visited since the spy last came back.    *)
(***************************************************************************)
EXTENDS CovertChannel

VARIABLES
  prev_s,  \* the spy's local variable
  prevSec  \* prev_sec: the secret of the gap before the online time

kdVars == <<prev_s, prevSec>>
allVars == <<vars, kdVars>>

KdLocals == prev_s = NoLabel /\ prevSec = [k \in Slot |-> NoLabel]

KdInit == Init /\ KdLocals

\* warmup: between its two messages the trojan visits random pages.
TrojanWarmup ==
  /\ pc[Trojan] = "sync"
  /\ Compute(Trojan)
  /\ dirty' \in SUBSET Unit
  /\ UNCHANGED <<away, threadVars, secret, shared, pubs, spyVars, todo,
                 printed, kdVars>>

KdTrojan ==
  /\ \/ TrojanReady \/ TrojanSync \/ EnterNewTimeSlice(Trojan)
     \/ TrojanBegin \/ TrojanTouch \/ TrojanPublish
  /\ UNCHANGED kdVars

\* prev_s = *secret, before the clock is read.
SpyReadSecret ==
  /\ pc[Spy] = "enter"
  /\ Compute(Spy)
  /\ prev_s' = shared
  /\ Goto(Spy, "start")
  /\ UNCHANGED <<away, i, trojanVars, spyVars, todo, printed, prevSec>>

SpyStart ==
  /\ pc[Spy] = "start"
  /\ Compute(Spy)
  /\ away' = [away EXCEPT ![Spy] = FALSE]
  /\ dirty' = {}
  /\ Goto(Spy, "poll")
  /\ UNCHANGED <<i, secret, shared, pubs, spyVars, todo, printed, kdVars>>

\* Mutant: prev is not moved past the gap.
SpyGapKept ==
  /\ pc[Spy] = "poll" /\ away[Spy]
  /\ Compute(Spy)
  /\ hits' = dirty /\ dirty' = {}
  /\ Goto(Spy, "record")
  /\ UNCHANGED <<away, i, secret, shared, pubs, rec, seen, todo, printed,
                 kdVars>>

\* The difference of two reads reaches TS_THRESHOLD.
SpyGap ==
  /\ pc[Spy] = "poll" /\ away[Spy]
  /\ Compute(Spy)
  /\ away' = [away EXCEPT ![Spy] = FALSE]
  /\ hits' = dirty /\ dirty' = {}
  /\ Goto(Spy, "record")
  /\ UNCHANGED <<i, secret, shared, pubs, rec, seen, todo, printed, kdVars>>

\* Mutant: the previous secret is read again after it was updated.
SpyRecordGapUpdated ==
  /\ pc[Spy] = "record"
  /\ Compute(Spy)
  /\ prevSec' = [prevSec EXCEPT ![i[Spy]] = shared]
  /\ rec' = [rec EXCEPT ![i[Spy]] = [sec |-> shared, result |-> hits]]
  /\ prev_s' = shared
  /\ seen' = pubs
  /\ NextRound(Spy, "poll", "done")
  /\ UNCHANGED <<away, trojanVars, hits, todo, printed>>

SpyRecordGap ==
  /\ pc[Spy] = "record"
  /\ Compute(Spy)
  /\ prevSec' = [prevSec EXCEPT ![i[Spy]] = prev_s]
  /\ rec' = [rec EXCEPT ![i[Spy]] = [sec |-> shared, result |-> hits]]
  /\ prev_s' = shared
  /\ seen' = pubs
  /\ NextRound(Spy, "poll", "done")
  /\ UNCHANGED <<away, trojanVars, hits, todo, printed>>

KdSpy ==
  \/ (SpySync \/ SpyDone) /\ UNCHANGED kdVars
  \/ SpyReadSecret \/ SpyStart \/ SpyGap \/ SpyRecordGap

KdRoot == RootNext /\ UNCHANGED kdVars

\* The trojan in its warmup, and the spy while it sees no gap, let time pass.
KdTick ==
  /\ Tick(Spinning \cup {t \in Worker : \/ pc[t] = "sync" /\ t = Trojan
                                        \/ pc[t] = "poll" /\ ~away[t]})
  /\ UNCHANGED <<threadVars, trojanVars, spyVars, todo, printed, kdVars>>

KdNext == TrojanWarmup \/ KdTrojan \/ KdSpy \/ KdRoot \/ KdTick

KdSpec == KdInit /\ [][KdNext]_allVars

-----------------------------------------------------------------------------
\* Every printed gap is labelled with the secret visited during it ("cur
\* secrete affect offline time"), and the online time before it with the
\* secret of the gap before ("prev secret affect online time").
GapsAgree ==
  \A line \in printed :
    LET k == line[1]
    IN  /\ line[2].sec \in chan.secrets
        /\ line[2].result = chan.touch[line[2].sec]
        /\ k > 0 => chan.touch[prevSec[k]] = rec[k - 1].result
=============================================================================
