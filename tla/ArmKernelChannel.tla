--------------------------- MODULE ArmKernelChannel ---------------------------
(***************************************************************************)
(* The channel through the shared kernel image on ARM (l3_trojan, l3_spy). *)
(* Trojan and spy share one core.  Their loops are those of CovertChannel: *)
(* the trojan makes three system calls or none, the spy walks the probe    *)
(* lists of the three calls.  What differs is the way to the first round:  *)
(* the spy looks for its probe lists while everybody waits, the root task  *)
(* then releases both threads with a message, and uses the spy's endpoint  *)
(* in both directions.                                                     *)
(***************************************************************************)
EXTENDS CovertChannel

AkInit == StartAt("spyReady", "time", "search")

-----------------------------------------------------------------------------
(* The spy *)

\* search: system calls and probes of all sets, for as long as it takes; they
\* leave any sets disturbed.
SpySearch ==
  /\ pc[Spy] = "search"
  /\ Compute(Spy)
  /\ dirty' \in SUBSET Unit
  /\ UNCHANGED <<away, threadVars, secret, shared, pubs, spyVars, todo,
                 printed>>

\* The lists are there: report to the root task.
SpyAnnounce ==
  /\ pc[Spy] = "search"
  /\ Send(Spy, s_ep)
  /\ Goto(Spy, "time")
  /\ UNCHANGED <<i, trojanVars, spyVars, todo, printed>>

SpyTime ==
  /\ pc[Spy] = "time"
  /\ Recv(Spy, s_ep)
  /\ Goto(Spy, "sync")
  /\ UNCHANGED <<i, trojanVars, spyVars, todo, printed>>

-----------------------------------------------------------------------------
(* The trojan *)

TrojanTime ==
  /\ pc[Trojan] = "time"
  /\ Recv(Trojan, t_ep)
  /\ Goto(Trojan, "sync")
  /\ UNCHANGED <<i, trojanVars, spyVars, todo, printed>>

-----------------------------------------------------------------------------
(* The root task: run_covert_llc_kernel *)

RootAwaitSearch ==
  /\ pc[Root] = "spyReady"
  /\ Recv(Root, s_ep)
  /\ Goto(Root, "timeTrojan")
  /\ UNCHANGED <<i, trojanVars, spyVars, todo, printed>>

RootTimeTrojan ==
  /\ pc[Root] = "timeTrojan"
  /\ Send(Root, t_ep)
  /\ Goto(Root, "timeSpy")
  /\ UNCHANGED <<i, trojanVars, spyVars, todo, printed>>

RootTimeSpy ==
  /\ pc[Root] = "timeSpy"
  /\ Send(Root, s_ep)
  /\ Goto(Root, "spy")
  /\ UNCHANGED <<i, trojanVars, spyVars, todo, printed>>

-----------------------------------------------------------------------------
AkTrojan ==
  \/ TrojanTime \/ TrojanSync \/ EnterNewTimeSlice(Trojan)
  \/ TrojanBegin \/ TrojanTouch \/ TrojanPublish

AkSpy ==
  \/ SpySearch \/ SpyAnnounce \/ SpyTime \/ SpySync
  \/ EnterNewTimeSlice(Spy) \/ SpyBegin \/ SpyProbe \/ SpyRecord \/ SpyDone

AkRoot ==
  \/ RootAwaitSearch \/ RootTimeTrojan \/ RootTimeSpy
  \/ RootAwaitSpy \/ RootPrint \/ RootSpin

AkTick ==
  /\ Tick(Spinning \cup {t \in Worker : pc[t] = "search"})
  /\ UNCHANGED <<threadVars, trojanVars, spyVars, todo, printed>>

AkNext == AkTrojan \/ AkSpy \/ AkRoot \/ AkTick

AkSpec == AkInit /\ [][AkNext]_vars
=============================================================================
