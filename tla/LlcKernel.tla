------------------------------ MODULE LlcKernel ------------------------------
(***************************************************************************)
(* The last-level-cache channel through the shared kernel image, on two    *)
(* cores (CONFIG_MAX_NUM_NODES > 1).  The trojan runs alone on its core;   *)
(* the spy shares the other one with the root task, which has priority.    *)
(* There is no timer tick to agree on: trojan and spy take turns by        *)
(* polling the time stamp counter (waiting_probe), the trojan at every     *)
(* multiple of Period after its start, the spy SpyOffset later.            *)
(*                                                                         *)
(* Time is explicit: a thread that can run takes its next statement within *)
(* Latency, and time advances only when that leaves every thread on time.  *)
(***************************************************************************)
EXTENDS Integers, FiniteSets

CONSTANTS
  Root, Trojan, Spy,
  t_ep, s_ep, syn_ep,
  DataPoints, Warmups, \* CONFIG_BENCH_DATA_POINTS, BENCH_TIMING_WARMUPS
  Period,     \* SYN_TICK_MULTI_TROJAN
  SpyOffset,  \* SYN_TICK_MULTI_SPY_OFFSET
  Latency,    \* the longest a runnable thread takes for a statement
  IntMax,     \* INT_MAX
  CcntRange,  \* 2^64, the range of ccnt_t
  Api,        \* the system calls timing_signal, timing_tcb, timing_poll
  NoApi,      \* timing_api_num: the trojan makes no system call
  Foot,       \* Foot[a]: the cache sets search() finds for system call a
  NoLabel     \* content of the shared word before anybody wrote it

Thread == {Root, Trojan, Spy}
Choice == Api \cup {NoApi}
Disturbs(a) == IF a \in Api THEN Foot[a] ELSE {}
CacheSet == UNION {Foot[a] : a \in Api}

ASSUME LlcAssumption ==
  /\ Cardinality(Thread) = 3
  /\ Cardinality({t_ep, s_ep, syn_ep}) = 3
  /\ DataPoints \in Nat \ {0}
  /\ Warmups \in 0..DataPoints
  /\ {Period, SpyOffset, Latency} \subseteq Nat \ {0}
  /\ {IntMax, CcntRange} \subseteq Nat \ {0}
  /\ NoApi \notin Api /\ NoLabel \notin Choice
  /\ IsFiniteSet(Api) /\ Api # {}
  /\ Foot \in [Api -> SUBSET CacheSet] /\ IsFiniteSet(CacheSet)

VARIABLES
  now,    \* the time stamp counter, the same on both cores
  lag,    \* lag[t]: time since t could have taken its next statement
  pc,
  ipc,    \* Ready, or the endpoint operation a thread is blocked in
  mr0,    \* mr0[t]: message register 0 as the last receive left it
  start,  \* tick_start
  offset, \* offset, in waiting_probe
  i,
  secret, \* the trojan's current_api
  dirty,  \* cache sets disturbed since the spy last probed them
  probed, \* the spy's probing lists, one per system call
  lists,  \* lists the spy has still to probe in this round
  count,  \* lines the spy has found disturbed in this round
  shared, \* *share_vaddr
  rec,    \* probe_seq and the sum of probe_results, by round
  printed

sharedVars == <<dirty, shared>>
spyVars == <<probed, lists, count, rec>>
timing == <<start, offset>>
vars == <<now, lag, pc, ipc, mr0, timing, i, secret, sharedVars, spyVars,
          printed>>

Ready == [op |-> "none"]
Slot == 0..(DataPoints - 1)

TypeOK ==
  /\ now \in Nat
  /\ lag \in [Thread -> 0..Latency]
  /\ pc \in [Thread -> {"search", "ready", "global", "sync", "start", "offset",
                        "wait", "touch", "publish", "probe", "record", "done",
                        "stamp", "tellTrojan", "tellSpy", "result", "report",
                        "spin"}]
  /\ ipc \in [Thread -> {Ready} \cup [op: {"send", "recv"},
                                      ep: {t_ep, s_ep, syn_ep}, val: Nat]]
  /\ mr0 \in [Thread -> Nat]
  /\ start \in [Thread -> Nat] /\ offset \in [Thread -> 0..(CcntRange - 1)]
  /\ i \in [Thread -> 0..DataPoints]
  /\ secret \in Choice \cup {NoLabel} /\ shared \in Choice \cup {NoLabel}
  /\ dirty \subseteq CacheSet
  /\ probed \in [Api -> SUBSET CacheSet]
  /\ lists \subseteq Api
  /\ count \in 0..Cardinality(CacheSet)
  /\ rec \in [Slot -> [seq: Choice \cup {NoLabel}, lines: Nat]]
  /\ printed \subseteq Slot \X [seq: Choice \cup {NoLabel}, lines: Nat]

Init ==
  /\ now = 0
  /\ lag = [t \in Thread |-> 0]
  /\ pc = [t \in Thread |-> IF t = Root THEN "ready"
                          ELSE IF t = Trojan THEN "global" ELSE "search"]
  /\ ipc = [t \in Thread |-> Ready]
  /\ mr0 = [t \in Thread |-> 0]
  /\ start = [t \in Thread |-> 0] /\ offset = [t \in Thread |-> 0]
  /\ i = [t \in Thread |-> IF t = Root THEN Warmups ELSE 0]
  /\ secret = NoLabel /\ shared = NoLabel
  /\ dirty = {}
  /\ probed = Foot
  /\ lists = {} /\ count = 0
  /\ rec = [k \in Slot |-> [seq |-> NoLabel, lines |-> 0]]
  /\ printed = {}

-----------------------------------------------------------------------------
(* Cores and time *)

CanRun(t) == ipc[t] = Ready /\ (t = Spy => ipc[Root] # Ready)

Elapsed(t) == now - start[t]

\* t polls the counter and has not reached its offset, or is in while (1).
Polls(t) == pc[t] = "spin" \/ (pc[t] = "wait" /\ Elapsed(t) < offset[t])

\* Time passes while somebody still needs it.
Advance ==
  /\ \E t \in Thread : CanRun(t) /\ pc[t] # "spin"
  /\ \A t \in Thread : CanRun(t) /\ ~Polls(t) => lag[t] < Latency
  /\ now' = now + 1
  /\ lag' = [t \in Thread |->
               IF CanRun(t) /\ ~Polls(t) THEN lag[t] + 1 ELSE lag[t]]
  /\ UNCHANGED <<pc, ipc, mr0, timing, i, secret, sharedVars, spyVars, printed>>

Step(t, from, to) ==
  /\ pc[t] = from /\ CanRun(t)
  /\ pc' = [pc EXCEPT ![t] = to]
  /\ lag' = [lag EXCEPT ![t] = 0]
  /\ UNCHANGED now

Local == UNCHANGED <<ipc, mr0>>

Waiting(op, ep) ==
  {u \in Thread : ipc[u] # Ready /\ ipc[u].op = op /\ ipc[u].ep = ep}

\* seL4_Send of a message whose register 0 is v.
Send(t, ep, v) ==
  IF Waiting("recv", ep) # {}
  THEN \E r \in Waiting("recv", ep) : /\ ipc' = [ipc EXCEPT ![r] = Ready]
                                      /\ mr0' = [mr0 EXCEPT ![r] = v]
  ELSE /\ ipc' = [ipc EXCEPT ![t] = [op |-> "send", ep |-> ep, val |-> v]]
       /\ UNCHANGED mr0

Recv(t, ep) ==
  IF Waiting("send", ep) # {}
  THEN \E s \in Waiting("send", ep) :
         /\ ipc' = [ipc EXCEPT ![s] = Ready]
         /\ mr0' = [mr0 EXCEPT ![t] = ipc[s].val]
  ELSE /\ ipc' = [ipc EXCEPT ![t] = [op |-> "recv", ep |-> ep, val |-> 0]]
       /\ UNCHANGED mr0

-----------------------------------------------------------------------------
(* waiting_probe *)

\* The int product (tick + 1) * SYN_TICK_MULTI_TROJAN, then converted to the
\* unsigned 64-bit ccnt_t.  Overflow is undefined: the product may wrap or be
\* computed in 64 bits.
Products(x) ==
  IF x <= IntMax THEN {x}
  ELSE LET wrapped == ((x + IntMax + 1) % (2 * (IntMax + 1))) - (IntMax + 1)
       IN  {x, wrapped % CcntRange}

\* Mutant: the spy probes on the prime.
ProbeOffsetShared(t) ==
  {p % CcntRange : p \in Products((i[t] + 1) * Period)}

\* Mutant: the spy counts its ticks from 0, the trojan from 1.
ProbeOffsetEarly(t) ==
  LET extra == IF t = Spy THEN SpyOffset ELSE Period
  IN  {(p + extra) % CcntRange : p \in Products(i[t] * Period)}

\* Mutant: the next wait starts where this round has ended.
ProbeOffsetRelative(t) ==
  LET extra == IF t = Spy /\ i[t] = 0 THEN SpyOffset ELSE 0
  IN  {(Elapsed(t) + Period + extra) % CcntRange}

ProbeOffset(t) ==
  LET extra == IF t = Spy THEN SpyOffset ELSE 0
  IN  {(p + extra) % CcntRange : p \in Products((i[t] + 1) * Period)}

EnterWaitingProbe(t) ==
  /\ Step(t, "offset", "wait")
  /\ \E o \in ProbeOffset(t) : offset' = [offset EXCEPT ![t] = o]
  /\ Local
  /\ UNCHANGED <<start, i, secret, sharedVars, spyVars, printed>>

\* tick_start = rdtscp_64(), which overwrites the time the root task sent.
StartClock(t) ==
  /\ Step(t, "start", "offset")
  /\ start' = [start EXCEPT ![t] = now]
  /\ Local
  /\ UNCHANGED <<offset, i, secret, sharedVars, spyVars, printed>>

NextRound(t) == i' = [i EXCEPT ![t] = @ + 1]
\* Mutant: the loop runs once too often.
AfterOffByOne(t, over) == IF i[t] < DataPoints THEN "offset" ELSE over
After(t, over) == IF i[t] + 1 < DataPoints THEN "offset" ELSE over

-----------------------------------------------------------------------------
(* The trojan *)

TrojanGlobalTime ==
  /\ Step(Trojan, "global", "sync")
  /\ Recv(Trojan, t_ep)
  /\ UNCHANGED <<timing, i, secret, sharedVars, spyVars, printed>>

TrojanSync ==
  /\ Step(Trojan, "sync", "start")
  /\ start' = [start EXCEPT ![Trojan] = mr0[Trojan]]
  /\ Send(Trojan, syn_ep, 0)
  /\ UNCHANGED <<offset, i, secret, sharedVars, spyVars, printed>>

TrojanWait ==
  /\ Step(Trojan, "wait", "touch")
  /\ ~Polls(Trojan)
  /\ secret' \in Choice
  /\ Local
  /\ UNCHANGED <<timing, i, sharedVars, spyVars, printed>>

TrojanTouch ==
  /\ Step(Trojan, "touch", "publish")
  /\ dirty' = dirty \cup Disturbs(secret)
  /\ Local
  /\ UNCHANGED <<timing, i, secret, shared, spyVars, printed>>

TrojanPublish ==
  /\ Step(Trojan, "publish", After(Trojan, "spin"))
  /\ shared' = secret
  /\ NextRound(Trojan)
  /\ Local
  /\ UNCHANGED <<timing, secret, dirty, spyVars, printed>>

-----------------------------------------------------------------------------
(* The spy *)

\* Mutant: a set in two lists is removed from both.
RemoveBoth(order) ==
  [a \in Api |-> Foot[a] \ UNION {Foot[b] : b \in Api \ {a}}]

\* remove_same_probesets, for every pair of lists in the order of the code:
\* a list keeps what no list before it has.  order[a] is the place of a.
Remove(order) ==
  [a \in Api |-> Foot[a] \ UNION {Foot[b] : b \in {c \in Api : order[c] < order[a]}}]

ApiOrder == CHOOSE f \in [Api -> 1..Cardinality(Api)] :
               \A a, b \in Api : a # b => f[a] # f[b]

SpySearch ==
  /\ Step(Spy, "search", "ready")
  /\ probed' = Remove(ApiOrder)
  /\ Local
  /\ UNCHANGED <<timing, i, secret, sharedVars, lists, count, rec, printed>>

SpyReady ==
  /\ Step(Spy, "ready", "global")
  /\ Send(Spy, s_ep, 0)
  /\ UNCHANGED <<timing, i, secret, sharedVars, spyVars, printed>>

SpyGlobalTime ==
  /\ Step(Spy, "global", "sync")
  /\ Recv(Spy, s_ep)
  /\ UNCHANGED <<timing, i, secret, sharedVars, spyVars, printed>>

SpySync ==
  /\ Step(Spy, "sync", "start")
  /\ start' = [start EXCEPT ![Spy] = mr0[Spy]]
  /\ Recv(Spy, syn_ep)
  /\ UNCHANGED <<offset, i, secret, sharedVars, spyVars, printed>>

SpyWait ==
  /\ Step(Spy, "wait", "probe")
  /\ ~Polls(Spy)
  /\ lists' = Api /\ count' = 0
  /\ Local
  /\ UNCHANGED <<timing, i, secret, sharedVars, probed, rec, printed>>

\* Probe the list of one system call, which restores the sets in it.
SpyProbe ==
  /\ Step(Spy, "probe", IF Cardinality(lists) = 1 THEN "record" ELSE "probe")
  /\ \E a \in lists :
       /\ \A b \in lists : ApiOrder[a] <= ApiOrder[b]
       /\ count' = count + Cardinality(probed[a] \cap dirty)
       /\ dirty' = dirty \ probed[a]
       /\ lists' = lists \ {a}
  /\ Local
  /\ UNCHANGED <<timing, i, secret, shared, probed, rec, printed>>

SpyRecord ==
  /\ Step(Spy, "record", After(Spy, "done"))
  /\ rec' = [rec EXCEPT ![i[Spy]] = [seq |-> shared, lines |-> count]]
  /\ NextRound(Spy)
  /\ Local
  /\ UNCHANGED <<timing, secret, sharedVars, probed, lists, count, printed>>

\* Mutant: the spy reports on the endpoint it shares with the trojan.
SpyDoneWrongEndpoint ==
  /\ Step(Spy, "done", "spin")
  /\ Send(Spy, syn_ep, 0)
  /\ UNCHANGED <<timing, i, secret, sharedVars, spyVars, printed>>

SpyDone ==
  /\ Step(Spy, "done", "spin")
  /\ Send(Spy, s_ep, 0)
  /\ UNCHANGED <<timing, i, secret, sharedVars, spyVars, printed>>

-----------------------------------------------------------------------------
(* The root task: run_covert_llc_kernel *)

RootAwaitReady ==
  /\ Step(Root, "ready", "stamp")
  /\ Recv(Root, s_ep)
  /\ UNCHANGED <<timing, i, secret, sharedVars, spyVars, printed>>

RootStamp ==
  /\ Step(Root, "stamp", "tellTrojan")
  /\ start' = [start EXCEPT ![Root] = now]
  /\ Local
  /\ UNCHANGED <<offset, i, secret, sharedVars, spyVars, printed>>

RootTellTrojan ==
  /\ Step(Root, "tellTrojan", "tellSpy")
  /\ Send(Root, t_ep, start[Root])
  /\ UNCHANGED <<timing, i, secret, sharedVars, spyVars, printed>>

RootTellSpy ==
  /\ Step(Root, "tellSpy", "result")
  /\ Send(Root, s_ep, start[Root])
  /\ UNCHANGED <<timing, i, secret, sharedVars, spyVars, printed>>

RootAwaitResult ==
  /\ Step(Root, "result", "report")
  /\ Recv(Root, s_ep)
  /\ UNCHANGED <<timing, i, secret, sharedVars, spyVars, printed>>

RootPrint ==
  /\ Step(Root, "report", IF i[Root] < DataPoints THEN "report" ELSE "spin")
  /\ IF i[Root] < DataPoints
     THEN /\ printed' = printed \cup {<<i[Root], rec[i[Root]]>>}
          /\ NextRound(Root)
     ELSE UNCHANGED <<printed, i>>
  /\ Local
  /\ UNCHANGED <<timing, secret, sharedVars, spyVars>>

-----------------------------------------------------------------------------
TrojanNext ==
  \/ TrojanGlobalTime \/ TrojanSync \/ StartClock(Trojan)
  \/ EnterWaitingProbe(Trojan) \/ TrojanWait \/ TrojanTouch \/ TrojanPublish
SpyNext ==
  \/ SpySearch \/ SpyReady \/ SpyGlobalTime \/ SpySync \/ StartClock(Spy)
  \/ EnterWaitingProbe(Spy) \/ SpyWait \/ SpyProbe \/ SpyRecord \/ SpyDone
RootNext ==
  \/ RootAwaitReady \/ RootStamp \/ RootTellTrojan \/ RootTellSpy
  \/ RootAwaitResult \/ RootPrint

Next == Advance \/ TrojanNext \/ SpyNext \/ RootNext

Spec == Init /\ [][Next]_vars

\* The cores execute and time passes; Advance waits for every late thread.
FairSpec == Spec /\ WF_vars(Next)

-----------------------------------------------------------------------------
(* Properties *)

\* What the constants of the code have to satisfy: the longest way from the
\* end of the trojan's wait to its publication, or from the end of the spy's
\* wait to its record, and the distance of the two clocks, fit the offset and
\* the rest of the period; and no offset overflows.
Timely ==
  /\ SpyOffset > 4 * Latency
  /\ Period > SpyOffset + (Cardinality(Api) + 3) * Latency
  /\ DataPoints * Period <= IntMax
  /\ DataPoints * Period + SpyOffset < CcntRange

\* Prime and probe are kept apart by time alone: the trojan never disturbs
\* the cache or the shared word while the spy measures.
PrimeProbeApart ==
  ~ /\ pc[Trojan] \in {"touch", "publish"}
    /\ pc[Spy] \in {"probe", "record"}

\* A printed line counts every cache set that the published system call
\* disturbs, and counts it once.
LinesAgree ==
  \A line \in printed :
    /\ line[2].seq \in Choice
    /\ line[2].lines = Cardinality(Disturbs(line[2].seq))

\* Sample k of the spy is taken in round k of the trojan: after its k-th and
\* before its (k+1)-st publication.
InStep == pc[Spy] = "record" => i[Trojan] = i[Spy] + 1

\* However late a round was, the next one is on time: a prime and a probe
\* follow their multiple of the period by no more than a round's own latency,
\* in the last round as in the first (waiting_probe counts from tick_start).
NoDrift ==
  /\ pc[Trojan] = "touch" =>
       Elapsed(Trojan) - (i[Trojan] + 1) * Period \in 0..(2 * Latency)
  /\ pc[Spy] \in {"probe", "record"} =>
       Elapsed(Spy) - ((i[Spy] + 1) * Period + SpyOffset)
         \in 0..((Cardinality(Api) + 2) * Latency)

\* "the prime (trojan) is on every multiple tick length"
OnSchedule == pc[Trojan] = "wait" => offset[Trojan] = (i[Trojan] + 1) * Period

\* The benchmark ends although nobody but the clock orders the rounds.
Terminates == <>(pc[Root] = "spin")
=============================================================================
