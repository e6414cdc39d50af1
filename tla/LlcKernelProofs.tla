---------------------------- MODULE LlcKernelProofs ----------------------------
(***************************************************************************)
(* The clock alone keeps trojan and spy in step, for every period, offset, *)
(* latency and number of data points that are Timely, and for any system   *)
(* calls and cache sets.                                                   *)
(***************************************************************************)
EXTENDS LlcKernel, FiniteSetTheorems, WellFoundedInduction, TLAPS

-----------------------------------------------------------------------------
(* The constants *)

LEMMA ThreeDistinct ==
  ASSUME NEW a, NEW b, NEW c, Cardinality({a, b, c}) = 3
  PROVE  a # b /\ a # c /\ b # c
<1>1. ASSUME NEW x, NEW y, {a, b, c} = {x, y}
      PROVE  FALSE
  <2>1. IsFiniteSet({x}) /\ Cardinality({x}) = 1
    BY FS_Singleton
  <2>2. {x, y} = {x} \cup {y}
    OBVIOUS
  <2>3. Cardinality({x, y}) \in {1, 2}
    BY <2>1, <2>2, FS_AddElement
  <2>4. QED
    BY <1>1, <2>3
<1>2. a = b => {a, b, c} = {a, c}
  OBVIOUS
<1>3. a = c => {a, b, c} = {a, b}
  OBVIOUS
<1>4. b = c => {a, b, c} = {a, b}
  OBVIOUS
<1>5. QED
  BY <1>1, <1>2, <1>3, <1>4

LEMMA Distinct ==
  /\ Root # Trojan /\ Root # Spy /\ Trojan # Spy
  /\ t_ep # s_ep /\ t_ep # syn_ep /\ s_ep # syn_ep
BY ThreeDistinct, LlcAssumption DEF Thread

\* There is an order on the system calls, so ApiOrder is one.
LEMMA ApiOrderFacts ==
  /\ ApiOrder \in [Api -> 1..Cardinality(Api)]
  /\ \A a, b \in Api : a # b => ApiOrder[a] # ApiOrder[b]
<1> DEFINE N == 1..Cardinality(Api)
<1>1. PICK f \in Bijection(N, Api) : TRUE
  BY LlcAssumption, FS_CardinalityType DEF ExistsBijection
<1>2. /\ f \in [N -> Api]
      /\ \A j, k \in N : f[j] = f[k] => j = k
      /\ \A a \in Api : \E k \in N : f[k] = a
  BY <1>1 DEF Bijection, Injection, Surjection, IsInjective
<1> HIDE DEF N
<1> DEFINE g == [a \in Api |-> CHOOSE k \in N : f[k] = a]
<1>3. \A a \in Api : g[a] \in N /\ f[g[a]] = a
  <2>1. ASSUME NEW a \in Api
        PROVE  g[a] \in N /\ f[g[a]] = a
    <3>1. \E k \in N : f[k] = a
      BY <1>2
    <3>2. (CHOOSE k \in N : f[k] = a) \in N /\ f[CHOOSE k \in N : f[k] = a] = a
      BY <3>1, Zenon
    <3>3. QED
      BY <3>2
  <2>2. QED
    BY <2>1
<1>4. g \in [Api -> N]
  BY <1>3
<1>5. \A a, b \in Api : a # b => g[a] # g[b]
  BY <1>3
<1> HIDE DEF g
<1>6. \E h \in [Api -> N] : \A a, b \in Api : a # b => h[a] # h[b]
  BY <1>4, <1>5
<1>7. QED
  BY <1>6, Zenon DEF ApiOrder, N

\* A set of numbers has a least member.
LEMMA LeastMember ==
  ASSUME NEW S \in SUBSET Nat, S # {}
  PROVE  \E x \in S : \A y \in S : x <= y
<1>1. PICK x \in S : \A y \in S : ~(<<y, x>> \in OpToRel(<, Nat))
  <2>1. IsWellFoundedOn(OpToRel(<, Nat), Nat)
    BY NatLessThanWellFounded
  <2>2. QED
    BY <2>1, WFMin, Zenon
<1>2. ASSUME NEW y \in Nat, NEW z \in Nat, y < z
      PROVE  <<y, z>> \in OpToRel(<, Nat)
  <2>1. <<y, z>> \in Nat \X Nat /\ <<y, z>>[1] = y /\ <<y, z>>[2] = z
    OBVIOUS
  <2>2. QED
    BY <1>2, <2>1, Zenon DEF OpToRel
<1>3. \A y \in S : ~(y < x)
  BY <1>1, <1>2
<1>4. QED
  BY <1>3

\* Removing common sets from the later lists loses none of them.
LEMMA RemoveLosesNone ==
  /\ Remove(ApiOrder) \in [Api -> SUBSET CacheSet]
  /\ \A x \in CacheSet : \E a \in Api : x \in Remove(ApiOrder)[a]
<1>1. Remove(ApiOrder) \in [Api -> SUBSET CacheSet]
  BY DEF Remove, CacheSet
<1>2. ASSUME NEW x \in CacheSet
      PROVE  \E a \in Api : x \in Remove(ApiOrder)[a]
  <2> DEFINE having == {a \in Api : x \in Foot[a]}
             places == {ApiOrder[a] : a \in having}
  <2>1. having # {} /\ places # {} /\ places \in SUBSET Nat
    BY ApiOrderFacts DEF CacheSet
  <2>2. PICK m \in places : \A n \in places : m <= n
    BY <2>1, LeastMember
  <2>3. PICK a \in having : ApiOrder[a] = m
    BY <2>2
  <2>4. ASSUME NEW b \in Api, x \in Foot[b], ApiOrder[b] < ApiOrder[a]
        PROVE  FALSE
    <3>1. ApiOrder[b] \in places /\ ApiOrder[b] \in Nat /\ ApiOrder[a] \in Nat
      BY <2>4, ApiOrderFacts
    <3>2. QED
      BY <2>2, <2>3, <2>4, <3>1
  <2>5. x \in Foot[a] \ UNION {Foot[b] : b \in {c \in Api : ApiOrder[c] < ApiOrder[a]}}
    BY <2>3, <2>4
  <2>6. QED
    BY <2>3, <2>5 DEF Remove
<1>3. QED
  BY <1>1, <1>2

\* The cache sets are finitely many.
LEMMA FootFinite ==
  /\ IsFiniteSet(CacheSet)
  /\ \A a : Disturbs(a) \subseteq CacheSet /\ IsFiniteSet(Disturbs(a))
<1>1. IsFiniteSet(CacheSet)
  BY LlcAssumption
<1>2. \A a : Disturbs(a) \subseteq CacheSet
  BY DEF Disturbs, CacheSet
<1>3. QED
  BY <1>1, <1>2, FS_Subset

-----------------------------------------------------------------------------
(* The rendezvous *)

\* t has met the other thread and is about to read its clock.
AtStart(t) == pc[t] = "start" /\ ipc[t] = Ready

\* t has read its clock.
Started(t) ==
  pc[t] \in {"offset", "wait", "touch", "publish", "probe", "record", "done",
             "spin"}

Blocked(t, op, ep) == ipc[t] # Ready /\ ipc[t].op = op /\ ipc[t].ep = ep

\* The statements of each thread, and where it can be blocked.
Statements ==
  /\ pc[Trojan] \in {"global", "sync", "start", "offset", "wait", "touch",
                     "publish", "spin"}
  /\ pc[Spy] \in {"search", "ready", "global", "sync", "start", "offset",
                  "wait", "probe", "record", "done", "spin"}
  /\ pc[Root] \in {"ready", "stamp", "tellTrojan", "tellSpy", "result",
                   "report", "spin"}
  /\ \/ ipc[Trojan] = Ready
     \/ pc[Trojan] = "sync" /\ Blocked(Trojan, "recv", t_ep)
     \/ pc[Trojan] = "start" /\ Blocked(Trojan, "send", syn_ep)
  /\ \/ ipc[Spy] = Ready
     \/ pc[Spy] = "global" /\ Blocked(Spy, "send", s_ep)
     \/ pc[Spy] = "sync" /\ Blocked(Spy, "recv", s_ep)
     \/ pc[Spy] = "start" /\ Blocked(Spy, "recv", syn_ep)
     \/ pc[Spy] = "spin" /\ Blocked(Spy, "send", s_ep)
  /\ \/ ipc[Root] = Ready
     \/ pc[Root] = "stamp" /\ Blocked(Root, "recv", s_ep)
     \/ pc[Root] = "tellSpy" /\ Blocked(Root, "send", t_ep)
     \/ pc[Root] = "result" /\ Blocked(Root, "send", s_ep)
     \/ pc[Root] = "report" /\ Blocked(Root, "recv", s_ep)

\* Where the root task is, as long as the spy has not finished: the two use
\* s_ep in both directions, and from its clock to its result the spy has the
\* core for itself.
RootWaits ==
  /\ pc[Spy] \in {"search", "ready"} =>
       \/ pc[Root] = "ready" /\ ipc[Root] = Ready
       \/ pc[Root] = "stamp" /\ ipc[Root] # Ready
  /\ pc[Spy] = "global" /\ ipc[Spy] # Ready =>
       pc[Root] = "ready" /\ ipc[Root] = Ready
  /\ pc[Spy] = "global" /\ ipc[Spy] = Ready =>
       \/ pc[Root] \in {"stamp", "tellTrojan"} /\ ipc[Root] = Ready
       \/ pc[Root] = "tellSpy"
       \/ pc[Root] = "result" /\ ipc[Root] # Ready
  /\ pc[Spy] = "sync" /\ ipc[Spy] # Ready =>
       \/ pc[Root] \in {"stamp", "tellTrojan"} /\ ipc[Root] = Ready
       \/ pc[Root] = "tellSpy"
  /\ pc[Spy] = "sync" /\ ipc[Spy] = Ready =>
       \/ pc[Root] = "result" /\ ipc[Root] = Ready
       \/ pc[Root] = "report" /\ ipc[Root] # Ready
  /\ pc[Spy] \in {"start", "offset", "wait", "probe", "record", "done"} =>
       pc[Root] = "report" /\ ipc[Root] # Ready
  /\ pc[Spy] = "spin" => ipc[Spy] = Ready /\ pc[Root] \in {"report", "spin"}
                        /\ ipc[Root] = Ready

\* Trojan and spy start together.
Together ==
  /\ AtStart(Trojan) \/ Started(Trojan) <=> AtStart(Spy) \/ Started(Spy)
  /\ ~(Blocked(Trojan, "send", syn_ep) /\ Blocked(Spy, "recv", syn_ep))

\* The loop indices.
Loops ==
  /\ ~Started(Trojan) => i[Trojan] = 0
  /\ ~Started(Spy) => i[Spy] = 0
  /\ pc[Trojan] \in {"offset", "wait", "touch", "publish"} => i[Trojan] < DataPoints
  /\ pc[Spy] \in {"offset", "wait", "probe", "record"} => i[Spy] < DataPoints
  /\ pc[Trojan] = "spin" => i[Trojan] = DataPoints
  /\ pc[Spy] \in {"done", "spin"} => i[Spy] = DataPoints

IpcState ==
  {Ready} \cup [op: {"send", "recv"}, ep: {t_ep, s_ep, syn_ep}, val: Nat]

Statement ==
  {"search", "ready", "global", "sync", "start", "offset", "wait", "touch",
   "publish", "probe", "record", "done", "stamp", "tellTrojan", "tellSpy",
   "result", "report", "spin"}

\* TypeOK without the bound on count.
Types ==
  /\ now \in Nat
  /\ lag \in [Thread -> 0..Latency]
  /\ pc \in [Thread -> Statement]
  /\ ipc \in [Thread -> IpcState]
  /\ mr0 \in [Thread -> Nat]
  /\ start \in [Thread -> Nat] /\ offset \in [Thread -> 0..(CcntRange - 1)]
  /\ i \in [Thread -> 0..DataPoints]

Control == Types /\ Statements /\ RootWaits /\ Together /\ Loops

LEMMA Threads ==
  /\ Thread = {Root, Trojan, Spy}
  /\ DataPoints \in Nat \ {0} /\ Latency \in Nat \ {0}
  /\ Warmups \in 0..DataPoints
BY LlcAssumption DEF Thread

\* A statement of t moves only t, and resets its lag.
LEMMA StepEffect ==
  ASSUME Types, NEW t \in Thread, NEW from, NEW to \in Statement, Step(t, from, to)
  PROVE  /\ pc[t] = from /\ ipc[t] = Ready
         /\ t = Spy => ipc[Root] # Ready
         /\ pc' \in [Thread -> Statement]
         /\ pc'[t] = to /\ \A u \in Thread \ {t} : pc'[u] = pc[u]
         /\ lag' \in [Thread -> 0..Latency]
         /\ lag'[t] = 0 /\ \A u \in Thread \ {t} : lag'[u] = lag[u]
         /\ now' = now /\ now' \in Nat
<1>1. /\ pc[t] = from /\ CanRun(t)
      /\ pc' = [pc EXCEPT ![t] = to]
      /\ lag' = [lag EXCEPT ![t] = 0]
      /\ now' = now
  BY DEF Step
<1>2. pc' \in [Thread -> Statement] /\ pc'[t] = to
      /\ \A u \in Thread \ {t} : pc'[u] = pc[u]
  BY <1>1 DEF Types
<1>3. lag' \in [Thread -> 0..Latency] /\ lag'[t] = 0
      /\ \A u \in Thread \ {t} : lag'[u] = lag[u]
  BY <1>1, Threads DEF Types
<1>4. ipc[t] = Ready /\ (t = Spy => ipc[Root] # Ready)
  BY <1>1 DEF CanRun
<1>5. QED
  BY <1>1, <1>2, <1>3, <1>4 DEF Types

LEMMA SendEffect ==
  ASSUME Types, NEW t \in Thread, NEW ep \in {t_ep, s_ep, syn_ep}, NEW v \in Nat,
         Send(t, ep, v)
  PROVE  /\ ipc' \in [Thread -> IpcState] /\ mr0' \in [Thread -> Nat]
         /\ \/ \E r \in Thread : /\ Blocked(r, "recv", ep)
                                 /\ ipc'[r] = Ready
                                 /\ \A u \in Thread \ {r} : ipc'[u] = ipc[u]
            \/ /\ \A r \in Thread : ~Blocked(r, "recv", ep)
               /\ Blocked(t, "send", ep)'
               /\ \A u \in Thread \ {t} : ipc'[u] = ipc[u]
<1>1. CASE Waiting("recv", ep) # {}
  <2>1. PICK r \in Waiting("recv", ep) : /\ ipc' = [ipc EXCEPT ![r] = Ready]
                                       /\ mr0' = [mr0 EXCEPT ![r] = v]
    BY <1>1 DEF Send
  <2>2. r \in Thread /\ Blocked(r, "recv", ep) /\ Ready \in IpcState
    BY DEF Waiting, IpcState, Blocked
  <2>3. QED
    BY <2>1, <2>2 DEF Types
<1>2. CASE Waiting("recv", ep) = {}
  <2> DEFINE m == [op |-> "send", ep |-> ep, val |-> v]
  <2>1. ipc' = [ipc EXCEPT ![t] = m] /\ mr0' = mr0
    BY <1>2 DEF Send
  <2>2. m \in IpcState /\ m # Ready /\ m.op = "send" /\ m.ep = ep
    <3>1. m \in [op: {"send", "recv"}, ep: {t_ep, s_ep, syn_ep}, val: Nat]
      OBVIOUS
    <3>2. m.op # Ready.op
      BY DEF Ready
    <3>3. QED
      BY <3>1, <3>2 DEF IpcState
  <2>3. \A r \in Thread : ~Blocked(r, "recv", ep)
    BY <1>2 DEF Waiting, Blocked
  <2> HIDE DEF m
  <2>4. ipc'[t] = m
    BY <2>1 DEF Types
  <2>5. QED
    BY <2>1, <2>2, <2>3, <2>4 DEF Types, Blocked
<1>3. QED
  BY <1>1, <1>2

LEMMA RecvEffect ==
  ASSUME Types, NEW t \in Thread, NEW ep \in {t_ep, s_ep, syn_ep}, Recv(t, ep)
  PROVE  /\ ipc' \in [Thread -> IpcState] /\ mr0' \in [Thread -> Nat]
         /\ \/ \E s \in Thread : /\ Blocked(s, "send", ep)
                                 /\ ipc'[s] = Ready
                                 /\ \A u \in Thread \ {s} : ipc'[u] = ipc[u]
            \/ /\ \A s \in Thread : ~Blocked(s, "send", ep)
               /\ Blocked(t, "recv", ep)'
               /\ \A u \in Thread \ {t} : ipc'[u] = ipc[u]
<1>1. CASE Waiting("send", ep) # {}
  <2>1. PICK s \in Waiting("send", ep) : /\ ipc' = [ipc EXCEPT ![s] = Ready]
                                       /\ mr0' = [mr0 EXCEPT ![t] = ipc[s].val]
    BY <1>1 DEF Recv
  <2>2. s \in Thread /\ Blocked(s, "send", ep) /\ Ready \in IpcState
    BY DEF Waiting, IpcState, Blocked
  <2>3. ipc[s].val \in Nat
    BY <2>2 DEF Types, IpcState, Blocked
  <2>4. QED
    BY <2>1, <2>2, <2>3 DEF Types
<1>2. CASE Waiting("send", ep) = {}
  <2> DEFINE m == [op |-> "recv", ep |-> ep, val |-> 0]
  <2>1. ipc' = [ipc EXCEPT ![t] = m] /\ mr0' = mr0
    BY <1>2 DEF Recv
  <2>2. m \in IpcState /\ m # Ready /\ m.op = "recv" /\ m.ep = ep
    <3>1. m \in [op: {"send", "recv"}, ep: {t_ep, s_ep, syn_ep}, val: Nat]
      OBVIOUS
    <3>2. m.op # Ready.op
      BY DEF Ready
    <3>3. QED
      BY <3>1, <3>2 DEF IpcState
  <2>3. \A s \in Thread : ~Blocked(s, "send", ep)
    BY <1>2 DEF Waiting, Blocked
  <2> HIDE DEF m
  <2>4. ipc'[t] = m
    BY <2>1 DEF Types
  <2>5. QED
    BY <2>1, <2>2, <2>3, <2>4 DEF Types, Blocked
<1>3. QED
  BY <1>1, <1>2

LEMMA OffsetType ==
  ASSUME NEW t \in Thread, i[t] \in Nat
  PROVE  ProbeOffset(t) \subseteq 0..(CcntRange - 1)
<1>1. /\ Period \in Nat /\ SpyOffset \in Nat /\ IntMax \in Nat /\ IntMax > 0
      /\ CcntRange \in Nat /\ CcntRange > 0
  BY LlcAssumption
<1> DEFINE x == (i[t] + 1) * Period
           extra == IF t = Spy THEN SpyOffset ELSE 0
<1>2. x \in Nat /\ extra \in Nat
  BY <1>1
<1>3. ProbeOffset(t) = {(p + extra) % CcntRange : p \in Products(x)}
  BY DEF ProbeOffset
<1> HIDE DEF x, extra
<1>4. Products(x) \subseteq Int
  BY <1>1, <1>2 DEF Products
<1>5. \A p \in Int : (p + extra) % CcntRange \in 0..(CcntRange - 1)
  BY <1>1, <1>2
<1>6. QED
  BY <1>3, <1>4, <1>5

LEMMA TrojanGlobalTimeEffect ==
  ASSUME Control, TrojanGlobalTime
  PROVE  /\ pc[Trojan] = "global" /\ ipc[Trojan] = Ready
         /\ pc'[Trojan] = "sync" /\ \A u \in Thread \ {Trojan} : pc'[u] = pc[u]
         /\ pc' \in [Thread -> Statement] /\ lag' \in [Thread -> 0..Latency]
         /\ lag'[Trojan] = 0 /\ \A u \in Thread \ {Trojan} : lag'[u] = lag[u]
         /\ now' = now /\ now' \in Nat
         /\ start' \in [Thread -> Nat]
         /\ start' = start
         /\ offset' = offset /\ i' = i
         /\ ipc' \in [Thread -> IpcState] /\ mr0' \in [Thread -> Nat]
         /\ \/ \E r \in Thread : /\ Blocked(r, "send", t_ep)
                                 /\ ipc'[r] = Ready
                                 /\ \A u \in Thread \ {r} : ipc'[u] = ipc[u]
            \/ /\ \A r \in Thread : ~Blocked(r, "send", t_ep)
               /\ Blocked(Trojan, "recv", t_ep)'
               /\ \A u \in Thread \ {Trojan} : ipc'[u] = ipc[u]
<1>1. Step(Trojan, "global", "sync")
  BY DEF TrojanGlobalTime
<1>2. Types
  BY DEF Control
<1>3. /\ start' \in [Thread -> Nat]
      /\ start' = start
      /\ offset' = offset /\ i' = i
      /\ ipc' \in [Thread -> IpcState] /\ mr0' \in [Thread -> Nat]
      /\ \/ \E r \in Thread : /\ Blocked(r, "send", t_ep)
                              /\ ipc'[r] = Ready
                              /\ \A u \in Thread \ {r} : ipc'[u] = ipc[u]
         \/ /\ \A r \in Thread : ~Blocked(r, "send", t_ep)
            /\ Blocked(Trojan, "recv", t_ep)'
            /\ \A u \in Thread \ {Trojan} : ipc'[u] = ipc[u]
  <2>1. Recv(Trojan, t_ep) /\ offset' = offset /\ i' = i
    BY DEF TrojanGlobalTime, timing
  <2>2. start' \in [Thread -> Nat] /\ start' = start
    BY <1>2, Threads DEF TrojanGlobalTime, timing, Types
  <2>3. QED
    BY <1>2, <2>1, <2>2, RecvEffect, Threads DEF Types
<1>4. QED
  BY <1>1, <1>2, <1>3, StepEffect, Threads DEF Statement

LEMMA TrojanGlobalTimeControl ==
  ASSUME Control, TrojanGlobalTime
  PROVE  Control'
<1> USE DEF Control
<1>1. Types'
  BY TrojanGlobalTimeEffect, Threads DEF Types
<1>2. Statements'
  BY TrojanGlobalTimeEffect, Distinct, Threads
     DEF Statements, RootWaits, Together, Blocked
<1>3. RootWaits'
  BY TrojanGlobalTimeEffect, Distinct, Threads
     DEF Statements, RootWaits, Together, Blocked
<1>4. Together'
  BY TrojanGlobalTimeEffect, Distinct, Threads
     DEF Statements, RootWaits, Together, AtStart, Started, Blocked
<1>5. Loops'
  BY TrojanGlobalTimeEffect, Distinct, Threads
     DEF Loops, Statements, Started, Types
<1>6. QED
  BY <1>1, <1>2, <1>3, <1>4, <1>5

LEMMA TrojanSyncEffect ==
  ASSUME Control, TrojanSync
  PROVE  /\ pc[Trojan] = "sync" /\ ipc[Trojan] = Ready
         /\ pc'[Trojan] = "start" /\ \A u \in Thread \ {Trojan} : pc'[u] = pc[u]
         /\ pc' \in [Thread -> Statement] /\ lag' \in [Thread -> 0..Latency]
         /\ lag'[Trojan] = 0 /\ \A u \in Thread \ {Trojan} : lag'[u] = lag[u]
         /\ now' = now /\ now' \in Nat
         /\ start' \in [Thread -> Nat]
         /\ \A u \in Thread \ {Trojan} : start'[u] = start[u]
         /\ offset' = offset /\ i' = i
         /\ ipc' \in [Thread -> IpcState] /\ mr0' \in [Thread -> Nat]
         /\ \/ \E r \in Thread : /\ Blocked(r, "recv", syn_ep)
                                 /\ ipc'[r] = Ready
                                 /\ \A u \in Thread \ {r} : ipc'[u] = ipc[u]
            \/ /\ \A r \in Thread : ~Blocked(r, "recv", syn_ep)
               /\ Blocked(Trojan, "send", syn_ep)'
               /\ \A u \in Thread \ {Trojan} : ipc'[u] = ipc[u]
<1>1. Step(Trojan, "sync", "start")
  BY DEF TrojanSync
<1>2. Types
  BY DEF Control
<1>3. /\ start' \in [Thread -> Nat]
      /\ \A u \in Thread \ {Trojan} : start'[u] = start[u]
      /\ offset' = offset /\ i' = i
      /\ ipc' \in [Thread -> IpcState] /\ mr0' \in [Thread -> Nat]
      /\ \/ \E r \in Thread : /\ Blocked(r, "recv", syn_ep)
                              /\ ipc'[r] = Ready
                              /\ \A u \in Thread \ {r} : ipc'[u] = ipc[u]
         \/ /\ \A r \in Thread : ~Blocked(r, "recv", syn_ep)
            /\ Blocked(Trojan, "send", syn_ep)'
            /\ \A u \in Thread \ {Trojan} : ipc'[u] = ipc[u]
  <2>1. Send(Trojan, syn_ep, 0) /\ offset' = offset /\ i' = i
    BY DEF TrojanSync, timing
  <2>2. start' \in [Thread -> Nat] /\ \A u \in Thread \ {Trojan} : start'[u] = start[u]
    BY <1>2, Threads DEF TrojanSync, timing, Types
  <2>3. QED
    BY <1>2, <2>1, <2>2, SendEffect, Threads DEF Types
<1>4. QED
  BY <1>1, <1>2, <1>3, StepEffect, Threads DEF Statement

LEMMA TrojanSyncControl ==
  ASSUME Control, TrojanSync
  PROVE  Control'
<1> USE DEF Control
<1>1. Types'
  BY TrojanSyncEffect, Threads DEF Types
<1>2. Statements'
  BY TrojanSyncEffect, Distinct, Threads
     DEF Statements, RootWaits, Together, Blocked
<1>3. RootWaits'
  BY TrojanSyncEffect, Distinct, Threads
     DEF Statements, RootWaits, Together, Blocked
<1>4. Together'
  BY TrojanSyncEffect, Distinct, Threads
     DEF Statements, RootWaits, Together, AtStart, Started, Blocked
<1>5. Loops'
  BY TrojanSyncEffect, Distinct, Threads DEF Loops, Statements, Started, Types
<1>6. QED
  BY <1>1, <1>2, <1>3, <1>4, <1>5

LEMMA StartClockEffect ==
  ASSUME Control, NEW t \in {Trojan, Spy}, StartClock(t)
  PROVE  /\ pc[t] = "start" /\ ipc[t] = Ready
         /\ t = Spy => ipc[Root] # Ready
         /\ pc'[t] = "offset" /\ \A u \in Thread \ {t} : pc'[u] = pc[u]
         /\ pc' \in [Thread -> Statement] /\ lag' \in [Thread -> 0..Latency]
         /\ lag'[t] = 0 /\ \A u \in Thread \ {t} : lag'[u] = lag[u]
         /\ now' = now /\ now' \in Nat
         /\ ipc' = ipc /\ mr0' = mr0
         /\ start' \in [Thread -> Nat] /\ start' = [start EXCEPT ![t] = now]
         /\ offset' \in [Thread -> 0..(CcntRange - 1)] /\ offset' = offset
         /\ i' = i
<1>1. Step(t, "start", "offset")
  BY DEF StartClock
<1>2. Types
  BY DEF Control
<1>3. /\ ipc' = ipc /\ mr0' = mr0
      /\ start' \in [Thread -> Nat] /\ start' = [start EXCEPT ![t] = now]
      /\ offset' \in [Thread -> 0..(CcntRange - 1)] /\ offset' = offset
      /\ i' = i
  BY <1>2, Threads DEF StartClock, Local, timing, Types, NextRound
<1>4. QED
  BY <1>1, <1>2, <1>3, StepEffect, Threads DEF Statement

LEMMA StartClockControl ==
  ASSUME Control, NEW t \in {Trojan, Spy}, StartClock(t)
  PROVE  Control'
<1> USE DEF Control
<1>1. Types'
  BY StartClockEffect, Threads DEF Types
<1>2. Statements'
  BY StartClockEffect, Distinct, Threads
     DEF Statements, RootWaits, Together, Blocked
<1>3. RootWaits'
  BY StartClockEffect, Distinct, Threads
     DEF Statements, RootWaits, Together, Blocked
<1>4. Together'
  BY StartClockEffect, Distinct, Threads
     DEF Statements, RootWaits, Together, AtStart, Started, Blocked
<1>5. Loops'
  BY StartClockEffect, Distinct, Threads DEF Loops, Statements, Started, Types
<1>6. QED
  BY <1>1, <1>2, <1>3, <1>4, <1>5

LEMMA EnterWaitingProbeEffect ==
  ASSUME Control, NEW t \in {Trojan, Spy}, EnterWaitingProbe(t)
  PROVE  /\ pc[t] = "offset" /\ ipc[t] = Ready
         /\ t = Spy => ipc[Root] # Ready
         /\ pc'[t] = "wait" /\ \A u \in Thread \ {t} : pc'[u] = pc[u]
         /\ pc' \in [Thread -> Statement] /\ lag' \in [Thread -> 0..Latency]
         /\ lag'[t] = 0 /\ \A u \in Thread \ {t} : lag'[u] = lag[u]
         /\ now' = now /\ now' \in Nat
         /\ ipc' = ipc /\ mr0' = mr0
         /\ start' \in [Thread -> Nat] /\ start' = start
         /\ offset' \in [Thread -> 0..(CcntRange - 1)]
         /\ \E o \in ProbeOffset(t) : offset'[t] = o
         /\ \A u \in Thread \ {t} : offset'[u] = offset[u]
         /\ i' = i
<1>1. Step(t, "offset", "wait")
  BY DEF EnterWaitingProbe
<1>2. Types
  BY DEF Control
<1>3. /\ ipc' = ipc /\ mr0' = mr0
      /\ start' \in [Thread -> Nat] /\ start' = start
      /\ offset' \in [Thread -> 0..(CcntRange - 1)]
      /\ \E o \in ProbeOffset(t) : offset'[t] = o
      /\ \A u \in Thread \ {t} : offset'[u] = offset[u]
      /\ i' = i
  <2>1. PICK o \in ProbeOffset(t) : offset' = [offset EXCEPT ![t] = o]
    BY DEF EnterWaitingProbe
  <2>2. o \in 0..(CcntRange - 1)
    <3>1. t \in Thread /\ i[t] \in Nat
      BY <1>2, Threads DEF Types
    <3>2. QED
      BY <2>1, <3>1, OffsetType
  <2>3. QED
    BY <1>2, <2>1, <2>2, Threads DEF EnterWaitingProbe, Local, Types
<1>4. QED
  BY <1>1, <1>2, <1>3, StepEffect, Threads DEF Statement

LEMMA EnterWaitingProbeControl ==
  ASSUME Control, NEW t \in {Trojan, Spy}, EnterWaitingProbe(t)
  PROVE  Control'
<1> USE DEF Control
<1>1. Types'
  BY EnterWaitingProbeEffect, Threads DEF Types
<1>2. Statements'
  BY EnterWaitingProbeEffect, Distinct, Threads
     DEF Statements, RootWaits, Together, Blocked
<1>3. RootWaits'
  BY EnterWaitingProbeEffect, Distinct, Threads
     DEF Statements, RootWaits, Together, Blocked
<1>4. Together'
  BY EnterWaitingProbeEffect, Distinct, Threads
     DEF Statements, RootWaits, Together, AtStart, Started, Blocked
<1>5. Loops'
  BY EnterWaitingProbeEffect, Distinct, Threads
     DEF Loops, Statements, Started, Types
<1>6. QED
  BY <1>1, <1>2, <1>3, <1>4, <1>5

LEMMA TrojanWaitEffect ==
  ASSUME Control, TrojanWait
  PROVE  /\ pc[Trojan] = "wait" /\ ipc[Trojan] = Ready
         /\ pc'[Trojan] = "touch" /\ \A u \in Thread \ {Trojan} : pc'[u] = pc[u]
         /\ pc' \in [Thread -> Statement] /\ lag' \in [Thread -> 0..Latency]
         /\ lag'[Trojan] = 0 /\ \A u \in Thread \ {Trojan} : lag'[u] = lag[u]
         /\ now' = now /\ now' \in Nat
         /\ ipc' = ipc /\ mr0' = mr0
         /\ start' \in [Thread -> Nat] /\ start' = start
         /\ offset' \in [Thread -> 0..(CcntRange - 1)] /\ offset' = offset
         /\ i' = i
<1>1. Step(Trojan, "wait", "touch")
  BY DEF TrojanWait
<1>2. Types
  BY DEF Control
<1>3. /\ ipc' = ipc /\ mr0' = mr0
      /\ start' \in [Thread -> Nat] /\ start' = start
      /\ offset' \in [Thread -> 0..(CcntRange - 1)] /\ offset' = offset
      /\ i' = i
  BY <1>2, Threads DEF TrojanWait, Local, timing, Types, NextRound
<1>4. QED
  BY <1>1, <1>2, <1>3, StepEffect, Threads DEF Statement

LEMMA TrojanWaitControl ==
  ASSUME Control, TrojanWait
  PROVE  Control'
<1> USE DEF Control
<1>1. Types'
  BY TrojanWaitEffect, Threads DEF Types
<1>2. Statements'
  BY TrojanWaitEffect, Distinct, Threads
     DEF Statements, RootWaits, Together, Blocked
<1>3. RootWaits'
  BY TrojanWaitEffect, Distinct, Threads
     DEF Statements, RootWaits, Together, Blocked
<1>4. Together'
  BY TrojanWaitEffect, Distinct, Threads
     DEF Statements, RootWaits, Together, AtStart, Started, Blocked
<1>5. Loops'
  BY TrojanWaitEffect, Distinct, Threads DEF Loops, Statements, Started, Types
<1>6. QED
  BY <1>1, <1>2, <1>3, <1>4, <1>5

LEMMA TrojanTouchEffect ==
  ASSUME Control, TrojanTouch
  PROVE  /\ pc[Trojan] = "touch" /\ ipc[Trojan] = Ready
         /\ pc'[Trojan] = "publish"
         /\ \A u \in Thread \ {Trojan} : pc'[u] = pc[u]
         /\ pc' \in [Thread -> Statement] /\ lag' \in [Thread -> 0..Latency]
         /\ lag'[Trojan] = 0 /\ \A u \in Thread \ {Trojan} : lag'[u] = lag[u]
         /\ now' = now /\ now' \in Nat
         /\ ipc' = ipc /\ mr0' = mr0
         /\ start' \in [Thread -> Nat] /\ start' = start
         /\ offset' \in [Thread -> 0..(CcntRange - 1)] /\ offset' = offset
         /\ i' = i
<1>1. Step(Trojan, "touch", "publish")
  BY DEF TrojanTouch
<1>2. Types
  BY DEF Control
<1>3. /\ ipc' = ipc /\ mr0' = mr0
      /\ start' \in [Thread -> Nat] /\ start' = start
      /\ offset' \in [Thread -> 0..(CcntRange - 1)] /\ offset' = offset
      /\ i' = i
  BY <1>2, Threads DEF TrojanTouch, Local, timing, Types, NextRound
<1>4. QED
  BY <1>1, <1>2, <1>3, StepEffect, Threads DEF Statement

LEMMA TrojanTouchControl ==
  ASSUME Control, TrojanTouch
  PROVE  Control'
<1> USE DEF Control
<1>1. Types'
  BY TrojanTouchEffect, Threads DEF Types
<1>2. Statements'
  BY TrojanTouchEffect, Distinct, Threads
     DEF Statements, RootWaits, Together, Blocked
<1>3. RootWaits'
  BY TrojanTouchEffect, Distinct, Threads
     DEF Statements, RootWaits, Together, Blocked
<1>4. Together'
  BY TrojanTouchEffect, Distinct, Threads
     DEF Statements, RootWaits, Together, AtStart, Started, Blocked
<1>5. Loops'
  BY TrojanTouchEffect, Distinct, Threads DEF Loops, Statements, Started, Types
<1>6. QED
  BY <1>1, <1>2, <1>3, <1>4, <1>5

LEMMA TrojanPublishEffect ==
  ASSUME Control, TrojanPublish
  PROVE  /\ pc[Trojan] = "publish" /\ ipc[Trojan] = Ready
         /\ pc'[Trojan] = After(Trojan, "spin")
         /\ \A u \in Thread \ {Trojan} : pc'[u] = pc[u]
         /\ pc' \in [Thread -> Statement] /\ lag' \in [Thread -> 0..Latency]
         /\ lag'[Trojan] = 0 /\ \A u \in Thread \ {Trojan} : lag'[u] = lag[u]
         /\ now' = now /\ now' \in Nat
         /\ ipc' = ipc /\ mr0' = mr0
         /\ start' \in [Thread -> Nat] /\ start' = start
         /\ offset' \in [Thread -> 0..(CcntRange - 1)] /\ offset' = offset
         /\ i' = [i EXCEPT ![Trojan] = @ + 1]
<1>1. Step(Trojan, "publish", After(Trojan, "spin"))
  BY DEF TrojanPublish
<1>2. Types
  BY DEF Control
<1>3. /\ ipc' = ipc /\ mr0' = mr0
      /\ start' \in [Thread -> Nat] /\ start' = start
      /\ offset' \in [Thread -> 0..(CcntRange - 1)] /\ offset' = offset
      /\ i' = [i EXCEPT ![Trojan] = @ + 1]
  BY <1>2, Threads DEF TrojanPublish, Local, timing, Types, NextRound
<1>4. QED
  BY <1>1, <1>2, <1>3, StepEffect, Threads DEF Statement, After

LEMMA TrojanPublishControl ==
  ASSUME Control, TrojanPublish
  PROVE  Control'
<1> USE DEF Control
<1>1. Types'
  BY TrojanPublishEffect, Threads DEF Types, Loops
<1>2. Statements'
  BY TrojanPublishEffect, Distinct, Threads
     DEF Statements, RootWaits, Together, Blocked, After
<1>3. RootWaits'
  BY TrojanPublishEffect, Distinct, Threads
     DEF Statements, RootWaits, Together, Blocked, After
<1>4. Together'
  BY TrojanPublishEffect, Distinct, Threads
     DEF Statements, RootWaits, Together, AtStart, Started, Blocked, After
<1>5. Loops'
  BY TrojanPublishEffect, Distinct, Threads
     DEF Loops, Statements, Started, Types, After
<1>6. QED
  BY <1>1, <1>2, <1>3, <1>4, <1>5

LEMMA SpySearchEffect ==
  ASSUME Control, SpySearch
  PROVE  /\ pc[Spy] = "search" /\ ipc[Spy] = Ready
         /\ ipc[Root] # Ready
         /\ pc'[Spy] = "ready" /\ \A u \in Thread \ {Spy} : pc'[u] = pc[u]
         /\ pc' \in [Thread -> Statement] /\ lag' \in [Thread -> 0..Latency]
         /\ lag'[Spy] = 0 /\ \A u \in Thread \ {Spy} : lag'[u] = lag[u]
         /\ now' = now /\ now' \in Nat
         /\ ipc' = ipc /\ mr0' = mr0
         /\ start' \in [Thread -> Nat] /\ start' = start
         /\ offset' \in [Thread -> 0..(CcntRange - 1)] /\ offset' = offset
         /\ i' = i
<1>1. Step(Spy, "search", "ready")
  BY DEF SpySearch
<1>2. Types
  BY DEF Control
<1>3. /\ ipc' = ipc /\ mr0' = mr0
      /\ start' \in [Thread -> Nat] /\ start' = start
      /\ offset' \in [Thread -> 0..(CcntRange - 1)] /\ offset' = offset
      /\ i' = i
  BY <1>2, Threads DEF SpySearch, Local, timing, Types, NextRound
<1>4. QED
  BY <1>1, <1>2, <1>3, StepEffect, Threads DEF Statement

LEMMA SpySearchControl ==
  ASSUME Control, SpySearch
  PROVE  Control'
<1> USE DEF Control
<1>1. Types'
  BY SpySearchEffect, Threads DEF Types
<1>2. Statements'
  BY SpySearchEffect, Distinct, Threads
     DEF Statements, RootWaits, Together, Blocked
<1>3. RootWaits'
  BY SpySearchEffect, Distinct, Threads
     DEF Statements, RootWaits, Together, Blocked
<1>4. Together'
  BY SpySearchEffect, Distinct, Threads
     DEF Statements, RootWaits, Together, AtStart, Started, Blocked
<1>5. Loops'
  BY SpySearchEffect, Distinct, Threads DEF Loops, Statements, Started, Types
<1>6. QED
  BY <1>1, <1>2, <1>3, <1>4, <1>5

LEMMA SpyReadyEffect ==
  ASSUME Control, SpyReady
  PROVE  /\ pc[Spy] = "ready" /\ ipc[Spy] = Ready
         /\ ipc[Root] # Ready
         /\ pc'[Spy] = "global" /\ \A u \in Thread \ {Spy} : pc'[u] = pc[u]
         /\ pc' \in [Thread -> Statement] /\ lag' \in [Thread -> 0..Latency]
         /\ lag'[Spy] = 0 /\ \A u \in Thread \ {Spy} : lag'[u] = lag[u]
         /\ now' = now /\ now' \in Nat
         /\ start' \in [Thread -> Nat]
         /\ start' = start
         /\ offset' = offset /\ i' = i
         /\ ipc' \in [Thread -> IpcState] /\ mr0' \in [Thread -> Nat]
         /\ \/ \E r \in Thread : /\ Blocked(r, "recv", s_ep)
                                 /\ ipc'[r] = Ready
                                 /\ \A u \in Thread \ {r} : ipc'[u] = ipc[u]
            \/ /\ \A r \in Thread : ~Blocked(r, "recv", s_ep)
               /\ Blocked(Spy, "send", s_ep)'
               /\ \A u \in Thread \ {Spy} : ipc'[u] = ipc[u]
<1>1. Step(Spy, "ready", "global")
  BY DEF SpyReady
<1>2. Types
  BY DEF Control
<1>3. /\ start' \in [Thread -> Nat]
      /\ start' = start
      /\ offset' = offset /\ i' = i
      /\ ipc' \in [Thread -> IpcState] /\ mr0' \in [Thread -> Nat]
      /\ \/ \E r \in Thread : /\ Blocked(r, "recv", s_ep)
                              /\ ipc'[r] = Ready
                              /\ \A u \in Thread \ {r} : ipc'[u] = ipc[u]
         \/ /\ \A r \in Thread : ~Blocked(r, "recv", s_ep)
            /\ Blocked(Spy, "send", s_ep)'
            /\ \A u \in Thread \ {Spy} : ipc'[u] = ipc[u]
  <2>1. Send(Spy, s_ep, 0) /\ offset' = offset /\ i' = i
    BY DEF SpyReady, timing
  <2>2. start' \in [Thread -> Nat] /\ start' = start
    BY <1>2, Threads DEF SpyReady, timing, Types
  <2>3. QED
    BY <1>2, <2>1, <2>2, SendEffect, Threads DEF Types
<1>4. QED
  BY <1>1, <1>2, <1>3, StepEffect, Threads DEF Statement

LEMMA SpyReadyControl ==
  ASSUME Control, SpyReady
  PROVE  Control'
<1> USE DEF Control
<1>1. Types'
  BY SpyReadyEffect, Threads DEF Types
<1>2. Statements'
  BY SpyReadyEffect, Distinct, Threads
     DEF Statements, RootWaits, Together, Blocked
<1>3. RootWaits'
  BY SpyReadyEffect, Distinct, Threads
     DEF Statements, RootWaits, Together, Blocked
<1>4. Together'
  BY SpyReadyEffect, Distinct, Threads
     DEF Statements, RootWaits, Together, AtStart, Started, Blocked
<1>5. Loops'
  BY SpyReadyEffect, Distinct, Threads DEF Loops, Statements, Started, Types
<1>6. QED
  BY <1>1, <1>2, <1>3, <1>4, <1>5

LEMMA SpyGlobalTimeEffect ==
  ASSUME Control, SpyGlobalTime
  PROVE  /\ pc[Spy] = "global" /\ ipc[Spy] = Ready
         /\ ipc[Root] # Ready
         /\ pc'[Spy] = "sync" /\ \A u \in Thread \ {Spy} : pc'[u] = pc[u]
         /\ pc' \in [Thread -> Statement] /\ lag' \in [Thread -> 0..Latency]
         /\ lag'[Spy] = 0 /\ \A u \in Thread \ {Spy} : lag'[u] = lag[u]
         /\ now' = now /\ now' \in Nat
         /\ start' \in [Thread -> Nat]
         /\ start' = start
         /\ offset' = offset /\ i' = i
         /\ ipc' \in [Thread -> IpcState] /\ mr0' \in [Thread -> Nat]
         /\ \/ \E r \in Thread : /\ Blocked(r, "send", s_ep)
                                 /\ ipc'[r] = Ready
                                 /\ \A u \in Thread \ {r} : ipc'[u] = ipc[u]
            \/ /\ \A r \in Thread : ~Blocked(r, "send", s_ep)
               /\ Blocked(Spy, "recv", s_ep)'
               /\ \A u \in Thread \ {Spy} : ipc'[u] = ipc[u]
<1>1. Step(Spy, "global", "sync")
  BY DEF SpyGlobalTime
<1>2. Types
  BY DEF Control
<1>3. /\ start' \in [Thread -> Nat]
      /\ start' = start
      /\ offset' = offset /\ i' = i
      /\ ipc' \in [Thread -> IpcState] /\ mr0' \in [Thread -> Nat]
      /\ \/ \E r \in Thread : /\ Blocked(r, "send", s_ep)
                              /\ ipc'[r] = Ready
                              /\ \A u \in Thread \ {r} : ipc'[u] = ipc[u]
         \/ /\ \A r \in Thread : ~Blocked(r, "send", s_ep)
            /\ Blocked(Spy, "recv", s_ep)'
            /\ \A u \in Thread \ {Spy} : ipc'[u] = ipc[u]
  <2>1. Recv(Spy, s_ep) /\ offset' = offset /\ i' = i
    BY DEF SpyGlobalTime, timing
  <2>2. start' \in [Thread -> Nat] /\ start' = start
    BY <1>2, Threads DEF SpyGlobalTime, timing, Types
  <2>3. QED
    BY <1>2, <2>1, <2>2, RecvEffect, Threads DEF Types
<1>4. QED
  BY <1>1, <1>2, <1>3, StepEffect, Threads DEF Statement

LEMMA SpyGlobalTimeControl ==
  ASSUME Control, SpyGlobalTime
  PROVE  Control'
<1> USE DEF Control
<1>1. Types'
  BY SpyGlobalTimeEffect, Threads DEF Types
<1>2. Statements'
  BY SpyGlobalTimeEffect, Distinct, Threads
     DEF Statements, RootWaits, Together, Blocked
<1>3. RootWaits'
  BY SpyGlobalTimeEffect, Distinct, Threads
     DEF Statements, RootWaits, Together, Blocked
<1>4. Together'
  BY SpyGlobalTimeEffect, Distinct, Threads
     DEF Statements, RootWaits, Together, AtStart, Started, Blocked
<1>5. Loops'
  BY SpyGlobalTimeEffect, Distinct, Threads
     DEF Loops, Statements, Started, Types
<1>6. QED
  BY <1>1, <1>2, <1>3, <1>4, <1>5

LEMMA SpySyncEffect ==
  ASSUME Control, SpySync
  PROVE  /\ pc[Spy] = "sync" /\ ipc[Spy] = Ready
         /\ ipc[Root] # Ready
         /\ pc'[Spy] = "start" /\ \A u \in Thread \ {Spy} : pc'[u] = pc[u]
         /\ pc' \in [Thread -> Statement] /\ lag' \in [Thread -> 0..Latency]
         /\ lag'[Spy] = 0 /\ \A u \in Thread \ {Spy} : lag'[u] = lag[u]
         /\ now' = now /\ now' \in Nat
         /\ start' \in [Thread -> Nat]
         /\ \A u \in Thread \ {Spy} : start'[u] = start[u]
         /\ offset' = offset /\ i' = i
         /\ ipc' \in [Thread -> IpcState] /\ mr0' \in [Thread -> Nat]
         /\ \/ \E r \in Thread : /\ Blocked(r, "send", syn_ep)
                                 /\ ipc'[r] = Ready
                                 /\ \A u \in Thread \ {r} : ipc'[u] = ipc[u]
            \/ /\ \A r \in Thread : ~Blocked(r, "send", syn_ep)
               /\ Blocked(Spy, "recv", syn_ep)'
               /\ \A u \in Thread \ {Spy} : ipc'[u] = ipc[u]
<1>1. Step(Spy, "sync", "start")
  BY DEF SpySync
<1>2. Types
  BY DEF Control
<1>3. /\ start' \in [Thread -> Nat]
      /\ \A u \in Thread \ {Spy} : start'[u] = start[u]
      /\ offset' = offset /\ i' = i
      /\ ipc' \in [Thread -> IpcState] /\ mr0' \in [Thread -> Nat]
      /\ \/ \E r \in Thread : /\ Blocked(r, "send", syn_ep)
                              /\ ipc'[r] = Ready
                              /\ \A u \in Thread \ {r} : ipc'[u] = ipc[u]
         \/ /\ \A r \in Thread : ~Blocked(r, "send", syn_ep)
            /\ Blocked(Spy, "recv", syn_ep)'
            /\ \A u \in Thread \ {Spy} : ipc'[u] = ipc[u]
  <2>1. Recv(Spy, syn_ep) /\ offset' = offset /\ i' = i
    BY DEF SpySync, timing
  <2>2. start' \in [Thread -> Nat] /\ \A u \in Thread \ {Spy} : start'[u] = start[u]
    BY <1>2, Threads DEF SpySync, timing, Types
  <2>3. QED
    BY <1>2, <2>1, <2>2, RecvEffect, Threads DEF Types
<1>4. QED
  BY <1>1, <1>2, <1>3, StepEffect, Threads DEF Statement

LEMMA SpySyncControl ==
  ASSUME Control, SpySync
  PROVE  Control'
<1> USE DEF Control
<1>1. Types'
  BY SpySyncEffect, Threads DEF Types
<1>2. Statements'
  BY SpySyncEffect, Distinct, Threads
     DEF Statements, RootWaits, Together, Blocked
<1>3. RootWaits'
  BY SpySyncEffect, Distinct, Threads
     DEF Statements, RootWaits, Together, Blocked
<1>4. Together'
  BY SpySyncEffect, Distinct, Threads
     DEF Statements, RootWaits, Together, AtStart, Started, Blocked
<1>5. Loops'
  BY SpySyncEffect, Distinct, Threads DEF Loops, Statements, Started, Types
<1>6. QED
  BY <1>1, <1>2, <1>3, <1>4, <1>5

LEMMA SpyWaitEffect ==
  ASSUME Control, SpyWait
  PROVE  /\ pc[Spy] = "wait" /\ ipc[Spy] = Ready
         /\ ipc[Root] # Ready
         /\ pc'[Spy] = "probe" /\ \A u \in Thread \ {Spy} : pc'[u] = pc[u]
         /\ pc' \in [Thread -> Statement] /\ lag' \in [Thread -> 0..Latency]
         /\ lag'[Spy] = 0 /\ \A u \in Thread \ {Spy} : lag'[u] = lag[u]
         /\ now' = now /\ now' \in Nat
         /\ ipc' = ipc /\ mr0' = mr0
         /\ start' \in [Thread -> Nat] /\ start' = start
         /\ offset' \in [Thread -> 0..(CcntRange - 1)] /\ offset' = offset
         /\ i' = i
<1>1. Step(Spy, "wait", "probe")
  BY DEF SpyWait
<1>2. Types
  BY DEF Control
<1>3. /\ ipc' = ipc /\ mr0' = mr0
      /\ start' \in [Thread -> Nat] /\ start' = start
      /\ offset' \in [Thread -> 0..(CcntRange - 1)] /\ offset' = offset
      /\ i' = i
  BY <1>2, Threads DEF SpyWait, Local, timing, Types, NextRound
<1>4. QED
  BY <1>1, <1>2, <1>3, StepEffect, Threads DEF Statement

LEMMA SpyWaitControl ==
  ASSUME Control, SpyWait
  PROVE  Control'
<1> USE DEF Control
<1>1. Types'
  BY SpyWaitEffect, Threads DEF Types
<1>2. Statements'
  BY SpyWaitEffect, Distinct, Threads
     DEF Statements, RootWaits, Together, Blocked
<1>3. RootWaits'
  BY SpyWaitEffect, Distinct, Threads
     DEF Statements, RootWaits, Together, Blocked
<1>4. Together'
  BY SpyWaitEffect, Distinct, Threads
     DEF Statements, RootWaits, Together, AtStart, Started, Blocked
<1>5. Loops'
  BY SpyWaitEffect, Distinct, Threads DEF Loops, Statements, Started, Types
<1>6. QED
  BY <1>1, <1>2, <1>3, <1>4, <1>5

LEMMA SpyProbeEffect ==
  ASSUME Control, SpyProbe
  PROVE  /\ pc[Spy] = "probe" /\ ipc[Spy] = Ready
         /\ ipc[Root] # Ready
         /\ pc'[Spy] = (IF Cardinality(lists) = 1 THEN "record" ELSE "probe")
         /\ \A u \in Thread \ {Spy} : pc'[u] = pc[u]
         /\ pc' \in [Thread -> Statement] /\ lag' \in [Thread -> 0..Latency]
         /\ lag'[Spy] = 0 /\ \A u \in Thread \ {Spy} : lag'[u] = lag[u]
         /\ now' = now /\ now' \in Nat
         /\ ipc' = ipc /\ mr0' = mr0
         /\ start' \in [Thread -> Nat] /\ start' = start
         /\ offset' \in [Thread -> 0..(CcntRange - 1)] /\ offset' = offset
         /\ i' = i
<1>1. Step(Spy, "probe", (IF Cardinality(lists) = 1 THEN "record" ELSE "probe"))
  BY DEF SpyProbe
<1>2. Types
  BY DEF Control
<1>3. /\ ipc' = ipc /\ mr0' = mr0
      /\ start' \in [Thread -> Nat] /\ start' = start
      /\ offset' \in [Thread -> 0..(CcntRange - 1)] /\ offset' = offset
      /\ i' = i
  BY <1>2, Threads DEF SpyProbe, Local, timing, Types, NextRound
<1>4. QED
  BY <1>1, <1>2, <1>3, StepEffect, Threads DEF Statement

LEMMA SpyProbeControl ==
  ASSUME Control, SpyProbe
  PROVE  Control'
<1> USE DEF Control
<1>1. Types'
  BY SpyProbeEffect, Threads DEF Types
<1>2. Statements'
  BY SpyProbeEffect, Distinct, Threads
     DEF Statements, RootWaits, Together, Blocked
<1>3. RootWaits'
  BY SpyProbeEffect, Distinct, Threads
     DEF Statements, RootWaits, Together, Blocked
<1>4. Together'
  BY SpyProbeEffect, Distinct, Threads
     DEF Statements, RootWaits, Together, AtStart, Started, Blocked
<1>5. Loops'
  BY SpyProbeEffect, Distinct, Threads DEF Loops, Statements, Started, Types
<1>6. QED
  BY <1>1, <1>2, <1>3, <1>4, <1>5

LEMMA SpyRecordEffect ==
  ASSUME Control, SpyRecord
  PROVE  /\ pc[Spy] = "record" /\ ipc[Spy] = Ready
         /\ ipc[Root] # Ready
         /\ pc'[Spy] = After(Spy, "done")
         /\ \A u \in Thread \ {Spy} : pc'[u] = pc[u]
         /\ pc' \in [Thread -> Statement] /\ lag' \in [Thread -> 0..Latency]
         /\ lag'[Spy] = 0 /\ \A u \in Thread \ {Spy} : lag'[u] = lag[u]
         /\ now' = now /\ now' \in Nat
         /\ ipc' = ipc /\ mr0' = mr0
         /\ start' \in [Thread -> Nat] /\ start' = start
         /\ offset' \in [Thread -> 0..(CcntRange - 1)] /\ offset' = offset
         /\ i' = [i EXCEPT ![Spy] = @ + 1]
<1>1. Step(Spy, "record", After(Spy, "done"))
  BY DEF SpyRecord
<1>2. Types
  BY DEF Control
<1>3. /\ ipc' = ipc /\ mr0' = mr0
      /\ start' \in [Thread -> Nat] /\ start' = start
      /\ offset' \in [Thread -> 0..(CcntRange - 1)] /\ offset' = offset
      /\ i' = [i EXCEPT ![Spy] = @ + 1]
  BY <1>2, Threads DEF SpyRecord, Local, timing, Types, NextRound
<1>4. QED
  BY <1>1, <1>2, <1>3, StepEffect, Threads DEF Statement, After

LEMMA SpyRecordControl ==
  ASSUME Control, SpyRecord
  PROVE  Control'
<1> USE DEF Control
<1>1. Types'
  BY SpyRecordEffect, Threads DEF Types, Loops
<1>2. Statements'
  BY SpyRecordEffect, Distinct, Threads
     DEF Statements, RootWaits, Together, Blocked, After
<1>3. RootWaits'
  BY SpyRecordEffect, Distinct, Threads
     DEF Statements, RootWaits, Together, Blocked, After
<1>4. Together'
  BY SpyRecordEffect, Distinct, Threads
     DEF Statements, RootWaits, Together, AtStart, Started, Blocked, After
<1>5. Loops'
  BY SpyRecordEffect, Distinct, Threads
     DEF Loops, Statements, Started, Types, After
<1>6. QED
  BY <1>1, <1>2, <1>3, <1>4, <1>5

LEMMA SpyDoneEffect ==
  ASSUME Control, SpyDone
  PROVE  /\ pc[Spy] = "done" /\ ipc[Spy] = Ready
         /\ ipc[Root] # Ready
         /\ pc'[Spy] = "spin" /\ \A u \in Thread \ {Spy} : pc'[u] = pc[u]
         /\ pc' \in [Thread -> Statement] /\ lag' \in [Thread -> 0..Latency]
         /\ lag'[Spy] = 0 /\ \A u \in Thread \ {Spy} : lag'[u] = lag[u]
         /\ now' = now /\ now' \in Nat
         /\ start' \in [Thread -> Nat]
         /\ start' = start
         /\ offset' = offset /\ i' = i
         /\ ipc' \in [Thread -> IpcState] /\ mr0' \in [Thread -> Nat]
         /\ \/ \E r \in Thread : /\ Blocked(r, "recv", s_ep)
                                 /\ ipc'[r] = Ready
                                 /\ \A u \in Thread \ {r} : ipc'[u] = ipc[u]
            \/ /\ \A r \in Thread : ~Blocked(r, "recv", s_ep)
               /\ Blocked(Spy, "send", s_ep)'
               /\ \A u \in Thread \ {Spy} : ipc'[u] = ipc[u]
<1>1. Step(Spy, "done", "spin")
  BY DEF SpyDone
<1>2. Types
  BY DEF Control
<1>3. /\ start' \in [Thread -> Nat]
      /\ start' = start
      /\ offset' = offset /\ i' = i
      /\ ipc' \in [Thread -> IpcState] /\ mr0' \in [Thread -> Nat]
      /\ \/ \E r \in Thread : /\ Blocked(r, "recv", s_ep)
                              /\ ipc'[r] = Ready
                              /\ \A u \in Thread \ {r} : ipc'[u] = ipc[u]
         \/ /\ \A r \in Thread : ~Blocked(r, "recv", s_ep)
            /\ Blocked(Spy, "send", s_ep)'
            /\ \A u \in Thread \ {Spy} : ipc'[u] = ipc[u]
  <2>1. Send(Spy, s_ep, 0) /\ offset' = offset /\ i' = i
    BY DEF SpyDone, timing
  <2>2. start' \in [Thread -> Nat] /\ start' = start
    BY <1>2, Threads DEF SpyDone, timing, Types
  <2>3. QED
    BY <1>2, <2>1, <2>2, SendEffect, Threads DEF Types
<1>4. QED
  BY <1>1, <1>2, <1>3, StepEffect, Threads DEF Statement

LEMMA SpyDoneControl ==
  ASSUME Control, SpyDone
  PROVE  Control'
<1> USE DEF Control
<1>1. Types'
  BY SpyDoneEffect, Threads DEF Types
<1>2. Statements'
  BY SpyDoneEffect, Distinct, Threads
     DEF Statements, RootWaits, Together, Blocked
<1>3. RootWaits'
  BY SpyDoneEffect, Distinct, Threads
     DEF Statements, RootWaits, Together, Blocked
<1>4. Together'
  BY SpyDoneEffect, Distinct, Threads
     DEF Statements, RootWaits, Together, AtStart, Started, Blocked
<1>5. Loops'
  BY SpyDoneEffect, Distinct, Threads DEF Loops, Statements, Started, Types
<1>6. QED
  BY <1>1, <1>2, <1>3, <1>4, <1>5

LEMMA RootAwaitReadyEffect ==
  ASSUME Control, RootAwaitReady
  PROVE  /\ pc[Root] = "ready" /\ ipc[Root] = Ready
         /\ pc'[Root] = "stamp" /\ \A u \in Thread \ {Root} : pc'[u] = pc[u]
         /\ pc' \in [Thread -> Statement] /\ lag' \in [Thread -> 0..Latency]
         /\ lag'[Root] = 0 /\ \A u \in Thread \ {Root} : lag'[u] = lag[u]
         /\ now' = now /\ now' \in Nat
         /\ start' \in [Thread -> Nat]
         /\ start' = start
         /\ offset' = offset /\ i' = i
         /\ ipc' \in [Thread -> IpcState] /\ mr0' \in [Thread -> Nat]
         /\ \/ \E r \in Thread : /\ Blocked(r, "send", s_ep)
                                 /\ ipc'[r] = Ready
                                 /\ \A u \in Thread \ {r} : ipc'[u] = ipc[u]
            \/ /\ \A r \in Thread : ~Blocked(r, "send", s_ep)
               /\ Blocked(Root, "recv", s_ep)'
               /\ \A u \in Thread \ {Root} : ipc'[u] = ipc[u]
<1>1. Step(Root, "ready", "stamp")
  BY DEF RootAwaitReady
<1>2. Types
  BY DEF Control
<1>3. /\ start' \in [Thread -> Nat]
      /\ start' = start
      /\ offset' = offset /\ i' = i
      /\ ipc' \in [Thread -> IpcState] /\ mr0' \in [Thread -> Nat]
      /\ \/ \E r \in Thread : /\ Blocked(r, "send", s_ep)
                              /\ ipc'[r] = Ready
                              /\ \A u \in Thread \ {r} : ipc'[u] = ipc[u]
         \/ /\ \A r \in Thread : ~Blocked(r, "send", s_ep)
            /\ Blocked(Root, "recv", s_ep)'
            /\ \A u \in Thread \ {Root} : ipc'[u] = ipc[u]
  <2>1. Recv(Root, s_ep) /\ offset' = offset /\ i' = i
    BY DEF RootAwaitReady, timing
  <2>2. start' \in [Thread -> Nat] /\ start' = start
    BY <1>2, Threads DEF RootAwaitReady, timing, Types
  <2>3. QED
    BY <1>2, <2>1, <2>2, RecvEffect, Threads DEF Types
<1>4. QED
  BY <1>1, <1>2, <1>3, StepEffect, Threads DEF Statement

LEMMA RootAwaitReadyControl ==
  ASSUME Control, RootAwaitReady
  PROVE  Control'
<1> USE DEF Control
<1>1. Types'
  BY RootAwaitReadyEffect, Threads DEF Types
<1>2. Statements'
  BY RootAwaitReadyEffect, Distinct, Threads
     DEF Statements, RootWaits, Together, Blocked
<1>3. RootWaits'
  BY RootAwaitReadyEffect, Distinct, Threads
     DEF Statements, RootWaits, Together, Blocked
<1>4. Together'
  BY RootAwaitReadyEffect, Distinct, Threads
     DEF Statements, RootWaits, Together, AtStart, Started, Blocked
<1>5. Loops'
  BY RootAwaitReadyEffect, Distinct, Threads
     DEF Loops, Statements, Started, Types
<1>6. QED
  BY <1>1, <1>2, <1>3, <1>4, <1>5

LEMMA RootStampEffect ==
  ASSUME Control, RootStamp
  PROVE  /\ pc[Root] = "stamp" /\ ipc[Root] = Ready
         /\ pc'[Root] = "tellTrojan"
         /\ \A u \in Thread \ {Root} : pc'[u] = pc[u]
         /\ pc' \in [Thread -> Statement] /\ lag' \in [Thread -> 0..Latency]
         /\ lag'[Root] = 0 /\ \A u \in Thread \ {Root} : lag'[u] = lag[u]
         /\ now' = now /\ now' \in Nat
         /\ ipc' = ipc /\ mr0' = mr0
         /\ start' \in [Thread -> Nat]
         /\ \A u \in Thread \ {Root} : start'[u] = start[u]
         /\ offset' \in [Thread -> 0..(CcntRange - 1)] /\ offset' = offset
         /\ i' = i
<1>1. Step(Root, "stamp", "tellTrojan")
  BY DEF RootStamp
<1>2. Types
  BY DEF Control
<1>3. /\ ipc' = ipc /\ mr0' = mr0
      /\ start' \in [Thread -> Nat]
      /\ \A u \in Thread \ {Root} : start'[u] = start[u]
      /\ offset' \in [Thread -> 0..(CcntRange - 1)] /\ offset' = offset
      /\ i' = i
  BY <1>2, Threads DEF RootStamp, Local, timing, Types, NextRound
<1>4. QED
  BY <1>1, <1>2, <1>3, StepEffect, Threads DEF Statement

LEMMA RootStampControl ==
  ASSUME Control, RootStamp
  PROVE  Control'
<1> USE DEF Control
<1>1. Types'
  BY RootStampEffect, Threads DEF Types
<1>2. Statements'
  BY RootStampEffect, Distinct, Threads
     DEF Statements, RootWaits, Together, Blocked
<1>3. RootWaits'
  BY RootStampEffect, Distinct, Threads
     DEF Statements, RootWaits, Together, Blocked
<1>4. Together'
  BY RootStampEffect, Distinct, Threads
     DEF Statements, RootWaits, Together, AtStart, Started, Blocked
<1>5. Loops'
  BY RootStampEffect, Distinct, Threads DEF Loops, Statements, Started, Types
<1>6. QED
  BY <1>1, <1>2, <1>3, <1>4, <1>5

LEMMA RootTellTrojanEffect ==
  ASSUME Control, RootTellTrojan
  PROVE  /\ pc[Root] = "tellTrojan" /\ ipc[Root] = Ready
         /\ pc'[Root] = "tellSpy" /\ \A u \in Thread \ {Root} : pc'[u] = pc[u]
         /\ pc' \in [Thread -> Statement] /\ lag' \in [Thread -> 0..Latency]
         /\ lag'[Root] = 0 /\ \A u \in Thread \ {Root} : lag'[u] = lag[u]
         /\ now' = now /\ now' \in Nat
         /\ start' \in [Thread -> Nat]
         /\ start' = start
         /\ offset' = offset /\ i' = i
         /\ ipc' \in [Thread -> IpcState] /\ mr0' \in [Thread -> Nat]
         /\ \/ \E r \in Thread : /\ Blocked(r, "recv", t_ep)
                                 /\ ipc'[r] = Ready
                                 /\ \A u \in Thread \ {r} : ipc'[u] = ipc[u]
            \/ /\ \A r \in Thread : ~Blocked(r, "recv", t_ep)
               /\ Blocked(Root, "send", t_ep)'
               /\ \A u \in Thread \ {Root} : ipc'[u] = ipc[u]
<1>1. Step(Root, "tellTrojan", "tellSpy")
  BY DEF RootTellTrojan
<1>2. Types
  BY DEF Control
<1>3. /\ start' \in [Thread -> Nat]
      /\ start' = start
      /\ offset' = offset /\ i' = i
      /\ ipc' \in [Thread -> IpcState] /\ mr0' \in [Thread -> Nat]
      /\ \/ \E r \in Thread : /\ Blocked(r, "recv", t_ep)
                              /\ ipc'[r] = Ready
                              /\ \A u \in Thread \ {r} : ipc'[u] = ipc[u]
         \/ /\ \A r \in Thread : ~Blocked(r, "recv", t_ep)
            /\ Blocked(Root, "send", t_ep)'
            /\ \A u \in Thread \ {Root} : ipc'[u] = ipc[u]
  <2>1. Send(Root, t_ep, start[Root]) /\ offset' = offset /\ i' = i
    BY DEF RootTellTrojan, timing
  <2>2. start' \in [Thread -> Nat] /\ start' = start
    BY <1>2, Threads DEF RootTellTrojan, timing, Types
  <2>3. QED
    BY <1>2, <2>1, <2>2, SendEffect, Threads DEF Types
<1>4. QED
  BY <1>1, <1>2, <1>3, StepEffect, Threads DEF Statement

LEMMA RootTellTrojanControl ==
  ASSUME Control, RootTellTrojan
  PROVE  Control'
<1> USE DEF Control
<1>1. Types'
  BY RootTellTrojanEffect, Threads DEF Types
<1>2. Statements'
  BY RootTellTrojanEffect, Distinct, Threads
     DEF Statements, RootWaits, Together, Blocked
<1>3. RootWaits'
  BY RootTellTrojanEffect, Distinct, Threads
     DEF Statements, RootWaits, Together, Blocked
<1>4. Together'
  BY RootTellTrojanEffect, Distinct, Threads
     DEF Statements, RootWaits, Together, AtStart, Started, Blocked
<1>5. Loops'
  BY RootTellTrojanEffect, Distinct, Threads
     DEF Loops, Statements, Started, Types
<1>6. QED
  BY <1>1, <1>2, <1>3, <1>4, <1>5

LEMMA RootTellSpyEffect ==
  ASSUME Control, RootTellSpy
  PROVE  /\ pc[Root] = "tellSpy" /\ ipc[Root] = Ready
         /\ pc'[Root] = "result" /\ \A u \in Thread \ {Root} : pc'[u] = pc[u]
         /\ pc' \in [Thread -> Statement] /\ lag' \in [Thread -> 0..Latency]
         /\ lag'[Root] = 0 /\ \A u \in Thread \ {Root} : lag'[u] = lag[u]
         /\ now' = now /\ now' \in Nat
         /\ start' \in [Thread -> Nat]
         /\ start' = start
         /\ offset' = offset /\ i' = i
         /\ ipc' \in [Thread -> IpcState] /\ mr0' \in [Thread -> Nat]
         /\ \/ \E r \in Thread : /\ Blocked(r, "recv", s_ep)
                                 /\ ipc'[r] = Ready
                                 /\ \A u \in Thread \ {r} : ipc'[u] = ipc[u]
            \/ /\ \A r \in Thread : ~Blocked(r, "recv", s_ep)
               /\ Blocked(Root, "send", s_ep)'
               /\ \A u \in Thread \ {Root} : ipc'[u] = ipc[u]
<1>1. Step(Root, "tellSpy", "result")
  BY DEF RootTellSpy
<1>2. Types
  BY DEF Control
<1>3. /\ start' \in [Thread -> Nat]
      /\ start' = start
      /\ offset' = offset /\ i' = i
      /\ ipc' \in [Thread -> IpcState] /\ mr0' \in [Thread -> Nat]
      /\ \/ \E r \in Thread : /\ Blocked(r, "recv", s_ep)
                              /\ ipc'[r] = Ready
                              /\ \A u \in Thread \ {r} : ipc'[u] = ipc[u]
         \/ /\ \A r \in Thread : ~Blocked(r, "recv", s_ep)
            /\ Blocked(Root, "send", s_ep)'
            /\ \A u \in Thread \ {Root} : ipc'[u] = ipc[u]
  <2>1. Send(Root, s_ep, start[Root]) /\ offset' = offset /\ i' = i
    BY DEF RootTellSpy, timing
  <2>2. start' \in [Thread -> Nat] /\ start' = start
    BY <1>2, Threads DEF RootTellSpy, timing, Types
  <2>3. QED
    BY <1>2, <2>1, <2>2, SendEffect, Threads DEF Types
<1>4. QED
  BY <1>1, <1>2, <1>3, StepEffect, Threads DEF Statement

LEMMA RootTellSpyControl ==
  ASSUME Control, RootTellSpy
  PROVE  Control'
<1> USE DEF Control
<1>1. Types'
  BY RootTellSpyEffect, Threads DEF Types
<1>2. Statements'
  BY RootTellSpyEffect, Distinct, Threads
     DEF Statements, RootWaits, Together, Blocked
<1>3. RootWaits'
  BY RootTellSpyEffect, Distinct, Threads
     DEF Statements, RootWaits, Together, Blocked
<1>4. Together'
  BY RootTellSpyEffect, Distinct, Threads
     DEF Statements, RootWaits, Together, AtStart, Started, Blocked
<1>5. Loops'
  BY RootTellSpyEffect, Distinct, Threads DEF Loops, Statements, Started, Types
<1>6. QED
  BY <1>1, <1>2, <1>3, <1>4, <1>5

LEMMA RootAwaitResultEffect ==
  ASSUME Control, RootAwaitResult
  PROVE  /\ pc[Root] = "result" /\ ipc[Root] = Ready
         /\ pc'[Root] = "report" /\ \A u \in Thread \ {Root} : pc'[u] = pc[u]
         /\ pc' \in [Thread -> Statement] /\ lag' \in [Thread -> 0..Latency]
         /\ lag'[Root] = 0 /\ \A u \in Thread \ {Root} : lag'[u] = lag[u]
         /\ now' = now /\ now' \in Nat
         /\ start' \in [Thread -> Nat]
         /\ start' = start
         /\ offset' = offset /\ i' = i
         /\ ipc' \in [Thread -> IpcState] /\ mr0' \in [Thread -> Nat]
         /\ \/ \E r \in Thread : /\ Blocked(r, "send", s_ep)
                                 /\ ipc'[r] = Ready
                                 /\ \A u \in Thread \ {r} : ipc'[u] = ipc[u]
            \/ /\ \A r \in Thread : ~Blocked(r, "send", s_ep)
               /\ Blocked(Root, "recv", s_ep)'
               /\ \A u \in Thread \ {Root} : ipc'[u] = ipc[u]
<1>1. Step(Root, "result", "report")
  BY DEF RootAwaitResult
<1>2. Types
  BY DEF Control
<1>3. /\ start' \in [Thread -> Nat]
      /\ start' = start
      /\ offset' = offset /\ i' = i
      /\ ipc' \in [Thread -> IpcState] /\ mr0' \in [Thread -> Nat]
      /\ \/ \E r \in Thread : /\ Blocked(r, "send", s_ep)
                              /\ ipc'[r] = Ready
                              /\ \A u \in Thread \ {r} : ipc'[u] = ipc[u]
         \/ /\ \A r \in Thread : ~Blocked(r, "send", s_ep)
            /\ Blocked(Root, "recv", s_ep)'
            /\ \A u \in Thread \ {Root} : ipc'[u] = ipc[u]
  <2>1. Recv(Root, s_ep) /\ offset' = offset /\ i' = i
    BY DEF RootAwaitResult, timing
  <2>2. start' \in [Thread -> Nat] /\ start' = start
    BY <1>2, Threads DEF RootAwaitResult, timing, Types
  <2>3. QED
    BY <1>2, <2>1, <2>2, RecvEffect, Threads DEF Types
<1>4. QED
  BY <1>1, <1>2, <1>3, StepEffect, Threads DEF Statement

LEMMA RootAwaitResultControl ==
  ASSUME Control, RootAwaitResult
  PROVE  Control'
<1> USE DEF Control
<1>1. Types'
  BY RootAwaitResultEffect, Threads DEF Types
<1>2. Statements'
  BY RootAwaitResultEffect, Distinct, Threads
     DEF Statements, RootWaits, Together, Blocked
<1>3. RootWaits'
  BY RootAwaitResultEffect, Distinct, Threads
     DEF Statements, RootWaits, Together, Blocked
<1>4. Together'
  BY RootAwaitResultEffect, Distinct, Threads
     DEF Statements, RootWaits, Together, AtStart, Started, Blocked
<1>5. Loops'
  BY RootAwaitResultEffect, Distinct, Threads
     DEF Loops, Statements, Started, Types
<1>6. QED
  BY <1>1, <1>2, <1>3, <1>4, <1>5

LEMMA RootPrintEffect ==
  ASSUME Control, RootPrint
  PROVE  /\ pc[Root] = "report" /\ ipc[Root] = Ready
         /\ pc'[Root] = (IF i[Root] < DataPoints THEN "report" ELSE "spin")
         /\ \A u \in Thread \ {Root} : pc'[u] = pc[u]
         /\ pc' \in [Thread -> Statement] /\ lag' \in [Thread -> 0..Latency]
         /\ lag'[Root] = 0 /\ \A u \in Thread \ {Root} : lag'[u] = lag[u]
         /\ now' = now /\ now' \in Nat
         /\ ipc' = ipc /\ mr0' = mr0
         /\ start' \in [Thread -> Nat] /\ start' = start
         /\ offset' \in [Thread -> 0..(CcntRange - 1)] /\ offset' = offset
         /\ i' \in [Thread -> 0..DataPoints]
         /\ \A u \in Thread \ {Root} : i'[u] = i[u]
<1>1. Step(Root, "report", (IF i[Root] < DataPoints THEN "report" ELSE "spin"))
  BY DEF RootPrint
<1>2. Types
  BY DEF Control
<1>3. /\ ipc' = ipc /\ mr0' = mr0
      /\ start' \in [Thread -> Nat] /\ start' = start
      /\ offset' \in [Thread -> 0..(CcntRange - 1)] /\ offset' = offset
      /\ i' \in [Thread -> 0..DataPoints]
      /\ \A u \in Thread \ {Root} : i'[u] = i[u]
  BY <1>2, Threads DEF RootPrint, Local, timing, Types, NextRound
<1>4. QED
  BY <1>1, <1>2, <1>3, StepEffect, Threads DEF Statement

LEMMA RootPrintControl ==
  ASSUME Control, RootPrint
  PROVE  Control'
<1> USE DEF Control
<1>1. Types'
  BY RootPrintEffect, Threads DEF Types
<1>2. Statements'
  BY RootPrintEffect, Distinct, Threads
     DEF Statements, RootWaits, Together, Blocked
<1>3. RootWaits'
  BY RootPrintEffect, Distinct, Threads
     DEF Statements, RootWaits, Together, Blocked
<1>4. Together'
  BY RootPrintEffect, Distinct, Threads
     DEF Statements, RootWaits, Together, AtStart, Started, Blocked
<1>5. Loops'
  BY RootPrintEffect, Distinct, Threads DEF Loops, Statements, Started, Types
<1>6. QED
  BY <1>1, <1>2, <1>3, <1>4, <1>5

\* Time passes; the lag of a thread that could run stays below Latency.
LEMMA AdvanceEffect ==
  ASSUME Types, Advance
  PROVE  /\ now' = now + 1 /\ UNCHANGED <<pc, ipc, mr0, start, offset, i>>
         /\ lag' \in [Thread -> 0..Latency]
         /\ \A t \in Thread : CanRun(t) /\ ~Polls(t) => lag'[t] = lag[t] + 1
         /\ \A t \in Thread : ~(CanRun(t) /\ ~Polls(t)) => lag'[t] = lag[t]
<1>1. /\ now' = now + 1 /\ UNCHANGED <<pc, ipc, mr0, start, offset, i>>
      /\ \A t \in Thread : CanRun(t) /\ ~Polls(t) => lag[t] < Latency
      /\ lag' = [t \in Thread |->
                   IF CanRun(t) /\ ~Polls(t) THEN lag[t] + 1 ELSE lag[t]]
  BY DEF Advance, timing
<1>2. \A t \in Thread : lag'[t] = IF CanRun(t) /\ ~Polls(t) THEN lag[t] + 1 ELSE lag[t]
  BY <1>1
<1>3. \A t \in Thread : lag'[t] \in 0..Latency
  BY <1>1, <1>2, Threads DEF Types
<1>4. QED
  BY <1>1, <1>2, <1>3

LEMMA AdvanceControl == ASSUME Control, Advance PROVE Control'
<1> USE DEF Control
<1>1. /\ now' = now + 1 /\ UNCHANGED <<pc, ipc, mr0, start, offset, i>>
      /\ lag' \in [Thread -> 0..Latency]
  BY AdvanceEffect
<1>2. Types'
  BY <1>1 DEF Types
<1>3. Statements' /\ RootWaits' /\ Together' /\ Loops'
  BY <1>1 DEF Statements, RootWaits, Together, Loops, AtStart, Started, Blocked
<1>4. QED
  BY <1>2, <1>3

LEMMA InitControl == Init => Control
<1> SUFFICES ASSUME Init
             PROVE  Control
  OBVIOUS
<1>1. Types
  <2>1. pc \in [Thread -> Statement] /\ i \in [Thread -> 0..DataPoints]
    BY Threads DEF Init, Statement
  <2>2. ipc \in [Thread -> IpcState] /\ mr0 \in [Thread -> Nat]
    BY DEF Init, IpcState
  <2>3. CcntRange \in Nat \ {0}
    BY LlcAssumption
  <2>4. QED
    BY <2>1, <2>2, <2>3, Threads DEF Init, Types
<1>2. Statements /\ RootWaits
  BY Threads, Distinct DEF Init, Statements, RootWaits
<1>3. Together /\ Loops
  BY Threads, Distinct DEF Init, Together, Loops, AtStart, Started, Blocked
<1>4. QED
  BY <1>1, <1>2, <1>3 DEF Control

LEMMA NextControl == Control /\ [Next]_vars => Control'
<1> SUFFICES ASSUME Control, [Next]_vars
             PROVE  Control'
  OBVIOUS
<1>1. CASE Next
  BY <1>1, AdvanceControl, StartClockControl, EnterWaitingProbeControl,
     TrojanGlobalTimeControl, TrojanSyncControl, TrojanWaitControl,
     TrojanTouchControl, TrojanPublishControl, SpySearchControl,
     SpyReadyControl, SpyGlobalTimeControl, SpySyncControl, SpyWaitControl,
     SpyProbeControl, SpyRecordControl, SpyDoneControl, RootAwaitReadyControl,
     RootStampControl, RootTellTrojanControl, RootTellSpyControl,
     RootAwaitResultControl, RootPrintControl
     DEF Next, TrojanNext, SpyNext, RootNext
<1>2. CASE UNCHANGED vars
  BY <1>2 DEF vars, timing, Control, Types, Statements, RootWaits, Together,
     Loops, AtStart, Started, Blocked
<1>3. QED
  BY <1>1, <1>2


-----------------------------------------------------------------------------
(* The clocks *)

Rounds(k) == k * Period
Latencies(n) == n * Latency
Calls == Cardinality(Api)

LEMMA RoundFacts ==
  /\ Period \in Nat \ {0} /\ SpyOffset \in Nat \ {0} /\ Rounds(0) = 0
  /\ \A k \in Nat : Rounds(k) \in Nat /\ Rounds(k + 1) = Rounds(k) + Period
  /\ \A j, k \in Nat : j < k => Rounds(j + 1) <= Rounds(k)
<1>1. Period \in Nat \ {0} /\ SpyOffset \in Nat \ {0}
  BY LlcAssumption
<1>2. Rounds(0) = 0 /\ \A k \in Nat : Rounds(k) \in Nat
  BY <1>1 DEF Rounds
<1>3. \A k \in Nat : Rounds(k + 1) = Rounds(k) + Period
  BY <1>1 DEF Rounds
<1>4. ASSUME NEW j \in Nat, NEW k \in Nat, j < k
      PROVE  Rounds(j + 1) <= Rounds(k)
  <2>1. k - (j + 1) \in Nat
    BY <1>4
  <2>2. (k - (j + 1)) * Period \in Nat
    BY <1>1, <2>1
  <2>3. (k - (j + 1)) * Period = k * Period - (j + 1) * Period
    BY <1>1
  <2>4. QED
    BY <1>1, <2>2, <2>3 DEF Rounds
<1>5. QED
  BY <1>1, <1>2, <1>3, <1>4

LEMMA RoundType == SpyOffset \in Nat /\ \A k \in Nat : Rounds(k) \in Nat
BY RoundFacts

LEMMA LatencyFacts ==
  /\ Latency \in Nat \ {0} /\ Calls \in Nat \ {0}
  /\ Latencies(1) = Latency
  /\ \A n \in Nat : /\ Latencies(n) \in Nat
                    /\ Latencies(n + 1) = Latencies(n) + Latency
<1>1. Latency \in Nat \ {0}
  BY LlcAssumption
<1>2. Calls \in Nat \ {0}
  BY LlcAssumption, FS_CardinalityType, FS_EmptySet DEF Calls
<1>3. \A n \in Nat : /\ Latencies(n) \in Nat
                     /\ Latencies(n + 1) = Latencies(n) + Latency
  BY <1>1 DEF Latencies
<1>4. Latencies(1) = Latency
  BY <1>1 DEF Latencies
<1>5. QED
  BY <1>1, <1>2, <1>3, <1>4

LEMMA CallsFacts ==
  Calls \in Nat \ {0} /\ Latencies(Calls) \in Nat
BY LatencyFacts

LEMMA TimelyFacts ==
  ASSUME Timely
  PROVE  /\ SpyOffset > 4 * Latency
         /\ Period > SpyOffset + Latencies(Calls) + 3 * Latency
         /\ \A k \in 0..(DataPoints - 1) :
              /\ Rounds(k + 1) <= IntMax /\ Rounds(k + 1) + SpyOffset < CcntRange
<1>1. SpyOffset > 4 * Latency /\ DataPoints \in Nat /\ DataPoints > 0
  BY Threads DEF Timely
<1>2. (Calls + 3) * Latency = Latencies(Calls) + 3 * Latency
  BY LatencyFacts DEF Latencies
<1>3. ASSUME NEW k \in 0..(DataPoints - 1)
      PROVE  Rounds(k + 1) <= IntMax /\ Rounds(k + 1) + SpyOffset < CcntRange
  <2>1. k \in Nat /\ k < DataPoints
    BY <1>1
  <2>2. Rounds(k + 1) <= Rounds(DataPoints)
    BY <1>1, <2>1, RoundFacts
  <2>3. Rounds(DataPoints) <= IntMax /\ Rounds(DataPoints) + SpyOffset < CcntRange
    BY DEF Timely, Rounds
  <2>4. Rounds(k + 1) \in Nat /\ Rounds(DataPoints) \in Nat /\ IntMax \in Nat
        /\ CcntRange \in Nat /\ SpyOffset \in Nat
    BY <1>1, <2>1, RoundFacts, LlcAssumption
  <2>5. QED
    BY <2>2, <2>3, <2>4
<1>4. Period > SpyOffset + (Calls + 3) * Latency
  BY DEF Timely, Calls
<1>5. QED
  BY <1>1, <1>2, <1>3, <1>4, RoundFacts, LatencyFacts

\* Without overflow the offsets are the multiples the comment speaks of.
LEMMA OffsetExact ==
  ASSUME Timely, NEW t \in {Trojan, Spy}, i[t] \in 0..(DataPoints - 1)
  PROVE  ProbeOffset(t) = {Rounds(i[t] + 1) + IF t = Spy THEN SpyOffset ELSE 0}
<1> DEFINE x == Rounds(i[t] + 1)
           extra == IF t = Spy THEN SpyOffset ELSE 0
<1>1. x <= IntMax /\ x + SpyOffset < CcntRange
  BY TimelyFacts
<1>2. i[t] \in Nat
  BY Threads
<1>3. x \in Nat /\ SpyOffset \in Nat /\ CcntRange \in Nat /\ CcntRange > 0
  BY <1>2, RoundFacts, LlcAssumption
<1>4. ProbeOffset(t) = {(p + extra) % CcntRange : p \in Products(x)}
  BY DEF ProbeOffset, Rounds
<1> HIDE DEF x
<1>5. Products(x) = {x}
  BY <1>1 DEF Products
<1>6. (x + extra) % CcntRange = x + extra
  BY <1>1, <1>3
<1>7. QED
  BY <1>4, <1>5, <1>6 DEF x

\* The trojan, e after its start, at statement p of round k, l late; o is its
\* offset.
TrojanClock(p, k, e, l, o) ==
  /\ p = "offset" => Rounds(k) <= e /\ e <= Rounds(k) + 3 * Latency + l
  /\ p = "wait" => /\ o = Rounds(k + 1)
                   /\ Rounds(k) <= e /\ e <= Rounds(k + 1) + l
  /\ p = "touch" => Rounds(k + 1) <= e /\ e <= Rounds(k + 1) + Latency + l
  /\ p = "publish" => Rounds(k + 1) <= e /\ e <= Rounds(k + 1) + 2 * Latency + l
  /\ p = "spin" => Rounds(k) <= e

\* The spy, with c lists still to probe.
SpyClock(p, k, e, l, o, c) ==
  LET due == Rounds(k + 1) + SpyOffset
      last == Rounds(k) + SpyOffset
  IN  /\ p = "offset" => /\ 0 <= e /\ (k > 0 => last <= e)
                         /\ e <= last + Latencies(Calls) + 2 * Latency + l
      /\ p = "wait" => /\ o = due
                       /\ 0 <= e /\ (k > 0 => last <= e) /\ e <= due + l
      /\ p = "probe" => due <= e /\ e <= due + Latencies(Calls - c + 1) + l
      /\ p = "record" => due <= e /\ e <= due + Latencies(Calls) + Latency + l
      /\ p \in {"done", "spin"} => last <= e

TrojanTime ==
  TrojanClock(pc[Trojan], i[Trojan], now - start[Trojan], lag[Trojan], offset[Trojan])
SpyTime ==
  SpyClock(pc[Spy], i[Spy], now - start[Spy], lag[Spy], offset[Spy], Cardinality(lists))

\* A thread that waits for the rendezvous is not late.
NotLate ==
  \A t \in {Trojan, Spy} : pc[t] = "start" /\ ipc[t] # Ready => lag[t] = 0

\* The two clocks start within Latency of each other.
ClocksClose ==
  /\ AtStart(Trojan) /\ AtStart(Spy) => lag[Trojan] = lag[Spy]
  /\ AtStart(Trojan) /\ Started(Spy) =>
       now - lag[Trojan] <= start[Spy] /\ start[Spy] <= now
  /\ AtStart(Spy) /\ Started(Trojan) =>
       now - lag[Spy] <= start[Trojan] /\ start[Trojan] <= now
  /\ Started(Trojan) /\ Started(Spy) =>
       /\ start[Trojan] - start[Spy] <= Latency
       /\ start[Spy] - start[Trojan] <= Latency

ListsLeft ==
  lists \in SUBSET Api /\ (pc[Spy] = "probe" => lists # {})

Clocks == TrojanTime /\ SpyTime /\ NotLate /\ ClocksClose /\ ListsLeft

\* What the arguments of the clocks are.
LEMMA ClockTypes ==
  ASSUME Control
  PROVE  /\ now \in Nat /\ Latency \in Nat \ {0} /\ DataPoints \in Nat \ {0}
         /\ \A t \in {Trojan, Spy} :
              /\ start[t] \in Nat /\ i[t] \in 0..DataPoints /\ i[t] \in Nat
              /\ lag[t] \in 0..Latency /\ lag[t] \in Nat
BY Threads DEF Control, Types

Early == {"search", "ready", "global", "sync"}

\* t is where it was, as far as the clocks tell.
Unmoved(t) ==
  /\ pc'[t] = pc[t] /\ lag'[t] = lag[t] /\ i'[t] = i[t]
  /\ start'[t] = start[t] /\ offset'[t] = offset[t]
  /\ pc[t] = "start" => (ipc'[t] = Ready <=> ipc[t] = Ready)

LEMMA TrojanUnmoved ==
  ASSUME Clocks, Unmoved(Trojan), now' = now
  PROVE  TrojanTime'
BY DEF Clocks, Unmoved, TrojanTime, TrojanClock

LEMMA SpyUnmoved ==
  ASSUME Clocks, Unmoved(Spy), now' = now, lists' = lists
  PROVE  SpyTime' /\ ListsLeft'
BY DEF Clocks, Unmoved, SpyTime, SpyClock, ListsLeft

\* Nothing before the rendezvous matters to the clocks.
LEMMA EarlyClocks ==
  ASSUME Control, Clocks, now' = now, lists' = lists,
         \A t \in {Trojan, Spy} : Unmoved(t) \/ (pc[t] \in Early /\ pc'[t] \in Early)
  PROVE  Clocks'
<1>1. TrojanTime'
  <2>1. pc'[Trojan] \in Early => TrojanTime'
    BY DEF TrojanTime, TrojanClock, Early
  <2>2. QED
    BY <2>1, TrojanUnmoved
<1>2. SpyTime' /\ ListsLeft'
  <2>1. pc'[Spy] \in Early => SpyTime' /\ ListsLeft'
    BY DEF SpyTime, SpyClock, ListsLeft, Clocks, Early
  <2>2. QED
    BY <2>1, SpyUnmoved
<1>3. \A t \in {Trojan, Spy} :
        \/ Unmoved(t)
        \/ ~AtStart(t)' /\ ~Started(t)' /\ pc'[t] # "start"
  BY DEF AtStart, Started, Early
<1>4. NotLate'
  BY <1>3 DEF Clocks, NotLate, Unmoved
<1>5. ClocksClose'
  BY <1>3 DEF Clocks, ClocksClose, Unmoved, AtStart, Started
<1>6. QED
  BY <1>1, <1>2, <1>4, <1>5 DEF Clocks

\* A statement of t after its start leaves the distance of the clocks.
LEMMA LaterClocks ==
  ASSUME Control, Clocks, NEW t \in {Trojan, Spy}, Started(t), Started(t)',
         now' = now, start' = start, \A u \in {Trojan, Spy} \ {t} : Unmoved(u)
  PROVE  NotLate' /\ ClocksClose'
<1>1. ~AtStart(t) /\ ~AtStart(t)' /\ pc'[t] # "start"
  BY DEF AtStart, Started
<1>2. \A u \in {Trojan, Spy} \ {t} : (AtStart(u)' <=> AtStart(u)) /\ (Started(u)' <=> Started(u))
  BY DEF Unmoved, AtStart, Started
<1>3. NotLate'
  BY <1>1 DEF Clocks, NotLate, Unmoved
<1>4. ClocksClose'
  <2>1. CASE t = Trojan
    BY <2>1, <1>1, <1>2, Distinct DEF Clocks, ClocksClose, Unmoved
  <2>2. CASE t = Spy
    BY <2>2, <1>1, <1>2, Distinct DEF Clocks, ClocksClose, Unmoved
  <2>3. QED
    BY <2>1, <2>2
<1>5. QED
  BY <1>3, <1>4

LEMMA RootAwaitReadyClocks ==
  ASSUME Control, Clocks, RootAwaitReady
  PROVE  Clocks'
<1>1. now' = now /\ lists' = lists
  BY RootAwaitReadyEffect DEF RootAwaitReady, spyVars
<1>2. Unmoved(Trojan)
  BY RootAwaitReadyEffect, Distinct, Threads
     DEF Control, Statements, Blocked, Unmoved
<1>3. Unmoved(Spy)
  BY RootAwaitReadyEffect, Distinct, Threads
     DEF Control, Statements, Blocked, Unmoved
<1>4. QED
  BY <1>1, <1>2, <1>3, EarlyClocks

LEMMA RootStampClocks ==
  ASSUME Control, Clocks, RootStamp
  PROVE  Clocks'
<1>1. now' = now /\ lists' = lists
  BY RootStampEffect DEF RootStamp, spyVars
<1>2. Unmoved(Trojan)
  BY RootStampEffect, Distinct, Threads
     DEF Control, Statements, Blocked, Unmoved
<1>3. Unmoved(Spy)
  BY RootStampEffect, Distinct, Threads
     DEF Control, Statements, Blocked, Unmoved
<1>4. QED
  BY <1>1, <1>2, <1>3, EarlyClocks

LEMMA RootTellTrojanClocks ==
  ASSUME Control, Clocks, RootTellTrojan
  PROVE  Clocks'
<1>1. now' = now /\ lists' = lists
  BY RootTellTrojanEffect DEF RootTellTrojan, spyVars
<1>2. Unmoved(Trojan)
  BY RootTellTrojanEffect, Distinct, Threads
     DEF Control, Statements, Blocked, Unmoved
<1>3. Unmoved(Spy)
  BY RootTellTrojanEffect, Distinct, Threads
     DEF Control, Statements, Blocked, Unmoved
<1>4. QED
  BY <1>1, <1>2, <1>3, EarlyClocks

LEMMA RootTellSpyClocks ==
  ASSUME Control, Clocks, RootTellSpy
  PROVE  Clocks'
<1>1. now' = now /\ lists' = lists
  BY RootTellSpyEffect DEF RootTellSpy, spyVars
<1>2. Unmoved(Trojan)
  BY RootTellSpyEffect, Distinct, Threads
     DEF Control, Statements, Blocked, Unmoved
<1>3. Unmoved(Spy)
  BY RootTellSpyEffect, Distinct, Threads
     DEF Control, Statements, Blocked, Unmoved
<1>4. QED
  BY <1>1, <1>2, <1>3, EarlyClocks

LEMMA RootAwaitResultClocks ==
  ASSUME Control, Clocks, RootAwaitResult
  PROVE  Clocks'
<1>1. now' = now /\ lists' = lists
  BY RootAwaitResultEffect DEF RootAwaitResult, spyVars
<1>2. Unmoved(Trojan)
  BY RootAwaitResultEffect, Distinct, Threads
     DEF Control, Statements, Blocked, Unmoved
<1>3. Unmoved(Spy)
  BY RootAwaitResultEffect, Distinct, Threads
     DEF Control, Statements, Blocked, Unmoved
<1>4. QED
  BY <1>1, <1>2, <1>3, EarlyClocks

LEMMA RootPrintClocks ==
  ASSUME Control, Clocks, RootPrint
  PROVE  Clocks'
<1>1. now' = now /\ lists' = lists
  BY RootPrintEffect DEF RootPrint, spyVars
<1>2. Unmoved(Trojan)
  BY RootPrintEffect, Distinct, Threads
     DEF Control, Statements, Blocked, Unmoved
<1>3. Unmoved(Spy)
  BY RootPrintEffect, Distinct, Threads
     DEF Control, Statements, Blocked, Unmoved
<1>4. QED
  BY <1>1, <1>2, <1>3, EarlyClocks

LEMMA TrojanGlobalTimeClocks ==
  ASSUME Control, Clocks, TrojanGlobalTime
  PROVE  Clocks'
<1>1. now' = now /\ lists' = lists
  BY TrojanGlobalTimeEffect DEF TrojanGlobalTime, spyVars
<1>2. Unmoved(Spy)
  BY TrojanGlobalTimeEffect, Distinct, Threads
     DEF Control, Statements, Blocked, Unmoved
<1>3. pc[Trojan] \in Early /\ pc'[Trojan] \in Early
  BY TrojanGlobalTimeEffect DEF Early
<1>4. QED
  BY <1>1, <1>2, <1>3, EarlyClocks

LEMMA SpySearchClocks ==
  ASSUME Control, Clocks, SpySearch
  PROVE  Clocks'
<1>1. now' = now /\ lists' = lists
  BY SpySearchEffect DEF SpySearch, spyVars
<1>2. Unmoved(Trojan)
  BY SpySearchEffect, Distinct, Threads
     DEF Control, Statements, Blocked, Unmoved
<1>3. pc[Spy] \in Early /\ pc'[Spy] \in Early
  BY SpySearchEffect DEF Early
<1>4. QED
  BY <1>1, <1>2, <1>3, EarlyClocks

LEMMA SpyReadyClocks ==
  ASSUME Control, Clocks, SpyReady
  PROVE  Clocks'
<1>1. now' = now /\ lists' = lists
  BY SpyReadyEffect DEF SpyReady, spyVars
<1>2. Unmoved(Trojan)
  BY SpyReadyEffect, Distinct, Threads DEF Control, Statements, Blocked, Unmoved
<1>3. pc[Spy] \in Early /\ pc'[Spy] \in Early
  BY SpyReadyEffect DEF Early
<1>4. QED
  BY <1>1, <1>2, <1>3, EarlyClocks

LEMMA SpyGlobalTimeClocks ==
  ASSUME Control, Clocks, SpyGlobalTime
  PROVE  Clocks'
<1>1. now' = now /\ lists' = lists
  BY SpyGlobalTimeEffect DEF SpyGlobalTime, spyVars
<1>2. Unmoved(Trojan)
  BY SpyGlobalTimeEffect, Distinct, Threads
     DEF Control, Statements, Blocked, Unmoved
<1>3. pc[Spy] \in Early /\ pc'[Spy] \in Early
  BY SpyGlobalTimeEffect DEF Early
<1>4. QED
  BY <1>1, <1>2, <1>3, EarlyClocks

\* Whoever completes the rendezvous, both are on time.
LEMMA TrojanSyncClocks ==
  ASSUME Control, Clocks, TrojanSync
  PROVE  Clocks'
<1>1. now' = now /\ lists' = lists /\ start'[Spy] = start[Spy]
  BY TrojanSyncEffect, Distinct, Threads DEF TrojanSync, spyVars
<1>2. /\ pc'[Trojan] = "start" /\ lag'[Trojan] = 0 /\ pc'[Spy] = pc[Spy]
      /\ lag'[Spy] = lag[Spy] /\ i' = i /\ offset' = offset
  BY TrojanSyncEffect, Distinct, Threads
<1>3. TrojanTime'
  BY <1>2 DEF TrojanTime, TrojanClock
<1>4. SpyTime' /\ ListsLeft'
  BY <1>1, <1>2 DEF Clocks, SpyTime, SpyClock, ListsLeft
<1>5. ~AtStart(Trojan) /\ ~Started(Trojan) /\ ~AtStart(Spy) /\ ~Started(Spy)
  BY TrojanSyncEffect DEF Control, Together, AtStart, Started
<1>6. ~Started(Spy)' /\ ~Started(Trojan)'
  BY <1>2, <1>5 DEF Started
<1>7. NotLate'
  <2>1. pc[Spy] = "start" => ipc[Spy] # Ready
    BY <1>5 DEF AtStart
  <2>2. QED
    BY <1>2, <2>1 DEF Clocks, NotLate
<1>8. ClocksClose'
  <2>1. AtStart(Spy)' => lag'[Spy] = 0
    BY <1>2, <1>5 DEF AtStart, Clocks, NotLate
  <2>2. QED
    BY <1>2, <1>6, <2>1 DEF ClocksClose
<1>9. QED
  BY <1>3, <1>4, <1>7, <1>8 DEF Clocks

LEMMA SpySyncClocks ==
  ASSUME Control, Clocks, SpySync
  PROVE  Clocks'
<1>1. now' = now /\ lists' = lists /\ start'[Trojan] = start[Trojan]
  BY SpySyncEffect, Distinct, Threads DEF SpySync, spyVars
<1>2. /\ pc'[Spy] = "start" /\ lag'[Spy] = 0 /\ pc'[Trojan] = pc[Trojan]
      /\ lag'[Trojan] = lag[Trojan] /\ i' = i /\ offset' = offset
  BY SpySyncEffect, Distinct, Threads
<1>3. SpyTime' /\ ListsLeft'
  BY <1>1, <1>2 DEF Clocks, SpyTime, SpyClock, ListsLeft
<1>4. TrojanTime'
  BY <1>1, <1>2 DEF Clocks, TrojanTime, TrojanClock
<1>5. ~AtStart(Trojan) /\ ~Started(Trojan) /\ ~AtStart(Spy) /\ ~Started(Spy)
  BY SpySyncEffect DEF Control, Together, AtStart, Started
<1>6. ~Started(Spy)' /\ ~Started(Trojan)'
  BY <1>2, <1>5 DEF Started
<1>7. NotLate'
  <2>1. pc[Trojan] = "start" => ipc[Trojan] # Ready
    BY <1>5 DEF AtStart
  <2>2. QED
    BY <1>2, <2>1 DEF Clocks, NotLate
<1>8. ClocksClose'
  <2>1. AtStart(Trojan)' => lag'[Trojan] = 0
    BY <1>2, <1>5 DEF AtStart, Clocks, NotLate
  <2>2. QED
    BY <1>2, <1>6, <2>1 DEF ClocksClose
<1>9. QED
  BY <1>3, <1>4, <1>7, <1>8 DEF Clocks

\* The second to read its clock does so within Latency of the first.
LEMMA StartClockClocks ==
  ASSUME Control, Clocks, NEW t \in {Trojan, Spy}, StartClock(t)
  PROVE  Clocks'
<1>1. now' = now /\ lists' = lists /\ i' = i /\ ipc' = ipc /\ offset' = offset
  BY StartClockEffect DEF StartClock, spyVars
<1>2. /\ start'[t] = now /\ pc'[t] = "offset" /\ lag'[t] = 0 /\ i[t] = 0
      /\ AtStart(t)
  <2>1. pc[t] = "start" /\ ipc[t] = Ready
    BY StartClockEffect
  <2>2. i[t] = 0
    BY <2>1 DEF Control, Loops, Started
  <2>3. QED
    BY <2>1, <2>2, StartClockEffect, Threads DEF AtStart, Control, Types
<1>3. \A u \in {Trojan, Spy} \ {t} : Unmoved(u)
  BY <1>1, StartClockEffect, Threads DEF Unmoved, Control, Types
<1>4. TrojanTime'
  <2>1. CASE t = Trojan
    <3>1. now' - start'[Trojan] = 0
      BY <1>1, <1>2, <2>1, ClockTypes
    <3>2. QED
      BY <1>1, <1>2, <2>1, <3>1, RoundFacts, ClockTypes
         DEF TrojanTime, TrojanClock
  <2>2. CASE t = Spy
    BY <1>1, <1>3, <2>2, TrojanUnmoved, Distinct
  <2>3. QED
    BY <2>1, <2>2
<1>5. SpyTime' /\ ListsLeft'
  <2>1. CASE t = Spy
    <3>1. now' - start'[Spy] = 0 /\ lag'[Spy] = 0 /\ i'[Spy] = 0
      BY <1>1, <1>2, <2>1, ClockTypes
    <3>2. Rounds(0) = 0 /\ SpyOffset \in Nat /\ Latency \in Nat
      BY RoundFacts, ClockTypes
    <3>3. SpyClock("offset", 0, 0, 0, offset'[Spy], Cardinality(lists'))
      BY <3>2, CallsFacts DEF SpyClock
    <3>4. SpyTime'
      BY <1>2, <2>1, <3>1, <3>3 DEF SpyTime, SpyClock
    <3>5. ListsLeft'
      BY <1>1, <1>2, <2>1 DEF Clocks, ListsLeft
    <3>6. QED
      BY <3>4, <3>5
  <2>2. CASE t = Trojan
    BY <1>1, <1>3, <2>2, SpyUnmoved, Distinct
  <2>3. QED
    BY <2>1, <2>2
<1>6. NotLate'
  BY <1>2, <1>3 DEF Clocks, NotLate, Unmoved
<1>7. ClocksClose'
  <2>1. ~AtStart(t)' /\ Started(t)' /\ ~Started(t)
    BY <1>2 DEF AtStart, Started
  <2>2. \A u \in {Trojan, Spy} \ {t} :
          /\ AtStart(u)' <=> AtStart(u)
          /\ Started(u)' <=> Started(u)
          /\ start'[u] = start[u] /\ lag'[u] = lag[u]
    BY <1>3 DEF Unmoved, AtStart, Started
  <2>3. CASE t = Trojan
    <3>1. AtStart(Spy)' => now - lag'[Spy] <= start'[Trojan] /\ start'[Trojan] <= now
      BY <1>2, <2>2, <2>3, ClockTypes, Distinct
    <3>2. Started(Spy)' => /\ start'[Trojan] - start'[Spy] <= Latency
                          /\ start'[Spy] - start'[Trojan] <= Latency
      BY <1>2, <2>2, <2>3, ClockTypes, Distinct DEF Clocks, ClocksClose
    <3>3. QED
      BY <1>1, <2>1, <2>3, <3>1, <3>2 DEF ClocksClose
  <2>4. CASE t = Spy
    <3>1. AtStart(Trojan)' => now - lag'[Trojan] <= start'[Spy] /\ start'[Spy] <= now
      BY <1>2, <2>2, <2>4, ClockTypes, Distinct
    <3>2. Started(Trojan)' => /\ start'[Trojan] - start'[Spy] <= Latency
                             /\ start'[Spy] - start'[Trojan] <= Latency
      BY <1>2, <2>2, <2>4, ClockTypes, Distinct DEF Clocks, ClocksClose
    <3>3. QED
      BY <1>1, <2>1, <2>4, <3>1, <3>2 DEF ClocksClose
  <2>5. QED
    BY <2>3, <2>4
<1>8. QED
  BY <1>4, <1>5, <1>6, <1>7 DEF Clocks

LEMMA EnterWaitingProbeClocks ==
  ASSUME Timely, Control, Clocks, NEW t \in {Trojan, Spy}, EnterWaitingProbe(t)
  PROVE  Clocks'
<1>1. now' = now /\ lists' = lists /\ i' = i /\ ipc' = ipc /\ start' = start
  BY EnterWaitingProbeEffect DEF EnterWaitingProbe, spyVars
<1>2. pc[t] = "offset" /\ pc'[t] = "wait" /\ lag'[t] = 0 /\ i[t] \in 0..(DataPoints - 1)
  <2>1. pc[t] = "offset"
    BY EnterWaitingProbeEffect
  <2>2. i[t] < DataPoints
    BY <2>1, Distinct DEF Control, Loops
  <2>3. QED
    BY <2>1, <2>2, EnterWaitingProbeEffect, ClockTypes
<1>3. offset'[t] = Rounds(i[t] + 1) + IF t = Spy THEN SpyOffset ELSE 0
  BY <1>2, EnterWaitingProbeEffect, OffsetExact
<1>4. \A u \in {Trojan, Spy} \ {t} : Unmoved(u)
  BY <1>1, EnterWaitingProbeEffect, Threads DEF Unmoved
<1>5. /\ Rounds(i[t]) \in Nat /\ Rounds(i[t] + 1) = Rounds(i[t]) + Period
      /\ Period \in Nat /\ SpyOffset \in Nat /\ Latencies(Calls) \in Nat
      /\ Period > SpyOffset + Latencies(Calls) + 3 * Latency
      /\ SpyOffset > 4 * Latency
  BY RoundFacts, LatencyFacts, TimelyFacts, ClockTypes
<1>6. TrojanTime'
  <2>1. CASE t = Trojan
    <3>1. /\ Rounds(i[t]) <= now - start[t]
          /\ now - start[t] <= Rounds(i[t]) + 3 * Latency + lag[t]
      BY <1>2, <2>1 DEF Clocks, TrojanTime, TrojanClock
    <3>2. now - start[t] <= Rounds(i[t] + 1)
      BY <1>5, <3>1, ClockTypes
    <3>3. TrojanClock("wait", i[t], now - start[t], 0, offset'[t])
      BY <1>3, <1>5, <2>1, <3>1, <3>2, Distinct, ClockTypes DEF TrojanClock
    <3>4. QED
      BY <1>1, <1>2, <2>1, <3>3 DEF TrojanTime, TrojanClock
  <2>2. CASE t = Spy
    BY <1>1, <1>4, <2>2, TrojanUnmoved, Distinct
  <2>3. QED
    BY <2>1, <2>2
<1>7. SpyTime' /\ ListsLeft'
  <2>1. CASE t = Spy
    <3>1. /\ 0 <= now - start[t]
          /\ i[t] > 0 => Rounds(i[t]) + SpyOffset <= now - start[t]
          /\ now - start[t] <= Rounds(i[t]) + SpyOffset + Latencies(Calls) + 2 * Latency + lag[t]
      BY <1>2, <2>1 DEF Clocks, SpyTime, SpyClock
    <3>2. now - start[t] <= Rounds(i[t] + 1) + SpyOffset
      BY <1>5, <3>1, ClockTypes
    <3>3. SpyClock("wait", i[t], now - start[t], 0, offset'[t], Cardinality(lists))
      BY <1>3, <1>5, <2>1, <3>1, <3>2, ClockTypes DEF SpyClock
    <3>4. SpyTime'
      BY <1>1, <1>2, <2>1, <3>3 DEF SpyTime, SpyClock
    <3>5. ListsLeft'
      BY <1>1, <1>2, <2>1 DEF Clocks, ListsLeft
    <3>6. QED
      BY <3>4, <3>5
  <2>2. CASE t = Trojan
    BY <1>1, <1>4, <2>2, SpyUnmoved, Distinct
  <2>3. QED
    BY <2>1, <2>2
<1>8. NotLate' /\ ClocksClose'
  BY <1>1, <1>2, <1>4, LaterClocks DEF Started
<1>9. QED
  BY <1>6, <1>7, <1>8 DEF Clocks

LEMMA TrojanWaitClocks ==
  ASSUME Timely, Control, Clocks, TrojanWait
  PROVE  Clocks'
<1>1. /\ now' = now /\ lists' = lists /\ i' = i /\ start' = start
      /\ pc[Trojan] = "wait" /\ pc'[Trojan] = "touch" /\ lag'[Trojan] = 0
  BY TrojanWaitEffect DEF TrojanWait, spyVars
<1>2. Unmoved(Spy)
  BY TrojanWaitEffect, Threads, Distinct DEF Unmoved
<1>3. Rounds(i[Trojan] + 1) <= now - start[Trojan]
  <2>1. ~(now - start[Trojan] < offset[Trojan])
    BY <1>1 DEF TrojanWait, Polls, Elapsed
  <2>2. offset[Trojan] = Rounds(i[Trojan] + 1)
    BY <1>1 DEF Clocks, TrojanTime, TrojanClock
  <2>3. QED
    BY <2>1, <2>2, ClockTypes, RoundFacts
<1>4. now - start[Trojan] <= Rounds(i[Trojan] + 1) + lag[Trojan]
  BY <1>1 DEF Clocks, TrojanTime, TrojanClock
<1>5. now - start[Trojan] <= Rounds(i[Trojan] + 1) + Latency
  BY <1>4, ClockTypes, RoundFacts
<1>6. TrojanClock("touch", i[Trojan], now - start[Trojan], 0, offset'[Trojan])
  BY <1>3, <1>5, ClockTypes, RoundFacts DEF TrojanClock
<1>7. TrojanTime'
  BY <1>1, <1>6 DEF TrojanTime, TrojanClock
<1>8. QED
  BY <1>1, <1>2, <1>7, SpyUnmoved, LaterClocks, Distinct DEF Clocks, Started

LEMMA TrojanTouchClocks ==
  ASSUME Control, Clocks, TrojanTouch
  PROVE  Clocks'
<1>1. /\ now' = now /\ lists' = lists /\ i' = i /\ start' = start
      /\ pc[Trojan] = "touch" /\ pc'[Trojan] = "publish" /\ lag'[Trojan] = 0
  BY TrojanTouchEffect DEF TrojanTouch, spyVars
<1>2. Unmoved(Spy)
  BY TrojanTouchEffect, Threads, Distinct DEF Unmoved
<1>3. /\ Rounds(i[Trojan] + 1) <= now - start[Trojan]
      /\ now - start[Trojan] <= Rounds(i[Trojan] + 1) + Latency + lag[Trojan]
  BY <1>1 DEF Clocks, TrojanTime, TrojanClock
<1>4. now - start[Trojan] <= Rounds(i[Trojan] + 1) + 2 * Latency
  BY <1>3, ClockTypes, RoundFacts
<1>5. TrojanClock("publish", i[Trojan], now - start[Trojan], 0, offset'[Trojan])
  BY <1>3, <1>4, ClockTypes, RoundFacts DEF TrojanClock
<1>6. TrojanTime'
  BY <1>1, <1>5 DEF TrojanTime, TrojanClock
<1>7. QED
  BY <1>1, <1>2, <1>6, SpyUnmoved, LaterClocks, Distinct DEF Clocks, Started

LEMMA TrojanPublishClocks ==
  ASSUME Control, Clocks, TrojanPublish
  PROVE  Clocks'
<1>1. /\ now' = now /\ lists' = lists /\ start' = start
      /\ pc[Trojan] = "publish" /\ lag'[Trojan] = 0
      /\ pc'[Trojan] \in {"offset", "spin"} /\ i'[Trojan] = i[Trojan] + 1
  BY TrojanPublishEffect, Threads, ClockTypes
     DEF TrojanPublish, spyVars, After, Control, Types
<1>2. Unmoved(Spy)
  BY TrojanPublishEffect, Threads, Distinct DEF Unmoved, Control, Types
<1>3. /\ Rounds(i[Trojan] + 1) <= now - start[Trojan]
      /\ now - start[Trojan] <= Rounds(i[Trojan] + 1) + 2 * Latency + lag[Trojan]
  BY <1>1 DEF Clocks, TrojanTime, TrojanClock
<1>4. now - start[Trojan] <= Rounds(i[Trojan] + 1) + 3 * Latency
  BY <1>3, ClockTypes, RoundFacts
<1>5. TrojanClock(pc'[Trojan], i[Trojan] + 1, now - start[Trojan], 0, offset'[Trojan])
  BY <1>1, <1>3, <1>4, ClockTypes, RoundFacts DEF TrojanClock
<1>6. TrojanTime'
  BY <1>1, <1>5 DEF TrojanTime, TrojanClock
<1>7. QED
  BY <1>1, <1>2, <1>6, SpyUnmoved, LaterClocks, Distinct DEF Clocks, Started

LEMMA SpyWaitClocks ==
  ASSUME Control, Clocks, SpyWait
  PROVE  Clocks'
<1>1. /\ now' = now /\ lists' = Api /\ i' = i /\ start' = start
      /\ pc[Spy] = "wait" /\ pc'[Spy] = "probe" /\ lag'[Spy] = 0
  BY SpyWaitEffect DEF SpyWait, spyVars
<1>2. Unmoved(Trojan)
  BY SpyWaitEffect, Threads, Distinct DEF Unmoved
<1> DEFINE due == Rounds(i[Spy] + 1) + SpyOffset
<1>3. due \in Nat
  <2>1. i[Spy] + 1 \in Nat
    BY ClockTypes
  <2>2. QED
    BY <2>1, RoundType
<1>4. due <= now - start[Spy] /\ now - start[Spy] <= due + lag[Spy]
  <2>1. ~(now - start[Spy] < offset[Spy])
    BY <1>1 DEF SpyWait, Polls, Elapsed
  <2>2. offset[Spy] = due /\ now - start[Spy] <= due + lag[Spy]
    BY <1>1 DEF Clocks, SpyTime, SpyClock
  <2>3. QED
    BY <1>3, <2>1, <2>2, ClockTypes
<1>5. now - start[Spy] <= due + Latencies(Calls - Cardinality(Api) + 1) + 0
  <2>1. Latencies(Calls - Cardinality(Api) + 1) = Latency
    <3>1. Calls - Cardinality(Api) + 1 = 1
      BY CallsFacts DEF Calls
    <3>2. QED
      BY <3>1, LatencyFacts
  <2>2. QED
    BY <1>3, <1>4, <2>1, ClockTypes
<1>6. SpyClock("probe", i[Spy], now - start[Spy], 0, offset'[Spy], Cardinality(Api))
  BY <1>4, <1>5, ClockTypes, RoundFacts DEF SpyClock
<1>7. SpyTime'
  BY <1>1, <1>6 DEF SpyTime, SpyClock
<1>8. ListsLeft'
  BY <1>1, LlcAssumption DEF ListsLeft
<1>9. QED
  BY <1>1, <1>2, <1>7, <1>8, TrojanUnmoved, LaterClocks, Distinct
     DEF Clocks, Started

\* One list less to probe, one Latency later.
LEMMA SpyProbeClocks ==
  ASSUME Control, Clocks, SpyProbe
  PROVE  Clocks'
<1>1. /\ now' = now /\ i' = i /\ start' = start
      /\ pc[Spy] = "probe" /\ lag'[Spy] = 0
      /\ pc'[Spy] = IF Cardinality(lists) = 1 THEN "record" ELSE "probe"
  BY SpyProbeEffect
<1>2. Unmoved(Trojan)
  BY SpyProbeEffect, Threads, Distinct DEF Unmoved
<1>3. PICK a \in lists : lists' = lists \ {a}
  BY DEF SpyProbe
<1> DEFINE c == Cardinality(lists)
           due == Rounds(i[Spy] + 1) + SpyOffset
           e == now - start[Spy]
<1>4. /\ IsFiniteSet(lists) /\ c \in 1..Calls
      /\ Cardinality(lists') = c - 1
  <2>1. lists \subseteq Api
    BY DEF Clocks, ListsLeft
  <2>2. IsFiniteSet(lists) /\ c <= Calls
    BY <2>1, LlcAssumption, FS_Subset DEF Calls
  <2>3. Cardinality(lists') = c - 1
    BY <1>3, <2>2, FS_RemoveElement
  <2>4. c \in Nat /\ c # 0
    BY <1>3, <2>2, FS_CardinalityType, FS_EmptySet
  <2>5. QED
    BY <2>2, <2>3, <2>4, CallsFacts
<1>5. due \in Nat /\ e \in Int
  <2>1. i[Spy] + 1 \in Nat
    BY ClockTypes
  <2>2. QED
    BY <2>1, ClockTypes, RoundType
<1>6. due <= e /\ e <= due + Latencies(Calls - c + 1) + lag[Spy]
  BY <1>1 DEF Clocks, SpyTime, SpyClock
<1>7. /\ Latencies(Calls - c + 1) \in Nat
      /\ Latencies(Calls - (c - 1) + 1) = Latencies(Calls - c + 1) + Latency
  <2>1. Calls - c + 1 \in Nat /\ (Calls - c + 1) + 1 = Calls - (c - 1) + 1
    BY <1>4, CallsFacts
  <2>2. QED
    BY <2>1, LatencyFacts
<1> HIDE DEF c, due, e
<1>8. e <= due + Latencies(Calls - c + 1) + Latency
  BY <1>5, <1>6, <1>7, ClockTypes
<1>9. lists' \in SUBSET Api /\ (pc'[Spy] = "probe" => lists' # {})
  <2>1. lists' \in SUBSET Api
    BY <1>3 DEF Clocks, ListsLeft
  <2>2. lists' = {} => c = 1
    BY <1>4, FS_EmptySet
  <2>3. QED
    BY <1>1, <2>1, <2>2 DEF c
<1>10. SpyTime'
  <2>1. CASE c = 1
    <3>1. Calls - c + 1 = Calls
      BY <2>1, CallsFacts
    <3>2. pc'[Spy] = "record" /\ e <= due + Latencies(Calls) + Latency + 0
      BY <1>1, <1>8, <2>1, <3>1, <1>5, <1>7, ClockTypes DEF c
    <3>3. SpyClock("record", i[Spy], e, 0, offset'[Spy], Cardinality(lists'))
      BY <1>6, <3>2 DEF SpyClock, due
    <3>4. QED
      BY <1>1, <3>2, <3>3 DEF SpyTime, SpyClock, e
  <2>2. CASE c # 1
    <3>1. pc'[Spy] = "probe" /\ e <= due + Latencies(Calls - Cardinality(lists') + 1) + 0
      BY <1>1, <1>4, <1>5, <1>7, <1>8, <2>2, ClockTypes DEF c
    <3>2. SpyClock("probe", i[Spy], e, 0, offset'[Spy], Cardinality(lists'))
      BY <1>6, <3>1 DEF SpyClock, due
    <3>3. QED
      BY <1>1, <3>1, <3>2 DEF SpyTime, SpyClock, e
  <2>3. QED
    BY <2>1, <2>2
<1>11. Started(Spy) /\ Started(Spy)'
  BY <1>1 DEF Started
<1>12. QED
  BY <1>1, <1>2, <1>9, <1>10, <1>11, TrojanUnmoved, LaterClocks, Distinct
     DEF Clocks, ListsLeft

LEMMA SpyRecordClocks ==
  ASSUME Control, Clocks, SpyRecord
  PROVE  Clocks'
<1>1. /\ now' = now /\ lists' = lists /\ start' = start
      /\ pc[Spy] = "record" /\ lag'[Spy] = 0
      /\ pc'[Spy] \in {"offset", "done"} /\ i'[Spy] = i[Spy] + 1
  BY SpyRecordEffect, Threads, ClockTypes
     DEF SpyRecord, spyVars, After, Control, Types
<1>2. Unmoved(Trojan)
  BY SpyRecordEffect, Threads, Distinct DEF Unmoved, Control, Types
<1> DEFINE due == Rounds(i[Spy] + 1) + SpyOffset
           e == now - start[Spy]
<1>3. due \in Nat /\ e \in Int /\ Latencies(Calls) \in Nat
  <2>1. i[Spy] + 1 \in Nat
    BY ClockTypes
  <2>2. QED
    BY <2>1, ClockTypes, RoundType, CallsFacts
<1>4. due <= e /\ e <= due + Latencies(Calls) + Latency + lag[Spy]
  BY <1>1 DEF Clocks, SpyTime, SpyClock
<1>5. e <= due + Latencies(Calls) + 2 * Latency + 0
  BY <1>3, <1>4, ClockTypes
<1>6. SpyClock(pc'[Spy], i[Spy] + 1, e, 0, offset'[Spy], Cardinality(lists))
  BY <1>1, <1>3, <1>4, <1>5, ClockTypes DEF SpyClock
<1>7. SpyTime'
  BY <1>1, <1>6 DEF SpyTime, SpyClock
<1>8. ListsLeft'
  BY <1>1 DEF Clocks, ListsLeft
<1>9. QED
  BY <1>1, <1>2, <1>7, <1>8, TrojanUnmoved, LaterClocks, Distinct
     DEF Clocks, Started

LEMMA SpyDoneClocks ==
  ASSUME Control, Clocks, SpyDone
  PROVE  Clocks'
<1>1. /\ now' = now /\ lists' = lists /\ start' = start /\ i' = i
      /\ pc[Spy] = "done" /\ pc'[Spy] = "spin" /\ lag'[Spy] = 0
  BY SpyDoneEffect DEF SpyDone, spyVars
<1>2. Unmoved(Trojan)
  BY SpyDoneEffect, Threads, Distinct DEF Unmoved, Control, Statements, Blocked
<1>3. Rounds(i[Spy]) + SpyOffset <= now - start[Spy]
  BY <1>1 DEF Clocks, SpyTime, SpyClock
<1>4. SpyTime'
  BY <1>1, <1>3 DEF SpyTime, SpyClock
<1>5. ListsLeft'
  BY <1>1 DEF Clocks, ListsLeft
<1>6. QED
  BY <1>1, <1>2, <1>4, <1>5, TrojanUnmoved, LaterClocks, Distinct
     DEF Clocks, Started

\* Time passes only while every thread that is not waiting for it is on time.
LEMMA AdvanceClocks ==
  ASSUME Control, Clocks, Advance
  PROVE  Clocks'
<1>1. /\ now' = now + 1 /\ UNCHANGED <<pc, ipc, mr0, start, offset, i, lists>>
      /\ \A t \in Thread : CanRun(t) /\ ~Polls(t) => lag'[t] = lag[t] + 1
      /\ \A t \in Thread : ~(CanRun(t) /\ ~Polls(t)) => lag'[t] = lag[t]
  BY AdvanceEffect DEF Advance, spyVars, Control
<1>2. Started(Trojan) \/ AtStart(Trojan) => CanRun(Trojan)
  BY Distinct DEF Control, Statements, Started, AtStart, CanRun
<1>3. AtStart(Spy) \/ pc[Spy] \in {"offset", "wait", "probe", "record", "done"}
        => CanRun(Spy)
  BY DEF Control, Statements, RootWaits, AtStart, CanRun
<1>4. TrojanTime'
  <2> DEFINE e == now - start[Trojan]
             k == i[Trojan]
  <2>1. /\ e \in Int /\ now' - start'[Trojan] = e + 1
        /\ Rounds(k) \in Nat /\ Rounds(k + 1) \in Nat
    BY <1>1, ClockTypes, RoundFacts
  <2>2. TrojanClock(pc[Trojan], k, e, lag[Trojan], offset[Trojan])
    BY DEF Clocks, TrojanTime
  <2>3. \/ Started(Trojan) /\ pc[Trojan] = "wait" /\ e < offset[Trojan]
           /\ lag'[Trojan] = lag[Trojan]
        \/ pc[Trojan] = "spin"
        \/ Started(Trojan) /\ lag'[Trojan] = lag[Trojan] + 1
        \/ ~Started(Trojan)
    BY <1>1, <1>2, Threads DEF Polls, Elapsed
  <2> HIDE DEF e, k
  <2>4. TrojanClock(pc[Trojan], k, e + 1, lag'[Trojan], offset[Trojan])
    BY <2>1, <2>2, <2>3, ClockTypes DEF TrojanClock, Started
  <2>5. /\ now' - start'[Trojan] = e + 1 /\ i'[Trojan] = k
        /\ pc'[Trojan] = pc[Trojan] /\ offset'[Trojan] = offset[Trojan]
    BY <1>1, <2>1 DEF k
  <2>6. QED
    BY <2>4, <2>5 DEF TrojanTime, TrojanClock
<1>5. SpyTime' /\ ListsLeft'
  <2> DEFINE e == now - start[Spy]
             k == i[Spy]
             c == Cardinality(lists)
  <2>1. /\ e \in Int /\ now' - start'[Spy] = e + 1
        /\ k \in Nat
    BY <1>1, ClockTypes
  <2>2. SpyClock(pc[Spy], k, e, lag[Spy], offset[Spy], c)
    BY DEF Clocks, SpyTime
  <2>3. pc[Spy] = "probe" => Latencies(Calls - c + 1) \in Nat
    <3>1. lists \in SUBSET Api
      BY DEF Clocks, ListsLeft
    <3>2. c \in Nat /\ c <= Calls
      BY <3>1, LlcAssumption, FS_Subset, FS_CardinalityType DEF Calls
    <3>3. Calls - c + 1 \in Nat
      BY <3>2, CallsFacts
    <3>4. QED
      BY <3>3, LatencyFacts
  <2>4. \/ pc[Spy] = "wait" /\ e < offset[Spy] /\ lag'[Spy] = lag[Spy]
        \/ pc[Spy] \in {"offset", "wait", "probe", "record"} /\ lag'[Spy] = lag[Spy] + 1
        \/ pc[Spy] \notin {"offset", "wait", "probe", "record"}
    BY <1>1, <1>3, Threads DEF Polls, Elapsed
  <2> HIDE DEF e, k, c
  <2>5. /\ Rounds(k) \in Nat /\ Rounds(k + 1) \in Nat /\ SpyOffset \in Nat
        /\ Latencies(Calls) \in Nat
    <3>1. k + 1 \in Nat
      BY <2>1
    <3>2. Rounds(k) \in Nat /\ Rounds(k + 1) \in Nat /\ SpyOffset \in Nat
      BY <2>1, <3>1, RoundFacts
    <3>3. QED
      BY <3>2, CallsFacts
  <2>6. SpyClock(pc[Spy], k, e + 1, lag'[Spy], offset[Spy], c)
    BY <2>1, <2>2, <2>3, <2>4, <2>5, ClockTypes DEF SpyClock
  <2>7. /\ now' - start'[Spy] = e + 1 /\ i'[Spy] = k /\ Cardinality(lists') = c
        /\ pc'[Spy] = pc[Spy] /\ offset'[Spy] = offset[Spy]
    BY <1>1, <2>1 DEF k, c
  <2>8. SpyTime'
    BY <2>6, <2>7 DEF SpyTime, SpyClock
  <2>9. QED
    BY <1>1, <2>8 DEF Clocks, ListsLeft
<1>6. NotLate'
  BY <1>1, Threads DEF Clocks, NotLate, CanRun
<1>7. ClocksClose'
  <2>1. \A t \in {Trojan, Spy} : AtStart(t) => lag'[t] = lag[t] + 1
    BY <1>1, <1>2, <1>3, Threads DEF Polls, AtStart
  <2>2. \A t \in {Trojan, Spy} : (AtStart(t)' <=> AtStart(t)) /\ (Started(t)' <=> Started(t))
    BY <1>1 DEF AtStart, Started
  <2>3. QED
    BY <1>1, <2>1, <2>2, ClockTypes DEF Clocks, ClocksClose
<1>8. QED
  BY <1>4, <1>5, <1>6, <1>7 DEF Clocks

LEMMA InitClocks == Init => Clocks
<1> SUFFICES ASSUME Init
             PROVE  Clocks
  OBVIOUS
<1>1. pc[Trojan] = "global" /\ pc[Spy] = "search" /\ lists = {}
  BY Threads, Distinct DEF Init
<1>2. QED
  BY <1>1 DEF Clocks, TrojanTime, TrojanClock, SpyTime, SpyClock, NotLate,
     ClocksClose, ListsLeft, AtStart, Started

LEMMA NextClocks ==
  ASSUME Timely, Control, Clocks, [Next]_vars
  PROVE  Clocks'
<1>1. CASE Next
  BY <1>1, AdvanceClocks, StartClockClocks, EnterWaitingProbeClocks,
     TrojanGlobalTimeClocks, TrojanSyncClocks, TrojanWaitClocks,
     TrojanTouchClocks, TrojanPublishClocks, SpySearchClocks, SpyReadyClocks,
     SpyGlobalTimeClocks, SpySyncClocks, SpyWaitClocks, SpyProbeClocks,
     SpyRecordClocks, SpyDoneClocks, RootAwaitReadyClocks, RootStampClocks,
     RootTellTrojanClocks, RootTellSpyClocks, RootAwaitResultClocks,
     RootPrintClocks DEF Next, TrojanNext, SpyNext, RootNext
<1>2. CASE UNCHANGED vars
  BY <1>2 DEF vars, timing, spyVars, Clocks, TrojanTime, TrojanClock, SpyTime,
     SpyClock, NotLate, ClocksClose, ListsLeft, AtStart, Started
<1>3. QED
  BY <1>1, <1>2

-----------------------------------------------------------------------------
(* Turns *)

\* Between two readings of the clock by a started thread, both clocks agree up
\* to Latency.
LEMMA ClockDistance ==
  ASSUME Control, Clocks, Started(Trojan), Started(Spy)
  PROVE  /\ now - start[Trojan] <= now - start[Spy] + Latency
         /\ now - start[Spy] <= now - start[Trojan] + Latency
BY ClockTypes DEF Clocks, ClocksClose

LEMMA LatencyOrder ==
  ASSUME NEW j \in Nat, NEW k \in Nat, j <= k
  PROVE  Latencies(j) <= Latencies(k)
<1>1. Latency \in Nat
  BY LatencyFacts
<1>2. k - j \in Nat
  OBVIOUS
<1>3. (k - j) * Latency \in Nat
  BY <1>1, <1>2
<1>4. (k - j) * Latency = k * Latency - j * Latency
  BY <1>1
<1>5. j * Latency \in Nat /\ k * Latency \in Nat
  BY <1>1
<1>6. QED
  BY <1>3, <1>4, <1>5 DEF Latencies

\* The latest the trojan is at work in a round.
LEMMA TrojanBound ==
  ASSUME Timely, Control, Clocks,
         pc[Trojan] \in {"offset", "wait", "touch", "publish"}
  PROVE  now - start[Trojan] <= Rounds(i[Trojan] + 1) + 3 * Latency
<1> DEFINE e == now - start[Trojan]
           k == i[Trojan]
<1>1. TrojanClock(pc[Trojan], k, e, lag[Trojan], offset[Trojan])
  BY DEF Clocks, TrojanTime
<1>2. /\ k \in Nat /\ e \in Int /\ lag[Trojan] \in Nat /\ lag[Trojan] <= Latency
      /\ Latency \in Nat
  BY ClockTypes
<1>3. /\ Rounds(k) \in Nat /\ Rounds(k + 1) = Rounds(k) + Period
      /\ Period \in Nat /\ SpyOffset \in Nat
  BY <1>2, RoundFacts
<1>4. Period > 4 * Latency
  <2>1. Latencies(Calls) \in Nat
    BY CallsFacts
  <2>2. QED
    BY <1>2, <1>3, <2>1, TimelyFacts
<1> HIDE DEF e, k
<1>5. e <= Rounds(k + 1) + 3 * Latency
  BY <1>1, <1>2, <1>3, <1>4 DEF TrojanClock
<1>6. QED
  BY <1>5 DEF e, k

\* The latest the spy is at work in a round.
LEMMA SpyBound ==
  ASSUME Timely, Control, Clocks, pc[Spy] \in {"offset", "wait", "probe", "record"}
  PROVE  now - start[Spy] <=
           Rounds(i[Spy] + 1) + SpyOffset + Latencies(Calls) + 2 * Latency
<1> DEFINE e == now - start[Spy]
           k == i[Spy]
           c == Cardinality(lists)
<1>1. SpyClock(pc[Spy], k, e, lag[Spy], offset[Spy], c)
  BY DEF Clocks, SpyTime
<1>2. /\ k \in Nat /\ e \in Int /\ lag[Spy] \in Nat /\ lag[Spy] <= Latency
      /\ Latency \in Nat
  BY ClockTypes
<1>3. /\ Rounds(k) \in Nat /\ Rounds(k + 1) = Rounds(k) + Period
      /\ Period \in Nat /\ SpyOffset \in Nat
  BY <1>2, RoundFacts
<1>4. Latencies(Calls) \in Nat
  BY CallsFacts
<1>5. Period > 4 * Latency
  BY <1>2, <1>3, <1>4, TimelyFacts
<1>6. pc[Spy] = "probe" => Latencies(Calls - c + 1) <= Latencies(Calls)
                          /\ Latencies(Calls - c + 1) \in Nat
  <2>1. SUFFICES ASSUME pc[Spy] = "probe"
                 PROVE  Latencies(Calls - c + 1) <= Latencies(Calls)
                        /\ Latencies(Calls - c + 1) \in Nat
    OBVIOUS
  <2>2. lists \in SUBSET Api /\ lists # {}
    BY <2>1 DEF Clocks, ListsLeft
  <2>3. IsFiniteSet(lists) /\ c <= Calls
    BY <2>2, LlcAssumption, FS_Subset DEF Calls
  <2>4. c \in Nat /\ c # 0
    BY <2>2, <2>3, FS_CardinalityType, FS_EmptySet
  <2>5. Calls - c + 1 \in Nat /\ Calls \in Nat /\ Calls - c + 1 <= Calls
    BY <2>3, <2>4, CallsFacts
  <2>6. QED
    BY <2>5, LatencyOrder, LatencyFacts
<1> HIDE DEF e, k, c
<1>7. e <= Rounds(k + 1) + SpyOffset + Latencies(Calls) + 2 * Latency
  BY <1>1, <1>2, <1>3, <1>4, <1>5, <1>6 DEF SpyClock
<1>8. QED
  BY <1>7 DEF e, k

\* When the trojan's turn is due, the spy is done with the round before.
LEMMA TrojanTurn ==
  ASSUME Timely, Control, Clocks, pc[Trojan] \in {"touch", "publish"}
  PROVE  i[Trojan] <= i[Spy] /\ pc[Spy] \notin {"probe", "record"}
<1> DEFINE e == now - start[Trojan]
           j == i[Trojan]
           k == i[Spy]
<1>1. Rounds(j + 1) <= e /\ e <= Rounds(j + 1) + 3 * Latency
  BY TrojanBound DEF Clocks, TrojanTime, TrojanClock
<1>2. /\ j \in Nat /\ j < DataPoints /\ k \in Nat /\ e \in Int
      /\ now \in Nat /\ Latency \in Nat /\ DataPoints \in Nat
  BY ClockTypes DEF Control, Loops
<1>3. /\ Rounds(j) \in Nat /\ Rounds(j + 1) = Rounds(j) + Period
      /\ Rounds(k + 1) \in Nat /\ Period \in Nat /\ SpyOffset \in Nat
      /\ Latencies(Calls) \in Nat
  <2>1. j + 1 \in Nat /\ k + 1 \in Nat
    BY <1>2
  <2>2. QED
    BY <1>2, <2>1, RoundFacts, CallsFacts
<1>4. Period > SpyOffset + Latencies(Calls) + 3 * Latency /\ SpyOffset > 4 * Latency
  BY TimelyFacts
<1>5. Started(Spy)
  <2>1. SUFFICES ASSUME AtStart(Spy)
                 PROVE  FALSE
    BY DEF Control, Together, Started
  <2>2. now - lag[Spy] <= start[Trojan]
    BY <2>1 DEF Clocks, ClocksClose, Started
  <2>3. e <= Latency
    BY <2>2, ClockTypes
  <2>4. QED
    BY <1>1, <1>2, <1>3, <1>4, <2>3
<1> DEFINE f == now - start[Spy]
<1>6. e <= f + Latency /\ f <= e + Latency /\ f \in Int
  BY <1>5, ClockDistance, ClockTypes DEF Started
<1>7. j <= k
  <2>1. SUFFICES ASSUME k < j
                 PROVE  FALSE
    BY <1>2
  <2>2. pc[Spy] \in {"offset", "wait", "probe", "record"}
    BY <1>2, <1>5, <2>1 DEF Control, Loops, Statements, Started
  <2>3. f <= Rounds(k + 1) + SpyOffset + Latencies(Calls) + 2 * Latency
    BY <2>2, SpyBound
  <2>4. Rounds(k + 1) <= Rounds(j)
    BY <1>2, <2>1, RoundFacts
  <2> HIDE DEF e, f, j, k
  <2>5. QED
    BY <1>1, <1>2, <1>3, <1>4, <1>6, <2>3, <2>4
<1>8. pc[Spy] \notin {"probe", "record"}
  <2>1. SUFFICES ASSUME pc[Spy] \in {"probe", "record"}
                 PROVE  FALSE
    OBVIOUS
  <2>2. Rounds(k + 1) + SpyOffset <= f
    BY <2>1 DEF Clocks, SpyTime, SpyClock
  <2>3. Rounds(j + 1) <= Rounds(k + 1)
    <3>1. k + 1 \in Nat /\ j < k + 1
      BY <1>2, <1>7
    <3>2. QED
      BY <1>2, <3>1, RoundFacts
  <2> HIDE DEF e, f, j, k
  <2>4. QED
    BY <1>1, <1>2, <1>3, <1>4, <1>6, <2>2, <2>3
<1>9. QED
  BY <1>7, <1>8

\* When the spy's turn is due, the trojan has finished the round.
LEMMA SpyTurn ==
  ASSUME Timely, Control, Clocks, pc[Spy] \in {"wait", "probe", "record"},
         Rounds(i[Spy] + 1) + SpyOffset <= now - start[Spy]
  PROVE  i[Spy] < i[Trojan] /\ pc[Trojan] \notin {"touch", "publish"}
<1> DEFINE f == now - start[Spy]
           j == i[Trojan]
           k == i[Spy]
<1>1. /\ j \in Nat /\ k \in Nat /\ k < DataPoints /\ f \in Int
      /\ now \in Nat /\ Latency \in Nat /\ DataPoints \in Nat
  BY ClockTypes DEF Control, Loops
<1>2. /\ Rounds(k + 1) \in Nat /\ SpyOffset \in Nat /\ Rounds(j + 1) \in Nat
  <2>1. j + 1 \in Nat /\ k + 1 \in Nat
    BY <1>1
  <2>2. QED
    BY <2>1, RoundFacts
<1>3. SpyOffset > 4 * Latency
  BY TimelyFacts
<1>4. k < j
  <2>1. SUFFICES ASSUME j <= k
                 PROVE  FALSE
    BY <1>1
  <2>2. Started(Trojan)
    <3>1. SUFFICES ASSUME AtStart(Trojan)
                   PROVE  FALSE
      BY DEF Control, Together, Started
    <3>2. now - lag[Trojan] <= start[Spy]
      BY <3>1 DEF Clocks, ClocksClose, Started
    <3>3. f <= Latency
      BY <3>2, ClockTypes
    <3>4. QED
      BY <1>1, <1>2, <1>3, <3>3
  <2> DEFINE e == now - start[Trojan]
  <2>3. f <= e + Latency /\ e \in Int
    BY <2>2, ClockDistance, ClockTypes DEF Started
  <2>4. pc[Trojan] \in {"offset", "wait", "touch", "publish"}
    BY <1>1, <2>1, <2>2 DEF Control, Loops, Statements, Started
  <2>5. e <= Rounds(j + 1) + 3 * Latency
    BY <2>4, TrojanBound
  <2>6. Rounds(j + 1) <= Rounds(k + 1)
    <3>1. k + 1 \in Nat /\ j < k + 1
      BY <1>1, <2>1
    <3>2. QED
      BY <1>1, <3>1, RoundFacts
  <2>7. Rounds(k + 1) + SpyOffset <= f
    OBVIOUS
  <2> HIDE DEF e, f, j, k
  <2>8. QED
    BY <1>1, <1>2, <1>3, <2>3, <2>5, <2>6, <2>7
<1>5. pc[Trojan] \notin {"touch", "publish"}
  BY <1>1, <1>4, TrojanTurn
<1>6. QED
  BY <1>4, <1>5

-----------------------------------------------------------------------------
(* The data *)

\* The rounds alternate: prime k, probe k, prime k + 1.
Turns == i[Trojan] = i[Spy] \/ i[Trojan] = i[Spy] + 1

\* Between the prime and the end of the probe, the cache sets of the published
\* call are either still disturbed or counted, each in one list.
Disturbed ==
  /\ pc[Trojan] \in {"touch", "publish"} => secret \in Choice
  /\ pc[Spy] # "search" => probed = Remove(ApiOrder)
  /\ i[Trojan] = i[Spy] =>
       dirty = IF pc[Trojan] = "publish" THEN Disturbs(secret) ELSE {}
  /\ i[Trojan] = i[Spy] + 1 =>
       /\ shared \in Choice
       /\ dirty \subseteq Disturbs(shared)
       /\ pc[Spy] \notin {"probe", "record"} => dirty = Disturbs(shared)
       /\ pc[Spy] \in {"probe", "record"} =>
            count = Cardinality(Disturbs(shared) \ dirty)
       /\ pc[Spy] = "probe" => \A a \in Api \ lists : probed[a] \cap dirty = {}
       /\ pc[Spy] = "record" => dirty = {}

Agrees(r) == r.seq \in Choice /\ r.lines = Cardinality(Disturbs(r.seq))

\* Every round the spy has finished is recorded as it was.
Recorded ==
  /\ DOMAIN rec = Slot
  /\ \A k \in Slot : k < i[Spy] => Agrees(rec[k])

Line == [seq: Choice \cup {NoLabel}, lines: Nat]

\* The rest of TypeOK.
Values ==
  /\ secret \in Choice \cup {NoLabel} /\ shared \in Choice \cup {NoLabel}
  /\ dirty \subseteq CacheSet
  /\ probed \in [Api -> SUBSET CacheSet]
  /\ count \in 0..Cardinality(CacheSet)
  /\ rec \in [Slot -> Line]
  /\ printed \subseteq Slot \X Line

Data == Turns /\ Disturbed /\ Recorded /\ Values /\ LinesAgree

\* The statements that read or write the cache sets.
Touching == {"search", "touch", "publish", "probe", "record"}

LEMMA DataUnchanged ==
  ASSUME Data, i'[Trojan] = i[Trojan], i'[Spy] = i[Spy],
         UNCHANGED <<secret, sharedVars, probed, count, rec, printed>>,
         lists' = lists \/ pc'[Spy] # "probe",
         \A t \in {Trojan, Spy} :
           pc'[t] = pc[t] \/ (pc[t] \notin Touching /\ pc'[t] \notin Touching)
  PROVE  Data'
<1>1. Turns'
  BY DEF Data, Turns
<1>2. Disturbed'
  BY DEF Data, Disturbed, Touching, sharedVars
<1>3. Recorded'
  BY DEF Data, Recorded, Agrees
<1>4. Values'
  BY DEF Data, Values, sharedVars
<1>5. LinesAgree'
  BY DEF Data, LinesAgree
<1>6. QED
  BY <1>1, <1>2, <1>3, <1>4, <1>5 DEF Data

LEMMA StartClockData ==
  ASSUME Control, Data, NEW t \in {Trojan, Spy}, StartClock(t)
  PROVE  Data'
<1>1. UNCHANGED <<secret, sharedVars, probed, lists, count, rec, printed>> /\ i' = i
  BY StartClockEffect DEF StartClock, spyVars
<1>2. \A u \in {Trojan, Spy} :
        pc'[u] = pc[u] \/ (pc[u] \notin Touching /\ pc'[u] \notin Touching)
  BY StartClockEffect, Threads, Distinct DEF Touching
<1>3. QED
  BY <1>1, <1>2, DataUnchanged

LEMMA EnterWaitingProbeData ==
  ASSUME Control, Data, NEW t \in {Trojan, Spy}, EnterWaitingProbe(t)
  PROVE  Data'
<1>1. UNCHANGED <<secret, sharedVars, probed, lists, count, rec, printed>> /\ i' = i
  BY EnterWaitingProbeEffect DEF EnterWaitingProbe, spyVars
<1>2. \A u \in {Trojan, Spy} :
        pc'[u] = pc[u] \/ (pc[u] \notin Touching /\ pc'[u] \notin Touching)
  BY EnterWaitingProbeEffect, Threads, Distinct DEF Touching
<1>3. QED
  BY <1>1, <1>2, DataUnchanged

LEMMA TrojanGlobalTimeData ==
  ASSUME Control, Data, TrojanGlobalTime
  PROVE  Data'
<1>1. UNCHANGED <<secret, sharedVars, probed, lists, count, rec, printed>> /\ i' = i
  BY TrojanGlobalTimeEffect DEF TrojanGlobalTime, spyVars
<1>2. \A u \in {Trojan, Spy} :
        pc'[u] = pc[u] \/ (pc[u] \notin Touching /\ pc'[u] \notin Touching)
  BY TrojanGlobalTimeEffect, Threads, Distinct DEF Touching
<1>3. QED
  BY <1>1, <1>2, DataUnchanged

LEMMA TrojanSyncData ==
  ASSUME Control, Data, TrojanSync
  PROVE  Data'
<1>1. UNCHANGED <<secret, sharedVars, probed, lists, count, rec, printed>> /\ i' = i
  BY TrojanSyncEffect DEF TrojanSync, spyVars
<1>2. \A u \in {Trojan, Spy} :
        pc'[u] = pc[u] \/ (pc[u] \notin Touching /\ pc'[u] \notin Touching)
  BY TrojanSyncEffect, Threads, Distinct DEF Touching
<1>3. QED
  BY <1>1, <1>2, DataUnchanged

LEMMA SpyReadyData ==
  ASSUME Control, Data, SpyReady
  PROVE  Data'
<1>1. UNCHANGED <<secret, sharedVars, probed, lists, count, rec, printed>> /\ i' = i
  BY SpyReadyEffect DEF SpyReady, spyVars
<1>2. \A u \in {Trojan, Spy} :
        pc'[u] = pc[u] \/ (pc[u] \notin Touching /\ pc'[u] \notin Touching)
  BY SpyReadyEffect, Threads, Distinct DEF Touching
<1>3. QED
  BY <1>1, <1>2, DataUnchanged

LEMMA SpyGlobalTimeData ==
  ASSUME Control, Data, SpyGlobalTime
  PROVE  Data'
<1>1. UNCHANGED <<secret, sharedVars, probed, lists, count, rec, printed>> /\ i' = i
  BY SpyGlobalTimeEffect DEF SpyGlobalTime, spyVars
<1>2. \A u \in {Trojan, Spy} :
        pc'[u] = pc[u] \/ (pc[u] \notin Touching /\ pc'[u] \notin Touching)
  BY SpyGlobalTimeEffect, Threads, Distinct DEF Touching
<1>3. QED
  BY <1>1, <1>2, DataUnchanged

LEMMA SpySyncData ==
  ASSUME Control, Data, SpySync
  PROVE  Data'
<1>1. UNCHANGED <<secret, sharedVars, probed, lists, count, rec, printed>> /\ i' = i
  BY SpySyncEffect DEF SpySync, spyVars
<1>2. \A u \in {Trojan, Spy} :
        pc'[u] = pc[u] \/ (pc[u] \notin Touching /\ pc'[u] \notin Touching)
  BY SpySyncEffect, Threads, Distinct DEF Touching
<1>3. QED
  BY <1>1, <1>2, DataUnchanged

LEMMA SpyDoneData ==
  ASSUME Control, Data, SpyDone
  PROVE  Data'
<1>1. UNCHANGED <<secret, sharedVars, probed, lists, count, rec, printed>> /\ i' = i
  BY SpyDoneEffect DEF SpyDone, spyVars
<1>2. \A u \in {Trojan, Spy} :
        pc'[u] = pc[u] \/ (pc[u] \notin Touching /\ pc'[u] \notin Touching)
  BY SpyDoneEffect, Threads, Distinct DEF Touching
<1>3. QED
  BY <1>1, <1>2, DataUnchanged

LEMMA RootAwaitReadyData ==
  ASSUME Control, Data, RootAwaitReady
  PROVE  Data'
<1>1. UNCHANGED <<secret, sharedVars, probed, lists, count, rec, printed>> /\ i' = i
  BY RootAwaitReadyEffect DEF RootAwaitReady, spyVars
<1>2. \A u \in {Trojan, Spy} :
        pc'[u] = pc[u] \/ (pc[u] \notin Touching /\ pc'[u] \notin Touching)
  BY RootAwaitReadyEffect, Threads, Distinct DEF Touching
<1>3. QED
  BY <1>1, <1>2, DataUnchanged

LEMMA RootStampData ==
  ASSUME Control, Data, RootStamp
  PROVE  Data'
<1>1. UNCHANGED <<secret, sharedVars, probed, lists, count, rec, printed>> /\ i' = i
  BY RootStampEffect DEF RootStamp, spyVars
<1>2. \A u \in {Trojan, Spy} :
        pc'[u] = pc[u] \/ (pc[u] \notin Touching /\ pc'[u] \notin Touching)
  BY RootStampEffect, Threads, Distinct DEF Touching
<1>3. QED
  BY <1>1, <1>2, DataUnchanged

LEMMA RootTellTrojanData ==
  ASSUME Control, Data, RootTellTrojan
  PROVE  Data'
<1>1. UNCHANGED <<secret, sharedVars, probed, lists, count, rec, printed>> /\ i' = i
  BY RootTellTrojanEffect DEF RootTellTrojan, spyVars
<1>2. \A u \in {Trojan, Spy} :
        pc'[u] = pc[u] \/ (pc[u] \notin Touching /\ pc'[u] \notin Touching)
  BY RootTellTrojanEffect, Threads, Distinct DEF Touching
<1>3. QED
  BY <1>1, <1>2, DataUnchanged

LEMMA RootTellSpyData ==
  ASSUME Control, Data, RootTellSpy
  PROVE  Data'
<1>1. UNCHANGED <<secret, sharedVars, probed, lists, count, rec, printed>> /\ i' = i
  BY RootTellSpyEffect DEF RootTellSpy, spyVars
<1>2. \A u \in {Trojan, Spy} :
        pc'[u] = pc[u] \/ (pc[u] \notin Touching /\ pc'[u] \notin Touching)
  BY RootTellSpyEffect, Threads, Distinct DEF Touching
<1>3. QED
  BY <1>1, <1>2, DataUnchanged

LEMMA RootAwaitResultData ==
  ASSUME Control, Data, RootAwaitResult
  PROVE  Data'
<1>1. UNCHANGED <<secret, sharedVars, probed, lists, count, rec, printed>> /\ i' = i
  BY RootAwaitResultEffect DEF RootAwaitResult, spyVars
<1>2. \A u \in {Trojan, Spy} :
        pc'[u] = pc[u] \/ (pc[u] \notin Touching /\ pc'[u] \notin Touching)
  BY RootAwaitResultEffect, Threads, Distinct DEF Touching
<1>3. QED
  BY <1>1, <1>2, DataUnchanged

LEMMA AdvanceData ==
  ASSUME Control, Data, Advance
  PROVE  Data'
<1>1. UNCHANGED <<secret, sharedVars, probed, lists, count, rec, printed>>
      /\ i' = i /\ pc' = pc
  BY DEF Advance, spyVars
<1>2. QED
  BY <1>1, DataUnchanged

LEMMA SpySearchData ==
  ASSUME Control, Data, SpySearch
  PROVE  Data'
<1>1. /\ probed' = Remove(ApiOrder)
      /\ UNCHANGED <<secret, dirty, shared, lists, count, rec, printed, i>>
      /\ pc'[Spy] = "ready" /\ pc'[Trojan] = pc[Trojan]
  BY SpySearchEffect, Threads, Distinct DEF SpySearch, sharedVars
<1>2. Turns' /\ Recorded' /\ LinesAgree'
  BY <1>1 DEF Data, Turns, Recorded, Agrees, LinesAgree
<1>3. Disturbed'
  BY <1>1, SpySearchEffect DEF Data, Disturbed
<1>4. Values'
  BY <1>1, RemoveLosesNone DEF Data, Values
<1>5. QED
  BY <1>2, <1>3, <1>4 DEF Data

LEMMA TrojanWaitData ==
  ASSUME Control, Data, TrojanWait
  PROVE  Data'
<1>1. /\ secret' \in Choice
      /\ UNCHANGED <<dirty, shared, probed, lists, count, rec, printed, i>>
      /\ pc[Trojan] = "wait" /\ pc'[Trojan] = "touch" /\ pc'[Spy] = pc[Spy]
  BY TrojanWaitEffect, Threads, Distinct DEF TrojanWait, sharedVars, spyVars
<1>2. Turns' /\ Recorded' /\ LinesAgree'
  BY <1>1 DEF Data, Turns, Recorded, Agrees, LinesAgree
<1>3. Disturbed'
  BY <1>1 DEF Data, Disturbed
<1>4. Values'
  BY <1>1 DEF Data, Values
<1>5. QED
  BY <1>2, <1>3, <1>4 DEF Data

LEMMA TrojanTouchData ==
  ASSUME Timely, Control, Clocks, Data, TrojanTouch
  PROVE  Data'
<1>1. /\ dirty' = dirty \cup Disturbs(secret)
      /\ UNCHANGED <<secret, shared, probed, lists, count, rec, printed, i>>
      /\ pc[Trojan] = "touch" /\ pc'[Trojan] = "publish" /\ pc'[Spy] = pc[Spy]
  BY TrojanTouchEffect, Threads, Distinct DEF TrojanTouch, spyVars
<1>2. i[Trojan] = i[Spy]
  BY <1>1, TrojanTurn, ClockTypes DEF Data, Turns
<1>3. i[Trojan] # i[Spy] + 1
  BY <1>2, ClockTypes
<1>4. dirty' = Disturbs(secret)
  BY <1>1, <1>2 DEF Data, Disturbed
<1>5. Turns' /\ Recorded' /\ LinesAgree'
  BY <1>1 DEF Data, Turns, Recorded, Agrees, LinesAgree
<1>6. Disturbed'
  BY <1>1, <1>2, <1>3, <1>4 DEF Data, Disturbed
<1>7. Values'
  BY <1>1, <1>4, FootFinite DEF Data, Values
<1>8. QED
  BY <1>5, <1>6, <1>7 DEF Data

LEMMA TrojanPublishData ==
  ASSUME Timely, Control, Clocks, Data, TrojanPublish
  PROVE  Data'
<1>1. /\ shared' = secret
      /\ UNCHANGED <<secret, dirty, probed, lists, count, rec, printed>>
      /\ pc[Trojan] = "publish" /\ pc'[Trojan] \in {"offset", "spin"}
      /\ pc'[Spy] = pc[Spy]
  BY TrojanPublishEffect, Threads, Distinct DEF TrojanPublish, spyVars, After
<1>2. i'[Trojan] = i[Trojan] + 1 /\ i'[Spy] = i[Spy]
  BY TrojanPublishEffect, Threads, Distinct DEF Control, Types
<1>3. i[Trojan] = i[Spy] /\ pc[Spy] \notin {"probe", "record"}
  BY <1>1, TrojanTurn, ClockTypes DEF Data, Turns
<1>4. i'[Trojan] = i'[Spy] + 1 /\ i'[Trojan] # i'[Spy]
  BY <1>2, <1>3, ClockTypes
<1>5. dirty = Disturbs(secret) /\ secret \in Choice
  BY <1>1, <1>3 DEF Data, Disturbed
<1>6. Turns' /\ Recorded' /\ LinesAgree'
  BY <1>1, <1>2, <1>4 DEF Data, Turns, Recorded, Agrees, LinesAgree
<1>7. Disturbed'
  BY <1>1, <1>3, <1>4, <1>5 DEF Data, Disturbed
<1>8. Values'
  BY <1>1 DEF Data, Values
<1>9. QED
  BY <1>6, <1>7, <1>8 DEF Data

LEMMA SpyWaitData ==
  ASSUME Timely, Control, Clocks, Data, SpyWait
  PROVE  Data'
<1>1. /\ lists' = Api /\ count' = 0
      /\ UNCHANGED <<secret, dirty, shared, probed, rec, printed, i>>
      /\ pc[Spy] = "wait" /\ pc'[Spy] = "probe" /\ pc'[Trojan] = pc[Trojan]
  BY SpyWaitEffect, Threads, Distinct DEF SpyWait, sharedVars
<1>2. Rounds(i[Spy] + 1) + SpyOffset <= now - start[Spy]
  <2>1. ~(now - start[Spy] < offset[Spy])
    BY <1>1 DEF SpyWait, Polls, Elapsed
  <2>2. offset[Spy] = Rounds(i[Spy] + 1) + SpyOffset
    BY <1>1 DEF Clocks, SpyTime, SpyClock
  <2>3. i[Spy] + 1 \in Nat
    BY ClockTypes
  <2>4. QED
    BY <2>1, <2>2, <2>3, ClockTypes, RoundFacts
<1>3. i[Trojan] = i[Spy] + 1 /\ i[Trojan] # i[Spy]
  BY <1>1, <1>2, SpyTurn, ClockTypes DEF Data, Turns
<1>4. dirty = Disturbs(shared)
  BY <1>1, <1>3 DEF Data, Disturbed
<1>5. count' = Cardinality(Disturbs(shared) \ dirty)
  <2>1. Disturbs(shared) \ dirty = {}
    BY <1>4
  <2>2. QED
    BY <1>1, <2>1, FS_EmptySet
<1>6. Turns' /\ Recorded' /\ LinesAgree'
  BY <1>1 DEF Data, Turns, Recorded, Agrees, LinesAgree
<1>7. Disturbed'
  BY <1>1, <1>3, <1>4, <1>5 DEF Data, Disturbed
<1>8. Values'
  <2>1. Cardinality(CacheSet) \in Nat
    BY FootFinite, FS_CardinalityType
  <2>2. QED
    BY <1>1, <2>1 DEF Data, Values
<1>9. QED
  BY <1>6, <1>7, <1>8 DEF Data

\* What is left to find and what is found make up the call's cache sets.
LEMMA SpyProbeData ==
  ASSUME Timely, Control, Clocks, Data, SpyProbe
  PROVE  Data'
<1>1. PICK a \in lists : /\ count' = count + Cardinality(probed[a] \cap dirty)
                         /\ dirty' = dirty \ probed[a]
                         /\ lists' = lists \ {a}
  BY DEF SpyProbe
<1>2. /\ UNCHANGED <<secret, shared, probed, rec, printed, i>>
      /\ pc[Spy] = "probe" /\ pc'[Trojan] = pc[Trojan]
      /\ pc'[Spy] = IF Cardinality(lists) = 1 THEN "record" ELSE "probe"
  BY SpyProbeEffect, Threads, Distinct DEF SpyProbe
<1>3. lists \subseteq Api /\ IsFiniteSet(lists)
  BY LlcAssumption, FS_Subset DEF Clocks, ListsLeft
<1>4. i[Trojan] = i[Spy] + 1 /\ i[Trojan] # i[Spy]
  <2>1. Rounds(i[Spy] + 1) + SpyOffset <= now - start[Spy]
    BY <1>2 DEF Clocks, SpyTime, SpyClock
  <2>2. QED
    BY <1>2, <2>1, SpyTurn, ClockTypes DEF Data, Turns
<1> DEFINE all == Disturbs(shared)
<1>5. /\ shared \in Choice /\ dirty \subseteq all
      /\ count = Cardinality(all \ dirty)
      /\ \A b \in Api \ lists : probed[b] \cap dirty = {}
      /\ probed = Remove(ApiOrder)
  BY <1>2, <1>4 DEF Data, Disturbed
<1>6. all \subseteq CacheSet /\ IsFiniteSet(all)
  BY FootFinite
<1> HIDE DEF all
<1>7. /\ count' = Cardinality(all \ dirty') /\ dirty' \subseteq all
      /\ count' \in 0..Cardinality(CacheSet)
  <2> DEFINE found == all \ dirty
             new == probed[a] \cap dirty
  <2>1. all \ dirty' = found \cup new /\ found \cap new = {}
    BY <1>1, <1>5
  <2>2. found \in SUBSET all /\ new \in SUBSET all
    BY <1>5
  <2>3. IsFiniteSet(found) /\ IsFiniteSet(new)
    BY <1>6, <2>2, FS_Subset
  <2> HIDE DEF found, new
  <2>4. Cardinality(all \ dirty') = Cardinality(found) + Cardinality(new)
    <3>1. Cardinality(found \cup new)
            = Cardinality(found) + Cardinality(new) - Cardinality(found \cap new)
      BY <2>3, FS_Union
    <3>2. Cardinality(found \cap new) = 0
      BY <2>1, FS_EmptySet
    <3>3. Cardinality(found) \in Nat /\ Cardinality(new) \in Nat
      BY <2>3, FS_CardinalityType
    <3>4. Cardinality(found \cup new) = Cardinality(found) + Cardinality(new)
      BY <3>1, <3>2, <3>3
    <3>5. QED
      BY <2>1, <3>4, Zenon
  <2>5. all \ dirty' \in SUBSET CacheSet
    BY <1>6
  <2>6. Cardinality(all \ dirty') \in 0..Cardinality(CacheSet)
    BY <2>5, FootFinite, FS_Subset, FS_CardinalityType
  <2>7. QED
    BY <1>1, <1>5, <2>4, <2>6 DEF found, new
<1>8. \A b \in Api \ lists' : probed'[b] \cap dirty' = {}
  BY <1>1, <1>2, <1>5
<1>9. pc'[Spy] = "record" => dirty' = {}
  <2>1. SUFFICES ASSUME pc'[Spy] = "record"
                 PROVE  dirty' = {}
    OBVIOUS
  <2>2. Cardinality(lists') = 0
    <3>1. Cardinality(lists) = 1
      BY <1>2, <2>1
    <3>2. Cardinality(lists \ {a}) = Cardinality(lists) - 1
      BY <1>3, FS_RemoveElement
    <3>3. QED
      BY <1>1, <3>1, <3>2
  <2>3. lists' = {}
    <3>1. IsFiniteSet(lists')
      BY <1>1, <1>3, FS_RemoveElement
    <3>2. QED
      BY <2>2, <3>1, FS_EmptySet
  <2>4. \A b \in Api : Remove(ApiOrder)[b] \cap dirty' = {}
    BY <1>2, <1>5, <1>8, <2>3
  <2>5. dirty' \subseteq CacheSet
    BY <1>6, <1>7
  <2>6. QED
    BY <2>4, <2>5, RemoveLosesNone
<1>10. Turns' /\ Recorded' /\ LinesAgree'
  BY <1>2 DEF Data, Turns, Recorded, Agrees, LinesAgree
<1>11. Disturbed'
  BY <1>2, <1>4, <1>5, <1>7, <1>8, <1>9 DEF Data, Disturbed, all
<1>12. Values'
  BY <1>1, <1>2, <1>7 DEF Data, Values
<1>13. QED
  BY <1>10, <1>11, <1>12 DEF Data

LEMMA SpyRecordData ==
  ASSUME Timely, Control, Clocks, Data, SpyRecord
  PROVE  Data'
<1>1. /\ rec' = [rec EXCEPT ![i[Spy]] = [seq |-> shared, lines |-> count]]
      /\ UNCHANGED <<secret, dirty, shared, probed, lists, count, printed>>
      /\ pc[Spy] = "record" /\ pc'[Spy] \in {"offset", "done"}
      /\ pc'[Trojan] = pc[Trojan]
  BY SpyRecordEffect, Threads, Distinct DEF SpyRecord, sharedVars, After
<1>2. i'[Spy] = i[Spy] + 1 /\ i'[Trojan] = i[Trojan]
  BY SpyRecordEffect, Threads, Distinct DEF Control, Types
<1>3. /\ i[Trojan] = i[Spy] + 1 /\ i[Trojan] # i[Spy]
      /\ pc[Trojan] \notin {"touch", "publish"}
  <2>1. Rounds(i[Spy] + 1) + SpyOffset <= now - start[Spy]
    BY <1>1 DEF Clocks, SpyTime, SpyClock
  <2>2. QED
    BY <1>1, <2>1, SpyTurn, ClockTypes DEF Data, Turns
<1>4. /\ shared \in Choice /\ dirty = {}
      /\ count = Cardinality(Disturbs(shared) \ dirty)
  BY <1>1, <1>3 DEF Data, Disturbed
<1>5. count = Cardinality(Disturbs(shared))
  BY <1>4
<1>6. i'[Trojan] = i'[Spy] /\ i'[Trojan] # i'[Spy] + 1
  BY <1>2, <1>3, ClockTypes
<1>7. i[Spy] \in Slot
  BY <1>1, ClockTypes DEF Control, Loops, Slot
<1>8. Turns' /\ LinesAgree'
  BY <1>1, <1>6 DEF Data, Turns, LinesAgree
<1>9. Disturbed'
  BY <1>1, <1>3, <1>4, <1>6 DEF Data, Disturbed
<1> DEFINE line == [seq |-> shared, lines |-> count]
<1>10. Agrees(line) /\ line \in Line
  <2>1. line.seq = shared /\ line.lines = count
    OBVIOUS
  <2>2. count \in Nat
    BY DEF Data, Values
  <2>3. QED
    BY <1>4, <1>5, <2>1, <2>2 DEF Agrees, Line
<1>11. rec' = [rec EXCEPT ![i[Spy]] = line]
  BY <1>1
<1> HIDE DEF line
<1>12. Recorded'
  <2>1. DOMAIN rec' = Slot
    BY <1>11 DEF Data, Recorded
  <2>2. ASSUME NEW k \in Slot, k < i[Spy] + 1
        PROVE  Agrees(rec'[k])
    <3>1. CASE k = i[Spy]
      BY <1>7, <1>10, <1>11, <3>1 DEF Data, Recorded
    <3>2. CASE k # i[Spy]
      <4>1. rec'[k] = rec[k] /\ k < i[Spy]
        BY <1>11, <2>2, <3>2, ClockTypes DEF Data, Recorded, Slot
      <4>2. QED
        BY <4>1 DEF Data, Recorded
    <3>3. QED
      BY <3>1, <3>2
  <2>3. QED
    BY <1>2, <2>1, <2>2 DEF Recorded, Agrees
<1>13. Values'
  <2>1. rec' \in [Slot -> Line]
    BY <1>7, <1>10, <1>11 DEF Data, Values
  <2>2. QED
    BY <1>1, <2>1 DEF Data, Values
<1>14. QED
  BY <1>8, <1>9, <1>12, <1>13 DEF Data

\* The root task prints when the spy has finished, so every line is recorded.
LEMMA RootPrintData ==
  ASSUME Control, Data, RootPrint
  PROVE  Data'
<1>1. /\ UNCHANGED <<secret, dirty, shared, probed, lists, count, rec>>
      /\ pc[Root] = "report" /\ ipc[Root] = Ready
      /\ pc'[Trojan] = pc[Trojan] /\ pc'[Spy] = pc[Spy]
      /\ i'[Trojan] = i[Trojan] /\ i'[Spy] = i[Spy]
  BY RootPrintEffect, Threads, Distinct DEF RootPrint, sharedVars, spyVars
<1>2. Turns' /\ Disturbed' /\ Recorded'
  BY <1>1 DEF Data, Turns, Disturbed, Recorded, Agrees
<1>3. CASE i[Root] < DataPoints
  <2>1. printed' = printed \cup {<<i[Root], rec[i[Root]]>>}
    BY <1>3 DEF RootPrint
  <2>2. pc[Spy] = "spin" /\ i[Spy] = DataPoints
    BY <1>1 DEF Control, Statements, RootWaits, Loops
  <2>3. i[Root] \in Slot
    BY <1>3, Threads DEF Control, Types, Slot
  <2>4. Agrees(rec[i[Root]]) /\ rec[i[Root]] \in Line
    BY <1>3, <2>2, <2>3 DEF Data, Recorded, Values
  <2>5. LinesAgree'
    <3> DEFINE r == rec[i[Root]]
               line == <<i[Root], r>>
    <3>1. line[2] = r
      OBVIOUS
    <3>2. line[2].seq \in Choice /\ line[2].lines = Cardinality(Disturbs(line[2].seq))
      BY <2>4, <3>1 DEF Agrees
    <3> HIDE DEF line
    <3>3. \A l \in printed : /\ l[2].seq \in Choice
                             /\ l[2].lines = Cardinality(Disturbs(l[2].seq))
      BY DEF Data, LinesAgree
    <3>4. printed' = printed \cup {line}
      BY <2>1 DEF line
    <3>5. QED
      BY <3>2, <3>3, <3>4 DEF LinesAgree
  <2>6. Values'
    BY <1>1, <2>1, <2>3, <2>4 DEF Data, Values
  <2>7. QED
    BY <1>2, <2>5, <2>6 DEF Data
<1>4. CASE ~(i[Root] < DataPoints)
  <2>1. printed' = printed
    BY <1>4 DEF RootPrint
  <2>2. LinesAgree' /\ Values'
    BY <1>1, <2>1 DEF Data, LinesAgree, Values
  <2>3. QED
    BY <1>2, <2>2 DEF Data
<1>5. QED
  BY <1>3, <1>4

LEMMA InitData == Init => Data
<1> SUFFICES ASSUME Init
             PROVE  Data
  OBVIOUS
<1>1. /\ i[Trojan] = 0 /\ i[Spy] = 0 /\ pc[Trojan] = "global" /\ pc[Spy] = "search"
      /\ dirty = {} /\ printed = {} /\ count = 0 /\ probed = Foot
      /\ secret = NoLabel /\ shared = NoLabel
      /\ rec = [k \in Slot |-> [seq |-> NoLabel, lines |-> 0]]
  BY Threads, Distinct DEF Init
<1>2. Turns /\ LinesAgree
  BY <1>1 DEF Turns, LinesAgree
<1>3. Disturbed
  BY <1>1 DEF Disturbed
<1>4. Recorded
  BY <1>1 DEF Recorded, Slot
<1>5. Values
  <2>1. Foot \in [Api -> SUBSET CacheSet]
    BY LlcAssumption
  <2>2. Cardinality(CacheSet) \in Nat
    BY FootFinite, FS_CardinalityType
  <2>3. rec \in [Slot -> Line]
    BY <1>1 DEF Line
  <2>4. QED
    BY <1>1, <2>1, <2>2, <2>3 DEF Values
<1>6. QED
  BY <1>2, <1>3, <1>4, <1>5 DEF Data

LEMMA NextData ==
  ASSUME Timely, Control, Clocks, Data, [Next]_vars
  PROVE  Data'
<1>1. CASE Next
  BY <1>1, AdvanceData, StartClockData, EnterWaitingProbeData,
     TrojanGlobalTimeData, TrojanSyncData, TrojanWaitData, TrojanTouchData,
     TrojanPublishData, SpySearchData, SpyReadyData, SpyGlobalTimeData,
     SpySyncData, SpyWaitData, SpyProbeData, SpyRecordData, SpyDoneData,
     RootAwaitReadyData, RootStampData, RootTellTrojanData, RootTellSpyData,
     RootAwaitResultData, RootPrintData DEF Next, TrojanNext, SpyNext, RootNext
<1>2. CASE UNCHANGED vars
  BY <1>2, DataUnchanged DEF vars, spyVars
<1>3. QED
  BY <1>1, <1>2

-----------------------------------------------------------------------------
(* The results *)

IInv == Timely /\ Control /\ Clocks /\ Data

\* With constants that are Timely, the invariant holds in every reachable state.
THEOREM Invariance == Timely /\ Spec => []IInv
<1>1. Timely /\ Init => IInv
  BY InitControl, InitClocks, InitData DEF IInv
<1>2. IInv /\ [Next]_vars => IInv'
  BY NextControl, NextClocks, NextData DEF IInv, Timely
<1>3. QED
  BY <1>1, <1>2, PTL DEF Spec

\* Every variable keeps its type; the spy never counts more lines than the
\* system calls disturb together (covert_llc_kernel.c).
THEOREM TypeCorrect == Timely /\ Spec => []TypeOK
<1>1. IInv => TypeOK
  BY DEF IInv, Control, Types, Clocks, ListsLeft, Data, Values, Line, TypeOK,
     IpcState, Statement
<1>2. QED
  BY <1>1, Invariance, PTL

\* The busy waits of waiting_probe alone keep the trojan's prime and the spy's
\* probe apart.
THEOREM PrimeAndProbeApart == Timely /\ Spec => []PrimeProbeApart
<1>1. IInv => PrimeProbeApart
  BY TrojanTurn DEF IInv, PrimeProbeApart
<1>2. QED
  BY <1>1, Invariance, PTL

\* The spy records sample k after the k-th and before the next publication of
\* the trojan, whatever the drift of the two start times.
THEOREM SamplesInStep == Timely /\ Spec => []InStep
<1>1. IInv => InStep
  <2>1. SUFFICES ASSUME IInv, pc[Spy] = "record"
                 PROVE  i[Trojan] = i[Spy] + 1
    BY DEF InStep
  <2>2. Rounds(i[Spy] + 1) + SpyOffset <= now - start[Spy]
    BY <2>1 DEF IInv, Clocks, SpyTime, SpyClock
  <2>3. QED
    BY <2>1, <2>2, SpyTurn, ClockTypes DEF IInv, Data, Turns
<1>2. QED
  BY <1>1, Invariance, PTL

\* Every printed line counts the cache sets of the system call it names, each
\* once, although the spy probes overlapping sets in several lists
\* (remove_same_probesets).
THEOREM LinesCountTheirCall == Timely /\ Spec => []LinesAgree
<1>1. IInv => LinesAgree
  BY DEF IInv, Data
<1>2. QED
  BY <1>1, Invariance, PTL

\* No round is late because the one before it was: in every round the trojan
\* primes and the spy probes within a bounded time of their multiple of the
\* period (waiting_probe).
THEOREM ScheduleKept == Timely /\ Spec => []NoDrift
<1>1. IInv => NoDrift
  <2> SUFFICES ASSUME IInv
               PROVE  NoDrift
    OBVIOUS
  <2>1. Control /\ Clocks
    BY DEF IInv
  <2>2. ASSUME pc[Trojan] = "touch"
        PROVE  now - start[Trojan] - Rounds(i[Trojan] + 1) \in 0..(2 * Latency)
    <3> DEFINE e == now - start[Trojan]
               due == Rounds(i[Trojan] + 1)
    <3>1. due <= e /\ e <= due + Latency + lag[Trojan]
      BY <2>1, <2>2 DEF Clocks, TrojanTime, TrojanClock
    <3>2. /\ due \in Nat /\ e \in Int /\ Latency \in Nat
          /\ lag[Trojan] \in 0..Latency
      BY <2>1, ClockTypes, RoundFacts
    <3> HIDE DEF e, due
    <3>3. e - due \in 0..(2 * Latency)
      BY <3>1, <3>2
    <3>4. QED
      BY <3>3 DEF e, due
  <2>3. ASSUME pc[Spy] \in {"probe", "record"}
        PROVE  now - start[Spy] - (Rounds(i[Spy] + 1) + SpyOffset)
                 \in 0..Latencies(Calls + 2)
    <3> DEFINE f == now - start[Spy]
               due == Rounds(i[Spy] + 1) + SpyOffset
    <3>1. due <= f /\ f <= due + Latencies(Calls) + Latency + lag[Spy]
      <4>1. CASE pc[Spy] = "record"
        BY <2>1, <4>1 DEF Clocks, SpyTime, SpyClock
      <4>2. CASE pc[Spy] = "probe"
        <5> DEFINE c == Cardinality(lists)
        <5>1. due <= f /\ f <= due + Latencies(Calls - c + 1) + lag[Spy]
          BY <2>1, <4>2 DEF Clocks, SpyTime, SpyClock
        <5>2. c \in 1..Calls
          <6>1. lists \subseteq Api /\ lists # {} /\ IsFiniteSet(Api)
            BY <2>1, <4>2, LlcAssumption DEF Clocks, ListsLeft
          <6>2. QED
            BY <6>1, FS_Subset, FS_EmptySet, FS_CardinalityType DEF Calls
        <5>3. Latencies(Calls - c + 1) <= Latencies(Calls)
          BY <5>2, LatencyOrder, CallsFacts
        <5>4. /\ due \in Nat /\ f \in Int /\ Latency \in Nat
              /\ lag[Spy] \in 0..Latency /\ Latencies(Calls) \in Nat
              /\ Latencies(Calls - c + 1) \in Nat
          <6>1. i[Spy] + 1 \in Nat /\ SpyOffset \in Nat /\ Calls \in Nat
            BY <2>1, ClockTypes, RoundFacts, CallsFacts
          <6>2. Calls - c + 1 \in Nat
            <7> HIDE DEF c
            <7>1. QED
              BY <5>2, <6>1
          <6>3. Latencies(Calls - c + 1) \in Nat /\ Latencies(Calls) \in Nat
            <7> HIDE DEF c
            <7>1. QED
              BY <6>2, LatencyFacts, CallsFacts
          <6>4. Rounds(i[Spy] + 1) \in Nat
            BY <6>1, RoundFacts
          <6>5. due \in Nat
            BY <6>1, <6>4
          <6>6. f \in Int /\ Latency \in Nat /\ lag[Spy] \in 0..Latency
            BY <2>1, ClockTypes
          <6>7. QED
            BY <6>3, <6>5, <6>6, Zenon
        <5> HIDE DEF f, due, c
        <5>5. QED
          BY <5>1, <5>3, <5>4
      <4>3. QED
        BY <2>3, <4>1, <4>2
    <3>2. /\ due \in Nat /\ f \in Int /\ Latency \in Nat
          /\ lag[Spy] \in 0..Latency /\ Latencies(Calls) \in Nat
      BY <2>1, ClockTypes, RoundFacts, CallsFacts
    <3>3. Latencies(Calls + 2) = Latencies(Calls) + 2 * Latency
      BY <3>2, CallsFacts, LatencyFacts DEF Latencies
    <3> HIDE DEF f, due
    <3>4. f - due \in 0..Latencies(Calls + 2)
      BY <3>1, <3>2, <3>3
    <3>5. QED
      BY <3>4 DEF f, due
  <2>4. QED
    BY <2>2, <2>3 DEF NoDrift, Elapsed, Rounds, Latencies, Calls
<1>2. QED
  BY <1>1, Invariance, PTL
=============================================================================
