------------------------------ MODULE Benchmarks ------------------------------
(***************************************************************************)
(* The benchmarks whose threads only exchange messages: round-trip IPC,    *)
(* the functional test with the destruction of kernel images, cache        *)
(* flushing, SPLASH with an idle thread, and the LLC side channel on       *)
(* several cores.  Each has two benchmark threads, A and B, which the root *)
(* task sets up and launches; it waits for their results and prints.       *)
(*                                                                         *)
(* What matters here is the sequence of calls each thread makes, so a      *)
(* program is a sequence of statements.  Any thread that is ready may take *)
(* the next step: this covers every schedule of one or more cores.         *)
(***************************************************************************)
EXTENDS Endpoints, Processes, Sequences

CONSTANTS
  Root, A, B,
  syn_ep, a_ep, b_ep,  \* between the threads; the reply_ep of A and of B
  Runs, Warmups,       \* IPC_RUNS, IPC_WARMUPS; ipc_runs is Runs too
  Alives,              \* calls of alive() in a row
  Tries,               \* samples alive() takes
  TickWidth,           \* ticks after which ccnt_t wraps around
  NoThread

ASSUME BenchmarksAssumption ==
  /\ Thread = {Root, A, B} /\ Root # A /\ Root # B /\ A # B
  /\ Process = {A, B} /\ Image = {0, 1}
  /\ Endpoint = {syn_ep, a_ep, b_ep}
  /\ syn_ep # a_ep /\ syn_ep # b_ep /\ a_ep # b_ep
  /\ {Runs, Warmups, Alives, Tries} \subseteq Nat \ {0}
  /\ TickWidth \in Nat /\ TickWidth > 1
  /\ NoThread \notin Thread

-----------------------------------------------------------------------------
(* Statements *)

Do(op, arg) == <<[op |-> op, arg |-> arg]>>
Send(ep) == Do("send", ep)
Recv(ep) == Do("recv", ep)
Call(ep) == Do("call", ep)
ReplyRecv(ep) == Do("replyRecv", ep)
Write == Do("write", syn_ep)        \* a write to the record
WriteTick == Do("tick", syn_ep)     \* *record_vaddr = tick++
NewTimeSlice == Do("slice", syn_ep) \* wait until the peer has run
Yield == Do("yield", syn_ep)
PrintResult == Do("print", syn_ep)
Attack == Do("attack", syn_ep)      \* the search for the key, module Search
Repeat(n, body) ==
  [k \in 1..(n * Len(body)) |-> body[((k - 1) % Len(body)) + 1]]
InitEnv == Do("init", syn_ep)       \* bench_init_env, in main
Goto(k) == Do("goto", k)            \* the end of while (1)

\* Statements of the root task, named after the functions they call.
Create(t, k, untype_none) == Do("create", <<t, k, untype_none>>)
CopyCap(t) == Do("copyCaps", <<t, 1>>)
CopyTimer(t) == Do("copyCaps", <<t, TimerCaps>>)
MapRecord(t) == Do("mapBuf", <<t, "record">>)
MapMorecore(t) == Do("mapBuf", <<t, "morecore">>)
MapShared(owner, share) == Do("mapShared", <<owner, share>>)
Launch(t) == Do("launch", t)
Alive == Do("sample", syn_ep) \o Do("compare", syn_ep)

-----------------------------------------------------------------------------
(* Programs of the benchmark threads *)

\* Mutant: the result message precedes the last write to the record.
IpcCallerEarly ==
  Repeat(Runs - 1, Repeat(Warmups, Call(syn_ep)) \o Send(syn_ep) \o Write) \o
  Repeat(Warmups, Call(syn_ep)) \o Send(syn_ep) \o Send(a_ep) \o Write \o
  Recv(syn_ep)

IpcCaller ==
  Repeat(Runs, Repeat(Warmups, Call(syn_ep)) \o Send(syn_ep) \o Write) \o
  Send(a_ep) \o Recv(syn_ep)

\* Mutant: the inner loop runs once too often.
IpcReplierOffByOne ==
  Repeat(Runs, Recv(syn_ep) \o Repeat(Warmups + 1, ReplyRecv(syn_ep))) \o
  Recv(syn_ep)

IpcReplier ==
  Repeat(Runs, Recv(syn_ep) \o Repeat(Warmups, ReplyRecv(syn_ep))) \o
  Recv(syn_ep)

\* On several cores the test goes on for ever.
FuncsSender(multi) ==
  IF multi THEN Call(syn_ep) \o Goto(2)
  ELSE Repeat(Runs, Call(syn_ep)) \o Send(syn_ep) \o Send(a_ep) \o Recv(a_ep)

\* Mutant: the loop goes back to the first receive.
FuncsReceiverAgain(multi) ==
  Recv(syn_ep) \o
  IF multi THEN WriteTick \o ReplyRecv(syn_ep) \o Goto(2)
  ELSE Repeat(Runs, WriteTick \o ReplyRecv(syn_ep)) \o Send(b_ep) \o Recv(b_ep)

FuncsReceiver(multi) ==
  Recv(syn_ep) \o
  IF multi THEN WriteTick \o ReplyRecv(syn_ep) \o Goto(3)
  ELSE Repeat(Runs, WriteTick \o ReplyRecv(syn_ep)) \o Send(b_ep) \o Recv(b_ep)

\* The result follows one more slice.  after: what follows a measurement.
FlushThread(after) ==
  Send(syn_ep) \o Repeat(Runs, NewTimeSlice \o Write \o after) \o NewTimeSlice \o
  Send(a_ep)

\* llc_cache_flush, l1_cache_flush and l1_cache_nothing wait for the timer to
\* preempt them, the flush_only functions yield.
CacheFlush == FlushThread(<<>>)
CacheFlushOnly == FlushThread(Yield)

Splash == Send(syn_ep) \o NewTimeSlice \o Write \o Send(a_ep) \o Recv(syn_ep)

\* Mutant: the idle thread serves its endpoint again instead of spinning.
BenchIdleServes == Repeat(2, Recv(syn_ep))

BenchIdle == Recv(syn_ep)

MastikSpy ==
  Recv(a_ep) \o Send(a_ep) \o Recv(a_ep) \o Attack \o Send(a_ep) \o Recv(a_ep)

-----------------------------------------------------------------------------
(* Programs of the root task.  kernels is the configuration: without kernel *)
(* images, with images nobody uses, or with one for each thread.            *)

CreateKernelPd(kernels) ==
  IF kernels = "none" THEN <<>> ELSE Do("createKi", 0) \o Do("createKi", 1)

\* The kernel of the thread that gets kimages[k] if threads get their own.
KernelFor(k, kernels) == IF kernels = "own" THEN k ELSE Master

\* Wait for the result and print it.
Await(ep) == Recv(ep) \o PrintResult

\* Mutant: the record is mapped when the threads run already.
LaunchBenchFlushEarly(kernels) ==
  Create(A, KernelFor(0, kernels), FALSE) \o
  Create(B, KernelFor(1, kernels), FALSE) \o
  Launch(A) \o MapRecord(A) \o Launch(B) \o Await(a_ep)

LaunchBenchFlush(kernels) ==
  Create(A, KernelFor(0, kernels), FALSE) \o
  Create(B, KernelFor(1, kernels), FALSE) \o
  MapRecord(A) \o Launch(A) \o Launch(B) \o Await(a_ep)

\* The idle thread gets no untypeds.
LaunchBenchSplash(kernels) ==
  Create(A, KernelFor(0, kernels), FALSE) \o
  Create(B, KernelFor(1, kernels), TRUE) \o
  MapRecord(A) \o MapMorecore(A) \o Launch(A) \o Launch(B) \o Await(a_ep)

\* init_timing_threads, with the spy A and the trojan B.
InitTimingThreads(kernels) ==
  Create(B, KernelFor(0, kernels), FALSE) \o
  Create(A, KernelFor(1, kernels), FALSE) \o
  MapShared(B, A) \o MapRecord(A) \o CopyTimer(B) \o
  CopyCap(B) \o CopyCap(A) \o CopyCap(B) \o CopyCap(A) \o
  Launch(B) \o Launch(A)

RunMulti == Send(a_ep) \o Recv(a_ep) \o Send(a_ep) \o Recv(a_ep)

\* destroy_ki, and destroy_ki_via_kmem, which empties the slots of the
\* memory first and then destroys the image.
DestroyKernel(k) == Do("destroyKi", k)

TestDestroy(kernels, multi) ==
  IF kernels = "none" THEN <<>>
  ELSE DestroyKernel(0) \o DestroyKernel(1) \o
       DestroyKernel(0) \o DestroyKernel(1) \o
       Do("setKernel", <<A, KernelFor(0, kernels)>>) \o
       Do("setKernel", <<B, KernelFor(1, kernels)>>) \o
       IF multi THEN Repeat(Alives, Alive) ELSE <<>>

FuncTestSetup(kernels) ==
  Create(A, KernelFor(0, kernels), FALSE) \o
  Create(B, KernelFor(1, kernels), FALSE) \o
  MapRecord(B) \o MapShared(B, A) \o Launch(B) \o Launch(A)

\* Mutant: the root task waits for the receiver only.
FuncTestReceiverOnly(kernels, multi) ==
  FuncTestSetup(kernels) \o
  (IF multi THEN Repeat(Alives, Alive) ELSE Recv(b_ep)) \o
  TestDestroy(kernels, multi)

FuncTest(kernels, multi) ==
  FuncTestSetup(kernels) \o
  (IF multi THEN Repeat(Alives, Alive) ELSE Recv(b_ep) \o Recv(a_ep)) \o
  TestDestroy(kernels, multi)

Bench == {"ipc", "func", "funcMulti", "flush", "flushOnly", "splash", "mastik"}
Config == [bench: Bench, kernels: {"none", "master", "own"}]

\* The programs of A and B, and the benchmark's entry point in the root task.
BenchPrograms(bench, kernels) ==
  LET multi == bench = "funcMulti"
  IN  CASE bench = "ipc" ->
             <<IpcCaller, IpcReplier, LaunchBenchFlush(kernels)>>
        [] bench \in {"func", "funcMulti"} ->
             <<FuncsSender(multi), FuncsReceiver(multi), FuncTest(kernels, multi)>>
        [] bench = "flush" ->
             <<CacheFlush, BenchIdle, LaunchBenchFlush(kernels)>>
        [] bench = "flushOnly" ->
             <<CacheFlushOnly, BenchIdle, LaunchBenchFlush(kernels)>>
        [] bench = "splash" ->
             <<Splash, BenchIdle, LaunchBenchSplash(kernels)>>
        [] bench = "mastik" ->
             <<MastikSpy, <<>>, InitTimingThreads(kernels) \o RunMulti>>

Programs ==
  [c \in Config |->
     LET p == BenchPrograms(c.bench, c.kernels)
     IN  [t \in Thread |-> IF t = A THEN InitEnv \o p[1]
                           ELSE IF t = B THEN InitEnv \o p[2]
                           ELSE CreateKernelPd(c.kernels) \o p[3]]]

-----------------------------------------------------------------------------
VARIABLES
  config, \* the benchmark the image is configured for
  pc,     \* the next statement of each thread
  caller, \* whom a thread's reply will go to
  record, \* the first word of the record, which the receiver's tick goes to
  tick,   \* the receiver's tick
  aborted, \* the threads an assertion has stopped
  probe   \* alive(): [local, tries, verdict]

messageVars == <<ipc, caller>>
recordVars == <<record, tick>>
vars == <<messageVars, processVars, recordVars, config, pc, probe, aborted>>

Program(t) == Programs[config][t]
Tick == 0..(TickWidth - 1)

BlockedOnReply == [op |-> "reply"]

TypeOK ==
  /\ ProcessesTypeOK
  /\ config \in Config
  /\ ipc \in [Thread -> IpcState \cup {BlockedOnReply} \cup
                        [op: {"call"}, ep: Endpoint]]
  /\ pc \in [Thread -> Nat]
  /\ \A t \in Thread : pc[t] \in 1..(Len(Program(t)) + 1)
  /\ caller \in [Thread -> Thread \cup {NoThread}]
  /\ record \in Tick /\ tick \in Tick
  /\ aborted \subseteq Thread
  /\ probe \in [local: Tick, tries: 0..Tries,
                verdict: {"none", "alive", "dead"}]

\* The pages of the record are zero.
Init ==
  /\ ProcessesInit
  /\ config \in Config
  /\ ipc = [t \in Thread |-> Ready]
  /\ pc = [t \in Thread |-> 1]
  /\ caller = [t \in Thread |-> NoThread]
  /\ record = 0 /\ tick = 0
  /\ aborted = {}
  /\ probe = [local |-> 0, tries |-> 0, verdict |-> "none"]

\* t executes: the root task, or a process the root task has launched, unless
\* an assertion of its own has failed.
Executes(t) ==
  /\ ipc[t] = Ready
  /\ t \in Process => CanRun(t)
  /\ t \notin aborted

\* The next statement of t, which is past its last one when it spins.
Statement(t) == Program(t)[pc[t]]
HasNext(t) == pc[t] <= Len(Program(t))
At(t, op) == HasNext(t) /\ Statement(t).op = op /\ Executes(t)
AtEndpoint(t, op, ep) == At(t, op) /\ Statement(t).arg = ep

Advance(t) ==
  pc' = [pc EXCEPT ![t] = @ + 1] /\ UNCHANGED <<config, aborted>>

-----------------------------------------------------------------------------
(* System calls *)

SendStep(t, ep) ==
  /\ AtEndpoint(t, "send", ep)
  /\ SendTransfer(t, ep)
  /\ Advance(t)
  /\ UNCHANGED <<caller, processVars, recordVars, probe>>

CallStep(t, ep) ==
  /\ AtEndpoint(t, "call", ep)
  /\ IF Waiting("recv", ep) = {}
     THEN ipc' = [ipc EXCEPT ![t] = Blocked("call", ep)] /\ UNCHANGED caller
     ELSE \E r \in Waiting("recv", ep) :
            /\ ipc' = [ipc EXCEPT ![r] = Ready, ![t] = BlockedOnReply]
            /\ caller' = [caller EXCEPT ![r] = t]
  /\ Advance(t)
  /\ UNCHANGED <<processVars, recordVars, probe>>

\* t receives on ep, in the state ipc is in after t has replied.
Receive(t, ep, replied) ==
  \/ /\ Waiting("send", ep) \cup Waiting("call", ep) = {}
     /\ ipc' = [replied EXCEPT ![t] = Blocked("recv", ep)]
     /\ caller' = [caller EXCEPT ![t] = NoThread]
  \/ \E s \in Waiting("send", ep) :
       /\ ipc' = [replied EXCEPT ![s] = Ready]
       /\ caller' = [caller EXCEPT ![t] = NoThread]
  \/ \E s \in Waiting("call", ep) :
       /\ ipc' = [replied EXCEPT ![s] = BlockedOnReply]
       /\ caller' = [caller EXCEPT ![t] = s]

RecvStep(t, ep) ==
  /\ AtEndpoint(t, "recv", ep)
  /\ Receive(t, ep, ipc)
  /\ Advance(t)
  /\ UNCHANGED <<processVars, recordVars, probe>>

ReplyRecvStep(t, ep) ==
  /\ AtEndpoint(t, "replyRecv", ep)
  /\ Receive(t, ep, IF caller[t] = NoThread THEN ipc
                    ELSE [ipc EXCEPT ![caller[t]] = Ready])
  /\ Advance(t)
  /\ UNCHANGED <<processVars, recordVars, probe>>

-----------------------------------------------------------------------------
(* Steps of a benchmark thread of its own *)

\* newTimeSlice returns when another benchmark thread has had the core.
SliceStep(t) ==
  /\ At(t, "slice")
  /\ \E u \in {A, B} \ {t} : Executes(u)
  /\ Advance(t)
  /\ UNCHANGED <<messageVars, processVars, recordVars, probe>>

InitStep(t) ==
  /\ At(t, "init")
  /\ BenchInitEnv(t)
  /\ Advance(t)
  /\ UNCHANGED <<messageVars, recordVars, probe>>

\* Mutant: the loop index advances twice.
LocalStepTwice(t) ==
  /\ \E op \in {"write", "yield", "print", "attack"} : At(t, op)
  /\ pc' = [pc EXCEPT ![t] = @ + 2]
  /\ UNCHANGED <<messageVars, processVars, recordVars, probe, config, aborted>>

LocalStep(t) ==
  /\ \E op \in {"write", "yield", "print", "attack"} : At(t, op)
  /\ Advance(t)
  /\ UNCHANGED <<messageVars, processVars, recordVars, probe>>

TickStep(t) ==
  /\ At(t, "tick")
  /\ record' = tick
  /\ tick' = (tick + 1) % TickWidth
  /\ Advance(t)
  /\ UNCHANGED <<messageVars, processVars, probe>>

GotoStep(t) ==
  /\ At(t, "goto")
  /\ pc' = [pc EXCEPT ![t] = Statement(t).arg]
  /\ UNCHANGED <<messageVars, processVars, recordVars, probe, config, aborted>>

\* attack finds no start in the record it has sampled, and asserts one: the
\* spy goes no further, while the root task waits for its answer.
AbortStep(t) ==
  /\ At(t, "attack")
  /\ aborted' = aborted \cup {t}
  /\ UNCHANGED <<messageVars, processVars, recordVars, probe, config, pc>>

-----------------------------------------------------------------------------
(* Steps of the root task of its own *)

\* The functions of manager.h and func_test.c.
SetupStep ==
  /\ LET arg == Statement(Root).arg
     IN  \/ At(Root, "createKi") /\ CreateKi(arg)
         \/ At(Root, "create") /\ CreateThread(arg[1], arg[2], arg[3])
         \/ At(Root, "copyCaps") /\ CopyCaps(arg[1], arg[2])
         \/ At(Root, "mapBuf") /\ MapBuf(arg[1], arg[2])
         \/ At(Root, "mapShared") /\ MapSharedBuf(arg[1], arg[2])
         \/ At(Root, "launch") /\ LaunchThread(arg)
         \/ At(Root, "destroyKi") /\ DestroyKi(arg)
         \/ At(Root, "setKernel") /\ SetKernel(arg[1], arg[2])
  /\ Advance(Root)
  /\ UNCHANGED <<messageVars, recordVars, probe>>

\* alive(): remember the word ...
SampleStep ==
  /\ At(Root, "sample")
  /\ probe' = [local |-> record, tries |-> 0, verdict |-> "none"]
  /\ Advance(Root)
  /\ UNCHANGED <<messageVars, processVars, recordVars>>

\* ... and compare it until it has changed or the tries are used up.
CompareStep ==
  /\ At(Root, "compare")
  /\ LET changed == record # probe.local
         last == probe.tries + 1 = Tries
     IN  IF changed \/ last
         THEN /\ probe' = [probe EXCEPT !.verdict =
                             IF changed THEN "alive" ELSE "dead"]
              /\ Advance(Root)
         ELSE /\ probe' = [probe EXCEPT !.tries = @ + 1]
              /\ UNCHANGED <<config, pc, aborted>>
  /\ UNCHANGED <<messageVars, processVars, recordVars>>

-----------------------------------------------------------------------------
Step(t) ==
  \/ InitStep(t) \/ SliceStep(t) \/ LocalStep(t) \/ TickStep(t) \/ GotoStep(t)
  \/ AbortStep(t)
  \/ t = Root /\ (SetupStep \/ SampleStep \/ CompareStep)
  \/ \E ep \in Endpoint : \/ SendStep(t, ep) \/ CallStep(t, ep)
                          \/ RecvStep(t, ep) \/ ReplyRecvStep(t, ep)

Next == \E t \in Thread : Step(t)

Spec == Init /\ [][Next]_vars

\* The root task has priority but blocks; A and B share what is left, or have
\* a core each.
FairSpec == Spec /\ \A t \in Thread : WF_vars(Step(t))

-----------------------------------------------------------------------------
\* The two sides of a round trip count alike (IPC_RUNS, IPC_WARMUPS and
\* ipc_runs are loop bounds in two functions each): a reply always has a
\* caller, and no caller is forgotten before its reply.
CallsMatchReplies ==
  /\ \A t \in Thread : At(t, "replyRecv") => caller[t] # NoThread
  /\ \A t \in Thread : ipc[t] = BlockedOnReply => \E u \in Thread : caller[u] = t

\* The root task prints the record when nobody will write to it any more
\* ("benchmark result ready").
RecordComplete ==
  At(Root, "print") =>
    \A t \in {A, B} : \A k \in pc[t]..Len(Program(t)) :
      Program(t)[k].op # "write"

\* On one core the kernels are destroyed when both threads have reported and
\* have nothing left to do but to wait for an answer that never comes.
FinishedBeforeDestroy ==
  At(Root, "destroyKi") /\ config.bench = "func" =>
    \A t \in {A, B} : pc[t] >= Len(Program(t))

\* alive never finds the receiver alive when its kernel was destroyed:
\* "expecting other core running the idle threads".
DestroyedIsDead ==
  [][probe'.verdict = "alive" /\ probe.verdict # "alive"
       => config.kernels # "own" \/ image[1] = "cloned"]_vars

\* A kernel that is destroyed stops nobody but its own threads: on several
\* cores, threads on the master kernel run for ever, as far as alive can tell.
KeepsRunning ==
  config.bench = "funcMulti" /\ config.kernels # "own" =>
    []<><<record' # record>>_vars

\* Every benchmark ends, the root task gets its results, unless the assertion
\* of mastik's attack on the record it has sampled fails (search.h:247).
Terminates ==
  <>(~HasNext(Root) \/ (config.bench = "mastik" /\ A \in aborted))
=============================================================================
