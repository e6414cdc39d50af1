# channel-bench: a TLA+ verification project

channel-bench measures timing channels on seL4.  A root task (`apps/manager`)
creates benchmark processes (`apps/side-bench`), starts them in pairs, waits
for their messages and prints what they have recorded in shared memory.  All
analysis happens later, on the printed lines, so the question this project
asks of most parts is: **does a printed line pair a measurement with the secret
that caused it, is the report complete, and does the benchmark end?**

Paths below are relative to `src/`; `mastik*/` stands for
`apps/side-bench/src/mastik*/`, `manager/` for `apps/manager/src/`, and other
file names for files of `apps/side-bench/src/`.

## 1. The system

| Component | State | Operations | Interacts through |
|---|---|---|---|
| root task (`manager/covert.c`, `flush.c`, `func_test.c`, `splash_test.c`) | endpoints, record frames | create and start processes, receive, print | endpoints, shared frames |
| single-core channels (`mastik/*spy.c`, `mastik_arm/*spy_arm.c`) | loop index, secret, probe buffer | wait for a slice, touch, publish / probe, record | one shared word, the caches, the scheduler |
| LLC channel through the kernel (`mastik/l3spy.c`) | start time, probe sets per system call | polled clock, system call, publish / probe, record | two cores, shared word, shared kernel image |
| kernel scheduling channel (`mastik/l3_kd_*.c`) | secret, last two time stamps | visit pages / detect gaps, record | dirty lines, scheduler |
| timer channel (`timer.c`) | programmed timer, secret | arm, poll, publish / detect gaps, record | timer interrupt, scheduler |
| cache map (`mastik/cachemap.c`, `mastik_arm/l3_arm.c`, `vlist.c`) | lists of lines | expand, contract, collect | a timing test |
| probe buffers (`mastik_common/l1.c`, `l1i.c`, `mastik_arm/l3_arm.c`) | monitored sets, links inside the buffer | monitor, unmonitor, randomise, probe | used by the channels |
| message benchmarks (`ipc_test.c`, `func.c`, `cache_flush.c`, `bench_idle.c`, `mastik/spy.c`) | loop indices, record | call, reply, send, yield | endpoints |
| kernel images (`manager/manager.h`, `func_test.c`) | kernel objects, threads bound to them | create, bind, destroy | kernel |
| benchmark environment (`bench_support.c`, `bench_helper.h`) | capability numbering, timer | receive arguments, set up | root task |
| ARM kernel-image channel (`mastik_arm/l3spy_arm.c:135-286`) | as the single-core channels, and the probe lists | search, be released by the root task, then the loops of the single-core channels | endpoints in both directions, shared kernel image |
| statistics (`mastik_common/timestats.c`, `ipc_test.c`, `bench_helper.h`) | histogram; arrays of samples | add, median, percentile; measure and subtract the overhead of the clock | cache map, IPC and flush benchmarks |
| search for a system call's sets (`mastik_common/low.h`) | three vlists | test, scan, remove common sets | both LLC channels |
| search for a key (`mastik/search.h`) | one record buffer for all cache sets | sample, match, clean, cut, count | started by the spy of `mastik/spy.c` |
| D-cache attack (`dcache.c`, `crypto.c`) | nodes in the lines of a buffer, table of times | link, prime, encrypt, probe, record | root task prints the table |

What is hard here:

* *Nobody signals a round.*  After an initial rendezvous trojan and spy order
  themselves by watching for jumps of the time stamp counter or by polling it.
  A label is right only if a loop body fits the slice or the period.
* *Shared memory without locks.*  The secret is one word; the record is read by
  the root task on the strength of a message alone.
* *Threads that never return.*  Every benchmark thread ends in `while (1)`, at
  one priority; the others make progress only by preemption.
* *Endpoints used in both directions* (LLC channel), and loops that must agree
  on their bounds in two functions (IPC).
* *A noisy oracle.*  The map of the last-level cache rests on a timing test.
* *Data structures inside the data.*  Probe lists live in the lines they probe,
  and old links stay behind.
* *Numbers at their edges.*  Percentiles with outliers, thresholds on single bits,
  unsigned costs from which an overhead is taken, an int product on the clock.
* *Assertions on measurements.*  The key search asserts what its samples need not
  show, and the root task waits for its answer.

The hazards, each at its line and with the properties that would catch it, are
in `PROJECT.json`.

## 2. Modules

| Module | Models | Builds on |
|---|---|---|
| `Endpoints` | synchronous endpoints of seL4 (external) | |
| `Sel4` | one core: priorities, slices of `Slice` steps, endpoints (external) | `Endpoints` |
| `CovertChannel` | trojan, spy and root task of a single-core channel | `Sel4` |
| `Channels` | the thirteen channels, as data: eleven of the common protocol, the scheduling channel, the ARM kernel image | |
| `KdChannel` | kernel scheduling channel; reuses trojan and root task | `CovertChannel` |
| `ArmKernelChannel` | the channel through the ARM kernel image; reuses both loops | `CovertChannel` |
| `SingleCore` | a core configured for any of the thirteen channels | `KdChannel`, `ArmKernelChannel` |
| `SingleCoreProofs` | theorems about `CovertChannel` and about all of `SingleCore` | TLAPS |
| `LlcKernel` | the two-core LLC channel with an explicit clock | |
| `LlcKernelProofs` | theorems about `LlcKernel` | TLAPS |
| `TimerChannel` | the timer channel with an explicit clock | `Endpoints` |
| `TimerChannelProofs` | theorems about `TimerChannel` | TLAPS |
| `CacheMap` | the search for cache sets, on sets of lines | |
| `CacheMapLists` | the same search on vlists; implements `CacheMap` | `CacheMap` |
| `CacheMachines` | the machines the search is checked on | |
| `CacheMapProofs`, `CacheMapListsProofs` | theorems about the two searches | TLAPS |
| `TimeStats` | the timing test on its histogram | |
| `Overheads` | the overhead of reading the clock, measured and subtracted | |
| `KernelSets` | the search for the cache sets of three system calls | |
| `DcacheLists` | the lists, walks and table of the D-cache attack | |
| `KeySearch` | the search for a key in sampled records | |
| `Algorithms` | any one of the five above | all five |
| `AlgorithmsProofs` | theorems about the five | TLAPS |
| `ProbeLists` | the probe buffers of L1-D, L1-I and ARM L3 | |
| `ProbeListsProofs` | theorems about `ProbeLists` | TLAPS |
| `Processes` | kernel images; what a process is given and what it works out from that | |
| `Benchmarks` | benchmarks that only exchange messages, with their set-up and the functional test of kernel images | `Endpoints`, `Processes` |
| `BenchmarksProofs` | theorems about `Processes` and `Benchmarks` | TLAPS |
| `MC*` | values of the constants | |

**CovertChannel.**  `pc[t]` is the next statement of a thread, `i[t]` its loop
index, `shared` the word behind `shared_vaddr`, `rec` the record frame.  A
cache is abstracted to the set `dirty` of units (sets, pages, branches) that the
trojan has disturbed since the spy last probed them.  `newTimeSlice` is two
steps: `EnterNewTimeSlice` reads the counter once, `NewTimeSlice` returns when
the thread has been switched out since (`away[t]`).  The kernel preempts after
`Slice` steps and hands over to the other benchmark thread; the root task has
priority and blocks in `seL4_Recv`.  A channel is a record: does the trojan
publish before or after it acts, which secrets can it draw, which units does a
secret touch, which does the spy probe, what does the shared word hold at the
start.  The x86 branch predictor is the one that publishes first.

`StartAt` is the initial state with the threads at given statements: the protocols
below begin elsewhere.

**KdChannel.**  The trojan after a warmup of any finite length.  The spy records
for each gap the secret read at this gap and at the one before.

**ArmKernelChannel.**  A preparation in front of the loops of `CovertChannel`: the
spy searches for its probe lists (any finite number of steps, leaving any sets
disturbed), reports, and receives the time on the same endpoint; the root task
releases the trojan and then the spy.  The trojan makes all three system calls or
none.

**SingleCore.**  `chan.protocol` selects the protocol; the next-state relation is
the disjunction of the three, and the properties speak of all thirteen channels.

**LlcKernel.**  `now` is the time stamp counter.  A runnable thread takes its
next statement within `Latency`; `Advance` lets time pass only while no one
would be late.  `waiting_probe` is entering (computing the offset) and waiting.
The outcome of the search for a system call's sets is the constant `Foot`; the
removal of sets that several system calls share is modelled.  The message with
the start time is modelled as it is sent and received.  Both threads overwrite
the start time with their own reading after their rendezvous (`l3spy.c:110` and
`:171`), so the value the comment "root give global time" (`:102`, `:162`)
speaks of is never used.

**TimerChannel.**  Time counts in parts of a tick.  HIGH arms its timer for more
than one and less than two ticks.  LOW sees a gap for an interrupt and for a
change of slice.

**CacheMap / CacheMapLists.**  A step is one call of `checkevict`.  On a quiet
machine the test answers whether `Assoc` lines of the set share the candidate's
colour, on a noisy one it answers anything.  In `CacheMapLists` deletion moves
the last element into the hole, insertion at an index moves the element there
to the end, `contract` walks upwards and `collect` downwards, each over a list
that it changes; in `CacheMap` a pass visits each element once (`todo`).

**TimeStats.**  A sample is a number of cycles; a disturbed one may be anything.
The histogram of the test before is handed out again with its counts
(`lastfree`).  `ts_median` is translated with its rounding, `ts_percentile` with
its rest of outliers; the loops over the histogram are recursive functions.  The
history variable `atMost` counts, for each bucket, this test's samples up to it:
what the histogram should add up to.

**Overheads.**  Both measurements: one array (`measure_overhead`), or one for calls
and one for replies (`ipc_test.c`).  Rounds are repeated until the samples agree;
costs are unsigned.

**KernelSets.**  A test shifts one bit per probe into `count`, here the set of its
one bits; `Collision` clears the lowest bit three times, as `low.h:513` does, and
asks whether any is left.  `FalseHits` and `FalseMisses` bound the disturbed probes
of one test, and `Tolerable` says when the bounds are too small to change an
answer; `MCAlgorithms` assumes it, so that TLC evaluates it.  The lists are vlists that grow by doubling, with whatever `realloc`'s fresh memory holds.

**DcacheLists.**  A node per line, lists in any order, `next_set` from tail to head
and from head to tail.  The encryption evicts any pattern of lines; the time of a
set is its number of lines that were not cached.

**KeySearch.**  A step is one sampling or one pass over the record.  A sample is a hit
or a miss whatever the victim does, the record is what the samples before have left
in the buffer (a short sample ends with a null in the middle of an older record), and
lengths and thresholds are constants.  `States` is the automaton of `cleanup`.
`findend` overwrites the miss in front of the gap; in a run of one miss that is the
start itself, behind which `histogram` then reads on.  `OneRun` excepts this case.
`pp_prepare` and the printing of the bits are left out.

**Algorithms.**  The five do not interact: `task` chooses one, so that one run
checks them.

**ProbeLists.**  `mem` is the buffer: word 0 of a line is its forward link, word
1 the backward link, words 2 and 3 what a probe writes.  The actions are the
calls of the three interfaces, the Fisher-Yates loop and the linking step by
step, and a probe access by access.  Any sequence of calls is allowed.

**Processes.**  `process[t]` holds what `manager.h` gives a process: its kernel,
the slots of its capabilities, the buffers mapped to it, `first_free`; `known` is
what `init_vspace` told the process's own allocator.  `image[k]` is the state of
`env->kimages[k]`.  The platform decides which slots of the layout stay empty.
What the kernel does with a destroyed image is external; the model follows the
comment in `manager/func_test.c:117`: the threads on it do not run any more.
`SetupSpec` is the protocol all entry points share, without the order of any of
them: create once, copy and map while the process does not run, launch once,
then change nothing but its kernel.  `Benchmarks` implements it.

**Benchmarks.**  A program is the sequence of calls a thread makes, with its
writes to the record; a ready thread may always take its next step, so every
schedule of one or more cores is covered.  The root task's program starts with
the set-up of its benchmark, statement by statement, so a thread runs from its
launch on, while the root task still sets up the other.  The functional test
on several cores never ends for its threads (`funcMulti`); `alive` samples the
receiver's tick and reports what it saw in `probe.verdict`.  A configuration
chooses the benchmark and whether there are kernel images: none, images that no
thread uses, one for each thread.  The attack of `mastik/spy.c:41` is one statement
here, which completes or fails its assertion (`AbortStep`); a thread in `aborted`
takes no further step, and the root task waits for its answer for ever.  `KeySearch`
models what happens inside.

## 3. Runs

| Run | Shows | Bounds, and why they suffice |
|---|---|---|
| `SingleCore` | for all thirteen channels: report complete, every line labelled with its cause, fresh secrets (one publication in every gap of the scheduling channel), termination after any finite warmup or search | three units, five data points, two warmups. `Slice` 7: the longest loop body is touching three units and four more steps, so a body fits a slice, as it does in the code by orders of magnitude (see below); two data points for the warmup, so that the first recorded one has a predecessor that was discarded, two in the middle, one last |
| `CovertBpLast` | *violation*: the last sample of the x86 branch predictor may repeat a secret | the same, three data points, one warmup |
| `Llc` | prime and probe never overlap, sample k belongs to round k, counts are those of the published system call, a late round delays no later one (`NoDrift`), termination | `Latency` 1, `SpyOffset` 5, `Period` 11: the properties need `SpyOffset` > 4 latencies and `Period` > `SpyOffset` + 5 latencies (`Timely`), and these are the least values that satisfy both. Two overlapping system calls: a shared set is removed from one |
| `LlcOverflow` | *violation*: the offset leaves the multiples of the period | `IntMax` 31 with a period of 11, in place of INT_MAX and 500000 |
| `Timer` | once in phase HIGH stays in phase, labels in phase are right, termination | a tick of 4, secrets 5..7, scaled from 10 ms and 11..19 ms: every position of the interrupt in LOW's slice that keeps off the ends |
| `Map` | quiet: the map is exact and eviction sets are minimal; ARM, also noisy: no page is lost; the search ends | associativity 2, slack 1; eight lines in three colours, one of them too small; noisy: five lines and fewer passes and failures, as anything may happen in each |
| `MapX86Noise` | *violation*: the x86 search loses a line | the code's own bounds on passes and failures |
| `MapLists` | the index loops on lists implement the set-based search | four lines, both versions, quiet and noisy |
| `Probes` | arrays, bitmap and heads agree; a probe times exactly the set it reports, in both directions, whatever links are left behind; probes return | three sets, three ways: relinking from each subset to each other, and a way that is neither first nor last |
| `Algorithms` | the statistic of a test is the exact median or percentile of its samples, whatever the last test left in the histogram; the verdict is right as long as fewer samples are disturbed than the statistic tolerates; a cost never wraps; the search finds exactly the sets of each call and makes the lists disjoint without losing one; the attack primes every line and books every eviction under its plaintext value and set; the key search examines a record only on matches of its own, although an earlier, longer one is still behind it, and counts the bits of one run | the x86 test with its own 16 samples, of which it tolerates 7; that of ARM with 64 of its 256 samples, of which it tolerates 5; three buckets below `TIME_MAX` and outliers. Three samples, two rounds, both kinds of overhead. Three cache sets, six probes with three false hits and two false misses, which is tight; vlists that start with one element, so that they grow twice. Two sets of three ways, in every order, two encryptions of two bytes. Two cache sets to search, so that the second meets the record of the first; a gap of 3, short samples of 5 and records of 9: the shortest that hold a gap, a burst and two bits of different lengths, so that a key can be found; every sequence of samples |
| `Benchmarks` | every entry point follows the set-up protocol (`SetupSpec`), processes know their capabilities and frames, calls match replies, the record is complete when printed, kernels are destroyed after the test, destroying an image stops its threads and no others, termination unless mastik's attack aborts | three runs, two warmups, so that the two bounds differ; two untypeds and two timer capabilities; the layout of `sel4utils`, all four platforms; `alive` twice in a row with two samples, a tick that wraps at 3 |
| `KeySearchStart` | *violation*: a record with enough matches has no start | the key search of `Algorithms` alone |

The `Slice` of `SingleCore` is the project's strongest assumption about time.  It has a
name, `SliceFits`: four steps more than the units a loop body touches, and at least
one warmup, two for the scheduling channel (the code has 10,
`channel-bench/bench_common.h:500`).  `MCSingleCore` assumes it, so that TLC evaluates
it, and it is the hypothesis of the theorems about labels.  In the code
a slice is 1 tick of 10 ms in nearly all configurations, more than ten million
cycles, while a loop body takes some tens of thousands.  With a `Slice` that a
body does not fit, the labels are wrong in the model as they would be in the
program.

`CHECK_DEADLOCK FALSE` is set where the program really stops: in `Llc` when
nobody needs the clock any more, in `Map`, `MapX86Noise` and `MapLists` when the
search is done, in `LlcOverflow` with `Llc`, in `Algorithms` when a search or an
attack is done, in `Algorithms` and `KeySearchStart` also when the assertion of the key
search has failed, and in `Benchmarks` when all threads wait or spin.  In the other
runs a thread always spins.

### Fairness

* `WF(Next)` in `SingleCore`, `LlcKernel`, `TimerChannel`, `CacheMap` and
  `CacheMapLists`: a core always executes something.  The interleaving itself is
  the scheduler's, which is in the model; no thread gets a fairness of its own.
* `SingleCore` adds `SF(Prepared)`: the warmup of the scheduling channel and the
  search of the ARM kernel-image channel may take any number of steps, and the
  step that ends them must be taken some time, because their loops are bounded
  (`mastik/l3_kd_trojan.c:22-57`, `mastik_common/low.h:543-562`).
* `Benchmarks`: weak fairness for each thread; there the schedule is left open,
  and the threads share a core in turns or have one each.
* `ProbeLists`: weak fairness for the steps inside a probe; nothing makes a
  program call another operation.

## 4. Disagreements met on the way

1. `mastik/bp_spy.c:34` (`CovertBpLast`): the trojan publishes at the top of its
   loop.  It can therefore be through with its rounds when the spy takes its last
   sample, which repeats the secret before; the comment in lines 72-73 speaks of
   the secret of the previous tick.  `FreshSecrets`, checked in `SingleCore`, states
   what does hold: every sample but the last.
2. `mastik/l3spy.c:39` (`LlcOverflow`): `(tick + 1) * SYN_TICK_MULTI_TROJAN` is
   an int product.  It passes INT_MAX at tick 4294, below the default of 409600
   data points (the multicore configuration uses 1024).  The comment in line 36
   says that the prime is on every multiple.  The model wraps, which is what
   builds do with this undefined behaviour.
3. `mastik/cachemap.c:117` (`MapX86Noise`): when a contraction fails the line that
   `expand` returned is neither given back nor kept.  The ARM version gives it
   back (`mastik_arm/l3_arm.c:374`).
4. `mastik/search.h:247` (`KeySearchStart`): the comment in line 246 says that the
   start cannot be a NULL pointer, and `attack` asserts it; but what has been tested
   until then is only the number of matches.  A record with enough of them and no gap
   of `GAPLEN` hits in front of a miss aborts the spy, and the root task is left
   waiting in `run_multi` (`manager/covert.c:335`).  `Terminates` of `Benchmarks`
   therefore excepts a failed attack.

## 5. Proofs

Eight modules hold the proofs.  A theorem speaks of the specification that TLC runs,
without its fairness, for every value of the constants that the named assumption of its module
allows.

### SingleCoreProofs

The first part is about the common protocol, for every slice length, every number
of data points and warmups, and every family of channels that satisfies the
assumptions `ChannelAssumption` and `Sel4Assumption`:

* `TypeCorrect`: `Spec => []TypeOK`;
* `ReportIsComplete`: `Spec => []ReportComplete` - the root task prints only when
  the spy has filled every slot and is past its last write;
* `RecordIsStable`: `Spec => RecordStable` - no step changes the record while it
  is being printed.

`ReportComplete` is not inductive: that the root task is past its second receive
says something about the spy only if one knows who can wait on `s_ep`.  The
inductive invariant is `IInv == TypeOK /\ Statements /\ Loops /\ Handshake`:

* `Statements`: the statements each thread can be at;
* `Loops`: what the loop index is at them - a spy that is done has
  `i = DataPoints`, the trojan has published once per round;
* `Handshake`: who can be blocked where, and what a blocked thread has done - a
  spy blocked on `s_ep` has finished; a root task that is reporting has met it.

There is a lemma for the effect of each kernel operation (`SendEffect`,
`RecvEffect`, `ComputeEffect`, `TickEffect`, `RescheduleType`), then one lemma per
action that it preserves `IInv`, then `NextIInv` by cases.

The second part is about `SingleCore`, with all three protocols.  `Base` does without
time, and gives for every slice length

* `SingleTypeCorrect`, `SingleReportComplete`, `SingleRecordStable`: the three
  theorems above for the scheduling channel and the ARM kernel image too.

`Base` names the stages of a run (`Handshaking`, `Measuring`, `Finished`), the loop
indices in them (`Rounds`), and that somebody can always run (`OnCore`).  Under the
hypothesis `SliceFits`

* `EveryLineIsRight`: `SliceFits => (SingleSpec => []EveryLineAgrees)`;
* `EverySecretIsFresh`: `SliceFits => (SingleSpec => FreshSecrets)`.

Here nothing but the tick orders the two threads, so the invariant `SingleInv` has to
say what a slice is for.  `Turns` describes the state by who has the core:
`TrojansTurn` that the trojan's steps to the end of its loop body fit what is left of
the slice (`TrojanInTime`) while the spy waits with its last sample taken;
`SpysTurn` the same for the spy, which finds the units as the trojan's secret left
them (`Loaded`), probes all of them and leaves none disturbed.  `Recorded` keeps what
was sampled.  A tick is the step that turns the one into the other: the thread that
gets the core will see the gap, and its peer is back at its wait.  The lemmas go
protocol by protocol, as a slice of the scheduling spy has no probing.

### BenchmarksProofs

About `Processes`, for all sets of processes and images, every layout in which the
ASID pool and the scheduling context occupy slots below `FirstFreeSlot` in this
order, and every number of untypeds and timer capabilities (`ProcessesAssumption`):

* `SetupCapsExact`: `SetupSpec => []CapsExact` - `get_cap_count` and `get_nth_cap`
  recover a process's capabilities from `first_free` alone;
* `SetupFramesKnown`: `SetupSpec => []FramesKnown`.

Two lemmas are arithmetic: `FoundExact` (the enumeration meets every slot that is no
hole, for each of the four platforms) and `CountExact` (the count is the number of
these slots).  Neither property is inductive.  `SetupInv` adds

* `SlotsInOrder`: a process's slots are filled up to `next`, and `first_free` of a
  running process is still `next`;
* `FramesOfRunning`: a process that does not run yet knows no frame, so that
  mapping a buffer to it makes no list stale.

`InvOfEach` restates it for one process, `StepOfOne` reduces a step to the record
it changes, and each action has a lemma.

About `Benchmarks`, for every number of runs, warmups, samples and calls of `alive`,
and every width of the tick (`BenchmarksAssumption`, which says that there are two
benchmark threads with a process each, three endpoints and two kernel images):

* `BenchmarksImplementSetup`: `Spec => SetupSpec` - each entry point keeps to the
  protocol, so that `BenchmarksCapsExact` and `BenchmarksFramesKnown` follow from
  the theorems above;
* `RepliesHaveCallers`: `Spec => []CallsMatchReplies`;
* `RecordIsComplete`: `Spec => []RecordComplete`;
* `DestroyedWhenFinished`: `Spec => []FinishedBeforeDestroy`;
* `DestroyedStaysDead`: `Spec => DestroyedIsDead`, an action property;
* `BenchmarksTypeCorrect`: `Spec => []TypeOK` - no thread leaves its program.

A program is a sequence whose length the constants determine.  A first group of lemmas
reads the programs position by position: `LoopBody` says what `Repeat` puts where,
`AProgram` and `BProgram` what A and B can say and that a thread's report is behind
its last write, `RootProgram` that the root task's program is images, then two
creations, grants and two launches, then its tail (`RootForm`).  `Says` sums up who
makes which call on which endpoint.

`Inv`, the inductive invariant (`BenchmarksInvariant`), has these parts besides types
and `SetupInv`:

* `SetupFollows`: a process exists, and runs, exactly when the root task is past the
  statement that creates, or launches, it; without it a step of the set-up could find
  its process in any state;
* `OwnKernel`: a receiver that has a kernel of its own is never moved to another;
* `DeadSampled`: if that kernel is gone while `alive` compares, its sample is the
  word the dead receiver left;
* `BlockedWhere`, `OnlyACalls`: a blocked thread has just made the call it is blocked
  in, and nobody but A is anybody's caller;
* `ResultsHandedOver`: what the root task has received from a thread, the thread has
  sent.  Its report is the last thing a thread says, hence `RecordComplete` and
  `FinishedBeforeDestroy`.

A failed assertion (`AbortStep`) changes nothing but `aborted`, and disturbs none of
these.

For calls and replies the invariant is `CInv` (`StaysInStep`): `Inv`, the place of
threads blocked in a receive (`WaitsWhere`), and `Matched`.  `InStep` relates the
places of A and B in each benchmark: the message A will send next is the one B's next
receive is for.  For the round trips it says that both are in the same round, at the
same message of it; rounds are `Warmups + 2` statements long for A and `Warmups + 1`
for B.  `Owes` says at which of its statements B owes a reply; `Matched` that A waits
for one exactly when B owes it and is ready.  That the programs bear this out is no
matter of states: `ProtocolKept` proves `Protocol` for the programs of each benchmark -
statements that are no messages keep step, so does a message with its receive, and B
owes a reply after a call until it replies - with `Round`, `Within` and `Remainder` for
the arithmetic of rounds.  The steps then split into those that leave A and B in step
on their own (`StaysMatched`) and those where a message meets a receive
(`MessageHandedOver`) or waits for it (`WaitsForPeer`).

### CacheMapProofs

It proves for every buffer, associativity, number of passes and failures, for the
x86 and the ARM version (`CacheMapAssumption`):

* `LinesAreKept`: `Spec => []KeepsLines` - if the line of a failed expansion is
  given back, or if the timing test is reliable, every line is at every moment in
  exactly one place.  The run `MapX86Noise` is the remaining case;
* `EvictionSetsMinimal`: `Spec => []Minimal`, on a quiet machine;
* `MapCorrect`: `Spec => []MapIsExact` - on a quiet machine the sets found in the
  end are exactly the cache sets with more lines than ways;
* `TypeCorrect`.

None is inductive.  `IInv == TypeOK /\ Phases /\ Apart /\ Kept /\ Quiet`:

* `Phases`: which variables are empty at which statement;
* `Apart`, `Kept`: no line is in two places, none in no place.  `KeepsLines`
  counts places; `HeldOnce` derives the count from the two;
* `Quiet`: on a reliable machine `es` never holds more than `Assoc` lines of a
  colour while it grows, holds all lines of `c`'s colour that it needs while it
  shrinks (a line put back is one `c` is evicted without), and is contracted to
  exactly `Assoc` lines of one colour; sets found are whole colours.  One failed
  expansion with no large colour left proves the map complete: that is why
  `MapIsExact` does not depend on the number of failures allowed.

### CacheMapListsProofs

* `ListsImplementSets`: `Spec => CacheMap!Spec` - the index loops over vlists
  implement the search on sets, whatever the tests answer; it is the safety part
  of `ImplementsCacheMap`, whose liveness part stays with TLC;
* `ListsStayDistinct`: `Spec => []NoDuplicates`.

The refinement needs the invariant `LInv == Lists /\ Separate`: deleting a position
removes an element from the set only if the list holds it once, and a line moves
between lists only if the target does not hold it.  The hard steps are `Contract`
and `Collect`: the elements the index has still to visit (`Untested`) must be what
`CacheMap` calls `todo`, although the hole is filled from the end.  Lemmas state
what each vlist operation does (`DelFacts`, `DelDistinct`, `InsertBack`,
`DrainFacts`, `SplitFacts`).

### LlcKernelProofs

The two-core channel has no handshake between its rounds, so its correctness is
arithmetic on two clocks.  `Timely` collects what the constants have to satisfy:
`SpyOffset` more than 4 latencies, `Period` more than `SpyOffset` and
(number of system calls + 3) latencies, and no product above `INT_MAX`.  The
theorems hold for every such period, offset, latency and number of rounds, for
all system calls with any finite cache sets, and for any number of data points:

* `PrimeAndProbeApart`: `Timely /\ Spec => []PrimeProbeApart`;
* `SamplesInStep`: `Timely /\ Spec => []InStep`;
* `LinesCountTheirCall`: `Timely /\ Spec => []LinesAgree`;
* `ScheduleKept`: `Timely /\ Spec => []NoDrift` - in every round prime and probe
  follow their own multiple of the period within the latencies of that one round;
* `TypeCorrect`: `Timely /\ Spec => []TypeOK`.

`IInv == Timely /\ Control /\ Clocks /\ Data` is layered:

* `Control` needs no time: where each thread can be, who can be blocked where
  (`RootWaits`: the spy has its core for itself from its clock to its result),
  that trojan and spy pass the rendezvous `Together`, and the loop indices.  A
  lemma `...Effect` per action says what it changes, `...Control` that it
  preserves `Control`;
* `Clocks`: at every statement of round k a thread's own time lies in a window
  around k periods, and is late by at most its `lag` (`TrojanClock`, `SpyClock`);
  the two start times differ by at most `Latency` (`ClocksClose`), because nobody
  is late at the rendezvous (`NotLate`).  `Advance` is the case that justifies the
  `lag`: time passes only while the windows have room;
* `Data`: the rounds alternate (`Turns`); between prime and probe the cache sets
  of the published call are disturbed or counted, each in one list (`Disturbed`);
  finished rounds are recorded as they were (`Recorded`).

`TrojanTurn` and `SpyTurn` join the layers: from the windows and the distance of
the clocks they conclude whose turn it is.  `RemoveLosesNone` is the lemma about
`remove_same_probesets`: what is removed from one list is in an earlier one, so a
round of probing leaves no set disturbed.

### AlgorithmsProofs

Each of the five algorithms has its invariant, which holds of its own next-state
relation; `PartInit` and `PartNext` carry the five over to `AlgorithmSpec`.

* `StatisticCorrect`, `VerdictCorrect`: `AlgorithmSpec => []StatisticIsExact` and
  `[]VerdictRight`, for every histogram, number of samples and percentile.
  `Histogram` says that the buckets add up to `atMost` and the outliers,
  `Disturbed` that the samples that are not disturbed lie on one side of
  the threshold.  The loops over the histogram compute prefix sums
  (`CountIsTaken`, `ExhaustsFacts`): each is shown by the least bucket that would be
  a counterexample, as the library's induction rules cannot be instantiated.
* `CostsAreExact`: `[]CostExact`, for every number of samples and rounds and every
  disturbance: if one sample of the last round was undisturbed, the overhead
  subtracted is at most what an empty measurement takes, so no cost wraps.
  `OverheadIsLeast` is the strengthening, `SamplesAbove` (a disturbance only adds)
  its reason.
* `SearchCorrect`: `Tolerable => (AlgorithmSpec => []SearchIsExact)`, for all footprints
  of the system calls.  `CollisionCounts` says that what is left after clearing
  three bits is nothing just if there are at most three.  `Testing` bounds the bits
  by the disturbances so far, `Removing` and `Before` say which sets a pass over two
  lists has still to find, although `vl_del` fills its holes from the end; the
  vlist lemmas (`PushFacts`, `DelFacts`) cover the growth of the arrays.
* `TableCorrect`: `[]TableExact`, for every number of sets and ways, every message and
  every order of the lists.  The invariant `DcacheInv` says that there is an order
  `at` - the way at each place of each set - such that the links of all lines are
  those of this order (`Chained`, `Crossed`), and follows the three walks through it:
  `PrimedTo`, `ProbedTo` (the misses so far are the evicted lines `Behind` the walk,
  the sets before have their time) and `Booked` (what the tables still lack at each
  set of each byte).  That `next_set` of a head leads to a tail, and of a tail to a
  head, is what lets one field serve walks in both directions.
* `EvidenceIsOwn`, `BitsOfOneRun`: `[]OwnEvidence` and `[]OneRun`, for every mask,
  threshold, gap and length of a record.  `KeyInv` needs no strengthening but that a
  record ends with a null (`Terminated`).  A long sample fills the whole buffer, so
  `matchcount` finds nothing of an older record in it; a short one does not, which is
  why the second test is needed.  `FindendFacts` says which gap is the first behind the
  start; a bit as long as a gap would be an earlier one (`NoGapLeft`).
* `AlgorithmTypesCorrect`: `Tolerable => (AlgorithmSpec => []TypeOK)`.

### TimerChannelProofs

For every length of a tick, all secrets between one and two ticks and every number
of data points (`TimerAssumption`):

* `TimerTypeCorrect`: `Spec => []TypeOK`;
* `OnlineTimeRight`: `Spec => []OnlineTime` - in phase, each online time LOW records
  is the part of its slice before the interrupt or after it, of the secret it is
  labelled with;
* `AlignedForEver`: `Spec => StaysAligned`, an action property.

`TimerInv` follows the phases of the rendezvous (`Stage`) and then the slices.
`HighClock` bounds the armed timer by the end of HIGH's next slice: armed in one
slice it fires before that next one ends, so HIGH never misses an interrupt.
`LowsRound` says for LOW's slice how far the interrupt still is, `SamplePending` what
a gap will be labelled with, and `Turns` that LOW takes at least one sample in each
of HIGH's rounds, two when the interrupt falls into its slice.

### ProbeListsProofs

For any number of sets and ways and every sequence of calls; the one assumption on
memory is that `NULL` is no address of the buffer (`ProbeListsAssumption`):

* `ArraysAgree`: `Spec => []ListsAgree` - mask, array and heads name the same sets;
* `EveryProbeExact`: `Spec => []ProbeExact` - each time reported is that of all ways
  of the set at its place, and of no other line, whatever links an earlier order
  left behind;
* `ProbeTypeCorrect`: `Spec => []TypeOK`.

`Visit` is the order in which a walk touches the ways of a set, forward or backward.
`PInv` says that the links inside each set follow it (`Inside`) and that in the L1
buffer the sets form a closed ring (`Ring`), of which `link` closes one piece per
step; `Walking` follows a walk access by access, and a probe that writes its time
into words 2 and 3 leaves the links alone (`LinksKept`).  That `l1i` relinks in
ascending order is shown by a minimal counterexample (`AscendingFacts`).

### Only model-checked

Every invariant of a passing run is stated by a theorem, with every action property
that is not about liveness.  What is left to TLC are the liveness properties -
`Terminates` of five runs, `KeepsRunning`, `ProbeReturns`, the liveness part of
`ImplementsCacheMap` - and with them the fairness of section 3: they need ENABLED,
which is beyond the prover.  Three facts are only proved, and need no run:
`StatisticIsExact`, `NoDuplicates`, and the types of `Algorithms`.

## 6. Not modelled, and why

* Cache contents beyond "disturbed or not", replacement, prefetching, and the
  values of times and performance counters: the properties are about pairing.
  The statistics that turn times into a yes or no are modelled in `TimeStats`.
* Interrupts other than the tick, and gaps above `TS_THRESHOLD` that are not a
  switch of threads (`mastik_common/low.h:472`).
* Failure branches on message labels: every sender uses the label NullFault, so
  they cannot be reached.
* Allocation that fails: `map` of `mastik/search.h` returns NULL when it gets no
  buffer, and the attack would then read through it.  `Terminates` is about runs in
  which allocation succeeds.
* What cannot be reached needs no model, but one such part is covered all the same: on
  ARM `ptemap` always returns 1 (`mastik_arm/l3_arm.c:473-475`), so that `probemap`, the
  search on the ARM machines of `CacheMachines`, and the percentile of its timing test
  in `TimeStats` have no caller in the present code.
* `llc_attack_flush`, the averages printed by `manager/data.c`, `ts_mean` and
  `l3_getmonitoredset`: straight-line code whose result nobody acts on.
* Vendored workloads (SPLASH-2, MPI, OpenSSL AES): some 55000 of the
  repository's 73700 lines of code.  They are run for their time, and no
  benchmark reads a result of theirs; modelling numerical kernels would say
  nothing about the channels.  This keeps the share of lines modelled low.
* Assembler probes, printing, build files, and the domain schedule (one domain is
  configured by default).

A remark that is no finding: the comment at `mastik_common/low.h:513` speaks of at
most one miss, while the code clears the lowest bit three times and so tolerates
three.  `SearchIsExact` is stated for what the code does, and its bounds
(`FalseHits` 3) are tight.

## 7. Plan

Done: the core, in the order covert channels, LLC channel, scheduling and timer
channels, cache map with its refinement, probe buffers, message benchmarks,
set-up of processes and kernel images; then the ARM kernel-image channel, one
composition of all single-core channels, and the algorithms on measurements with the
search for a key.

Left, modelling: the capacity of vlists in `CacheMapLists`; `l3_set_probe_head`
and `l1i_rewrite` in `ProbeLists`; huge pages (`manager/covert.c:98`), against the
assertion in `bench_support.c:102`; allocation that fails.

Left, proofs: nothing of the present models but liveness; whatever the modelling
above adds to an invariant has to go through the same proofs.
