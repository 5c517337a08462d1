# PAPI_SAMPLE_DEV in TLA+

PAPI_SAMPLE_DEV is a prototype of a sampling interface for PAPI: it opens one
`perf_event` event per CPU, lets the kernel write samples to one mmap ring per
event, and on every SIGIO copies the new part of a ring, parses its records and
prints them to a log file. This directory models that system, checks it with
TLC on small instances, and proves with TLAPS, for every instance, every safety
property that holds in a run.

Paths are those of the repository (`src/PAPI_sample.c` is the library,
`src/parse_record.c` the parser).

## Inventory

| Part | State | Operations | Hard about it | Correct when |
|---|---|---|---|---|
| Sampling session (`PAPI_sample.c`) | `fds`, `heads`, `data`, `fp`, `mmaps`, `num_maps`, `sample_type_handle` | `PAPI_sample_init`, `_start`, `_stop` | interrupted anywhere by the handler; teardown of what the handler uses; several sessions in a process | what is stopped stays stopped but for one case; nothing else is used after it is given back; the table matches the descriptors |
| SIGIO handler (`PAPI_sample.c:89-141`) | `our_mmap`, a frame on each thread | disable, look up the ring, read it, store the head, refresh | runs on any thread of the process, shares everything without a lock, must not take the malloc lock; SIGIO does not queue | parses the ring that raised the signal; every event is always counting or about to be refreshed |
| Ring reading (`perf_mmap_read`, `parse_record.c:325-410, 1163-1173`) | `data`, `data_head`, `data_tail` | copy with wrap-around, print, clear, move the tail | the kernel writes meanwhile; two copies of the tail | each word is printed once, in order, from the right cell |
| Record parser (`parse_record.c`) | `offset` | one case per record type, one test per sample field | order, presence and lengths of optional fields | each value is printed under its own name, and the loop ends |
| Event setup (`new_setup_perf`, `capital_latency_event`, the open loop of init) | `perf_event_attr`, `sample_type_handle`, `sample_regs`, the caller's event name | encode an event, open it, retry without branches | kernel and handler must agree on the sample type and the registers; the name is rewritten in place | both see the same fields, on every CPU; the event sampled is the one asked for |
| The loops over CPUs (`NUM_PROCS` in init, start and stop) | `fds`, `num_maps`, a loop index | open, enable, disable, close, unmap one event a turn | the bound is asked for again at every turn | every CPU is monitored, the arrays hold, all is released |
| Kernel (`perf_event.h`, external) | per event: open, mapped, enabled, limit; per ring: head, tail, words; one pending SIGIO | overflow, ioctl, mmap, signal delivery | coalesced signals, limits that add up, the mapping keeps a closed event alive | |
| Driver and workloads (`test_events.c`, `matrix_multiply.c`, ...) | malloc's lock | init, start, run, stop | is interrupted inside malloc | |
| Processor detection (`perf_helpers.c`) | `processor_type`, `processor_vendor` | scan `/proc/cpuinfo`, classify, choose an event table | two cached answers from one scan that can fail or end early; lines that overwrite one another | the answer is the machine's, the two answers agree and do not change |
| Event-name tools, test utilities, lists and results | none | text filters and messages | sequential | |

How they interact: the main thread calls the session; the session gives events
to the kernel and the table `mmaps` to the handler; the kernel counts the main
thread (`pid` 0), writes records and raises SIGIO at the process; the handler
runs on some thread, reads `mmaps`, `heads`, the ring and `fp`, calls the
parser, and ioctls the event again. Processor detection is linked into the
library and tools but called by neither: it stands alone.

## Modules

* `SampleLog` - the abstract promise: the kernel accepts words from each CPU,
  the log of a CPU only grows, by the accepted words, in order, and is emptied
  only when a session begins.
* `SampleSession` - the session, the handler, ring reading and the kernel, in
  one state machine. It instantiates `SampleLog` (`Abstract`) with
  `accepted <- head` and `reported <- log`.
* `MCSampleSession` - its constants for TLC (descriptors and their symmetry).
* `RingPositions` - lemmas about positions and cells of a ring, for any module
  with one.
* `SampleSessionProofs` - types, exact log and refinement of `SampleSession`.
* `SessionSafetyProofs` - its other safety properties.
* `ParseRecord` - the record parser against the layouts of `perf_event.h`, and
  the two places the sample type is kept. `MCParseRecord` - its constants,
  `ParseRecordProofs` - its theorems.
* `EventSetup` - how init turns the caller's event name into an attribute for
  each CPU and opens it. `MCEventSetup` - its constants, `EventSetupProofs` -
  its theorems.
* `CpuLoops` - the loops of init, start and stop next to CPUs that come and go.
  `CpuLoopsProofs` - its theorems.
* `RingOrder` - one ring between the kernel and `perf_mmap_read` on a machine
  that reorders memory accesses; it too instantiates `SampleLog`.
  `RingOrderProofs` - its theorems.
* `ProcessorDetect` - the detection of the processor and the tables chosen by
  it. `MCProcessorDetect` - its constants, `ProcessorDetectProofs` - its
  theorems.

`SampleSession` is the whole; `EventSetup`, `CpuLoops` and `RingOrder` each take
one thing that it holds constant (how an event is made, how many CPUs there are,
the order of memory accesses) and set it free, with the rest of the session
reduced to what that thing touches.

### SampleSession and the code

The main thread's `pc` is the statement group it is at: `idle`, `open` (the loop
of init), `enable` (start), `work` (the sampled program), `refresh`/`disable`,
`close`, `munmap` (the loops of stop); `i` is the loop index. An ioctl, close or
munmap that meets live events is two steps, `EnterKernel` and its effect, because
an overflow can strike between the two. A pending signal is taken by the main
thread before it runs any more user code (`MainRuns` requires that none is
pending), and by another thread at any time.

The handler on thread `t` goes through `hpc[t]`: `Deliver`, `HandlerDisable`,
`HandlerLookup`, `HandlerReadHead`, `HandlerCopy`, `HandlerParse`,
`HandlerStore`, `HandlerRefresh`, `HandlerReturn`; its locals are `hfd` (the
signal's `si_fd`), `hslot` (its `i`), `hprev`, `hmap` (the argument `our_mmap`)
and `hhead`. The global `our_mmap` is set in one step and read in the next.
SIGIO is masked while the handler runs in a thread.

What is abstracted:

* A ring is `DataSize` cells, and the word written at position `p` is the number
  `p`, so that a word printed twice, skipped, or taken from the wrong cell
  shows in the log. `RecSizes` are the sizes of records in words.
* `log` is indexed by the ring the handler believes it reads (`hslot`).
* The ends of the program are values of `status`: `exited` (an error path that
  calls `exit`), `bad_fds` (init's `return -1` used as a pointer), `no_map` (the
  handler does not find its descriptor), `stale_access` (a freed or unmapped
  object is used), `overread` (the loop reads beyond `data`), `overrun` (an index
  beyond `mmaps`).
* `fp` is `closed`, `open` or `buffered`: the first line printed to a stream
  makes stdio allocate its buffer, which is why init prints one.
* `arena` is malloc's lock, held by the sampled program at times. A handler that
  must allocate is `Blocked` while it is held.
* `Skid`: with `precise_ip = 0`, which is what the code sets, an overflow counted
  in user mode may be reported after the thread has entered a system call.
  `Skid = FALSE` is a machine whose interrupts are exact. `late` is a history
  variable, read by properties only: the events that overflowed inside the very
  ioctl by which stop disables them.
* The handler's malloc is that of the stream's first buffer or of a user stack.
  The callocs for the strings of COMM, MMAP and MMAP2 records and the `printf`
  to standard output for registers without an ABI are left out: the events of
  this library bring neither about.
* Of init's two `return -1` the one for a machine without a CPU is left out.
* Events count the main thread on every CPU, and the scheduler may move it
  between any two steps, so any enabled event may overflow at any time it counts,
  also while a handler for another one runs.
* Memory is sequentially consistent and get_nprocs() is constant here;
  `RingOrder` and `CpuLoops` are about what happens otherwise.

### ParseRecord and the code

The buffer is a sequence of cells that remember which field they were written
for; the parser ignores that and goes over cells in its own order
(`ParserIdentity`, `ParserContext`, `ParserAttributes`), reading lengths from the
cells it meets. `garbled` is set when what it goes over is not what was written
there. `AbiSampleOrder` and `AbiBody` are the comments of `perf_event.h`. Left
out is a register field whose ABI is `PERF_SAMPLE_REGS_ABI_NONE`, behind which
the kernel writes no registers while `print_regs` reads one for each bit of the
mask all the same: it is for samples of tasks without user registers (kernel
threads), and the library's events count only the task that opens them.

Both sides take a record field by field. `kind` is the record they are in and
`at` the last place of its layout they have dealt with, 0 for the header:
`AbiPlaces` are the places the kernel has still to write, `ParserPlaces` the
tests and reads that are still to come for the parser, which of a sample are
those of the sample type. The kernel writes a record with `WriteHeader`,
`WriteField` (which chooses a length for the field) and `WriteEnd`, while no
call of the parser runs. `offset` counts cells where the code has bytes; a turn
of `while(offset<size)` is `ParseHeader` or `ParseUnknown`, then a `ParseField`
for every field; `ReturnHead` is what follows the loop.

`attr` is the sample type the kernel has, `handle` the global
`sample_type_handle`; the retry without branches (`OpenEventFallback`) changes
the first only. A string's length is in the record header's size; it is kept in
a cell of its own here.

### EventSetup and the code

`pc` goes through one turn of init's loop: `encode` (`new_setup_perf`), `open`
(the first `perf_event_open`), `retry` (the second). The name is the caller's
string, reduced to the event it spells, the case of its two parts and its
separator: `Capitalised` is the loop of `capital_latency_event` with
`replace_char`, which stops at the first `.`, so that what follows keeps its
case. `type` is the parameter `sample_type`, which the retry changes for the
turns to come; `handle` and `regs` are the globals `sample_type_handle` and
`sample_regs` that the handler parses with. `events` is what the kernel was
given for each CPU. libpfm is the set `Encodable`; the kernel refuses an
attribute that asks for registers or branches without a mask (`Valid`), and may
refuse any of the sample types in `Unreliable`.

### CpuLoops and the code

One action for each turn of a loop and one for leaving it (`Leave`), each of
which evaluates `nprocs`; `Hotplug` changes the online CPUs in between, anywhere.
The history variables `grew` and `fell` say whether it has, and are read by
properties only. `fds[k]` is the CPU whose event entry `k` holds. A turn that
uses an entry that does not exist or was never filled (`Stray`) ends the
behaviour at `out_of_bounds`. An event is gone when neither its descriptor nor
its mapping is left. The handler takes no part. The last loop of stop, whose
bound `num_maps` nothing changes, is one step (`Unmap`); left out are its
munmaps of addresses that a session with more CPUs has left in `mmaps`, and the
100 entries of that array, which `SampleSession` has (`MAX_MAPS`).

### RingOrder and the code

`KernelWrite` and `KernelPublish` are the two stores of the kernel, which orders
them. The loads of the two memcpys (`LoadWord`) come in any order, from the load
of `data_head` on, which is what `rmb()` gives (`BehindReadBarrier`), and over
the whole ring, as the code copies it. The store of `data_tail` has no barrier
before it; it is held back only by the branches ahead of it
(`BranchesResolved`): a store is not visible before it is certain, and the
parser's control flow depends on every word it takes. Nor does a barrier follow
it: `StoreTail` puts it into the CPU's store buffer (`stores`), which it leaves
at any time (`StoreVisible`), after the call has returned or later ones have
run, in the order of the stores. `prev_head` is both the argument and `heads[]`.

### ProcessorDetect and the code

`pc` is `open`, `scan` (one `fgets` and its tests a step, `line` counts) and
`return`. `Classified` is the part after the scan, the tables are functions from
the processor to its numbers. The keys of a line are the words before the
colon (`cpu_family` for "cpu family"). `OpenFails` is an `fopen` that fails, at any scan
when `ProcReadable` is false. A machine is its vendor, family, model and the
parts of its two cores; `CpuInfo` is the file the kernel makes of it. `Unset` is
the -2 of the static variables.

## Runs

| Run | Instance | Question and outcome |
|---|---|---|
| `Serial2Cpu` | 2 CPUs, skid, ring of 3 words, records of 1 and 2, up to 4 words a ring, table of exactly 2 entries | exact log, consistent copies, no malloc deadlock, bounded limits, implements `SampleLog`; enabled after stop's first loop, or met on an unmapped ring, is only an event that overflowed inside its own DISABLE: all hold |
| `Serial1Cpu` | 1 CPU, exact interrupts, 2 sessions, up to 5 words, fair | always monitored, nothing left in the ring, every word logged, stop returns: all hold |
| `ParseAligned` | all subsets of the fields with lengths, followed by registers or by what comes after a user stack; all one-value fields; 11 kinds; length 0 or 2 for each field; 2 records a call | read as written, decoded one for one, the parser returns: hold |
| `StallOf2Cpu` | 2 CPUs | `Monitored` fails |
| `SkidAtMunmap` | 1 CPU, skid | `MemorySafe` fails |
| `ParseTestEvents` | the sample type of `test_events.c` | `ReadsWhatWasWritten` fails |
| `ParseFallback` | branches not supported | `ReadsWhatWasWritten` fails |
| `SetupConsistent` | 2 CPUs, 2 sessions, 4 spellings of each latency event, of a plain event and of unknown ones, with and without registers and branches; any open may fail | handler and kernel agree on the layout up to branches retried away, samples what was asked, every exit has one of four reasons: hold |
| `SetupTestEvents` | the latency events as the event lists spell them, the sample type of `test_events.c` | `ExitsForAReason` fails |
| `CpusAnyTime` | any set of up to 4 CPUs, changing at any time, 2 sessions, fair | every CPU monitored and the loops within the arrays if none joins; events released if none leaves; mappings released and the loops end in any case: hold |
| `RingReordered` | ring of 3 words, 7 words written, fair | implements `SampleLog`, every word printed, a full ring is freed: hold |
| `DetectAll` | every entry of the tables and its neighbours, all pairs of ARM parts, scans that may fail | detects the machine, vendor and processor agree, one file, answers stable: hold |

### What the failing runs show

* `StallOf2Cpu`: the event of each CPU is disabled at its limit and waits for a
  handler to refresh it. While a handler runs, SIGIO is masked and one can be
  pending; if the thread migrates and two other overflows happen before the
  handler returns, the second signal is dropped, and nobody ever refreshes its
  event.
* `SkidAtMunmap`: an interrupt that lands in stop's DISABLE has its handler run
  when the call returns; the handler's REFRESH enables the event again, it
  outlives close by its mapping, and its next handler meets an unmapped ring.
* `ParseTestEvents`: registers are parsed before the data source.
* `ParseFallback`: the handler looks for branches that are not there.
* `SetupTestEvents`: `capital_latency_event` returns an attribute of its own,
  without the mask that `new_setup_perf` has put into the one it replaces but
  with the sample type that needs it; the kernel refuses it, the retry without
  branches changes nothing, and init ends the program for a latency event that
  it has in its table.

### Bounds, and why they are enough

A ring of 3 words with records of 1 and 2 words wraps at every offset, leaves
room that a record fits in exactly, nearly, or not at all, and with 4 or 5 words
written in total (`MaxHead`) goes past its end. Two CPUs are the least for which
a lookup can go wrong and a signal can be lost; two sessions the least for state
to outlive one. `MaxHead` bounds what the kernel accepts in a ring and
`MaxSessions` the calls of init; both are only guards of the environment.
`Serial2Cpu` fills its table of `MAX_MAPS` entries to the last. Symmetry is
over descriptors only, and only in runs without liveness properties. Two records
a call and lengths 0 and 2 are enough for a misread length to run into the next
record. Four CPUs allow a hole with CPUs on both sides of it. Seven
words in a ring of three let every cell be reused, with the kernel one write
behind and one ahead of the library, and with several stores of the tail waiting
to become visible. `DetectAll` ranges over all models from 0
to 95, so every gap in the tables is met. Deadlock is checked in every run; a
session that has ended stutters (`Finished`).

### Fairness

`FairSpec` assumes that the scheduler runs the main thread through init, start
and stop and runs handlers (weak fairness), that the sampled program leaves
malloc (weak) and finally calls stop (strong, since it may be in malloc time and
again). Nothing is assumed of the events: no overflow ever has to happen, and a
handler that must wait for malloc has its action disabled and gets no help from
fairness. In `ParseRecord` only the parser's own steps are fair, in `CpuLoops`
only the steps of the library's loops (CPUs may come and go for ever and a loop
still moves on). In `RingOrder` a call is made when there is something to read
(`WF(Call)`: the kernel signals it; with one ring no signal is lost), runs to
its end, a store becomes visible in the end, and the kernel publishes what it
has written; it need not write. A handler and a loop of C code always proceed
when not blocked, so weak fairness is what the code justifies.

### Limits of what holds

What holds under a condition only, by module:

* `SampleSession`. `Monitored` and `NothingLeftBehind` hold for one CPU;
  `StallOf2Cpu` shows the first fails for two. That what is stopped stays
  stopped and that no handler meets memory that stop has given back hold but for
  the events in `late`, and that exception is needed: it is the behaviour of
  `SkidAtMunmap`. The table must be long enough for all sessions: init fills
  `mmaps` from entry 0 in every session, but `num_maps` is never reset, and the
  handler's search and stop's unmapping go up to `num_maps`. So the theorem asks
  for `MaxSessions * NUM_PROCS <= MAX_MAPS`.
* `SampleSession` is about programs with one thread that sample no user stacks.
  With a second thread two handlers share `our_mmap` and one can read the
  other's ring; the repository's README says in its entry of 7/9 that the
  interface is safe for serial programs only, and nothing is claimed beyond
  that. With `PERF_SAMPLE_STACK_USER` the handler calls malloc in the copy of
  each user stack, and can wait for the lock of the code it interrupts;
  `test_events.c` does not ask for it, and the runs have `StackUser = FALSE`.
* `ParseRecord`. `ReadsWhatWasWritten` holds for the combinations of fields
  where the parser's order and the ABI's agree (`InOrder`, see Proofs);
  `ParseTestEvents` and `ParseFallback` are two for which it does not.
* `EventSetup`. `LayoutKnownUpToBranches` says what it exempts: an event that
  was retried without branches lacks a field that `sample_type_handle` claims.
  `ExitsForAReason` fails for latency events with registers
  (`SetupTestEvents`), and for one in lower case with a dot
  (`frontend_retired.latency_ge_4`): only what precedes the dot is capitalised,
  and the table has upper case. `ExitsExplained` says that these two, an unknown
  event and a refusal of consistent attributes are the only ways to exit.
* `CpuLoops`. The loops take the number of online CPUs for the first number
  that is free. A CPU offline below an online one leaves the latter without an
  event; a CPU that joins in a session makes a loop run beyond the arrays; one
  that leaves makes stop's loops too short, and an event stays open and enabled.
  `EveryCpuMonitored`, `WithinArrays` and `AllReleased` say exactly so.
* `RingOrder`. `ImplementsSampleLog` rests on the parser branching on what it
  takes; with the store free of that (`AnyTime` for `BranchesResolved`) TLC
  finds a word overwritten before it is loaded.
* `ProcessorDetect`. When detection finds nothing (another vendor, or no
  `/proc/cpuinfo`) callers are given -2, the mark of a value not detected yet,
  where `perf_helpers.h` has -1; `copy_events` gives the table
  `cortexA9_events` to the Cortex-A8 and none to the A9.

## Proofs

Every safety invariant, action property and refinement that a run checks is also
a theorem, which holds for every number of CPUs, descriptors, records, words,
sessions, fields or machines the constants allow. The hypotheses of a theorem
that are not assumptions on the constants' types are in the table; "-" is none.
Where a property needs one, the section on limits says what it excludes.

| Module | Theorem | Property | Under |
|---|---|---|---|
| `SampleSessionProofs` | `TypeCorrect` | `TypeOK` | - |
| | `SerialInvariant` | `SerialInv` | `Workers = {}` |
| | `SerialLogExact` | `LogExact` | `Workers = {}` |
| | `SerialImplementsSampleLog` | `ImplementsSampleLog` | `Workers = {}` |
| `SessionSafetyProofs` | `SerialDescriptors` | (`DescriptorInv`) | `Workers = {}` |
| | `SerialLimitBounded` | `LimitBounded` | `Workers = {}` |
| | `SerialStoppedUnlessLate` | `StoppedUnlessLate` | `Workers = {}` |
| | `SerialMemorySafeUnlessLate` | `MemorySafeUnlessLate` | `Workers = {}`, `MaxSessions * NUM_PROCS <= MAX_MAPS` |
| | `SerialMonitored` | `Monitored` | `Workers = {}`, one CPU |
| | `SerialNothingLeftBehind` | `NothingLeftBehind` | `Workers = {}`, one CPU |
| | `NoHandlerDeadlock` | `NoMallocDeadlock` | `StackUser = FALSE` |
| `RingOrderProofs` | `OrderInvariant` | (`RingOrderInv`) | - |
| | `OrderTypeCorrect` | `TypeOK` | - |
| | `OrderImplementsSampleLog` | `ImplementsSampleLog` | - |
| `CpuLoopsProofs` | `LoopsInvariant` | (`CpuLoopsInv`) | - |
| | `LoopsTypeCorrect` | `TypeOK` | - |
| | `LoopsWithinArrays` | `WithinArrays` | - |
| | `LoopsMonitorEveryCpu` | `EveryCpuMonitored` | - |
| | `LoopsReleaseAll` | `AllReleased` | - |
| | `LoopsReleaseMappings` | `MappingsReleased` | - |
| `EventSetupProofs` | `SetupIndex` | (`IndexInv`) | - |
| | `SetupTypeCorrect` | `TypeOK` | - |
| | `SetupLayoutKnownUpToBranches` | `LayoutKnownUpToBranches` | - |
| | `SetupSamplesWhatWasAsked` | `SamplesWhatWasAsked` | - |
| | `SetupExitsExplained` | `ExitsExplained` | - |
| `ProcessorDetectProofs` | `DetectInvariant` | (`DetectInv`) | - |
| | `DetectTypeCorrect` | `TypeOK` | - |
| | `DetectsEveryMachine` | `DetectsMachine` | - |
| | `DetectVendorAgrees` | `VendorAgrees` | - |
| | `DetectLeavesOneFile` | `OneFileAtMost` | - |
| | `DetectAnswersStable` | `AnswersStable` | - |
| `ParseRecordProofs` | `ParseTypeCorrect` | `TypeOK` | - |
| | `ParseInvariant` | (`ParseInv`) | `TypesInOrder`, `WithoutSampleId` |
| | `ParserReadsWhatWasWritten` | `ReadsWhatWasWritten` | `TypesInOrder`, `WithoutSampleId` |
| | `ParserDecodesAll` | `DecodedAll` | `TypesInOrder`, `WithoutSampleId` |

Names in parentheses are invariants that no run lists; each was checked with TLC
on the instance of its module's passing run before it was proved, except
`PiecesInv` (below), whose witnesses TLC cannot enumerate. The module-level
assumptions (`ConstantsAssumption`, `RingAssumption`, `CpuAssumption`,
`SetupAssumption`, `TableAssumption`, `MachinesAssumption`, `ParseAssumption`)
say what the constants are, and TLC evaluates them on every run.

### The arguments

**The session's log** (`SerialInv`). `LogExact` alone is not inductive: what a
parse appends depends on the copy in `data`, which depends on the ring holding
its unread words at the right cells, and on the handler having started from the
tail. `SerialInv` has a part for each of these: `PhaseInv` (what the place of the
main thread says about events and rings: a ring is fresh when it gets its
mapping, an open or enabled event is mapped), `RingInv` (a ring holds its unread
words, at most `DataSize` of them, each at its position modulo `DataSize`),
`LogInv` (the log is what is before the tail, and `heads` agrees with the tail
except between the parse and the store) and `FrameInv` (the handler's locals
match its ring; what it copied is what was there). Each part has a lemma that a
step preserves it. They rest on lemmas about the ring: `CellInjective`
(positions less than `DataSize` apart have different cells), `WrittenNew` and
`WrittenOld` (a write puts its words in place and leaves the unread ones),
`CopiedInOrder` (the two memcpys put the words in order, whatever the wrap) and
`FirstWordsConcat`. The refinement follows step by step: `SampleInit` truncates,
`SampleInitOpen` attaches, `Overflow` accepts, `HandlerParse` reports, and all
else stutters.

**The session's safety** (`SessionSafetyProofs`). All of it rests on
`DescriptorInv`: descriptors are unique, and a signal that is pending or being
handled is that of a CPU, so that the handler's lookup means one event. On top
of it `LimitInv` counts, for an event, its limit and the refreshes that are
still to come, one for a pending signal and one for a handler before its
REFRESH: never more than two together. `StopInv` says that the loop of stop
leaves only events behind that are disabled and that no signal or handler refers
to, so nobody enables them again, except those in `late`. `MemoryInv` adds that
`num_maps` counts the CPUs of all sessions so far, which is why every loop over
it stays in the table and finds its descriptor. `MonitoredInv` and `UnreadInv`
are the two properties of one CPU, with the handler's place added: a handler
counts as attention only until it has refreshed, and only when the head it read
is the kernel's. `NoHandlerDeadlock` needs only `StreamInv`: the stream has its
buffer before any event exists.

**The reordered ring** (`RingOrderInv`). While a call runs, cell `k` of `data` is
not loaded yet or holds word `prev_head + k`, for every `k` up to the head the
call has seen (`InCall`); what is printed has been loaded. That the kernel cannot
have reused the cell meanwhile is the tail: this call has not stored it, and the
stores of earlier calls that are still on their way give back no more than they
did (`StoresHold`), so the kernel is at most a ring ahead (`RingHolds`), and
`CellInjective` gives that a later word with the same cell is out of its reach.

**The loops over CPUs** (`CpuLoopsInv`). Unless a CPU has joined, `nprocs` is at
most the number of entries made (`EntriesInv`); unless one has left, each loop of
stop has at least as many turns as those before it (`ReleasedInv`); `MapsInv`
bounds the mapped rings by `num_maps`, which does not depend on `nprocs`.

**The setup of events** (`LayoutInv`, `AskedInv`, `ReasonInv`, on `IndexInv`).
`TypeOK` is not inductive without `IndexInv`: the events are indexed by the
loop's variable. `LayoutInv` relates three copies of the sample type, the
caller's, the global and each event's, through a retry in the middle of the loop.

**Detection** (`DetectInv`). A variable that is set is right, and the type is
never set without the vendor (`StaticInv`); `ScanInv` says what each line has told
the scan, for the three formats of the file; `FileInv` that a file which an early
return leaves open is the last one opened, because both answers are known then.
`AnswersStable` follows: a variable that is set has only one value it may have.

**The parser** (`ParseInv`). The buffer is a sequence of pieces, one for each
header and each field, cut where the kernel cut it; the parser's `offset` is at
the end of one of them, and its place in its own layout is the partner of that
piece's place in the kernel's (`PiecesInv`, with the record, the place and the
end of every piece as functions whose existence is stated). Three lemmas carry
it. `CellsOfType`: a reader that takes the length of a field from its first cell
goes over as many cells as were written. `SampleOrdersAgree`: the order of the
parser's tests and that of `perf_event.h` are the same on a sample type if and
only if it is `InOrder`, that is,

* it has no `PHYS_ADDR`, which the parser does not know;
* if it has `REGS_INTR` it has none of `STACK_USER`, `WEIGHT`, `DATA_SRC`,
  `TRANSACTION`;
* if it has `IDENTIFIER` it has nothing else but `TRANSACTION`.

`NextTogether`: through two layouts that agree on a type, kernel and parser find
the same field next. `WithoutSampleId` excludes the four kinds of record that
`perf_mmap_read` takes with a trailing `sample_id`. The theorems hold in
particular for every sample type and kind of the run `ParseAligned`;
`ParseTestEvents` and `ParseFallback` are instances that violate
`TypesInOrder`, the first by its fields, the second because branches are asked
for and not supported.

### What is model-checked only

* Liveness: `EveryWordLogged`, `StopReturns`, `ParserReturns`, `LoopsEnd`,
  `EveryWordPrinted`, `RingIsFreed`. They rest on fairness, hence on ENABLED,
  which the prover does not handle.
* That hypotheses and exceptions are needed, where a failing run shows it:
  one CPU (`StallOf2Cpu`), the events in `late` (`SkidAtMunmap`), types in order
  (`ParseTestEvents`, `ParseFallback`), latency events with registers
  (`SetupTestEvents`).

## Plan

1. Done: the modules and the runs above; every safety property of every run
   proved.
2. Next: the liveness properties cannot be proved, but the safety half of their
   arguments can: that every step of a loop lowers a measure (the cells and
   fields left to parse in `ParseRecord`, the turns left in `CpuLoops`, the words
   left to load in `RingOrder`), as action properties of every instance.
3. Not planned: records with a trailing `sample_id`, which need an event opened
   with `sample_id_all`, and this library has none.

## Not modelled

* The IBS dumps: bit formatting, never called with the library's `RAW_NONE`.
* The event-name tools (`gen_codes.c`, `gen_defines.c`, `gen_list.c`,
  `nameevents.c`, `stuffandthings.c`): each reads a file line by line and prints;
  no state outlives a line.
* `lower_latency_event`: not called, and returns nothing.
* The event codes in the tables of `perf_helpers.c`, the lists and the results:
  data. `detect_nmi_watchdog`, `get_kernel_version` and the version check of
  `test_utils.c`: a read and a formula each, called by nothing here.
* What the workloads compute: the library depends on none of it.
* The test utilities' messages.
