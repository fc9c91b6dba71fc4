# tmee in TLA+

A verification development of the timed module execution engine (tmee): TLA+ modules of
its parts, TLC runs that check them on small instances, and TLAPS proofs that hold for
every instance. `PROJECT.json` lists the components, the runs, the code line behind every
definition, the hazards and the theorems.

Paths below are relative to the root of the repository (`src/` in `PROJECT.json`).

## 1. The system

The engine (`main.c`) is one single-threaded process. It reads a config file, loads modules
(shared libraries), calls their `pre_init` and `init`, and then their `run` in rounds: as fast
as it can (`run_asap`) or on a grid of deadlines (`run_deadline`). Modules implement the ends of
IEC 61850 (sampled values, GOOSE, MMS), protection functions, and a bridge to other engines.
They interact in three ways:

- **events**: `callback_event_cb(id)` calls `event()` of every subscribed module at once, nested
  in the caller;
- **ring files** in /dev/shm (`mem_file.c`): a header (item size, number of items, index, type,
  semaphore byte) and a ring of items, mapped by modules of the same or of another process;
- **messages**: GOOSE, sampled values and MMS through libiec61850, event names through zmq.

### Inventory

| component | state it keeps | operations | what is hard about it | what makes it correct | where |
| --- | --- | --- | --- | --- | --- |
| Ring file (`mem_file.c`) | header, semaphore byte, items | `lock_buffer`, `free_buffer_lock`, `read_*`, `write_*` | any number of processes, no atomic lock, kills, stale headers | no dirty semaphore left behind, item before index, fresh reads, no lost write | `SharedBuffer` |
| File creation and mapping (`mem_file.c`, `init` of modules) | file, size, mapping | create, size, map | order of producer and consumer, restarts | a mapping covers what is accessed | planned: `BufferFile` |
| Engine (`main.c`) | module list, event table, chains, call stack, `running` | load, subscribe, `init_modules`, rounds, dispatch, SIGINT, `clean_all` | nested dispatch, modules that fail, a full table, signals | right subscribers in order, only ready modules called, one deinit each, SIGINT stops | `Engine` |
| Deadline loop (`run_deadline`) | next deadline, spare, skipped | wait, round, skip | overruns, preemption anywhere | no drift, no bursts, no needless skip | `DeadlineLoop` |
| SV and GOOSE subscriber | `buffer_index`, `old_stNum`, ring | `run` (tick), listener | loss, repetition, stores without lock, pollers | newest whole item named, states once and in order | `Subscriber` |
| Standard inverse protection (`si.c`) | `old_index`, window, recording, trip | `run`, `event` | runs inside the listener, or beside it in another process | every sample once, window right, trips when due | `StandardInverse` |
| GOOSE publisher | `old_index`, elements, stNum, deadline | `run`, `event` | writers faster than it, wraps, two callers, retransmission | stNum names a state, no going back, bounded lag, in time | `GoosePublisher` |
| SV publisher | deadline, sample counter | `run` | bursts after overruns | no sample early, late by no more than the engine skipped, newest items | `SmvPublisher` (timing) |
| MMS server | model, element rings | read and write handlers, `run` | client requests between steps | reads are the newest items, writes reach the ring | planned: `MmsServer` |
| Event bridge (`ipc_signals`) | sockets, client list | `run`, `event` | two engines calling each other | an event crosses once | planned: `IpcBridge` |
| Config list (`cfg_parse.c`) | linked list | load, save, set, get, delete | duplicates, trimming, round trip | behaves as a map | planned: `CfgParse` |
| Module lifecycle | memory, files, sockets of each module | `pre_init`, `init`, `deinit` | every early return | acquired once, released once | planned: `ModuleLifecycle` |
| Python accessors (`other/python_example`) | the same ring file | as `mem_file.c`, plus whole-file locks | nested locking, exceptions in the lock, semaphores cleared by others | a set semaphore has an owner, no lost write, and a write that waits for itself is the only wait for ever | `PyBuffer` |
| Python client (`tools/python_client`) | per host: connection, model, control objects; polled references, control blocks | register, read, write, poll, operate, report handler | connections lost at any call, report handlers on another thread, half-done discoveries | no leaked connection, a session in use is discovered and reporting, what was accepted is watched, losses are noticed, values arrive | `IedClient`, `DataModel` |

What is left out, and why, is section 7. libiec61850, zmq, the network and the operating system are external: they appear only as what the
code uses them for (a wire that loses packets, a publisher that repeats, a process that is killed).

## 2. Modules

| module | models | composed from |
| --- | --- | --- |
| `SharedBuffer` | one ring file, every accessor, at the grain of single loads and stores | |
| `Engine` | `main.c` from the config to exit, as a machine with an explicit call stack | |
| `DeadlineLoop` | `run_deadline` and its clock | |
| `SmvPublisher` | when `run()` of the SV publisher sends samples | extends `DeadlineLoop`: the publisher in its rounds |
| `PyBuffer` | the accessors of `other/python_example/mem_file.py` | extends `SharedBuffer`: both languages on one file |
| `DataModel` | operators that discover, search, read and write the client's copy of an IED's data model | |
| `IedClient` | the Python client, its report threads, and the IEDs it talks to | extends `DataModel` |
| `StateChannel` | abstract: what a poller of a receiver's ring may rely on | |
| `Subscriber` | both receiving modules (constant `Kind`) with the wire | implements `StateChannel` |
| `StandardInverse` | `si.c` | extends `Subscriber`: same engine or two processes |
| `GoosePublisher` | `event()`, `run()` and `init()` of the publisher, with the writers of its inputs | |
| `RingArithmetic` | lemmas on slot numbers of a ring, least numbers, sums and roots | |
| `*Proofs` | theorems about the module they are named after; those on `PyBuffer` are in `SharedBufferProofs`, those on `SmvPublisher` in `DeadlineLoopProofs` | |
| `MC*` | constants for TLC | |

### How the state and the actions correspond to the code

- **SharedBuffer.** `semaphore`, `index`, `data` and `hdr` are the file; `pc`, `op`, `slot`, `val` are
  where each process is in an accessor. `Begin*` is the entry of an accessor with the checks made before the
  lock; `Spin` and `Claim` are the two accesses of `lock_buffer`; `LoadIndex`, `StoreItem`, `StoreIndex`,
  `LoadItem`, `StoreHeader` the body; `TestSemaphore` and `ClearSemaphore` are `free_buffer_lock`. Loads that are
  not volatile may be moved or dropped by the compiler, and the module allows both outcomes. `Crash` kills a process at any
  access; `Restart` reopens the file, for the processes that do not own it: an owner's `pre_init` removes the file.
- **PyBuffer.** `ypc`, `yop`, `yslot`, `yval` are the Python program, one access at a time; the modules of `SharedBuffer` take
  their steps between. `write_output_*` runs `write_index` with its own lock and release inside (the `inner` points), an
  `int()` that raises leaves the semaphore set (`YRaise`), `write_type` stores two bytes too many, and
  `lock_buffer_file` compares bytes with a number and so never waits (`YLockFile`). The interpreter does not reorder.
  A file has one writer, a module or the program (`pythonWrites`). `program.py` only maps a file and prints header fields.
- **SmvPublisher.** `LookAtClock` and `Send` are `run()`, apart because time passes between; they are made once in every round
  of `DeadlineLoop`, anywhere in it. Values and `smpCnt` (which the library wraps) are left out.
- **DataModel.** A model is a function from paths to entries. `DiscoveryCalls` is the sequence of service calls that
  `discovery` makes for a given server; `discovery(n, vals)` is what is stored when n of them succeed, and
  `DiscoveryRaises` tells the cuts at which a name is unbound. `ReplaceBelow`, `SetRead` and `SetReported` are the
  three ways the dictionaries are written. `FirstOf` is where a search through the nested dictionaries stops: the set of
  the one path that is met before all others, in the order in which discovery entered the names.
- **IedClient.** `task`, `pc`, `round`, `renew` and `fetched` are the call in progress; between two of its service calls the
  report handler of a connection (`BeginReport`, `StoreElement`), the network and the IEDs take steps. `con`, `model`, `control`,
  `polling`, `cb_refs`, `reporting` are the attributes of the class. `getIED` is taken by every call: reuse, discovery again,
  connect, discover, renew the control blocks. Error 3 of a read or a write (`NoticeLoss`) is what destroys a connection.
  `fault` is the end of the program in one of three ways the library does not survive: a null control block, a null control
  object, an object of a destroyed connection. Nothing is claimed after one. `getDatamodel` is `getIED` and nothing else.
- **Engine.** `phase` and `at` are the position in `main`; `registered` is the module list, `events` the name
  table, `chains` the subscriptions, `own` the id a module kept from `pre_init`. `stack` holds one frame per active
  `run()`, `event()` and `run_callback_func`, so nested dispatch, its order and a SIGINT in the middle of it are all
  visible. What a module's `run()` and `event()` publish is a constant read off the modules. `fault` records a call
  through a freed module and a subscription with id -1: nothing is claimed after either.
- **DeadlineLoop.** The clock advances by any amount between any two steps. `SkipDeadline` is one turn of the loop
  `while(spare < slack)`. `NextCanBeMet` and `SpareIsLeft` are what the proofs need besides.
- **Subscriber.** A packet is a version of the remote data. `TakePacket`, `StoreWord`, `PublishIndex` and
  `CallbackReturns` are the listener, one store at a time, because other processes poll meanwhile; `SkipPacket` is a
  packet it does not store. The index is stored as the code stores it: one byte, `buffer_index % ByteRange`.
- **StandardInverse.** `CallEvent` (from the callback, or from `run()`), `StartSample`, `ReadSample` and `Evaluate` are
  the loops of `event()`; `ReadSlot` is the unsigned arithmetic of line 212 with its own word size and item count.
- **GoosePublisher.** `LookNoUpdate`/`LookUpdate` read an index, `UpdateElement` reads the item in a later step, so
  writers may come between; `PublishChange`, `Retransmit` and `NotDue` are the ends of `event()` and `run()`.

## 3. Runs

Runs marked V are expected to end in a violation: each states what a comment or README of the repository says and
shows that the code does otherwise.

| run | shows | bounds |
| --- | --- | --- |
| `pybuffer_single` | one writer (a module or the Python program), readers in both languages: fresh reads, every write counted once although readers clear the writer's semaphore, who may leave the semaphore set, and that a Python write waits for itself for ever | 2 slots, 2 writes: the ring wraps and a reader is overtaken by a lap; 2 modules and the program |
| `sharedbuffer_crash` | two processes that read and write, either killed at any access: a set semaphore has someone to clear it, is cleared, and no writer divides by zero | 2 slots, 3 writes, 1 kill, 1 restart |
| `engine_crossing` | the seven shipped modules with repeated and crossing subscriptions, any subset failing to load, two failing to init, a table that fills up at run time, SIGINT anywhere | 5 event ids for 6 names, 2 publications per `run()` |
| `engine_init_failure` V | a module whose `init` failed is freed and then called through its chain (`main.c:353`, `451`) | shipped subscriptions |
| `deadline_grid` | `run_deadline` with the SV publisher in its rounds: no drift, no bursts, no needless skips, samples late by no more than what was skipped, one a round and never early, for rounds of any length | interval 5, slack 2, samples every 6, publisher created 4 before the loop, 38 ticks: up to seven deadlines, missed in every pattern |
| `subscriber_goose` | states once, in order, in the end; the ring implements `StateChannel` | 3 slots, 5 states, 3 packets under way, 2 lost: the ring wraps |
| `subscriber_byte_index` V | a ring longer than a byte counts is indexed wrongly (`subscriber_mmap.c:271`) | 3 slots, a byte of 2 values |
| `si_ring` | window, one-sample lag, whole newest item, termination; in one engine and in two processes | 4 slots, 6 samples, 2 per cycle |
| `si_trip` V | an overcurrent never trips: the sign of line 240 | clock to 4 |
| `goose_lag` | stNum, order, lag, catching up, retransmission, with writers at any step | 2 inputs, 3 slots, 4 writes each, one of them possibly before init; clock to 3 |
| `ied_session` | the Python client registers, polls, reads, writes and operates while its connection is lost at any call: connections owned, sessions complete, what was accepted watched, losses noticed, values arriving | one IED with three data objects, one reported, one polled and written, one read; 1 change of a value, 2 losses (so that a reconnection is lost too), 3 connections; a discovery is cut before the node is listed, in and below a directory, and before the data sets |
| `goose_deadline` V | after a change the next transmission is counted from the old deadline (`publisher_mmap.c:318`) | 1 input |

Why the bounds suffice: every ring is written past its end, so wrap-around and overwriting happen; every counter that a
bound stops (writes, versions, the clock) is only compared with others of its kind; and the properties proved below
do not depend on them. A bound stops the environment (no more writes, packets or time), never the program.
Deadlock is not checked where the environment may be used up in that way, or where the system stops (`Engine` exits).

**Fairness.** `SharedBuffer`: a process inside an accessor keeps being scheduled (weak fairness of its accesses); none is
obliged to make a call. `Engine`: the process is scheduled and module code returns. `Subscriber`: the engine calls `run()`
in every round, so ticks and a begun listener go on; a GOOSE publisher repeats for ever (its standard, external).
`StandardInverse`, `GoosePublisher`: the same rounds. `IedClient`:
the calls of the library return and threads run (weak fairness of the call in progress and of each report handler), an IED that
went away comes back (weak), and the application polls again and again whatever else it calls (strong fairness of beginning a
poll: other calls come between, and the client is written around a loop of poll and sleep). Time, loss, writers, signals and
kills are never assumed fair.

**Conditions stated in properties.** `WindowIsLastCycle` is claimed for deployments in which SI's own item count equals its
input's and divides 2^32; `config/SI.ini` (10) with `config/smv92.ini` (4000) is not one of them. `LagIsBounded` and
`CatchesUp` exclude inputs that got a whole ring ahead, which two slot numbers cannot tell from none. `NeverBackwards`
starts when an input was caught up with: `init` starts from slot 0 and replays what the ring already held.
`LagIsSkipped` is claimed for rounds at least as frequent as samples: one sample is sent per round, so with a longer interval
of the engine the stream falls behind for ever. With equal intervals a skipped deadline delays all later samples by one interval.
`YSetSemaphoreHasOwner` names the exceptions that leave the semaphore set. `AcceptedIsWatched` is claimed for one IED: control
blocks are remembered without their host, and with two IEDs of one type the second's references are accepted and neither polled
nor reported. `PolledAttributeReconnects` needs a polled attribute: while only data objects are polled, or everything is reported,
nobody notices a loss. `WatchedValueArrives` is claimed for attributes that are not both reported and read by `ReadValue`: a
read under way when a report arrives stores the older value last. `IedClient` is checked without deadlock, as a fault ends it.

## 4. Proofs

All theorems hold for every value of the constants that the modules' ASSUMEs allow.

| theorem | says | rests on |
| --- | --- | --- |
| `SharedBufferProofs!TypeCorrect` | types and control points | `TypeOK /\ Control` |
| `SharedBufferProofs!SemaphoreHasOwner` | a set semaphore has a process that will clear it, or one was killed | the above; per step, whoever sets the byte is inside, and whoever leaves clears it |
| `SharedBufferProofs!WritersFindItems` | no division by a zero item count, if `init` writes items before type or size | `HeaderSoFar`: the calls an init has made are in the header |
| `SharedBufferProofs!ReadsAreFresh` | with one writer, reads are never older than what was current | `ValuesGrow`: values in the file, in the writer and in readers only grow |
| `DeadlineLoopProofs!DeadlinesOnGrid`, `NoBursts`, `NoNeedlessSkip` | the deadline properties, any interval and slack | `SpareIsLeft`: `spare` is the time between the round's end plus slack and the next deadline |
| `SharedBufferProofs!PythonKeepsTypes` | the types of the ring file with the program on it | `YTyped`: with the program's control points |
| `SharedBufferProofs!PythonSemaphoreHasOwner` | a set semaphore has an owner, a killed process or a raised read | `YTyped`; a step of the program that leaves the inside clears the byte or raises |
| `SharedBufferProofs!PythonWaitsForEver` | once a Python write waits alone it does for ever | modules wait for the same byte; none is between test and claim |
| `SharedBufferProofs!PythonKeepsOrder` | with one writer, reads are fresh and writes are counted | `YInv`: `ValuesGrow` of `SharedBufferProofs` with the program's values (`YWriteGrows`), and `Counts` or `YCounts`: which slot comes after which write, at every point of a write of either language |
| `SharedBufferProofs!PythonCountsWrites` | the index between calls counts every write once | `YInv`, with one writer |
| `IedClientProofs!ConnectionsAreOwned` | connections are stored once, live, and one per association | `IInv`, its own conjunct |
| `IedClientProofs!OpenSessionsAreComplete` | an open session in use has its model and all its control blocks | `IInv`: `Shapes`, `TaskOK`, `SequencesOK` and `Complete`, which counts the blocks a renewal in progress has yet to enable |
| `IedClientProofs!TypeCorrect` | what is stored is a model, a report, a call in progress | `TypeOK` with `IInv`; `Effects` lists what a step may do to each part of the state, and each part has a lemma |
| `IedClientProofs!AcceptedStaysWatched` | for one IED, what registration accepted is polled or reported | `Watching`: every control block in `cb_refs` is listed for the IED; `ReportsCover`: a block found for a reference has a member that holds it |
| `IedClientProofs!OneBlockReports` | the search of a registration finds exactly one control block, or there is none | `FirstPath`: least names level by level; `OneOrder`: the order has no cycles |
| `DeadlineLoopProofs!StreamKeepsUp` | samples lag by the skipped deadlines at most, any intervals and slack | `SInv` (the publisher's grid, `SampleGrid`, and the clocks, `Times`) and `Lag`: how late the stream may be at each point of a round |
| `DeadlineLoopProofs!SamplesKeepTime` | samples one a round, a slack apart, never early | `SInv` |
| `SubscriberProofs!RingKeepsPackets`, `IndexNamesNewest` | contents of the ring and its index | `RingInv`: where the listener is, and that slot n holds packet n; `RingArithmetic` for slots less than a lap apart |
| `SubscriberProofs!StatesStoredInOrder` | states once and in order | `OrderInv`: what is on the wire follows what was accepted |
| `SubscriberProofs!SubscriberIsChannel` | `Subscriber` implements `StateChannel` | all of these, and that the ring starts empty; `made` is the remote version, `seen` the last word of the item the index names |
| `EngineProofs!TypeCorrect`, `OnlyReady`, `DeinitedOnce` | types; only ready modules run; one deinit each | `Inv`: the list is walked in order while its length changes (`WalkedTo`), what is not in the list is absent or freed (`OthersGone`), chains name loaded modules, ids in use are in the table, and calls are made in rounds. A module found in a chain is then either in the list, hence ready, or freed, which is the fault of section 5 |
| `EngineProofs!DispatchFollowsConfig` | a dispatch calls the configured subscribers, in order | `TablesAgree` and `ChainsListed`: a chain lists (`Lists`) what the config asks for, for the modules initialised so far; `Undispatched`: nothing is dispatched before all are; `CalledFront`: what a dispatch has called is a front part of its chain |
| `EngineProofs!NoReentry` | no `event()` inside another of the same module | `Nested`: of the events on the stack, an inner one has a lower rank |
| `StandardInverseProofs!WindowsAreCycles` | the averaged window is the last cycle | `Walk` and `InRing`: which sample `cur` is and which slots are intact; `WindowSoFar`: the part of the window read so far |
| `StandardInverseProofs!StaysOneBehind` | in one engine, every sample once and one behind | `Lockstep`: `done` follows `accepted` at every point of the listener and of `event()` |
| `StandardInverseProofs!NeverTrips` | no current ever trips the module | `Measured`: a pickup is never later than the clock, and averages are naturals |
| `GoosePublisherProofs!StateNumbersNameStates` | one stNum, one data set | `IInv`: what was published under the current stNum is the data set, except between a look and its publication |
| `GoosePublisherProofs!RetransmissionsInTime` | retransmission before the announced time ends | `IInv` |
| `GoosePublisherProofs!ElementsNeverGoBack` | elements never go back once caught up with | `FollowsRing`: `taken` is the write that `old_index` stands for, at most a lap behind |
| `GoosePublisherProofs!LagStaysBounded` | an update catches up to less than `MAX_LAG` | `TakenInRing`: `old_index` is the slot of `taken`, less than a ring behind |

Hypotheses. Each is one the code leaves to its configuration; the runs have it, and none is there for the proof only.

- The theorems on `IedClient` assume what makes nested dictionaries of a server's tree (`PathsAssumption`, `TreeAssumption`,
  `DataSetsAssumption`: names below a path differ, data sets list paths of the tree, control blocks report data sets) and that
  a complete discovery finds something (`DiscoveryAssumption`): for an IED without a logical device `getIED` would take
  the model for empty, and discover again in every call. TLC evaluates them for the instance of its run.
- `AcceptedStaysWatched` is about one IED (`Hosts = {ied}`), as with a second one of the type `cb_refs` makes the property false,
  and about names none of which begins another (`NamePrefix = {}`): `ref.startswith` takes `f1` for a part of `f`.
- The theorems with one writer assume `Writers \subseteq {Producer}`, as every shipped configuration has it.
- Those on rings assume what the shipped configuration breaks, `Entries <= ByteRange`, false for the 4000 entries of
  `config/smv92.ini`; `subscriber_byte_index` shows what follows. `WindowsAreCycles` assumes `Divides`, the condition of
  `WindowIsLastCycle` in section 3, and `StaysOneBehind` a ring of two slots. The trip times of these are times
  (`TripTimesAreTimes`: naturals, as `trip_time` makes no negative one).
- `NoReentry` assumes that modules can be ranked so that what one triggers in its `event()` goes to lower ranks (`Descends`): there
  is no loop of subscriptions. `MCEngine` has the ranks of the shipped configuration (`ShippedRank`), and
  `NoEventLoop`, evaluated by TLC, that they descend. With a loop the engine recurses, and the property is false.

How the proofs go on about data. What a dispatch should call is stated by positions instead of by filtering the config
(`Lists`, `Places`), what a search finds by an order (`FirstOf`), and sums and roots by existence over sets of numbers (`LeastNumber`,
`Induction`, `SumExists`, `RootExists` of `RingArithmetic`): the prover reasons about sets and first-order functions, and
has no view into `SelectSeq`, `FlattenSeq` or `@@`. The inductive invariants were model-checked before they were proved.

Every safety invariant and action property that a run checks is stated by a theorem, except that those of a run which
is expected to be violated are false. Only model-checked: the liveness properties (`SigintStops`, `SemaphoreIsCleared`, `StateGetsThrough`,
`EventReturns`, `CatchesUp`, `PolledAttributeReconnects`, `WatchedValueArrives`), as the prover has no ENABLED, which
weak and strong fairness are made of; and the values of `discovery` and of `DirectoryCalls`, recursive
functions of which the proofs use only what every value of them has (the types of what is made of them, and
`DiscoveryAssumption`).

## 5. What disagrees

1. `main.c:353`: an event chain keeps a freed module.
2. `subscriber_mmap.c:271`, `goose_subscriber.c:301`: one byte of the index is stored.
3. `si.c:240`: the trip time is compared with a negative duration.
4. `publisher_mmap.c:318`: the retransmission after a change is late.

Met on the way and not given a run:

- `mem_file.c:180-182`: the semaphore is no mutex, its test and its claim are two accesses. The models of the file have it so, and
  their properties hold in spite of it.
- `mem_file.py:190`: `write_output_*` waits for the semaphore it holds (`WaitsForEver`); `int()` of a tuple raises inside
  the lock in every integer read (`mem_file.py:145`).
- `SI.ini`'s item count as the modulus of the input's window (`si.c:212`), and the bounds check of `subscribe_event_id`
  that lets -1 pass (`main.c:417`).
- `update_float` of the SV publisher reads the slot with the element's number instead of the current one (`smv_publisher.c`, its last functions).
- The conditions of the client's properties above, and the hazards of `PROJECT.json` that name no property.

## 6. Plan

What could follow, each composed with what is there and sharing its runs where it can.

1. `CfgMap` (abstract map) and `CfgParse` (the linked list of `cfg_parse.c`, with `cfg_set` replacing in place and the
   save/load round trip); refinement checked, then proved step by step.
2. `ModuleLifecycle`: per module the resources each of `pre_init`, `init` and `deinit` takes and gives back with every early
   return, driven by `Engine`'s calls; nothing used before it is set, nothing released twice.
3. `GooseLink`: `GoosePublisher` at the remote end of `Subscriber`, with a restart that resets stNum; to take over the run of
   the GOOSE subscriber.
4. `BufferFile`: create, size, map, remove, over the file's inode, for owners and consumers in any order.
5. `IpcBridge`: two engines and their sockets. `MmsServer`, and the values of `SmvPublisher`, on an atomic view of the ring.
6. Proofs: an abstract specification of the engine's dispatch and of the client's copy of an IED, each refined by the detailed one;
   `IndexNamesNewest` composed with the readers of other processes.

## 7. Not modelled

- `tools/python_client/lib61850.py`, by far the longest file of the repository's Python, is ctypesgen's output: a loader and
  declarations of libiec61850. It has no state of this program, and the calls it declares are external in `IedClient`.
  The share of Python lines that definitions can translate is bounded by this: all of `libiec61850client.py`, `mem_file.py`
  and `program.py` together are about a sixth of them.
- Of `libiec61850client.py`: parsing a reference into host, port and path, converting values, the outcome of a control service
  and the callbacks into the application, none of which changes the client's state; `getRef` and `printrefs`, which nothing calls.
- Of `mem_file.py`: the readers of single header fields, one load each. `program.py`: prints header fields.
- The configuration list, the life of each module's resources, creation and mapping of files, the MMS server and the
  event bridge: planned above.
- The vendored Xpedite headers, the older copy `tools/cfg_parse`, the timing test `other/mem_file`, the empty module
  template, build and editor files: no logic of the system.
