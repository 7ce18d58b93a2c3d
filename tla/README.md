# A TLA+ development of MSP

MSP hot-swaps LoRA adapters on small devices and guards the work on them with telemetry: a C
daemon (`watchdogd`) that serves the temperature and interrupts itself when it is critical, a
Python executor that runs work in a child process and ends it on a violation, a manager of
adapters on top of a C++ allocator, and a training loop whose gradients a thermal gate thins
out, with a file format for what it trained. This directory holds TLA+ models of these parts, the
TLC configurations that check them, and TLAPS proofs about them.

    tlc -config MCWatchdogdSafety.cfg MCWatchdogd.tla      # PROJECT.json "runs" lists all
    tlapm WatchdogdProofs.tla

Paths below are relative to the repository; `daemon/` is `src/daemon/`, `msp/` is
`src/python/msp/`, `cpp/` is `src/cpp/`.

## Inventory

| Part | State it keeps | Operations | What is hard | What makes it correct |
|---|---|---|---|---|
| `daemon/watchdogd_main.c` | `g_keep_running`, the slot `watchdog_keep_running`, where `main()` is | a pass of the loop: arm, spawn, serve, end; fallback, cooldown; SIGTERM | `siglongjmp` out of any statement; watchdogs of earlier passes; SIGTERM at any time | it serves only under watch, ends when told, cleans up, comes back after a fallback |
| `daemon/sandbox_watchdog.[ch]` | handler flag and jump buffer per thread; one loop per watchdog | arm, poll, signal once and end | the signal is asynchronous and may be late; threads share one flag | a signal finds a live fallback point; a lasting violation interrupts the work |
| `daemon/telemetry_server.[ch]` | `listen_fd`, `conn_fd`, the socket file, the backlog | set up, select, accept, read, write, close, end | each call can fail or be jumped out of; stale files; descriptors at the limit; clients that give up | clients are answered, with a fresh sample; no descriptor leaks by itself |
| `daemon/thermal_reader.[ch]` | none | list the zones, filter, aggregate; +INFINITY on failure | unreadable zones, no descriptors | fails hot, never cold |
| `msp/watchdog_control.py` | one call of `run()`: child, queue, reason, result | start, poll, sample, evaluate, terminate, kill, report | races of queue, `is_alive`, signals and exceptions; partial writes | no orphan, no lost answer, verdicts with a ground, `run()` returns |
| `msp/adapter_manager.py` | records, active id, native ids | load, unload, activate, swap | an allocation in the middle of a load fails or raises | whole loads or none, budget, no orphaned memory |
| `cpp/elora_allocator.*` | blocks per id | allocate, evict, destroy | exceptions between two allocations | every block has an owner, is freed once |
| `msp/plugin_layer.py` | matrices, routing gate, gradient hooks | forward, forward_async, gate and ungate gradients | hooks that sample one by one; worker threads that read while others write | the mask follows the temperature, answers are coherent, gates end |
| `msp/thermal.py` | zones, last values | the readers and `ThermalMonitor` | disagreement with the C reader; a reader that raises in a hook | same zones, same number |
| `msp/persistence.py` | a file | save, load | a file cut short, or written again between the two opens of `load_adapter` | what is loaded was saved, all of it or nothing |
| `e2e_training.py` | the model's layers, the optimizer, `main()` | plug in, train, evict, save, reload, serve | a failure between two of these; adapters that share blocks | manager, model and file stay in step |
| `daemon/integrity_check.*`, `cpp/bindings.cpp`, the CUDA kernel, build files | none of their own | pure computation, declarations | - | not modelled |

How they interact: `watchdogd` runs the server on its main thread and a watchdog on another;
both read the zones and share the descriptor table, and the watchdog signals the main thread,
whose handler jumps back to the loop. Python clients (`WatchdogTelemetryReader`) connect to
the server's socket; `WatchdogGuardedExecutor` uses one as its probe. The child reports
through a `multiprocessing` queue. `AdapterManager` calls the allocator through pybind11 and
clears the gradient gates of the layers it unloads. `main()` of `e2e_training.py` drives the
manager, the layers, the training and the file in turn. The executor and the manager do not
call each other.

## Modules

| Module | Models | Composed of |
|---|---|---|
| `Telemetry` | the temperature, a reading, the descriptor table | |
| `TelemetryServer` | `msp_telemetry_server_run`, its clients | extends `Telemetry` |
| `SandboxWatchdog` | the watchdog threads, handler flag, jump buffer, pending signal | extends `Telemetry` |
| `Watchdogd` | `main()`, fallback, shutdown, the whole daemon | extends the two above |
| `MCWatchdogd` | the instance for TLC | |
| `WatchdogdProofs` | the safety proofs | extends `Watchdogd` |
| `ThermalZones` | the tree of thermal zones and its changes | |
| `ThermalReader` | the C reader, entry by entry | extends `ThermalZones` |
| `LinuxThermalZoneReader` | the Python reader: construction and calls | extends `ThermalReader` |
| `ThermalReaders` | both on one tree, and their properties | extends the above |
| `MCThermalReaders` | the instance for TLC | |
| `SetSums` | lemmas about sums over finite sets | |
| `ThermalReadersProofs` | no hot zone is missed, failure is total, numbers are exact and agree | extends `ThermalReaders`, `SetSums` |
| `GuardedRun` | what `run()` promises: a verdict about work and an alarm | |
| `GuardedExecutor` | `WatchdogGuardedExecutor.run`, the child, the queue | instantiates `GuardedRun` |
| `GuardedExecutorProofs` | its safety, and that it implements `GuardedRun` | extends `GuardedExecutor` |
| `EloraAllocator` | the C++ allocator | |
| `AdapterRegistry` | what the manager promises: atomic loads within a budget | |
| `AdapterManager` | the manager, step by step over the allocator | extends `EloraAllocator`, instantiates `AdapterRegistry` |
| `MCAdapterManager` | the instance for TLC | |
| `AdapterManagerProofs` | its memory safety, its budget, and that it implements `AdapterRegistry` | extends `AdapterManager`, `SetSums` |
| `AdapterStore` | what the file promises: a whole adapter or none | |
| `AdapterFile` | `save_adapter` and `load_adapter` on one path, crashes and writers | instantiates `AdapterStore` |
| `MCAdapterFile` | the instance for TLC | |
| `AdapterFileProofs` | what a load returns, and that the file implements `AdapterStore` | extends `AdapterFile` |
| `PluginLayer` | the layer: hooks and mask, routing gate, `forward_async` | |
| `GatedTraining` | `plug_in`, `train_adapter`, Adam, for any caller | extends `PluginLayer` |
| `MCGatedTraining` | the instance for TLC | |
| `GatedTrainingProofs` | gradients, gates, other adapters and the mask | extends `GatedTraining` |
| `E2ETraining` | `main()` statement by statement, a serving loop beside it | extends `GatedTraining`, instantiates `AdapterRegistry` |
| `MCE2ETraining` | the instance for TLC | |
| `E2ETrainingProofs` | that manager, model, training, file and calls keep in step, and that `main()` keeps to what its parts are proved for | extends `E2ETraining`, `GatedTrainingProofs` |

### The daemon

`pc` names the system call, or the statement, the main thread comes to next; one action is
one of them with its failure branches. `open` counts descriptors, `Held(pc)` those the locals
refer to there, and `lost` those a jump has left behind. `path` is what a `connect()` to the
socket's path finds: nothing, a socket nobody listens on (`old`, `deaf`), the current one
(`bound`, `live`), or one that a fallback abandoned while it was listening (`stale`: connects
succeed and nobody answers). `wd[t]` is where watchdog `t` is. All of them look at one
`wdKeep`, because the slot in `main()`'s frame is the same in each pass. `Fallback` may
happen between any two steps of the main thread. `LibcLocks` chooses whether a jump out of
`malloc` or stdio may leave a lock behind; POSIX calls what follows such a jump undefined.
`FallbackIntoDeadFrame` is the undefined jump into `main()`'s frame after its return.

Abstractions. A sample is "hot" or "cool": the daemon's reader fills in no SRAM usage and no
security flag. A reading takes two descriptors at a time and no zone is readable with fewer, which
is what `opendir` and `fopen` need; a jump out of a reading abandons both, the worst of the cases.
A watchdog's reading is one step and its descriptors count only as a demand. `pthread_kill` and
the end of the thread are one step. `pthread_create` fails exactly when `Threads` are alive; it
asks `malloc` for memory unless the C library has kept the stack of an older thread, and so may,
after a jump out of `malloc`, wait for ever (`SpawnWaits`). Everything before the loop is in
`Init`. A client is idle, waiting, told an answer, or has given up; a client whose connection a
fallback abandoned is an `orphan` and has only its timeout.

### The readers

`zone[z]` is what the files `type` and `temp` of an entry yield now; any entry may appear,
vanish, heat, cool or fail between any two steps, and `listable` may change, which stands for
`opendir` failing as well as for a directory that is gone. `numbered` are the entries whose
name `int()` accepts. A filter is taken for the set of labels it is found in, so that
`contains_ci` and `in ... .lower()` are membership. `ReadZone` and `Discover` look at both files of
an entry in one step: a file that changes between the two looks gives what some zone with one
file unreadable gives, and `type` does not change except in being readable. `readdir` may
return an entry that was added or has vanished during the scan, or not; one that stays is
returned once. The order of the zones, which only Python sorts, is left open. A temperature
is a fraction, so that means are exact; the rounding to `float` is left out, and so is a
`temp` file with text after the number, which `fscanf` takes and `int()` refuses (the kernel
writes none). `cSteady`, `pSteady` and `pSettled` record which zones have not changed since
the call, or the construction, began: the properties are about these.

`Telemetry` takes a reading for one step. `ThermalReaders` shows what that hides: zones are read
one after another, so a reading is of no single moment when several zones change during it.
The daemon's properties about samples hold of a machine with one zone, or whose zones do not
cool and heat in turn within one scan.

### The executor

`pc` is the parent in `run()`. The queue is a pipe: a small answer appears at once, a large
one partially first, and one beyond the pipe's capacity is completed only while the parent
reads. `poll` is `get(timeout)` up to the first byte, `recv` the rest of it, which has no
timeout. `machine` is what a probe returns now (the set of limits it exceeds, or an error)
and may change at any step. `Unexpected` is any other exception inside the `try`. A target
may ignore SIGTERM, never return, crash, or be killed. `child.start()` failing, which is
before the `try`, and a probe that blocks are not modelled. `GuardedRun` forgets the queue, the
signals and the timeouts.

### The adapters

`BeginLoad` runs the checks and enters the record; then each layer is one step, which
reserves a block, skips a layer of no bytes, is refused (the load is rolled back) or raises
(`push_back` throws: the exception passes through `load_adapter`). `heap` holds what
`malloc` gave and `free` did not get back, `tree` what the allocator knows of, `leaked` what
it lost. Layers may be shared by adapters. `Renew` drops the manager, and so its allocator.
An unload is one step: nothing in it fails. A manager without the native extension does the
same without the allocator. A layer is in an adapter under one name. Layer sizes do not
change after the load. `AdapterRegistry` says what `main()` may rely on, and `E2ETraining`
uses it in place of the detailed manager.

### The file

`file` is the adapter whose bytes the file holds, `written` which pieces of it (the header,
each layer) are there, `durable` whether they are on the disk: safetensors truncates the file
and writes it in place, and nobody syncs it. A save may end at any step, and a power loss
leaves any part of what was not written back. `load_adapter` opens the file twice, for the
tensors and for the metadata (`tensors`, `metadata`), compares the names, and builds one layer
per step. A tensor may be a map of the file, so that `copy_` finds what is in the file then:
the opened version, the one written over it if that has the same layout, or something nobody
saved (`Mixed`); a map of a file that was cut short may end in SIGBUS. `quiet` records whether
anyone wrote during the load. A layer's values are the adapter they are from; `Rank` is kept
because `copy_` repeats a matrix of rank 1 over any rank.

Abstractions. One save at a time. A header that is there is well-formed JSON, ours or that of a
program without our key (`Foreign`). The features of the base layers always fit, and reading
does not fail while the file is there.

`AdapterStore` forgets the pieces, the two opens and the maps. A path has a whole adapter or
none; a save loses what was there and then, with its last piece, the new adapter is there; a
load gives every layer it is asked for, and if nobody wrote meanwhile each as it is stored; it
may fail only if somebody wrote, or if nothing is stored, or what is stored is foreign or for
other layers. A power loss takes what is not safe, whole.

### The training

In `PluginLayer` a gradient is the set of rows that may be other than zero: all of them, or
with a hook in a hot sample those of `mask[::stride]`. `version` counts the writes to a matrix,
modulo `Versions`. Each hook takes its own sample of `machine`, which may change, or fail, at
any step. `call` is one `forward_async`: the gate, then the matrices one after another.

`tpc` is where `train_adapter` is. `Backward(p)` is autograd coming to one parameter, `Step(p)`
Adam updating one; `momentum[p]` are the rows that its averages may be other than zero for. A
routing gate that is off keeps its layer out of the graph; with none in it `backward()` raises.
`EndLoop` may come after any iteration: the number of steps is left open, and `forward()` or the
loss may raise. `StepRaises` is an exception in `optimizer.step()`, with any part of the
parameters written, or in `loss.item()` after it. `stale` records parameters that took in
gradients of two passes, `seen` the samples that an iteration could have taken, `wasCool` whether
an earlier iteration was not hot all through, `abandoned` the layers whose gates a call left on
because `Adam()` raised between arming and `try`. Gradients of layers that are in the model but
not in the optimizer are kept, as in the code. `LayerAt` says which sublayers an adapter covers:
`plug_in` leaves the others as they are.

In `E2ETraining`, `Program` is the list of the calls of `main()`, `line` the next one. A load, an
activation, a training, the save and the reload may raise, and then `main()` ends; the load that
is to be refused may pass, which is `main()`'s assertion error. `plug_in`, `unload_adapter`,
`del`, the last forward pass and `rmtree` do not raise here. `save_adapter` and `load_adapter` are
one step each, which is what `AdapterFile` justifies for a directory nobody else writes to.
`ServeLive` is a request-serving loop, which `forward_async` is written for: it submits calls of
the live layer and switches its routing gate at any time. Submitted calls keep their layer after
an eviction.

Abstractions. Losses, batches and the transformer are left out, and so is the CUDA stream of
`_forward_sync`. One forward call is under way at a time; each is independent of the others.
A gradient that is zero by chance is not: `grad` and `momentum` are upper bounds.

## Runs

| Run | Shows | Bounds |
|---|---|---|
| `watchdogd_safety` | the safety invariants below | 2 clients, 2 watchdogs, 6 descriptors, sockets may fail, locks may be lost; 2.3 million states |
| `watchdogd_live` | the liveness properties below | 1 client, 2 watchdogs, 8 descriptors, locks may be lost; 346 000 states |
| `watchdogd_socket_left`, `watchdogd_resumes` | the findings on the daemon | 1 client, 5 descriptors |
| `executor` | the executor's safety, refinement and return | all causes, answers of every size, a crash in a write; 132 000 states |
| `executor_hang` | the finding on the executor | as above |
| `adapters` | the manager's safety and refinement | 2 adapters, 3 layers of 0, 1 and 2 bytes, a budget of 4, 3 ids; 82 000 states |
| `thermal_readers` | the readers' properties | 2 zones, 2 temperatures, 3 filters, both aggregates, 1 change; 1.4 million states |
| `adapter_file` | what a load returns, and the refinement of `AdapterStore` | 6 adapters over 2 layer names: two alike, one of rank 1, one on fewer layers, a foreign one, an empty one; 252 000 states |
| `gated_training` | the training's properties | 2 adapters on different sublayers, matrices of 2 and 3 rows, a stride of 2, a temperature on either side of the threshold and a failing reader; 7.9 million states |
| `frozen_rows` | the finding on the mask | as above |
| `e2e_main` | `main()` and the serving loop | 1 sublayer, 3 adapters, a budget for one, versions modulo 2; 1.1 million states |

Why the bounds are enough. Two watchdogs are the fewest that can disagree, and let a
`pthread_create` fail; two clients give a backlog behind a connection that is being served.
Six descriptors allow a full query, and one fallback already makes the next reading fail; a
second exhausts the table. Eight let a watchdog and the server read at once after one
fallback, so that the liveness properties that demand descriptors are not vacuous. The budget
of 4 admits any one adapter and refuses some pairs; three ids allow a refused load between two
others. Two zones are the fewest of which one can be missed for the other, and every tree of
two is an initial state; one change falls between any two steps of either reader, and the
proofs cover any number. Two adapters of the same layout are the fewest
that a load can mix, and each other one differs from them in one respect that `load_adapter`
checks or fails to. Two adapters that cover different sublayers give a forward pass with a
layer that is not being trained; three rows and a stride of 2 tell `::stride` from `1::stride`
and a masked row from an active one; 75 and 76 are the threshold and the first value above.
A version is only ever compared with another of the same matrix or of its partner, and two
writes in a row between the comparisons go through unequal versions that the properties see.
`frozen_rows` and `gated_training` bound nothing else: iterations and calls go on for ever.
The only caps in a guard are `FdLimit`, `Threads` (limits of the system), `MaxIds`,
`MaxChanges` and `Versions`.

### Properties

Daemon, safety: `ArmedBeforeSignalled` (no signal before the buffer is filled),
`NeverUnguarded` (serving means some watchdog is alive or its signal pending),
`SoleWatchdog` (fallbacks leave no second watchdog; only a server that returned by itself
does), `FdsAccounted`, `ServingIsReachable`, `CleanExitRemovesSocket`, `AnswersAreFresh`.
Liveness: `ShutdownCompletes`, `ViolationInterrupts`, `QueriesAreServed`,
`ResumesWithDescriptors`.

Executor: `NoOrphan`, `ResultNotLost`, `ReasonIsInReading`, `KillsAfterTerm`,
`DecidesAsPromised` (implements `GuardedRun`), `RunReturns` (unless the child died in the
middle of its answer).

Adapters: `NoOrphanedContext`, `HeapIsAccountedFor`, `ActsAsRegistry` (implements
`AdapterRegistry`, with its budget); `GatesAreOwn` and `WithinBudget` are proved only.

Readers: `HotZonesAreSeen` (a zone that could be read all along is in the maximum),
`FailsOnlyWhenBlind`, `SteadyReadsAreExact` (against the maximum and mean of the whole tree at
once), `ReadersAgree` (the two readers, on a tree that has not changed, except where their
code differs: `SameForBoth`).

File: `ActsAsStore` (implements `AdapterStore`: among other things a load nobody disturbed
returns what was saved last, all of it, after any crash, or has a reason to fail),
`NoPartialLoad` (whoever writes meanwhile). `QuietLoadsAreExact`, which adds that the metadata
is of the same version, is proved only.

Training: `StepsUseFreshGradients`, `StepsFollowTheTemperature` (Adam takes in
the gradient of the active rows in an iteration that is hot all through, and of every row in
one that is cool all through; it moves every row then, and only the active ones in a training
that has been hot so far; after a cool iteration it moves others, which is finding 4),
`GatesEndWithTraining`, `OnlyOwnLiveLayersLearn`. The layers in `abandoned`, whose gates a raising
`Adam()` has left on, are excepted from the gates' property and, where they show, from the
temperature's: no property covers that hazard, which is listed under the divergences. Layer:
`AnswersAreCoherent` (a routing gate is heeded, and an answer is of one version; one that
overlaps a write to its layer may be of two, and no property is against it).

`main()`: `LiveIsManaged` (what is trained or served is active, resident and the only one),
`EvictedIsUnreferenced` (neither the model, the manager, a gate nor an optimizer has a layer of
task-a when it is dropped), `ReloadedIsTrained`.

Each has a mutant of the code's model, in PROJECT.json, under which TLC finds it violated.

### Fairness

Daemon: weak fairness of the main thread's steps, of each watchdog, and of the delivery of a
pending signal: the kernel schedules runnable threads, system calls with a timeout return, and
a pending unblocked signal is delivered. None for the temperature, clients or SIGTERM.
Executor: weak fairness of the parent, of a write in progress (the feeder thread), and of the
delivery of signals. None for the target (it may run for ever), for crashes or the machine.
`join()` has a timeout, so its step is the parent's. The manager, the file and the training
have no liveness to promise: their calls end when their loops do.

A jump out of `malloc` or stdio may leave a lock behind. The liveness properties say exactly what
that can cost: `ShutdownCompletes` and `QueriesAreServed` except a daemon that waits for the
heap's lock in a reading or in `pthread_create` (`BlockedOnLock`), `ViolationInterrupts` except
one whose watchdog waits for stdio's, and `ResumesWithDescriptors` assumes that no lock is lost.

### Findings

1. `ShutdownRemovesSocket`: a SIGTERM in the cooldown leaves the socket file of the abandoned
   server behind (`watchdogd_main.c:141-142` says otherwise).
2. `Resumes`: fallbacks leak descriptors until the daemon serves no more (`docs/STATUS.md:23`).
3. `AlwaysReturns`: `run()` hangs on half an answer of a child that died
   (`watchdog_control.py:345-347`).
4. `FrozenRowsStayPut`: Adam's averages move rows that the mask freezes (`thermal.py:65`).

### Divergences without a run

Met while modelling, visible in the model, and not the subject of a run:

- A watchdog may signal while `main()` returns or the process exits; the handler then jumps
  into a frame that is gone (`sandbox_watchdog.c:24-30`, `watchdogd_main.c:225-228`):
  `FallbackIntoDeadFrame`.
- A daemon whose jump left the heap's lock taken may not end on SIGTERM
  (`watchdogd_main.c:54-61`): it waits in a reading, or in the next `pthread_create`
  (`watchdogd_main.c:194`). The exception in `ShutdownCompletes`.
- `raise_if_error()` also raises after fallbacks on a failing probe and for children that never
  completed (`watchdog_control.py:252-256`).
- `persistence.py:17` says that the dtype is stored; it is not, and a load builds layers of the
  default dtype.
- A `freeze_ratio` above 2/3 freezes nothing: the stride is rounded to 1, and a hot step
  updates every row (`plugin_layer.py:173`), although `update_ratio` says that the ratio is the
  fraction of rows that are updated (`thermal.py:65-66`). `ActiveRowsAreSpread` proves it.
- The gates of a training whose optimizer raises stay on (`e2e_training.py:248-251`):
  `abandoned`.
- `main()` leaves its temporary directory behind when it fails (`e2e_training.py:353`).

## Proofs

All theorems but one are `Spec => []...`, action properties or refinements
(`ActiveRowsAreSpread` is about the constants), for every value of the constants under the
assumptions named in the modules (`FdLimitAssumption`, `ClientsAssumption`, `LocksAssumption`,
`PolicyAssumption`, `AllocatorAssumption`, `ManagerAssumption`, `ZonesAssumption`,
`FileAssumption`, `LayerAssumption`, `TrainingAssumption`, `MainAssumption`,
`BudgetAssumption`). `ZonesAssumption` and `ManagerAssumption` say that there are finitely many
zones and layers, since the code adds them up. There are four refinements: `GuardedRun` by the
executor, `AdapterRegistry` by the manager and by `main()`, and `AdapterStore` by the file.

`SetSums`. The sum of the community modules picks elements with CHOOSE; `SumTakesAny` says that
any order gives the same, which is what a loop over zones or records relies on. The library's
induction takes an operator, which no installed prover can instantiate: the lemmas take a
smallest subset that refutes them instead (`SmallestSubset`, `SubsetInduction`).

`WatchdogdProofs`. `TypeInv` is `TypeOK /\ FdsAccounted` with what a held connection is, and
carries the rest. `ArmInv`: a live watchdog or pending signal implies that an earlier pass went
through `sigsetjmp`, as does the value of `pc`. `GuardInv`: in the guarded region the flag is set
and a watchdog is alive or has signalled; it needs that a watchdog ends only when it sees the flag
cleared or has signalled, and that the flag is only cleared outside the region. `SoleInv`: as long
as the server never returned by itself, the pass begins with no watchdog, because the previous one
ended with its signal. `PathInv`: `path` follows `pc`, so that it leads to the served socket and a
clean exit leaves no file. `ClientInv`: a client who may still be told the line that is being
built has seen whatever the line says; it needs that a client in the backlog or being served is
there once.

`GuardedExecutorProofs`. `PipeInv` ties `result` to the answer and to the pipe; `LossInv`
says that the loop is left without a reason or result only after the child was seen dead and
the pipe without a byte, which no later step of a dead child changes: that is why
`ResultNotLost` holds in spite of the race. `ReasonInv` ties the reason to the sample,
`VerdictInv` verdicts to their grounds, `SignalInv` signals to the ends of `run()`. From them
each step refines a step of `GuardedRun` or a stutter.

`AdapterManagerProofs`. `IdInv` (ids are handed out once), `TreeInv` (blocks are under the id
of their adapter), `HeapInv` (the heap block by block) and `LoadInv` (a load is of a resident
adapter until it ends) are inductive together. For `ActsAsRegistry`, a load that is under way
has not begun for the registry; `AdmitInv` says that it fits the budget and that each of its
layers with bytes is reserved or still to come, so that its last step is the registry's `Load`,
a roll-back leaves no trace, and an exception is `LoadInterrupted`. In this refinement the sums
over adapters and layers are never evaluated: both sides have the same sum, of the same sets.
`BudgetIsKept` does evaluate them: `BudgetInv` keeps what the records add up to within the budget,
because a load adds exactly what it was checked with; and what the allocator holds, added up id by
id, is no more, because no two adapters share an id, an id without an adapter holds nothing, and
the blocks of each are of its adapter's layers.

`ThermalReadersProofs`. `ScanInv` and `CallInv` say of a call under way that each steady zone
is still to be looked at or is covered by the accumulator, `ListInv` the same of the
construction; at the end nothing is still to be looked at, which gives `COutInv` and
`POutInv`. A change only takes its zone out of the steady ones. `ExactInv` says what has been
read as long as the tree is as it was: the accumulator is the sum, the count and the maximum of
exactly the zones that have been looked at (`AccumulatorOf`), however `readdir` or the sorted
list orders them; the next zone adds to it once, by `SumAdds`. At the end that is the aggregate of
the whole tree at once, and two readers that take the same zones give the same.

`AdapterFileProofs`. `FileInv`: `SaveInv` says that who writes holds the file's adapter;
`LoadInv` what each stage of a load has found (the layers that are built are wanted, and had a
tensor in the opened file); `QuietInv` that as long as nobody writes, both opens and every
built layer are of the file as it is, and the file is complete. A power loss only ends loads.
For `FileActsAsStore`, each action is a step of the store or leaves it alone: a piece that is
written is `Fill`, which has an adapter there when the file is complete; `UnsafeInv` says that
nothing is safe while a save is under way, so that a power loss that leaves a part of the file
takes an adapter the store may lose. `FailureHasReason` is the other half of what a caller may
rely on: as long as nobody writes and the file is complete, ours and for the layers asked for,
each step of the load goes on to the next.

`GatedTrainingProofs`. `ArmInv`: past arming, each layer of a monitored training has hooks.
`PassInv`: in an iteration no gradient of the adapter is stale, and each that is there is of a
live layer and *follows* the samples (`Follows`); a parameter that `backward()` has yet to come
to has none, which is why it takes in one gradient only. It is needed because the samples
differ from hook to hook: `FollowsWithMoreSamples` shows that one more sample asks for less.
`UpdateInv`: Adam has averages for the active rows alone until it takes in an iteration that was
not hot all through, and for each row that it has taken in. It is what
`UpdatesFollowTheTemperature` adds to the gradients, and says when frozen rows do stay put.
The mask: `RoundIsNearest` is `round()` with its rule for halves, from which the stride follows;
of as many consecutive rows as the stride one is a multiple of it (`OnePerStride`), and row 0 is
always one, so that no mask empties a gradient (`NoMatrixFreezesWhole`): that is why the model may
take an empty set of rows for a parameter without a gradient. `freeze_ratio` is a fraction here, a
`float` in the code.

`E2ETrainingProofs`. `ProgramIs` lists `Program` line by line, and `Lines` says where each call
stands. `MainInv` says for each line what main() has come to there: `RegistryInv` which adapter
is resident, with which memory, and active; `PluggedInv` whose layers the model has; `TrainedInv`
which adapter a training can be of, what its optimizer holds, and that gates are only ever on
layers of task-b; `FileInv` that the file has the
matrices of task-a, which only a training of task-a would change; `CallInv` what a call of
`forward_async` has seen, and that no call is of a reloaded layer while it is being filled.
`MainAssumption` says that each adapter has layers of its own, as `attach_adapters` and
`load_adapter` make them, and `BudgetAssumption` that the budget has no room for two adapters,
as `main()` sizes it: from it follows that the second load is refused.
Then the parts are put together. `MainUsesTheRegistry`: each step of `main()` is a step of
`AdapterRegistry` or leaves it alone. `MainTrainsAsPromised`: `ArmInv`, `PassInv` and `UpdateInv` of
`GatedTrainingProofs` are kept by the steps of `main()` that `GatedTraining` does not have
(loads, evictions, the reload, which writes matrices; `TrainingIsLeftAlone`), and `AbandonedInv`
says that a gate that is left on means that `main()` has failed. `OnlyTheActiveLearns` adds the
manager: what a training writes is of the adapter that is active and resident.

Only model-checked: liveness, which is out of TLAPS's reach here (`ShutdownCompletes`,
`ViolationInterrupts`, `QueriesAreServed`, `ResumesWithDescriptors`, `RunReturns`), and the
violations.

## Not modelled

`integrity_check` and the CUDA kernel are pure computation; `bindings.cpp` declares; the build
files hold no part of the system. Of the modelled parts: two daemons on one socket path, and a
layer that is converted to another dtype while it is loaded, about which no document promises
anything (see the hazards without a property in PROJECT.json); two saves that overlap on one
path; values of weights and losses; the CUDA stream a forward call may use; a probe that
blocks for ever.

## Plan

1. Done: the daemon, the executor, the manager and the allocator, the thermal readers, the
   file, the layer, the training and `main()`, each with its runs, proofs of every safety
   property that the runs check, and four refinements.
2. `TelemetryClient`: the executor's probe over the daemon's socket, so that a violation seen by
   both sides makes the daemon's fallbacks and the executor's policy meet; and a daemon whose
   reading is a scan of several zones instead of one step.
3. Proofs: an abstract specification of the daemon (watched or not, told an answer or not) that
   `Watchdogd` implements; the steps of `main()` with the file in pieces, over `AdapterStore`.
