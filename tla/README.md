# A TLA+ model of the Bitcoin kernel library

This repository wraps **libbitcoinkernel**, the validation engine of Bitcoin Core, for other
languages. The engine is vendored under `src/bitcoinkernel/bitcoin/`; around it are a C test driver
and wrappers in C++ and Rust, with stubs for Java, Go and Python. Almost all state, all concurrency
and all persistence is in the engine, so that is what the modules here describe: TLA+
specifications translated from the source, TLC configurations that check them on small instances,
and proofs checked by TLAPS. Paths below are relative to `src/bitcoinkernel/bitcoin/src/` unless
they begin with `src/`.

    tlc -workers 2 -config MCCoinsCache.cfg MCCoinsCache     # a run
    tlapm CoinsCacheProofs.tla                               # proofs, about a minute
    tlapm TaskRunnerProofs.tla                               # about four minutes

## 1. The system

| Part | State | Operations | What is hard about it |
|---|---|---|---|
| Coins caches (`coins.cpp`, `coins.h`) | maps from outpoints to coins in layers, each entry with DIRTY and FRESH flags; a best block per layer | fetch, AddCoin, SpendCoin, restore, BatchWrite, Flush, Sync, Uncache | a flag is a claim about the layer below; a false claim loses or revives a coin many operations later |
| Script check queue (`checkqueue.h`) | a queue of checks, counters of idle threads, of threads and of checks to do, a result | Add, Complete, the workers' loop, the destructor | lost notifications, spurious wakeups, a verdict that leaks into the next round |
| Block index and best chain (`validation.cpp`) | the block tree with status flags, the set of candidates, the active chain, m_best_header, m_best_invalid, sequence ids | AcceptBlockHeader, AcceptBlock, ActivateBestChain, InvalidateBlock, ResetBlockFailureFlags, PreciousBlock, restart | cs_main is released in the middle of ActivateBestChain and of InvalidateBlock |
| Flush and recovery (`validation.cpp`, `txdb.cpp`, `node/blockstorage.cpp`) | blk and rev files, the block index database, the coins database, and what of each is synced | FlushStateToDisk, BatchWrite, pruning, crash, LoadBlockIndex, ReplayBlocks | three stores written one after the other, each possibly interrupted, with a replay that can itself be interrupted |
| Validation signals (`validationinterface.cpp`) | listeners with reference counts, events | Register, Unregister, Clear, Iterate, Sync | listeners that go while they are called, by several threads |
| Scheduler and task runners (`scheduler.cpp`, `util/task_runner.h`) | functions ordered by time, a queue of callbacks, a flag that one runs | schedule, serviceQueue, stop; insert, ProcessQueue, flush | lost wakeups, two copies of ProcessQueue, a callback that waits for itself |
| Logging (`logging.cpp`) | a bounded buffer, the callbacks of the connections | LogPrintStr, StartLogging, DisableLogging, DisconnectTestLogger | connections made and destroyed in several critical sections while others log |
| C API (`kernel/bitcoinkernel.cpp`) and wrappers | objects with owners and references | create, copy, interrupt, destroy | contexts outlived by managers, user data shared by both |
| Validation rules, scripts, cryptography | none | pure functions | large, sequential; arithmetic on bytes |

How they interact: `ActivateBestChain` moves the active chain one block at a time. To connect a
block it opens a view over `CoinsTip()`, spends and adds coins in it while the check queue verifies
the scripts, writes the undo record, commits the view and calls `FlushStateToDisk`, which now and
then writes files, index and coins in this order. After a crash `ReplayBlocks` brings the coins
database to one block again, `LoadBlockIndex` and `LoadChainTip` rebuild the candidates, and
`ActivateBestChain` goes on. So `CoinsCache` is what one connected block does to the coins,
`Chainstate` says which blocks are connected, and `Recovery` says what of it survives. `Recovery`
uses the coins cache as `CoinsCache` shows it to be (a map and its dirty entries), and lets the
tip move to any neighbour, which includes whatever `Chainstate` does.

While the chain moves, `ValidationSignals` tells the listeners: events of the chain go through a task
runner, which in the node is `SerialTaskRunner` on the scheduler's threads and in the library
`ImmediateTaskRunner`, which calls at once. `TaskRunner` implements `TaskQueue`, and
`ValidationSignals` is written over `TaskQueue`, so that the two compose; `Chainstate` records what a
listener would hear. Everything is reached through the C API, whose contexts own the listeners
(`KernelObjects`) and whose connections own the log's callbacks (`Logging`).

## 2. The modules

| Module | Models | Abstract specification | Instance |
|---|---|---|---|
| `CoinsCache` | coins caches | `UtxoSet` | `MCCoinsCache` |
| `CheckQueue` | script check queue | | `MCCheckQueue` |
| `BlockTree` | the constants: a tree of blocks with heights and work | | |
| `Chainstate` | block index and best chain | | `MCChainstate` |
| `Recovery` | flush, crash and recovery; block files; pruning | `DurableChain` | `MCRecovery` |
| `TaskRunner` | scheduler and serial task runner | `TaskQueue` | `MCTaskRunner` |
| `ValidationSignals` | listeners and events, over `TaskQueue` | | `MCValidationSignals` |
| `Logging` | the logger and its connections | | `MCLogging` |
| `KernelObjects` | lifetimes of the C API's objects | | `MCKernelObjects` |
| `CoinsCacheProofs`, `CheckQueueProofs`, `ChainstateProofs`, `RecoveryProofs`, `TaskRunnerProofs`, `ValidationSignalsProofs`, `LoggingProofs`, `KernelObjectsProofs` | theorems about the module of that name | | |
| `FiniteSetFacts` | what the proofs use of the library on finite sets | | |

An operator whose comment says *Mutant*, or whose name is that of another with a suffix
(`TipTooBad_Never`), is that operator with a plausible bug in it. Nothing uses it; `PROJECT.json`
pairs it with the property that breaks when it is put in the place of the original. `PROJECT.json`
also maps every definition to the lines it stands for.

### CoinsCache

Three layers: `db`, the coins database; `tip`, the map of `CoinsTip()`; `view`, the cache that
ConnectBlock or DisconnectBlock works in while it is `open`. An entry is a coin (or `Spent`) with
the two flags. The actions are `OpenView`; `ReadCoin`, `SpendInput`, `AddOutput`, `RestoreInput`
and `SetBestBlock` of ConnectBlock and DisconnectBlock; `CommitView` (the view's Flush into
`CoinsTip()`) and `DiscardView` (the block was invalid); `ReadTip` and `Uncache` of other readers;
and `FlushTip` and `SyncTip` of FlushStateToDisk. Reading through a cache puts an entry into it, so
that reads change state too. The guards of `AddOutput` and `RestoreInput` are what their callers in
`validation.cpp` ensure. `threw` records that one of the two `logic_error`s has been thrown.

`UtxoSet` is what a caller sees: three plain maps, that of the database, of the tip and of the view,
which are read, changed, committed and discarded. The refinement mapping merges the layers: the
topmost entry for an outpoint wins.

`coins.h` (line 121) says that "FRESH-but-not-DIRTY coins can not occur in practice"; the invariant
proved here implies that they do not.

### CheckQueue

One action per critical section of `m_mutex` in `Loop`, since between them other threads run:
taking a batch, running it outside the lock, and coming back with the result. `wait` releases the
mutex at the end of a section; a waiting thread is `woken` by a notification or spuriously
(`SpuriousWakeup`) and then competes for the mutex like any other. The condition variables
(`NotifyOne`, `NotifyAll`) are external and have their standard meaning. A check carries the round
it belongs to and whether it will fail. `CCheckQueueControl` holds `m_control_mutex` from its
constructor to its destructor. `~CCheckQueue` sets the flag, notifies and joins.

### Chainstate

`m_chainstate_mutex` lets one thread at a time run ActivateBestChain or InvalidateBlock, and `pc`
says where it is. Every other operation is one section of `cs_main` and is one action, which may
come whenever `cs_main` is free. ActivateBestChain is one action per block that it connects or
disconnects, during which `pc` says that it keeps `cs_main`; it gives it up at `Release_cs_main`
only, as the code does. InvalidateBlock is its first section (`CollectHeaders`), one action per
disconnected block, the leave, its call of CheckBlockIndex, and the last section (`MarkInvalid`).
`pending` is the caller's obligation to call ActivateBestChain afterwards, which every caller in
the code has. `Interrupt`, `SystemError` and `Restart` are shutdown requests, fatal errors, and a
clean restart, after which sequence ids are zero and the addresses that break ties are new.

Data is abstract where the properties do not look at it: a block has a `verdict` (valid, rejected
by the contextual checks of AcceptBlock, or rejected by ConnectBlock), and work is a small number.
There is one chainstate, and nothing is pruned. How often an operator or the environment
interferes is a `scenario`, chosen at the start from the constant `Scenarios`: how many calls of
InvalidateBlock, PreciousBlock and ResetBlockFailureFlags, disk errors and restarts there are, and
whether it is `quiet`, that is, whether nothing arrives while InvalidateBlock runs. A disk error also
makes InvalidateBlock give up half way (`DisconnectInvalidFails`).

`heard` is what a listener knows: `seen` is the chain it gets by applying BlockConnected and
BlockDisconnected in the order they are sent, `told` is the block of the last blockTip.

### Recovery

On disk are the records in the blk and rev files (`files`, and the part of them that is `synced`),
the block index database and the coins database. `cs_main` is held from the entry to the return of
FlushStateToDisk and during the start, so only a crash can come between the steps: sync the files,
write the index, unlink what was pruned, write the coins batch by batch. `job` holds FlushStateToDisk's
locals and what its caller does next. The start is LoadBlockIndex, ReplayBlocks block by block (its
final flush goes through the same batches and can be interrupted too), and LoadChainTip.

What is assumed of things outside the repository: LevelDB writes a batch as a whole; the index is
written with sync, the coins are not, so that after a power failure any state of the coins database
since the last sync may come back (`survivor`); a record in a file survives a power failure once the
file has been synced. A process crash loses memory only. After `FatalError` nothing but the
shutdown's flush happens. A blk file is full when it has `FileSize` blocks; which blk and rev file
is synced when follows the code (`FlushBlockFile`, `FlushChainstateBlockFile`, `WriteBlockUndo`).
UnlinkPrunedFiles takes one step per pair of files.

`DurableChain` is what recovery promises: the UTXO set in memory is always that of one block, it
moves to neighbouring blocks, and after a stop the node is again at a block it had when it wrote
its state.

### TaskRunner

One action per critical section of the scheduler's `newTaskMutex` and of the runner's
`m_callbacks_mutex`, for every thread: `Worker`s run `serviceQueue`, `Producer`s emit events and call
LimitValidationInterfaceQueue before, `Main` stops the scheduler with stop() or StopWhenDrained(),
joins the workers and flushes, as Shutdown in `init.cpp` does. `notify_one` picks any waiting thread, and threads wake up spuriously. The time is a small counter, and one function other than
ProcessQueue (`timer`) may be in the queue, because `serviceQueue` treats what it takes by its place and
not by its kind. `Reenter` lets a callback call LimitValidationInterfaceQueue itself. `TaskQueue` is
what a client relies on: callbacks begin in the order of insertion, and one ends before the next
begins.

### ValidationSignals

`m_list` is a function from entry numbers, which are given in the order of creation, so that the order
of the list is the order of the numbers; `m_map` gives the entry of a registered listener. `Iterate` is
one action per callback: when a callback returns, the section under `m_mutex` drops the reference of
its entry and takes one to the next. Two threads iterate: `Validation` with synchronous events (and with
all of them, if the runner is the immediate one), and `Background` with the queue's. Registering,
unregistering and clearing may come between any two steps, from callbacks too. `owed`, `got` and
`before` are history.

### Logging

Every section of the logger's `m_cs` is an action; creating and destroying a connection are several,
under `cs_main`. The callbacks of a message are called one per step with `m_cs` held. A line has a size
from the set `Size`. Callbacks return and do not log (they would deadlock on `m_cs`), there is no log file
and no console, since the library's interface cannot ask for them, and no connection is
made after btck_logging_disable, as the header asks.

### KernelObjects

Each `shared_ptr` is a count, and what it points to is destroyed when the count becomes zero;
destroying an interface is calling `user_data_destroy`. Calls of a chainstate manager (create,
process_block, import_blocks, destroy) take several steps with callbacks in between; every other function
is one step. A manager finds interfaces through plain pointers into its context, whether
it is alive or not. A call takes any number of turns of its loops: that depends on the blocks, and on the
interrupt of the context, which some of the loops look at and some do not (see section 6). The caller destroys each object once, and not while another of its calls
uses it.

## 3. The runs

Each finishes in at most about three minutes with two workers. Deadlock is checked except where noted.

| Run | Instance | States | Shows |
|---|---|---|---|
| `coins_cache` | 2 outpoints, 2 coins, 2 blocks; symmetric | 7,651 | `FlagsTruthful`, `NoLogicError`, `ImplementsUtxoSet` |
| `check_queue` | 2 workers, 1 controller, 2 rounds of up to 4 checks, batches of up to 2 | 331,647 | `Accounting`, `NoCheckOutlivesRound`, `VerdictExact`; liveness `EveryWaitEnds` |
| `chainstate` | 1-2 with 2-3-4 and 2-5, all valid or 3 invalid (in context, or for ConnectBlock); two InvalidateBlock, or one and a disk error; quiet | 148,613 | `LinkedExact`, `ForwardProgress`, `FailureFlagsExact`, `BestHeaderIsBest`; liveness `CallsReturn`, `MostWorkWins` |
| `chainstate_race` | 1-2-3 against 1-4-5 of equal work, all valid or one rejected by ConnectBlock; InvalidateBlock with arrivals while it runs, and a restart; or a disk error and a restart; or InvalidateBlock, PreciousBlock and ResetBlockFailureFlags | 1,479,025 | `CandidatesWhenChecked`, `ActiveChainValid`, `BestChainActive`, `ListenerFollows` |
| `recovery` | 1-2 with 2-3 and 2-4, three outputs; two process crashes | 551,409 | `OldOrNewCoin`, `ImplementsDurableChain`; liveness `NodeComesUp` |
| `recovery_power` | 1-2-3-4, three blocks per file, two outputs; two crashes, also power failures | 2,024,514 | `UndoDurable`, `StartSucceeds`, `MarkedConsistent` |
| `recovery_files` | 1-2-3, one block per file; pruning, failing writes of both databases, one crash | 1,306,774 | `IndexRefersToBlocks` |
| `task_runner` | 2 workers, 1 producer, 3 events, queue limit 1, a timer; stop at any time | 176,594 | `ImplementsTaskQueue`, `QueueBounded`, `ReentryNeverReturns`; liveness `QueueDrains`, `ShutdownCompletes` |
| `validation_signals` | 2 listeners, 3 registrations, 3 events, 1 Sync; both task runners | 91,128 | `CountExact`, `EventsReachListeners`, `SyncedMeansFinished`; liveness `UnregisteredGoes` |
| `logging` | 2 threads, 3 connections, 4 lines of size 1, 2 or 4, buffer of 3 | 187,419 | `BufferExact`, `UserDataAlive`, `HeardInOrder`, `Accounted` |
| `kernel_objects` | 1 context options, 2 contexts of up to 2 handles, 1 manager options, 1 manager, 2 user data, 2 threads | 685,010 | `DestroyedWhenUnused`, `UserDataAlive` |
| `recovery_pruned_replay` | 1-2-3-4, two blocks per file; pruning, one crash | | **violated**: `StartSucceeds` |

`recovery_files` and `recovery_power` do not check for deadlock: a start that fails for want of a file or a
record is final. Neither do `task_runner`, `validation_signals` and `logging`: after the shutdown, and when the bounded numbers
of events or lines are used up, there is nothing left to do; in `task_runner` a callback that waits
for its own queue is a deadlock of the code, which the liveness properties name. Each
module has one type invariant, `TypeOK`, which is a conjunct of one of the invariants checked in its
first run (for `CoinsCache` it is proved).

What the less obvious ones say. `ListenerFollows`: also after a reorganisation that met an invalid block half
way, the listener's chain is the active chain whenever `cs_main` is free. `ReentryNeverReturns`: the
comment at `validation.cpp:3444` says that such a callback "may" deadlock; it does every time that
the queue is above the limit. `Accounted`: every line was heard, is buffered, was discarded and counted, or was
logged in the window in which the destructor of the last connection has deleted its callback and
not yet gone back to buffering. `DestroyedWhenUnused`: user data is
destroyed exactly when no options and no context in use hold it, neither later nor twice.
`UndoDurable` and `StartSucceeds` have an exception, and say that nothing else goes wrong: a flush leaves out
undo records in the rev file of an earlier file that are not of the highest block in it (`LeftOut`), a power
failure can take them, and a replay that has to disconnect such a block fails. With three of four blocks in
the first file the run reaches both the record and the failed start. `SyncedMeansFinished` is about
every thread and listener and either task runner; its exception is what runs on the validation thread, the
synchronous events and, with the immediate runner, all of them, which nothing waits for.

**Why the bounds are enough to be interesting.** Two outpoints suffice because the caches treat
entries independently; the proofs remove this bound altogether. Four checks with batches of two let
a batch have one or several checks, and two rounds let a result leak; a second controller could
only wait for `m_control_mutex`. The trees of `Chainstate` have a reorganisation of more than one
block, branches of equal work, and a descendant that arrives before its ancestor; `ConnectBatch` is
2 where the code has 32, so that ActivateBestChain does leave with work undone. `MIN_BLOCKS_TO_KEEP`
is 1 and `MinSequenceId` is -3 for the same reason. The scenarios of `chainstate` are `quiet`: some of its
properties do not hold otherwise, see below. One memory layout is enough, because the fork is
symmetric and a restart, which forgets the sequence ids, leaves the tie to the addresses either way. In the forked tree of `Recovery` the same output is created in both branches
by different blocks, so that coins left by the wrong branch are noticed. Two crashes make an
interrupted replay of an interrupted flush. The line of four blocks with three per file has an undo record
that is written when its file is no longer the last, for its highest block and for another. Two workers make two copies of ProcessQueue meet, and
three events fill the queue above its limit while one runs. Three registrations of two listeners let one
come back while its old entry is still executing. Sizes 1, 2 and 4 with a buffer of 3 let one line
push out one, several, or itself. Two contexts can share the interfaces of one options object, and two user
data let one interface replace another.

**Fairness.** `CheckQueue`: every thread that can take a step does, and gets the mutex; a controller
goes on to Complete. Nobody has to start a round, and no spurious wakeup has to happen.
`Chainstate`: the thread inside ActivateBestChain or InvalidateBlock goes on, and whoever owes a
call of ActivateBestChain makes it; no block has to arrive. `Recovery`: the thread that holds
`cs_main` goes on, and a stopped node is started again; nothing is assumed about running nodes.
`TaskRunner`: every thread that can take a step does, and time passes; no event has to be emitted, no
thread wakes up by itself, and nobody has to stop the scheduler. `ValidationSignals`: callbacks return
and the background thread goes on. `Logging` and `KernelObjects` assume none. All of it is what a scheduler and fair mutexes give; none of it is progress of the environment.

## 4. Disagreements between the code and what it says of itself

One is a run:

* `recovery_pruned_replay`. Pruned files are unlinked before the coins are written
  (`validation.cpp:2866`, `2884`). A crash between two batches of coins then needs blocks that are
  gone, and the start fails.

Others met on the way are described with the hazards in `PROJECT.json`. Each was reached with the
modules as they are and the constants or the property named here:

* InvalidateBlock collects the headers outside the active chain once and releases `cs_main` for
  every block it disconnects. A header that arrives in between is passed over when `m_best_header` is
  recomputed (`validation.cpp:3705`), against the comment and assertion at `validation.cpp:5358`
  (`BestHeaderIsBest` with the fork and a scenario that is not quiet);
* ResetBlockFailureFlags clears a block, its descendants and its ancestors. When the ancestor was the
  one invalidated, its other children keep BLOCK_FAILED_CHILD (`validation.cpp:5342` asserts that they
  cannot), and stay out of the candidates (`FailureFlagsExact` with `invalidate = 1` and `reset = 1`);
* when InvalidateBlock fails to disconnect a block (`validation.cpp:3682`) it returns without
  blockTip for the blocks it did disconnect, and without repairing the candidates (`ListenerFollows`
  without its exception for disk errors);
* a service thread whose wait has timed out takes the first function of the queue, even if that is
  no longer the one it waited for and its time has not come, against "Call func at/after time t"
  (`scheduler.h:49`; `NeverEarly`);
* an entry that Unregister or Clear leaves in the list because one thread executes it can be executed by
  another thread after that, against "the list may still contain callbacks that are currently
  executing, but it will be cleared when they are done executing" (`validationinterface.cpp:68`;
  `NoNewExecution`);
* `validationinterface.h:35-45` says of a listener's callbacks that each "will complete before the next
  one is invoked"; synchronous events run beside queued ones (`SynchronousEvent` has no guard on the queue);
* lines logged between DeleteCallback and DisconnectTestLogger in the destructor of the last logging
  connection are lost, against "Messages that were logged before a connection is created are
  buffered" (`kernel/bitcoinkernel.h:126`; `NothingMissed`);
* ~ChainMan destroys its reference to the context before the ChainstateManager, so that the context can
  be gone first, against "the context is kept in memory for the duration of their lifetimes"
  (`kernel/bitcoinkernel.h:157`); the destructor does not use it;
* btck_chainstate_manager_import_blocks returns 0 when the import was interrupted or ActivateBestChain failed,
  against "0 if the import blocks call was completed successfully, non-zero otherwise"
  (`kernel/bitcoinkernel.h:1012`); read in the code, since ImportBlocks returns nothing;
* a block that arrives during InvalidateBlock is not a candidate when InvalidateBlock calls
  CheckBlockIndex (`validation.cpp:3744`; `CandidatesWhenChecked` without
  its condition that the scenario is quiet);
* PreciousBlock restarts its counter at -1, so that preferring the tip a second time can make
  it sort behind a block that is no candidate any more (`validation.cpp:3592`; `BestChainActive` with
  `precious = 3`);
* FlushChainstateBlockFile syncs the file of the cursor only, so that an undo record in an
  earlier rev file may not be on disk when the index refers to it, against "First make sure all block
  and undo data is flushed to disk" (`validation.cpp:2846`; `UndoDurable` without `LeftOut`, as it is in
  `recovery_power`), and after a power failure a start can fail for want of it (`StartSucceeds` as
  `pc # "failed"`, in the same run);
* SyncWithValidationInterfaceQueue does not wait for what runs outside the queue: a synchronous event on
  the validation thread, and with ImmediateTaskRunner any event there, can still be executing when it
  returns, against "guaranteeing any callbacks generated prior to now are finished when the function is
  called" (`validationinterface.h:198`; `SyncedMeansFinished` without its exception);
* after a failed write of the index its dirty entries are forgotten (`node/blockstorage.cpp:490`;
  `StartSucceeds` with `Faults = {"index"}`), and after a failed Sync the flags of the coins are
  (`coins.h:289`; `MarkedConsistent` with `Faults = {"coins"}`), so that the flush of the shutdown
  leaves a database that is marked consistent and is not.

## 5. The proofs

Each component has a module of theorems, `<Component>Proofs`. The theorems hold for every value of the
constants: any number of threads, blocks, objects and messages, any tree, any bounds. What they assume
of the constants is in the named ASSUMEs of the component's module (that kinds of threads or values are
disjoint, that sets of threads are finite, that a tree is a tree), which TLC evaluates in the runs.

All follow the same plan. An inductive invariant `IInv` strengthens the properties; one lemma per action
(or per group of actions that do the same to the state) shows that it is kept; a lemma `AlwaysIInv` or
the first steps of a theorem combine them. Most invariants were first checked by TLC, with the runs'
configurations. A part of the state that many actions do not touch has a frame lemma, and an
invariant that is used in the middle of an action (`CheckQueueProofs`, `ChainstateProofs`) is stated of
the values as parameters. What is needed of the library's theorems on finite sets is collected in
`FiniteSetFacts`: lemmas take it as the assumption `SetFacts`, and the end of each module proves
it from the library. The default prover is Zenon; SMT is named where a leaf needs arithmetic, sequences
or records.

### CoinsCacheProofs

* **CoinsCacheInvariant**: `Spec => [](TypeOK /\ FlagsTruthful /\ NoLogicError)`; **NoLogicErrorIsThrown** is
  the part that callers depend on. The only assumption on the constants is that `Spent`, `NoEntry` and
  `NullBlock` are not coins, entries or blocks.
* **CoinsCacheRefinement**: `Spec => ImplementsUtxoSet`, the caches implement plain maps.

The inductive invariant is the conjunction of the three. `FlagsTruthful` needs the types and the
fact that a closed view is empty; `NoLogicError` needs `FlagsTruthful`, because BatchWrite throws
exactly when a FRESH flag is false. The argument is made per entry: `FetchLemma`, `AddLemma`,
`SpendLemma` and `BatchEntryLemma` say of one operation on one entry that it keeps the flags true and
what it does to the merged map; `BatchLemma` and `WriteLemma` lift this to a whole Flush or Sync;
`StepLemma` goes through the actions and shows for each that the invariant is kept and that the
step is one of `UtxoSet` or a stutter.

### TaskRunnerProofs

* **TaskRunnerInvariant**: `Spec => []RunningFlagExact`, at most one thread runs a callback and
  `m_are_callbacks_running` is true exactly then.
* **TaskRunnerRefinement**: `Spec => ImplementsTaskQueue`, the callbacks run one at a time and in the
  order of insertion.
* **ReentryDeadlocks**: `Spec => ReentryNeverReturns`, a callback that waits for the queue it runs on
  never returns.
* **QueueStaysBounded**: `Spec => []QueueBounded`, the limit bounds the queue: whoever is between its
  check and its insertions has room for one burst.

The inductive invariant adds to the types and to `RunningFlagExact` where each thread may be (`AtOK`): a
thread that services the queue has a callback exactly while it is between the first section of
ProcessQueue and ~RAIICallbacksRunning, or waits in the callback for a promise, and it waits for nothing
else. This is what makes the flag inductive, since the destructor clears it without looking; and it makes a
waiting callback hopeless: to fulfil the promise a second thread would have to run a callback. `QuietStep`,
`Move` and `InsertStep` are the three kinds of steps that begin and end no callback; one lemma per group
of actions reduces to them, and `ProcessQueueStep` and `CallbackDoneStep` are Start and Finish of
`TaskQueue`. The order of the scheduler's own queue does not matter for any of this, only what is in it.
For the bound, the tasks in the queue are mapped one to one into pairs of a producer and a number.

### ValidationSignalsProofs

* **CountIsExact**: `Spec => []CountExact`. The count of an entry is the threads in it, and one for the map;
  so an entry is erased when the last of them is done, and never under an iterator.
* **EventsAreDelivered**: `Spec => EventsReachListeners`. `QueueOK` and `GotOK` say that the queue is sorted
  and that no entry has been given an event that is still to come, which makes delivery at most once.
* **SyncWaitsForTheQueue**: `Spec => []SyncedMeansFinished`. `SyncOK`: behind a promise there are only events
  younger than those its client waits for, and when it is fulfilled only such are left. `TwoIterate`: no
  thread but the background and the validation thread executes events; what the latter executes is excluded,
  unless it is a queued event and the runner is the serial one, because nothing waits for it.

The tasks are `TaskQueue`'s, so that **TaskRunnerRefinement** carries these to the real task runner.

### CheckQueueProofs

* **CountersAreExact**, **ChecksDieWithTheirRound**, **VerdictIsExact**: `Accounting`, `NoCheckOutlivesRound`
  and `VerdictExact` for any number of workers and checks.

nTodo is the checks in the queue and in the batches; so it is zero only when no batch is left, and Complete
returns only then. `Verdicts` says where a failure of the round is while m_result does not tell it yet: in
the queue, in a batch, or in a local_result about to be reported. A batch is only dropped unchecked when
m_result already tells of a failure of this round. Every critical section ends in the inner loop of
Loop, which is why the invariant is stated of the counters and locals as parameters.

### KernelObjectsProofs

* **UserDataIsDestroyedWhenUnused**: `Spec => []DestroyedWhenUnused`; **CallbacksFindTheirData**:
  `Spec => []UserDataAlive`.

The counts of the shared pointers are exact (`InterfacesOK`, `UsesOK`), and every call rests on an object
that shares the context: on the options while the manager loads, on the manager after that (`CallOK`). A
call that makes or destroys a manager is alone with it, which is the C API's contract.

### LoggingProofs

* **BufferIsExact**, **CallbacksFindTheirData**, **MessagesAreHeardInOrder**, **MessagesAreAccounted**: all four
  properties of the run.

The buffer holds the last messages logged, without a gap (`BufferOK`). The calls under way, all made under
m_cs, are those of one message to different callbacks or of the buffered messages to one (`CallsOK`), so
that a connection hears the next message next (`HeardOK`). Where a thread is tells which of the two locks
it holds and what it may assume of the list (`PlaceOK`). Only the end of the last destructor and
btck_logging_disable leave the log without buffer and without listeners (`NobodyOK`).

### ChainstateProofs

* **StateIsConsistent**, **TypesAreKept**, **ActiveChainStaysValid**, **ListenersSeeTheTip**: for any tree, memory
  layout, verdicts and calls. The index and the linked blocks are closed under ancestors, and neither the
  tip nor the mostWork that is kept while cs_main is released has a failed ancestor. The latter needs that
  InvalidateBlock and ActivateBestChain exclude each other (m_chainstate_mutex), and that a block which
  fails later is outside the chain being connected.
* **ProgressIsMade**, **ListenersFollow**: `Considered => (Spec => []ForwardProgress)`, and the same for
  `ListenerFollows`.

ForwardProgress is not obvious since ActivateBestChainStep disconnects first and may then meet an invalid
block. The argument (`ProgressOK`): there is a block `t` whose chain is good, which is no worse than the
tip was, and all good blocks no worse than `t` are candidates; so FindMostWorkChain can always go back
to `t`. It is the tip at first, and it is changed only for a better one. `MarksOK` says that all descendants of
failed blocks are marked, so that FindMostWorkChain's marking is complete.

The premise `Considered` excludes two things that the code really does:

* Three PreciousBlock calls while an ActivateBestChain is pending: each gives its block a smaller nSequenceId
  than the one before, but when nLastPreciousChainwork changes the count starts again
  (`validation.cpp:3582-3611`), and the tip's own sequence id can get worse relative to where the thread began.
* An InvalidateBlock that a disk error cuts short while other calls interleave with it: the blocks that came
  in meanwhile stay unmarked, and out of the candidates.

### RecoveryProofs

* **FlushLeavesOldOrNew**, **BestBlockIsTrue**, **RecoveryIsDurable**:
  `"coins" \notin Faults => (Spec => ...)` for `OldOrNewCoin`, `MarkedConsistent` and `ImplementsDurableChain`.
* **IndexIsDurable**: `Spec => []IndexRefersToBlocks`, whatever fails.

`CoinsOK` says what the cache and the database hold at each place of the code. In the middle of a flush every
coin in the database is that of the old or of the new tip (`Between`); rolling back and forward keep
this, with the block reached in the place of the old tip, because the undo record of a block on the way restores
exactly what it spends, and since both operations overwrite without looking. When all batches are written,
the coins are those of the new tip. The premise is needed: after a refused batch the cache has lost entries
that were not written, and a later full flush would name a best block whose coins are not all there. The node
calls FatalError first; a caller of the library that goes on is a hazard without a property.

For the index (`FilesOK`): data that is not synced is in the file being written only; a file that is left is
synced; the index is written after the files; a pruned block is removed from the index before its file is
unlinked, and while it is in the database but not in memory, its file has no other block and either
its entry is still to be written or the file stays.

### What stays with TLC

Liveness (`EveryWaitEnds`, `CallsReturn`, `MostWorkWins`, `NodeComesUp`, `QueueDrains`, `ShutdownCompletes`,
`UnregisteredGoes`): the prover has no rules for fairness. Of `Chainstate`, `LinkedExact`,
`FailureFlagsExact`, `BestHeaderIsBest`, `CandidatesWhenChecked` and `BestChainActive` are checked by TLC only.
So is `UndoDurable`. `StartSucceeds` is not true for all constants: a pruned replay does not start (see the
finding), and neither does a node whose index refused a write. It is checked for the calls of its run.
`MCRecovery`'s UTXO sets are computed by a recursive operator; the proofs take what they need of it
from an assumption on `Utxo`, which TLC evaluates.

## 6. Not modelled

Validation rules, scripts, signatures and encodings (pure functions, represented by a block's
verdict); assumeutxo; pruning as `Chainstate` sees it; reindexing; the mempool, which the C API gives
no access to; LevelDB's own recovery; peer-to-peer, RPC, wallet and GUI, which are in the vendored
tree but not in the library. Failing fsyncs, and a caller that keeps using a chainstate manager
after a fatal error, are hazards without a property. Of the scheduler, scheduleEvery and MockForward are left
out; of the logger, categories, formatting, the file, the console and the rate limiter; of the C API,
btck_context_interrupt, blocks, transactions and other objects with a single owner, and the readers of the active chain that take no lock.
An interrupt only shortens loops. The loops of ImportBlocks and LoadExternalBlockFile and the outer loop of
ActivateBestChain look at it; the inner loop of ActivateBestChain (`validation.cpp:3455-3504`), ReplayBlocks
(`4891-4920`) and the loop over blocks that came out of order (`5155-5176`) do not, so that there is no promise
about when an interrupted call ends to state.
The C++ wrapper does not compile yet (`src/cpp/include/types.hpp`), so that there is no program to model.
`PROJECT.json` lists every part with a reason.

## 7. Plan

1. Pruning and assumeutxo in `Chainstate`.
2. Pure algorithms over bounded inputs: the skip list of GetAncestor, CompactSize and compact bits,
   version bits, merkle roots with duplicated leaves.

No module to be proved about uses a RECURSIVE operator.
