# A formal model of miao-workflow

`miao-workflow` (`@catease/workflow`) runs workflows durably on one database: a *run* walks the
graph of a published *definition*, a *worker* claims it under a lease, executes the handler of one
step after the other and stores every outcome before it goes on. There is no queue and no leader;
whatever happens to a process, another worker picks the run up from its rows. This directory holds
TLA+ models of that core, the TLC runs that check them on small instances, and proofs of the
properties that matter most for every instance. Paths below are relative to the repository
(`src/` is its TypeScript).

## 1. Inventory

| Component | State it keeps | Operations | What makes it correct |
|---|---|---|---|
| Engine (`src/core/engine.ts`, `transitions.ts`) | none of its own but two caches of published definitions; a tick works on local copies of the run and its step runs | `publish`, `start`, `tick`, `signal`, `cancel`, `reconcile`, `prune` | steps in sequence, side effects of a completed visit never replayed, the context is the patches of the visits, only a reconciliation revives a settled step, every run ends |
| Runner (`src/core/runner.ts`) | local variables of one attempt | `execute`, `#persist`, `#persistFailure` | every attempt leaves a record under the key of its visit; a wait survives a failed attempt |
| Runtime (`src/runtime`) | the records `WorkflowRun`, `StepRun`, `WorkflowSignal`, `WorkflowEvent` | `isRunDue`, `isSignalEligible`, `shouldRetry`, `computeBackoffMs`, the built-in handlers | signals reach the wait they were sent for |
| Storage (`src/storage`: `memory.ts`, `postgres.ts`, `schema.ts`) | five tables: definitions, runs (with the lease columns), step runs, signals, events | one statement each; `claimDue`, `consumeNext` and `deleteTerminalBefore` are conditional updates | both adapters behave alike; keys are unique; nothing outlives its run |
| Lease (`src/worker/lease.ts`) | a timer per run being processed, the lease columns in the database | `claim`, `renew`, `release`, `startHeartbeat` | one worker per run while its heartbeat is on time |
| Worker (`src/worker/worker.ts`) | the set of ticks in flight | `tick`, `#process`, `drain` | a failing run does not disturb its batch, every claim is released |
| Scheduler (`src/worker/scheduler.ts`) | one timer, a running flag | `start`, `stop`, `tick` | one chain of polls at a time |
| Definitions (`src/definition`, `src/core/registry.ts`) | published versions; per process the handlers and guards by name, and two caches | `defineWorkflow`, validation, `register`, `publish`, coverage check | a version never changes; a run keeps the version it started with; a cache says what the table says; validation accepts what the engine can walk |
| WASM host (`src/extensions/wasm`) | a worker thread, a call chain, the pending calls | `invoke`, `dispose`, kill and restart | every call settles once; a killed thread never hurts its successor |
| Errors, JSON, events, entry point, examples | - | conversions, append-only log, sample definitions | - |

How they interact: a client calls the engine, which writes rows and never calls a worker. A worker
polls `claimDue`, which selects runs by status, lease, deadline *or* a usable pending signal, and
calls `engine.tick`. The tick reads the run and its step runs, resolves the wait if there is one,
and loops: renew the lease, write the pointer to the step run about to be attempted, call the
handler, store the step run, store the run. Each of these is a separate statement; there are no
transactions across them. The heartbeat timer runs beside the tick.

The behaviours that are hard follow from that: a crash between any two statements, two workers on
one run after a lease was lost, a client writing between two statements of a tick, a signal
arriving at any moment of a wait, a run deleted under a worker. `PROJECT.json` lists them one by
one, at the line where each bites ("hazards"), with the property that covers it or the reason why
none does yet.

## 2. Modules

| Module | What it is |
|---|---|
| `Runtime` | the statuses and pure rules of `src/runtime` |
| `RunWalk` | the abstract specification: what the engine promises about one run |
| `Engine` | one run, its workers and its clients, one storage call per action |
| `WorkerLoop` | the scheduler and the batches of one worker, over several runs |
| `WasmHost` | the thread host of WASM modules |
| `Definition` | normalisation, validation, coverage, the choice of the next step and the back-off, as operators |
| `Publishing` | the versions of one workflow, published, started and driven by several processes |
| `Tables` | the tables and the SQL statements on them: what the storage promises |
| `MemoryStorage` | the Maps and index lists of `memory.ts`, which refine `Tables` |
| `Sublists` | what is left of a list when positions are dropped, for the two modules above |
| `MCEngine`, `MCWorkerLoop`, `MCWasmHost`, `MCPublishing`, `MCStorage` | the small instances the `.cfg` files use |
| `EngineProofs` | theorems about `Engine`: types, one driver, stale handlers, pruning |
| `EngineStepProofs`, `EngineWaitProofs`, `EngineWalkProofs` | more of them, each on top of the one before: steps and the context; signals and waits; the refinement of `RunWalk`, and reconciliation |
| `WasmHostProofs`, `WorkerLoopProofs`, `PublishingProofs`, `StorageProofs` | theorems about `WasmHost`, `WorkerLoop`, `Publishing` and `MemoryStorage` |

How they fit together: `Engine` EXTENDS `Runtime` and refines `RunWalk`; `Publishing` EXTENDS `Definition`
and hands a tick the definition whose graph is `Edges` and `Fallback` of `Engine`; `MemoryStorage` EXTENDS
`Runtime` and refines `Tables`, whose statements are the storage calls of `Engine`, there specialised to one
run; `WorkerLoop` abstracts a tick of `Engine` to its end.

### Engine

State: `run`, `lease`, `stepRuns` and `signals` are the rows of one run in the tables
`workflow_runs` (the lease columns apart), `workflow_step_runs` and `workflow_signals`. `pc[w]` and
`local[w]` are the position and the local variables of worker `w` in its tick, `client[c]` what a
caller of `cancel`, `reconcile` or `signal` read before it writes. `used` counts faults; `begun` is a
history variable, the idempotency keys handlers were started with.

Actions: one storage call, with the synchronous code up to the next `await`. In the order of a tick:

| Code | Actions |
|---|---|
| `LeaseManager.claim`, `claimDue` | `ClaimDue` |
| `tick`: read the run, early returns | `ReadRun` |
| `#runLoop`: history, active step run, resolve the wait | `ListByRun`, `GetActive`, `Begin`, `ConsumeNext`, `NothingToConsume`, `SavePayload`, `ResumeRun`, `ParkAgain` |
| `#runLoop`: head of the loop | `LoopExit`, `RenewFails`, `Replay`, `Prepare`, `Point` |
| `StepRunner.execute` | `StartHandler`, `HandlerReturns`, `Watermark` |
| `#persist`, `#persistFailure` | `Persist`, `PersistConflict`, `PersistFailure`, `PersistFailureConflict` |
| the switch on the outcome, `#advance`, `#fail` | `Complete`, `Advance`, `NoMatchingTransition`, `ParkRun`, `BackOff`, `Fail` |
| the `finally` blocks of `tick` and of `#process` | `TickRelease`, `WorkerRelease` |
| heartbeat, clock, process | `Heartbeat`, `LeaseExpires`, `TimePasses`, `StorageThrows`, `PersistReplyLost`, `Crash` |
| `signal`, `cancel`, `reconcile`, `prune` | `SignalRead/Append`, `CancelRead/Set/Release`, `ReconcileRead/Reset/Reopen/Abandon`, `Prune` |

Abstractions, and why they lose nothing the properties speak of:

- A handler is the set of results it may return, given whether it was woken (`Behaviour`). A guard
  is a function of output and context; the output of a completed step is the target it selects.
- A patch is identified with the visit that produced it, so the context is a set of visits. The
  content of patches is not compared, so the shallow merge of two patches of one key is not visible.
- A timestamp that says when to wake up is absent, ahead or reached; `TimePasses` makes every one
  that is ahead reached. Durations do not occur.
- Audit events are not stored. Appending one can throw, which is the throw of the next action
  (`StorageThrows`), and does throw when the run was pruned: only `step.started` is modelled so,
  since after any other append to a pruned run the tick ends in the model as well, without having
  written to a row that exists.
- A storage call that throws had no effect, or its reply was lost. The second is an action of its own for
  the record of an attempt (`PersistReplyLost`), where the code goes on with another write; anywhere else the
  tick ends, and leaves the rows a crash right after that write leaves.
- The definition is always readable and every handler is registered, which is what `Publishing` is
  about; `tick` is called with an owner, as the worker does.

### RunWalk

Three variables: the status of the run, its step, its context. A step of the walk moves along one
edge of the graph and merges the visit just left, or changes the status alone. A run is woken from `WAITING`,
or from `RETRYING` when a crash fell between recording the wait and parking the run. It knows no workers,
pointers or leases, and no cancellations: with a cancellation the engine does *not* keep to the state
machine (section 5). `Engine` instantiates it (`Walk`) with the columns of the row.

### WorkerLoop

`running` and `timer` are the two fields of the `Scheduler`; a *chain* is one `setTimeout` after the
other, each armed in the `finally` of the tick before. `chain[ch]` says where the tick of a chain is,
`batch[ch]` which runs its `Promise.all` waits for, `inFlight` is the set of that name in the worker.
`Fire`, `Claim`, `TickEnds` and `Release` are the tick, `ClaimThrows` and `ReleaseThrows` its errors,
`Start`, `Stop`, `DrainCalled` and `DrainReturns` the public methods, the rest is the database. What a
tick does to its run is module `Engine`; the two meet in `ClaimDue` (a run of the batch),
`TickEnds` (the end of `Tick`) and `WorkerRelease`. Heartbeats succeed here; a live worker that loses
its lease is in `Engine`. Ticks called by hand and an `onError` callback that throws are left out.

### WasmHost

The host runs on one event loop. An action of the host is one callback (a message, error or exit of a
thread, a timer, an abort, a call of `invoke` or `dispose`); the two continuations it may leave in the
microtask queue are `Begin` (the next call of the chain takes its turn) and `Post` (the call registers
itself and is posted), and no other callback runs before they did, which is `Quiet`. User code, that is
`Invoke`, `Abort` and `Dispose`, may run in between. `worker`, `starting`, `disposal` are the fields `#worker`,
`#starting`, `#disposed`; `queue` and `active` are `#chain`; the pending map is the set of calls whose
`at` is `"pending"`. A thread runs beside the host; `outbox[t]` is what it sent, in order, its exit last.
A thread that answers, dies or ends after `terminate()` was called does so at any later moment. When the
exit of a killed thread is handled, the handler and the continuation of `#kill` both fail what is pending;
the second finds nothing, so `OnExit` is both. A second call of `dispose` is left out.

### Definition and Publishing

`Definition` follows `validation.ts`, `registry.ts`, `transitions.ts` and `retry.ts` operator by function. An
input is a record with the liberties authors have (a transition as a bare id, an object or malformed; `next`
absent, single or a list); configuration and descriptions are reduced to whether they are JSON; the hash
of a definition is its content. The breadth-first search and the power are recursive functions, so that
theorems can be stated about the modules that use them. The numbers of a retry policy, any finite doubles, are represented
by multiples of `1/Unit`, so a cap of half a millisecond is a cap. `Huge` stands for the largest double: a power beyond it
is `Infinity`, `0 * Infinity` is `NaN`, and `MathMin` and `MathRound` treat the two as JavaScript does; after how
many failures a power overflows depends on the multiplier. Left out is the rounding of each product to 53 bits.

`Publishing` has one workflow id. `published` is the table `workflow_definitions`, `registry[p]`, `hashes[p]` and
`definitions[p]` are the registry and the caches `#publishedHashes` and `#definitions` of process `p`, and `call[c]`
is a call of the engine suspended at a statement:

| Code | Actions |
|---|---|
| `publish`, and `start` with a definition | `Publish`, then `Insert` or `InsertNothing`, `SelectSame`, `SelectConflict`, then `CreateRun` for `start` |
| `start` with a name | `StartByName`, `GetLatest` or `NothingPublished`, `CreateRun` |
| `tick`, `signal` to a step | `Tick`, `Signal`, `Load` when the cache misses, `Drive`, `AppendSignal` |
| `register`; a process that ends and starts with another build | `Register`, `Restart` |

The run keeps, as history variables, the content and the process it was started with. That a stored
definition is found is a property here (`AnswersAreTrue`), so `Load` has no branch for a row that is missing.

### Tables and MemoryStorage

`Tables` is the abstract specification of storage: a table is a sequence of rows in the order of its identity
column, one statement is one action, and `reply` is what it told its caller. `MemoryStorage` has the state of
`memory.ts` as it is: four Maps of rows, the index from idempotency key to step run, three lists of ids per run, the
watermark and the counter of signals. No method awaits anything, so one call is one action. The refinement
mapping rebuilds each table from its list of ids. `StorageAssumption` says what callers pass: rows and patches with
the columns and types of `WorkflowRun`, `StepRun`, `WorkflowSignal` and `WorkflowEvent`, and no patch to a key another
step run may have (the engine patches none, and a key names run, step and visit); `VisitAssumption`, that two step runs
of one visit have one key, which is `buildIdempotencyKey`. Columns that no condition, order or constraint
mentions are left out, but for the payload of a wait, whose conversion to `jsonb` is modelled by what it
does: a string is not JSON as it stands. Concurrent transactions are left out: each statement is atomic.

One condition of `Next` is an assumption about callers and no guard of the code: `InClockOrder`. Postgres consumes by
`created_at`, memory by insertion; the two agree only while the stamps of one run's signals grow.

## 3. Runs

The instances of `Engine` have two workers and one client, and graphs of two steps. Two workers are
enough for every overlap the code distinguishes: the lease has one owner, and a third worker sees what the
second sees. Two steps are the least with a transition and an end; in `engine_crash` the first step may
also lead back to itself. `MaxIds` bounds step run ids: the number of visits of the longest walk plus
those a second driver may open. `Budgets` is a set of bounds on how often each fault and client operation
happens, and a behaviour keeps to one of them; each run allows the ones its properties are about, so that
combinations are explored exhaustively. Workers are interchangeable and no action chooses among them, so the runs without liveness
use symmetry. Deadlock is not checked there: a run that has ended, a stopped worker and a disposed host
stay as they are. It is checked in `publishing` and `storage`, where somebody can always call again.

| Run | Faults and operations | Checked |
|---|---|---|
| `engine_crash` | 1 crash, 1 storage error or lost reply, 1 reconciliation, every kind of failure, a repeated step, at most two steps per tick | `TypeOK`, `SingleDriver`, `ContextIsHistory`, `OneStepAtATime`, `CompletedNotReplayed`, `OnlyReconcileRevives`, `ImplementsWalk` |
| `engine_live` | two gates for one signal, the second with a deadline; 2 signals and 1 crash, or 1 lost lease with 1 crash or 1 prune, or 1 cancellation and 1 prune | `ParkedRunWaits`, `SignalsReachTheirWait`, `OneStaleHandler`, `NoOrphans`, `ResumeKept`, `RunEnds`, `SignalIsConsumed`, `SignalNotLost` |
| `worker_loop` | 3 runs, batches of 2, 2 chains, 1 claim or release that throws | `TypeOK`, `NoOverlap`, `StopIsQuiet`, `DrainIsGraceful`, `KeepsPolling`, `LeaseIsLetGo` |
| `publishing` | 2 processes, 2 builds, 2 concurrent calls, 2 versions, 2 contents of the first, 1 run | `TypeOK`, `VersionsAreFinal`, `CachesAgree`, `AnswersAreTrue`, `DrivenAsStarted`, `StarterCanDrive`, `ValidationIsExact`, `BackoffsAreSane` |
| `storage` | 2 runs, 2 step runs, 2 signals, 2 events, 2 owners, clock 2..3, `LIMIT` 1..2 | `TypeOK`, `IndexesAgree`, `ReadsAgree`, `SameAsPostgres` |
| `wasm_host` | 3 calls, one with a signal that aborts, a time limit, 1 thread that dies, dispose | `TypeOK`, `NobodyWaitsForTheDead`, `DisposeIsFinal`, `OneLiveThread`, `CallsSettle`, `DisposeReturns` |

In `engine_crash` a storage error and a crash are the two interruptions that may follow each other, so
a recovery is itself interrupted; the properties hold with two crashes and a reconciliation as well. Three runs and batches of two are the least where a batch is full and something is left
over; two chains are the most one `stop` and `start` can leave. Three calls are the least in which a
call follows the one that was failed by a foreign exit event; each of them may start one thread.

In `publishing` two calls are enough for every overlap of two statements, and two builds, of which one lacks a
handler and the other a guard, for every difference between processes; validation is checked on all graphs of at
most three steps with at most two transitions each, back-offs on all policies over the boundary values of each
field. There numbers are halves (`Unit` = 2) and `Huge` is 60000, the default cap and the least `NumberAssumption`
admits, so that a multiplier of 40 overflows at the third power and the waits after it are in the instance. In `storage` the runs are created in either order of their timestamps, so that order and `LIMIT` matter; the
clock takes the last moment of a lease and the moment it ends; step runs collide on a key within a
run and belong to either run. `MaxRows` bounds the step runs and signals that exist at one time (three:
a wait and two signals for it), and audit events, which share nothing with those but their run, occur
without them.

What the properties say:

- `SingleDriver`: two workers are inside a tick only after a live worker's lease ran out or a
  cancellation took it. All the crash, throw and release paths are covered: in particular the two
  releases at the end of a tick never give away the lease of the next owner.
- `OneStepAtATime`: when a handler starts, every other key that was ever used belongs to a visit
  that completed and whose patch is in the context the handler reads. So an interrupted step is
  resumed under its key, and no step starts while another is unfinished.
- `CompletedNotReplayed`: a handler never starts for a visit that has completed.
- `ContextIsHistory`: the context is the set of completed visits but the one still pointed to.
- `ImplementsWalk`: the detailed specification refines `RunWalk`.
- `ParkedRunWaits`: a run left `WAITING` can be woken: its pointer names a step run that waits, and
  row and step run agree on whether there is a deadline.
- `SignalsReachTheirWait`: a directed signal wakes its step only; an undirected one only a visit
  whose handler had been started when it was sent; none serves two step runs (while undisturbed).
- `OneStaleHandler`: a worker that lost its lease starts at most one handler before it notices.
- `NoOrphans`: no tick or client that still works on a pruned run leaves rows behind.
- `ResumeKept`: every attempt at a step that has waited is told the name it waits for and the signal kept on the
  step run, through failures, retries and reconciliations, while undisturbed. Only an attempt at a step run that still
  says `WAITING`, made because its deadline passed, is told of no signal. The signal kept there may be that of
  an earlier wait; or the one that ended this wait, if a crash fell before the attempt it woke was stored. So
  `ResumeKept` does not say that a crash there loses nothing: it does, as `doc_signal` shows.
- `OnlyReconcileRevives`: an unknown outcome, a non-retryable error or a spent budget is attempted
  again only after `reconcile` reset the failures (without crashes; with one, see section 5).
- `RunEnds`: again and again the run has ended, or sleeps in a wait that nothing is there to end. Crashes only delay
  it. What is excused, after a lost lease or a cancellation alone, is a run that is not at its end and names no
  step (`Stuck`); that the code does leave such a run is what `doc_cancel` shows.
- `SignalIsConsumed`, `SignalNotLost`: a usable signal is consumed, and a consumed one reaches a handler
  unless a tick is cut short; with a crash it may not, which `doc_signal` shows.
- `VersionsAreFinal`, `CachesAgree`, `AnswersAreTrue`: publishing is once per version across processes, and
  neither a cache nor the unlocked pair of INSERT and SELECT makes a call answer wrongly.
- `DrivenAsStarted`, `StarterCanDrive`: a run keeps its definition for ever; the process that started it can run
  all of it until it restarts. (A worker of another build may not: nothing keeps it from claiming the run.)
- `ValidationIsExact`: what is accepted is exactly what is covered and sound in terms of
  `resolveNextStep`: walks stay in the graph, reach every step, and can take every branch.
- `BackoffsAreSane`: a wait is `NaN` exactly where `initialDelayMs` is 0 and the power has overflown; elsewhere it is
  no less than 0, not shortened by one failure more, and at most the cap, or 1.2 times the cap with jitter, rounded to a
  whole millisecond, which half a millisecond of a fractional cap may add to.
- `IndexesAgree`: lists, keys, watermarks and rows of the memory adapter never contradict each other.
- `SameAsPostgres`, `ReadsAgree`: every call changes, answers and reads what the SQL would.
- `NoOverlap`, `StopIsQuiet`: one chain of polls, at most `concurrency` runs at a time, and nothing fires
  after `stop`; both until somebody stops and starts in the middle of a tick (section 5).
- `DrainIsGraceful`: after `stop` and `drain` nothing is in flight, unless a claim was under way (section 5).
- `KeepsPolling`, `LeaseIsLetGo`: no error ends the polling or strands a lease.
- `NobodyWaitsForTheDead`: no call and no start waits for a thread whose last event was handled.
- `DisposeIsFinal`, `DisposeReturns`: `dispose` returns, and afterwards the host refers to no thread
  and no call is under way.
- `OneLiveThread`: there is one live thread, until an exit event meets a successor (section 5).
- `CallsSettle`: with a time limit every call settles, whatever the module does.

`SingleDriver` and the properties that depend on it are stated for behaviours in which no live worker
lost its lease and nobody cancelled (`Undisturbed`), because after either the code promises
at-least-once execution and idempotency keys, not one driver.

Every property has a mutant: a plausible slip in one definition (listed in `PROJECT.json`, written
as `Mut...` next to the definition) that makes TLC report the property violated.

### Fairness

`FairSpec` assumes: each worker that can go on with its tick does, and polls again and again (the
scheduler's timer chain; weak fairness of `Tick(w)` and `ClaimDue(w)`); a handler settles, in the
code because of `timeoutMs`, so a step without one is assumed to return; the lease of a worker that
is gone runs out (weak fairness of `LeaseExpires` when it costs no fault); deadlines pass. `doc_cancel`, whose
property is a liveness property too, is refuted under the same assumptions. A
`ClaimDue` of one worker may be disabled by that of another, so weak fairness promises that *some*
worker claims; no fairness is assumed of clients, heartbeats or faults.

`WorkerLoop` assumes that timers fire, storage calls return, every tick of the engine ends (which rests on
the timeouts of handlers) and leases run out; `WasmHost` that the event loop goes round, that a thread
reports once it has loaded its module (a module whose start function loops breaks this, and then
neither a call nor `dispose` ever returns) and that `terminate()` takes effect. No module owes an answer.

## 4. Proofs

The runs check small instances; what follows holds for every value of the constants. `EngineProofs` proves, for every graph, every behaviour of the handlers, any number of workers and
clients and any budget, from `EngineAssumption` (the constants have the types the code gives them)
alone:

| Theorem | Statement |
|---|---|
| `TypesCorrect` | `Spec => []TypeOK` |
| `OneDriver` | `Spec => []SingleDriver` |
| `AtMostOneStaleHandler` | `Spec => []OneStaleHandler` |
| `PrunedRunLeavesNothing` | `Spec => []NoOrphans` |

- *Types.* `TypeOK` is not inductive: a step that stores the record in hand needs to know that the
  worker has a current step and an id. `TypeInv` adds, per worker, that at the labels where a step
  is in hand (`HandLabels`) the local run names a step and `id` an id, and that a record that exists names a
  step. The lemmas `OneWorkerMoves`, `RowWritten`, `LeaseWritten` reduce an action to the part of the
  state it touches; the proof has one case per action.
- *One driver.* `DriverInv` strengthens `SingleDriver`: while undisturbed, whoever is inside a tick of
  a run that exists owns a valid lease, and no client is in the middle of a cancellation. A claim
  needs a lease that is free or has run out, and then nobody is inside a tick; a release gives away
  the lease of its own worker only.
- *Stale handlers.* `StaleInv`: the count of a worker is 0 or 1; while it is 1 the worker does not
  own the lease, so the next renewal fails; and between a successful renewal and the call of the
  handler it is 0.
- *Pruning.* `NoOrphans` is inductive together with the type of the row: a write to the row of an absent run
  does nothing, an insert needs the run, an update needs the record.

`EngineStepProofs`, `EngineWaitProofs` and `EngineWalkProofs` go on from there, for the same constants:

| Theorem | Statement |
|---|---|
| `ContextCorrect` | `Spec => []ContextIsHistory` |
| `StepsRunOneAtATime` | `Spec => OneStepAtATime` |
| `CompletedVisitsAreNotReplayed` | `Spec => CompletedNotReplayed` |
| `SignalsServeTheirWait` | `Spec => []SignalsReachTheirWait` |
| `ParkedRunsWait` | `Spec => []ParkedRunWaits` |
| `ResumeIsKept` | `Spec => ResumeKept` |
| `EngineImplementsWalk` | `Spec /\ [](Undisturbed /\ OneReconciler) => ImplementsWalk` |
| `OnlyReconciliationRevives` | `Spec /\ []OneReconciler => OnlyReconcileRevives` |

- *Steps* (`StepsInv`). What a tick does next rests on copies it read at its start, so an invariant about the
  rows alone is not inductive. `RowsOK` relates the rows: keys are unique, the context is what the run has left, only
  the step run the pointer names may be unfinished, and every key ever used was left or is the current one. `HandOK`
  relates a worker's copies to the rows, label by label: position and faces (step, visit, status) agree, the
  id in hand is the one pointed to, and its visit is the recorded or the next one. The exception is
  `persistFailure`, where a lost reply leaves the copy behind the row. `DriverInv` supplies that no other worker moves in
  between; both are stated on values, so that one action is a lemma on values.
- *Waits* (`WaitInv`). A wait's mark is behind no signal sent before its handler was started
  (`HeardSince`), a payload on a step run was consumed for it and is on no other, and copies agree with the rows on
  waits and payloads. Between consuming and keeping a signal the worker alone knows of it (`SignalInHand`); what the
  next attempt is told is what the step run keeps (`ResumeInHand`).
- *Walk* (`WalkInv`). Every step of the tick but those to the row stutters. The steps that write it need the visits of a
  step numbered without a gap (`VisitsCount`), so that what is merged is the next one, and what a tick knows of the status
  at each label. `OneReconciler` is needed: `reconcile` reads the status and writes it without a condition, and with
  two that overlap the second writes over a run the first has reopened and a worker has driven on. TLC confirms
  that both properties then fail, with two clients and two reconciliations.
- *Reconciliation* (`ReviveInv`). A step run that failed for good, and was not forgiven, is that of a run that has ended or that a
  worker is about to fail; `reconcile` forgives the step run before it reopens the run.

`WorkerLoopProofs` proves, for every finite set of runs, concurrency, number of chains and number of
errors (`LoopAssumption`):

| Theorem | Statement |
|---|---|
| `LoopTypesCorrect` | `Spec => []TypeOK` |
| `TicksDoNotOverlap` | `Spec => []NoOverlap` |
| `StopLeavesNoTimer` | `Spec => []StopIsQuiet` |
| `GracefulDrain` | `Spec => []DrainIsGraceful` |

One invariant, `LoopInv`, carries all four. None of the properties is inductive alone: that a tick
claims nothing in flight needs the leases (`Exclusive`), that the concurrency bounds what is in flight
needs the batches (`Batched`, `Bounded`), that `stop` leaves no timer needs that the one armed chain is
the one `timer` names (`OneChain`), and that a drained worker stays drained needs that no chain is left
(`Gone`). There is one lemma per action; `ScheduleKeepsOneChain` and `LeaveKeepsBatches` are shared.

`PublishingProofs` proves, for every set of processes, calls, runs, builds and inputs, from
`DefinitionAssumption`, `NumberAssumption`, `PublishingAssumption` and `DraftAssumption` (the constants have the types
the code gives them, `None` is none of them, a definition has finitely many steps, the numbers of a policy are finite, as
`assertJsonSerializable` ensures, and multiples of `1/Unit`, and the default cap is a number):

| Theorem | Statement |
|---|---|
| `PublishingTypesCorrect` | `Spec => []TypeOK` |
| `CachesAlwaysAgree` | `Spec => []CachesAgree` |
| `AnswersAlwaysTrue` | `Spec => []AnswersAreTrue` |
| `AlwaysDrivenAsStarted` | `Spec => []DrivenAsStarted` |
| `StarterAlwaysCanDrive` | `Spec => []StarterCanDrive` |
| `VersionsStayFinal` | `Spec => VersionsAreFinal` |
| `ValidationAlwaysExact` | `Spec => []ValidationIsExact` |
| `BackoffsAlwaysSane` | `Spec => []BackoffsAreSane` |
| `EveryWaitIsSane` | the same bounds of `computeBackoffMs` after any number of failures and for every random number (a multiple of `1/Unit`) |

One invariant, `PublishingInv`, carries the first five. `AnswersAreTrue` needs that a table row is stored under its
own version, that a run's version is published with the content it was started with, and that a call past
`publish` holds the stored content; `CachesAgree` needs that `Insert` writes into a vacant row only; `StarterCanDrive`
that a call about to create a run is covered by the registry of its process, which only grows
until the process restarts. There is one lemma per action.

The last three are about pure functions, and need no invariant but an account of two recursive ones. A recursive
function is some solution of its equation, if there is one, so each proof starts with its existence.

- *Back-off.* `PowersExist` puts the powers together from finite lists of them (`PowerListExists`); then `PowerStep` is
  the equation. Everything by induction is proved by a least counterexample (`LeastNumber`). A wait is a rounded quotient:
  `RoundIsNearest` bounds what rounding moves, `RoundKeepsOrder` compares two quotients of different denominators,
  as those of one failure and of the next are, and `PowersGrow` and `CappedGrows` order what is rounded. That a power, once
  overflown, stays so is part of `PowersGrow`.
- *Validation.* From a stage of the search with some steps queued and some seen, the search returns the least set
  that contains what is seen and that no step leaves but those seen and no longer queued (`Closure`).
  `ClosureSearches` shows that this set solves the equation, `SearchIsClosure` that the search returns it, because
  what is left to do decreases (`SizeDecreases`). So what `findUnreachableSteps` reports is what no walk over the targets
  reaches (`AllReachable`). On the other side, a set is left by the choices of `resolveNextStep` exactly if it is left by
  targets (`LeavesIsTargets`), provided every transition is chosen for some answers of the guards, which in a step without a
  repeated guard is the rule that only the last transition is unconditional (`OnlyLastUnguarded`).

`WasmHostProofs` proves, for every number of calls, threads, aborts and deaths, with a time limit or without
(`HostAssumption`):

| Theorem | Statement |
|---|---|
| `HostTypesCorrect` | `Spec => []TypeOK` |
| `NoCallWaitsForTheDead` | `Spec => []NobodyWaitsForTheDead` |
| `DisposedForGood` | `Spec => []DisposeIsFinal` |
| `AtMostOneLiveThread` | `Spec => []OneLiveThread` |

One invariant, `HostInv`, carries all four. It says what may be in the mail of a thread: its exit comes last
and is there until it is handled, ready comes first and only while `#start` waits for it (`MailOK`). From
that follows that the thread `#start` waits for will be heard of (`StartOK`), and that a call in flight is on the
current thread or on the one whose exit `dispose` waits for (`CallOK`, `DisposalOK`).

`StorageProofs` proves, for every set of runs, step runs, signals, events and keys and every set of calls
(`StorageAssumption`, `VisitAssumption`):

| Theorem | Statement |
|---|---|
| `StorageTypesCorrect` | `Spec => []TypeOK` |
| `StorageIndexesAgree` | `Spec => []IndexesAgree` |
| `MemoryImplementsTables` | `ObjectPayloads => (Spec => SameAsPostgres)` |
| `ReadsAlwaysAgree` | `Spec => []ReadsAgree` |

`StorageInv` adds one thing to the two: the key of a row is one its step run may have (`KeysAreOwn`), without which a patch
could move an entry of the index onto a key in use. There is one lemma per method. Deleting runs keeps the order of
the rest: `RankIsABijection` shows that renumbering the rows that stay is one to one.

The refinement `MemoryImplementsTables` rests on that invariant, which makes a list read through its ids the table
itself (no id dangles), and on `SignalsByClock`: the signals of a run are listed by their clock, so that the first match
in the list is the oldest row. There is one `...Refines` lemma per method. `SortedIsSorted` and `SlicedIsFirst` show that
sorting and cutting off picks the rows of `ORDER BY ... LIMIT`, for which `CanBeSorted` proves, by induction on the
number of rows, that the sort has a result. `ObjectPayloads` says that no patch of a step run stores a bare string as the
payload of a wait: with one the adapters do differ, which is the run `doc_payload` (section 5).

`ReadsAlwaysAgree` uses the same mapping, without that condition. The reads differ in one place: of two step runs of a step
with the same visit, memory would answer the first and Postgres (`ORDER BY visit DESC, seq DESC`) the last. That there are
no two (`OneStepRunPerVisit`) follows from `VisitAssumption`, the unique key, and the invariant `CreatedAsNew`: a row keeps the
run and step it was created with, and a visit it was created with or patched to. Pages are compared by position: the cursor
of memory is an index in the list, that of Postgres an identity value (`PagesAgree`).

Only model-checked is liveness, which is out of the provers' reach: `RunEnds`, `SignalIsConsumed`,
`SignalNotLost`, `CallsSettle`, `DisposeReturns`, `KeepsPolling`, `LeaseIsLetGo`.

## 5. Where the code departs from its documentation

Each of these is a run with `expect: violation` and an entry under "findings":

- `doc_cancel`: no `CANCELLED` run comes to rest. In the counterexample `w2` has read the run when `cancel` writes
  `CANCELLED`; `w2` writes `RUNNING` over it (`core/engine.ts:410`) and prepares the first step; `cancel` releases the
  lease; `w1` claims the run, drives its steps and completes it; `w2` now writes `RUNNING` and its pointer over that
  (`core/engine.ts:465`), starts its handler, and its record is refused. The row says `RUNNING` and names no step:
  every later tick claims it, throws (`core/engine.ts:417-421`) and releases it, for ever.
- `doc_unknown`: a crash between the two writes of an unknown outcome makes it retried.
- `doc_signal`: a crash after a signal was consumed loses the signal. The window is wider than the two
  statements that consume it and keep its payload: until the attempt it woke is stored, the step run still says
  `WAITING`, and the next worker asks for another signal without a look at the payload. With a deadline
  the step is then told it timed out although it was approved.
- `doc_resume`: a step woken by a signal before its deadline fails and is retried; the retry is told of the
  payload *and* of the deadline, the first attempt only of the payload.
- `doc_wasm_leak`: the late exit event of a terminated thread makes the host forget its successor, which
  is never terminated.
- `doc_payload`: a string as the payload of a signal (or as the output of a step that is stored a second
  time) is stored by the memory adapter and refused by Postgres, because `update` does not encode what
  `create` does; the signal it came with is consumed by then.

Seen in the models, and recorded as hazards without a run of their own:

- A worker that lost its lease, by a failed renewal and not by a cancellation, still writes the run and its step
  run (`worker/lease.ts:64`), so the same late `RUNNING` over `COMPLETED` may follow.
- Postgres consumes signals by the clock of their senders, memory by arrival.
- A worker whose build lacks the handler of a step claims the run all the same, and throws.
- The jitter is applied after the cap, so a wait may exceed `maxDelayMs` by a fifth; and `initialDelayMs: 0` times a
  power that has overflown is `NaN` (`runtime/retry.ts:73`): after about a thousand failures with a multiplier of 2,
  at the third with one of 1e308, since validation bounds neither. `#isoAfter` then throws (`core/engine.ts:538`),
  so the run stays `RUNNING` and the next tick attempts the step without a wait.
- An `UPDATE` that stored a completion and whose reply is lost is overwritten by a failure, so a
  reconciliation repeats side effects whose completion had been stored. The key is the same.
- A run that failed has no `completed_at`, so `prune` never deletes it.
- A guard named twice in one step makes the second branch dead; validation does not object.
- `stop` and `start` during a tick leave two chains of polls, and the next `stop` clears one timer.
- `drain` returns while a claim is under way, although it is what an orderly exit waits for.
- An abort during the start of a thread is heard by nobody.
- Of two reconciliations at once the later reopens an outcome nobody has seen.

## 6. What is not modelled, and the plan

In this order:

1. Uncommitted inserts in `Tables`: identity values against commit order, `SKIP LOCKED` in `consumeNext`.
2. `WasmHost` without a time limit, where an abort has to do its work.

Left out of the components that are modelled: `tick` without an owner; the definition store of `memory.ts`, one
call where Postgres has two statements; plain listings; `migrate`; the foreign key from runs to definitions
(the engine only creates runs of published versions); `duplicate: "replace"` of the registry and guards
registered at run time; which values `assertJsonSerializable` accepts.

Not planned: error classes, JSON serialisation, the ABI encoding and the in-process WASM instance
(conversions without state), `parseDuration` (a conversion of text), examples, the entry point.
