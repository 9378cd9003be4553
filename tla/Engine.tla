------------------------------- MODULE Engine -------------------------------
(***************************************************************************)
(* One workflow run, driven by WorkflowEngine.tick from several workers    *)
(* while clients signal, cancel, reconcile and prune it.                   *)
(*                                                                         *)
(* Every action below is one storage call (one SQL statement) together     *)
(* with the synchronous code up to the next await: that is the granularity *)
(* at which the workers, the clients and a crash can interleave.  The      *)
(* database row of the run is `run` (its two lease columns are `lease`),   *)
(* its step runs are `stepRuns` and its signal queue is `signals`.         *)
(*                                                                         *)
(* Abstractions: a handler is the set of results it may return (constant   *)
(* Behaviour), and its output is the transition the guards select on it;   *)
(* the context of the run is the set of step visits whose patch has been   *)
(* merged into it; audit events are left out (nothing reads them back);    *)
(* every fault is an action paid from a budget (constant Budgets).         *)
(***************************************************************************)
EXTENDS Runtime, Sequences

CONSTANTS
  Workers,          \* lease owners: one WorkflowWorker each
  Clients,          \* callers of signal, cancel, reconcile and prune
  Steps,            \* the step ids of the published definition
  Start,            \* definition.start
  Edges,            \* step -> targets of its transitions ({}: an end step)
  Fallback,         \* step -> target of its unconditional last transition, or None
  MaxAttempts,      \* step -> retry.maxAttempts
  Behaviour,        \* <<step, resumed>> -> results its handler may return
  Names,            \* signal names
  Sendable,         \* <<name, stepId>> pairs the clients send
  MaxStepsPerTick,  \* limits.maxStepsPerTick
  MaxIds,           \* bound: step run ids
  Budgets,          \* bounds: how often each fault or client operation happens;
                    \* a behaviour stays within one of them
  None              \* null

Faults == {"crash", "leaseLoss", "throw", "cancel", "reconcile", "prune", "signal"}

Ids == 1..MaxIds

IdOrNull == 0..MaxIds

\* What a handler returns.  "invalid" is a completed result that is not JSON;
\* `to` is the target whose guard its output satisfies, None if it satisfies none.
Result == [status: {"completed", "waiting", "failed", "unknown", "invalid"},
           to: Steps \cup {None}, name: Names \cup {None},
           wakes: BOOLEAN, retryable: BOOLEAN]

ASSUME EngineAssumption ==
  /\ None \notin Workers \cup Steps \cup Names
  /\ Start \in Steps
  /\ Edges \in [Steps -> SUBSET Steps]
  /\ Fallback \in [Steps -> Steps \cup {None}]
  /\ \A s \in Steps : Fallback[s] \in Edges[s] \cup {None}
  /\ MaxAttempts \in [Steps -> Nat \ {0}]
  /\ Behaviour \in [Steps \X BOOLEAN -> SUBSET Result]
  /\ \A call \in Steps \X BOOLEAN : \A result \in Behaviour[call] :
       result.status = "waiting" => result.name # None
  /\ Sendable \subseteq Names \X (Steps \cup {None})
  /\ MaxStepsPerTick \in Nat \ {0}
  /\ MaxIds \in Nat \ {0}
  /\ Budgets \subseteq [Faults -> Nat]

VARIABLES
  run,       \* the row in workflow_runs
  lease,     \* its columns lease_owner and lease_expires_at
  stepRuns,  \* workflow_step_runs of this run, by id
  signals,   \* workflow_signals of this run, in seq order
  pc,        \* where each worker is in its tick
  local,     \* the local variables of that tick
  client,    \* what each client is in the middle of
  used,      \* how much of each budget has been spent
  begun      \* history: the idempotency keys handlers were started with

vars == <<run, lease, stepRuns, signals, pc, local, client, used, begun>>

-----------------------------------------------------------------------------
(* Types and empty values *)

Key == Steps \X Nat

Run == [status: RunStatus, stepId: Steps \cup {None}, stepRunId: IdOrNull,
        wakeAt: WakeAt, context: SUBSET Key, completedAt: BOOLEAN]

StepRun == [stepId: Steps \cup {None}, visit: Nat, status: StepStatus,
            failures: Nat, retryable: BOOLEAN, output: Steps \cup {None},
            waitFor: Names \cup {None}, waitSinceSeq: Nat, wakeAt: WakeAt,
            waitPayload: Nat]

Signal == [name: Names, stepId: Steps \cup {None}, consumed: BOOLEAN,
           begun: SUBSET Key]

\* resume.payload is the seq of the signal, 0 when undefined.
Resume == [waitFor: Names \cup {None}, wakeAt: BOOLEAN, payload: Nat]

Labels == {"idle", "read", "list", "active", "begin", "consume", "savePayload",
           "resume", "park", "loop", "point", "handler", "running", "watermark",
           "persist", "persistFailure", "advance", "parkRun", "retry", "fail",
           "release", "workerRelease"}

ClientOps == {"idle", "append", "cancelSet", "cancelRelease", "retryReset",
              "retrySet", "abandonSet"}

NoRun == [status |-> "ABSENT", stepId |-> None, stepRunId |-> 0,
          wakeAt |-> "none", context |-> {}, completedAt |-> FALSE]

NoLease == [owner |-> None, valid |-> FALSE]

NoStepRun == [stepId |-> None, visit |-> 0, status |-> "ABSENT", failures |-> 0,
              retryable |-> FALSE, output |-> None, waitFor |-> None,
              waitSinceSeq |-> 0, wakeAt |-> "none", waitPayload |-> 0]

NoResume == [waitFor |-> None, wakeAt |-> FALSE, payload |-> 0]

NoResult == [status |-> "completed", to |-> None, name |-> None,
             wakes |-> FALSE, retryable |-> FALSE]

NoStepRuns == [id \in Ids |-> NoStepRun]

\* run and history are the copies runLoop works on; wait is what
\* activeStepRun returned; id and visit belong to the step in hand; stale
\* counts (history) the handlers started without holding the lease.
NoLocal == [run |-> NoRun, history |-> NoStepRuns, wait |-> NoStepRun, id |-> 0,
            visit |-> 0, resume |-> NoResume, result |-> NoResult, mark |-> 0,
            steps |-> 0, stale |-> 0]

Local == [run: Run, history: [Ids -> StepRun], wait: StepRun, id: IdOrNull,
          visit: Nat, resume: Resume, result: Result, mark: Nat,
          steps: Nat, stale: Nat]

IdleClient == [op |-> "idle", owner |-> None, stepRunId |-> 0]

TypeOK ==
  /\ run \in Run
  /\ lease \in [owner: Workers \cup {None}, valid: BOOLEAN]
  /\ stepRuns \in [Ids -> StepRun]
  /\ signals \in Seq(Signal)
  /\ pc \in [Workers -> Labels]
  /\ local \in [Workers -> Local]
  /\ client \in [Clients -> [op: ClientOps, owner: Workers \cup {None}, stepRunId: IdOrNull]]
  /\ used \in [Faults -> Nat]
  /\ begun \in SUBSET Key

-----------------------------------------------------------------------------
(* Rows and patches.  setRun applies the same patch to the row and to the  *)
(* local copy; the row may be gone, and then the UPDATE does nothing.      *)

Store(row) == run' = IF run.status = "ABSENT" THEN run ELSE row

Started(r) == [r EXCEPT !.status = "RUNNING"]

Resumed(r) == [r EXCEPT !.status = "RUNNING", !.wakeAt = "none"]

Pointed(r, id) == [r EXCEPT !.status = "RUNNING", !.stepRunId = id]

\* MutParkedForever drops the deadline of the wait.
MutParkedForever(r, stepId, wakeAt) ==
  [r EXCEPT !.status = "WAITING", !.wakeAt = "none", !.stepId = stepId]

Parked(r, stepId, wakeAt) ==
  [r EXCEPT !.status = "WAITING", !.wakeAt = wakeAt, !.stepId = stepId]

Moved(r, context, next) ==
  [r EXCEPT !.status = "RUNNING", !.context = context, !.stepId = next,
            !.stepRunId = 0, !.wakeAt = "none"]

Finished(r, context) ==
  [r EXCEPT !.status = "COMPLETED", !.context = context, !.stepId = None,
            !.stepRunId = 0, !.wakeAt = "none", !.completedAt = TRUE]

BackingOff(r, stepId) ==
  [r EXCEPT !.status = "RETRYING", !.wakeAt = "pending", !.stepId = stepId]

Failed(r, stepId) ==
  [r EXCEPT !.status = "FAILED", !.wakeAt = "none", !.stepId = stepId]

Cancelled(r) ==
  [r EXCEPT !.status = "CANCELLED", !.wakeAt = "none", !.completedAt = TRUE]

Reopened(r) ==
  [r EXCEPT !.status = "RUNNING", !.wakeAt = "none", !.completedAt = FALSE]

Exists(id) == id # 0 /\ stepRuns[id].status # "ABSENT"

\* MutCreateWithoutRun drops the foreign key of the run.
MutCreateWithoutRun(id, rec) ==
  /\ ~Exists(id)
  /\ \A other \in Ids : Exists(other) =>
       <<stepRuns[other].stepId, stepRuns[other].visit>> # <<rec.stepId, rec.visit>>

\* INSERT: the run must be there, the id and the idempotency key must be new.
CanCreate(id, rec) ==
  /\ run.status # "ABSENT"
  /\ ~Exists(id)
  /\ \A other \in Ids : Exists(other) =>
       <<stepRuns[other].stepId, stepRuns[other].visit>> # <<rec.stepId, rec.visit>>

Goto(w, label) == pc' = [pc EXCEPT ![w] = label]

Spend(fault) ==
  /\ used' = [used EXCEPT ![fault] = @ + 1]
  /\ \E budget \in Budgets : \A f \in Faults : used'[f] <= budget[f]

\* steps.get on the pointer of a run: null when there is none.
ActiveStepRun(r) == IF r.stepRunId = 0 THEN NoStepRun ELSE stepRuns[r.stepRunId]

\* The local history's record of the step in hand (existing, null if absent).
Existing(w) == local[w].history[local[w].id]

EligibleFor(wait) ==
  {i \in DOMAIN signals : /\ ~signals[i].consumed
                          /\ IsSignalEligible(signals[i], i, wait, None)}

\* { the smallest member of S }, or {} when S is empty.
Oldest(S) == {i \in S : \A j \in S : i <= j}

-----------------------------------------------------------------------------
(* Claiming, and the first part of a tick: read, resolve the wait *)

HasPendingSignal ==
  /\ run.status = "WAITING"
  /\ Exists(run.stepRunId)
  /\ stepRuns[run.stepRunId].waitFor # None
  /\ EligibleFor(stepRuns[run.stepRunId]) # {}

\* MutClaimLeased forgets the lease, MutClaimWhenDue the pending signals.
MutClaimLeased ==
  /\ run.status \in CLAIMABLE_RUN_STATUSES
  /\ IsRunDue(run) \/ HasPendingSignal

MutClaimWhenDue ==
  /\ run.status \in CLAIMABLE_RUN_STATUSES
  /\ lease.owner = None \/ ~lease.valid
  /\ IsRunDue(run)

Claimable ==
  /\ run.status \in CLAIMABLE_RUN_STATUSES
  /\ lease.owner = None \/ ~lease.valid
  /\ IsRunDue(run) \/ HasPendingSignal

ClaimDue(w) ==
  /\ pc[w] = "idle"
  /\ Claimable
  /\ lease' = [owner |-> w, valid |-> TRUE]
  /\ local' = [local EXCEPT ![w] = NoLocal]
  /\ Goto(w, "read")
  /\ UNCHANGED <<run, stepRuns, signals, client, used, begun>>

\* requireRun, then the early returns: the run is gone, has ended, or is leased
\* by somebody else.  They leave before the try block, so without its release.
ReadRun(w) ==
  /\ pc[w] = "read"
  /\ IF \/ run.status \in TERMINAL_RUN_STATUSES \cup {"ABSENT"}
        \/ lease.owner \notin {None, w}
       THEN /\ Goto(w, "workerRelease")
            /\ UNCHANGED local
       ELSE /\ Goto(w, "list")
            /\ local' = [local EXCEPT ![w].run = run]
  /\ UNCHANGED <<run, lease, stepRuns, signals, client, used, begun>>

ListByRun(w) ==
  /\ pc[w] = "list"
  /\ local' = [local EXCEPT ![w].history = stepRuns]
  /\ Goto(w, "active")
  /\ UNCHANGED <<run, lease, stepRuns, signals, client, used, begun>>

GetActive(w) ==
  LET wait == ActiveStepRun(local[w].run)
  IN /\ pc[w] = "active"
     /\ local' = [local EXCEPT ![w].wait = wait]
     /\ Goto(w, IF wait.status = "WAITING" /\ wait.waitFor # None THEN "consume"
                ELSE IF local[w].run.status = "CREATED" THEN "begin" ELSE "loop")
     /\ UNCHANGED <<run, lease, stepRuns, signals, client, used, begun>>

Begin(w) ==
  /\ pc[w] = "begin"
  /\ Store(Started(run))
  /\ local' = [local EXCEPT ![w].run = Started(@)]
  /\ Goto(w, "loop")
  /\ UNCHANGED <<lease, stepRuns, signals, client, used, begun>>

\* resolveWait, first half: consume the oldest signal this wait may use.
ConsumeNext(w) ==
  LET wait == local[w].wait
  IN /\ pc[w] = "consume"
     /\ \E i \in Oldest(EligibleFor(wait)) :
          /\ signals' = [signals EXCEPT ![i].consumed = TRUE]
          /\ local' = [local EXCEPT ![w].resume =
                         [waitFor |-> wait.waitFor, wakeAt |-> FALSE, payload |-> i]]
     /\ Goto(w, "savePayload")
     /\ UNCHANGED <<run, lease, stepRuns, client, used, begun>>

\* No signal: the deadline as it stood when the step run was read decides.
NothingToConsume(w) ==
  LET wait == local[w].wait
  IN /\ pc[w] = "consume"
     /\ EligibleFor(wait) = {}
     /\ IF wait.wakeAt = "due"
          THEN /\ local' = [local EXCEPT ![w].resume =
                              [waitFor |-> wait.waitFor, wakeAt |-> TRUE, payload |-> 0]]
               /\ Goto(w, "resume")
          ELSE /\ Goto(w, IF local[w].run.status = "WAITING" THEN "release" ELSE "park")
               /\ UNCHANGED local
     /\ UNCHANGED <<run, lease, stepRuns, signals, client, used, begun>>

\* resolveWait, second half: keep the payload on the step run, then upsert it.
\* MutSavePayloadLocally keeps the payload in memory only.
MutSavePayloadLocally(w) ==
  /\ pc[w] = "savePayload"
  /\ Goto(w, "resume")
  /\ UNCHANGED <<run, lease, stepRuns, signals, local, client, used, begun>>

SavePayload(w) ==
  LET id == local[w].run.stepRunId
      payload == local[w].resume.payload
  IN /\ pc[w] = "savePayload"
     /\ stepRuns' = IF Exists(id) THEN [stepRuns EXCEPT ![id].waitPayload = payload]
                    ELSE stepRuns
     /\ local' = [local EXCEPT ![w].history[id] = [local[w].wait EXCEPT !.waitPayload = payload]]
     /\ Goto(w, "resume")
     /\ UNCHANGED <<run, lease, signals, client, used, begun>>

ResumeRun(w) ==
  /\ pc[w] = "resume"
  /\ Store(Resumed(run))
  /\ local' = [local EXCEPT ![w].run = Resumed(@), ![w].wait = NoStepRun]
  /\ Goto(w, "loop")
  /\ UNCHANGED <<lease, stepRuns, signals, client, used, begun>>

\* Nothing woke the wait and the row does not say WAITING: put it back to sleep.
ParkAgain(w) ==
  /\ pc[w] = "park"
  /\ Store(Parked(run, run.stepId, local[w].wait.wakeAt))
  /\ Goto(w, "release")
  /\ UNCHANGED <<lease, stepRuns, signals, local, client, used, begun>>

-----------------------------------------------------------------------------
(* The loop: check the lease, find the step in hand, run its handler *)

LoopExit(w) ==
  /\ pc[w] = "loop"
  /\ \/ local[w].steps = MaxStepsPerTick
     \/ local[w].run.stepId = None
  /\ Goto(w, "release")
  /\ UNCHANGED <<run, lease, stepRuns, signals, local, client, used, begun>>

AtLoopHead(w) ==
  /\ pc[w] = "loop"
  /\ local[w].steps < MaxStepsPerTick
  /\ local[w].run.stepId # None

\* renewLease updates the row of this owner; MutRenewAnyone forgets the owner.
MutRenewAnyone(w) == lease.owner # None

HoldsLease(w) == lease.owner = w

\* renewLease matches no row: LeaseLostError.
RenewFails(w) ==
  /\ AtLoopHead(w)
  /\ ~HoldsLease(w)
  /\ Goto(w, "release")
  /\ UNCHANGED <<run, lease, stepRuns, signals, local, client, used, begun>>

\* The step run the pointer names, looked up in the local history.
ActiveInHistory(w) ==
  IF local[w].run.stepRunId = 0 THEN NoStepRun
  ELSE local[w].history[local[w].run.stepRunId]

\* The visits recorded of the current step; MutVisitsOfRun takes every step's.
MutVisitsOfRun(w) ==
  {local[w].history[i].visit : i \in {j \in Ids : local[w].history[j].status # "ABSENT"}}

KnownVisits(w) ==
  {local[w].history[i].visit : i \in
    {j \in Ids : /\ local[w].history[j].status # "ABSENT"
                 /\ local[w].history[j].stepId = local[w].run.stepId}}

\* Visits of a step are created in increasing order, so the record the code finds
\* latest is the one with the highest visit, and the next visit is one above it.
NextVisit(w) ==
  {v + 1 : v \in {u \in {0} \cup KnownVisits(w) : \A t \in KnownVisits(w) : t <= u}}

\* A retry, a resumption and a recovery keep the visit of the record they find;
\* MutNewVisit counts every attempt as a visit of its own.
MutNewVisit(w, active) == NextVisit(w)

VisitOf(w, active) ==
  IF active.status = "ABSENT" THEN NextVisit(w) ELSE {active.visit}

\* Ids nobody has heard of; randomUUID picks one, the model the least.
FreshIds ==
  {i \in Ids : /\ ~Exists(i)
               /\ run.stepRunId # i
               /\ \A v \in Workers : local[v].id # i /\ local[v].run.stepRunId # i
               /\ \A c \in Clients : client[c].stepRunId # i}

LeastFreshId == {i \in FreshIds : \A j \in FreshIds : i <= j}

\* What a later attempt is told about the wait that was already resolved;
\* MutReconstructName forgets the signal.
MutReconstructName(active) ==
  IF active.waitFor = None THEN NoResume
  ELSE [waitFor |-> active.waitFor, wakeAt |-> active.wakeAt # "none", payload |-> 0]

ReconstructResume(active) ==
  IF active.waitFor = None THEN NoResume
  ELSE [waitFor |-> active.waitFor, wakeAt |-> active.wakeAt # "none",
        payload |-> active.waitPayload]

\* MutNeverDone is a recovery that does not look at the status.
MutNeverDone(active) == FALSE

AlreadyDone(active) == active.status = "COMPLETED"

\* Crash recovery: the pointer names a completed step run, so its patch and its
\* transition are replayed and its handler is not.
Replay(w) ==
  LET active == ActiveInHistory(w)
  IN /\ AtLoopHead(w)
     /\ HoldsLease(w)
     /\ AlreadyDone(active)
     /\ lease' = [lease EXCEPT !.valid = TRUE]
     /\ local' = [local EXCEPT ![w].id = local[w].run.stepRunId,
                               ![w].visit = active.visit,
                               ![w].steps = @ + 1]
     /\ Goto(w, "advance")
     /\ UNCHANGED <<run, stepRuns, signals, client, used, begun>>

\* Otherwise this is an attempt: of the step run the pointer names (same id, and
\* same visit when it has a record), or of a new visit under a new id.
Prepare(w) ==
  LET active == ActiveInHistory(w)
      pointer == local[w].run.stepRunId
  IN /\ AtLoopHead(w)
     /\ HoldsLease(w)
     /\ ~AlreadyDone(active)
     /\ lease' = [lease EXCEPT !.valid = TRUE]
     /\ \E id \in IF pointer = 0 THEN LeastFreshId ELSE {pointer}, visit \in VisitOf(w, active) :
          local' = [local EXCEPT
            ![w].id = id,
            ![w].visit = visit,
            ![w].resume = IF @ = NoResume THEN ReconstructResume(active) ELSE @]
     /\ Goto(w, IF pointer = 0 THEN "point" ELSE "handler")
     /\ UNCHANGED <<run, stepRuns, signals, client, used, begun>>

\* Write down which step run is about to be attempted, before attempting it.
Point(w) ==
  /\ pc[w] = "point"
  /\ Store(Pointed(run, local[w].id))
  /\ local' = [local EXCEPT ![w].run = Pointed(@, local[w].id)]
  /\ Goto(w, "handler")
  /\ UNCHANGED <<lease, stepRuns, signals, client, used, begun>>

KeyInHand(w) == <<local[w].run.stepId, local[w].visit>>

\* The event step.started is appended (which fails when the run was pruned),
\* then the handler is called with the idempotency key of this visit.
StartHandler(w) ==
  /\ pc[w] = "handler"
  /\ IF run.status = "ABSENT"
       THEN /\ Goto(w, "release")
            /\ UNCHANGED <<local, begun>>
       ELSE /\ Goto(w, "running")
            /\ begun' = begun \cup {KeyInHand(w)}
            /\ local' = [local EXCEPT ![w].stale = IF lease.owner = w THEN @ ELSE @ + 1]
  /\ UNCHANGED <<run, lease, stepRuns, signals, client, used>>

\* The handler settles, or its timeout does (a retryable failure).
HandlerReturns(w) ==
  /\ pc[w] = "running"
  /\ \E result \in Behaviour[<<local[w].run.stepId, local[w].resume # NoResume>>] :
       /\ local' = [local EXCEPT ![w].result = result]
       /\ Goto(w, IF result.status = "waiting" THEN "watermark" ELSE "persist")
  /\ UNCHANGED <<run, lease, stepRuns, signals, client, used, begun>>

Watermark(w) ==
  /\ pc[w] = "watermark"
  /\ local' = [local EXCEPT ![w].mark = IF run.status = "ABSENT" THEN 0 ELSE Len(signals)]
  /\ Goto(w, "persist")
  /\ UNCHANGED <<run, lease, stepRuns, signals, client, used, begun>>

-----------------------------------------------------------------------------
(* Persisting the attempt, and what follows from its outcome *)

\* The step status a handler result turns into; MutRawStatus stores it as it is.
MutRawStatus(result) == result.status

StatusOf(result) ==
  CASE result.status = "completed" -> "COMPLETED"
    [] result.status = "waiting" -> "WAITING"
    [] result.status = "unknown" -> "UNKNOWN"
    [] OTHER -> "FAILED"

\* The fields #persist writes.  Only a real failure counts against the retry
\* budget, and the wait survives unless this attempt waits again.
Outcome(w) ==
  LET result == local[w].result
      old == Existing(w)
      waits == result.status = "waiting"
  IN [stepId |-> local[w].run.stepId,
      visit |-> local[w].visit,
      status |-> StatusOf(result),
      failures |-> old.failures + IF result.status \in {"failed", "unknown"} THEN 1 ELSE 0,
      retryable |-> result.status = "failed" /\ result.retryable,
      output |-> IF result.status = "completed" THEN result.to ELSE None,
      waitFor |-> IF waits THEN result.name ELSE old.waitFor,
      waitSinceSeq |-> IF waits THEN local[w].mark ELSE old.waitSinceSeq,
      wakeAt |-> IF ~waits THEN old.wakeAt ELSE IF result.wakes THEN "pending" ELSE "none",
      waitPayload |-> old.waitPayload]

\* The fields #persistFailure writes when the outcome could not be stored.
FailureOutcome(w) ==
  LET old == Existing(w)
  IN [old EXCEPT !.stepId = local[w].run.stepId, !.visit = local[w].visit,
                 !.status = "FAILED", !.failures = @ + 1, !.retryable = FALSE,
                 !.output = None]

\* INSERT for a first attempt, UPDATE (of every field but waitPayload) later.
Storable(w, rec) ==
  Existing(w).status # "ABSENT" \/ CanCreate(local[w].id, rec)

StepRunsAfter(w, rec) ==
  LET id == local[w].id
  IN IF Existing(w).status = "ABSENT" THEN [stepRuns EXCEPT ![id] = rec]
     ELSE IF ~Exists(id) THEN stepRuns
     ELSE [stepRuns EXCEPT ![id] = [rec EXCEPT !.waitPayload = stepRuns[id].waitPayload]]

\* The switch on outcome.status;
\* MutAfterRetryingAll does not ask whether the error is retryable.
MutAfterRetryingAll(w, rec) ==
  CASE rec.status = "COMPLETED" -> "advance"
    [] rec.status = "WAITING" -> "parkRun"
    [] rec.status = "UNKNOWN" -> "fail"
    [] OTHER ->
         IF ShouldRetry(MaxAttempts[rec.stepId], rec.failures) THEN "retry" ELSE "fail"

After(w, rec) ==
  CASE rec.status = "COMPLETED" -> "advance"
    [] rec.status = "WAITING" -> "parkRun"
    [] rec.status = "UNKNOWN" -> "fail"
    [] OTHER ->
         IF rec.retryable /\ ShouldRetry(MaxAttempts[rec.stepId], rec.failures)
           THEN "retry" ELSE "fail"

RecordAttempt(w, rec) ==
  /\ Storable(w, rec)
  /\ stepRuns' = StepRunsAfter(w, rec)
  /\ local' = [local EXCEPT ![w].history[local[w].id] = rec, ![w].steps = @ + 1,
                            ![w].result = NoResult, ![w].mark = 0, ![w].resume = NoResume]
  /\ Goto(w, After(w, rec))
  /\ UNCHANGED <<run, lease, signals, client, used, begun>>

Persist(w) == pc[w] = "persist" /\ RecordAttempt(w, Outcome(w))

PersistConflict(w) ==
  /\ pc[w] = "persist"
  /\ ~Storable(w, Outcome(w))
  /\ Goto(w, "persistFailure")
  /\ UNCHANGED <<run, lease, stepRuns, signals, local, client, used, begun>>

PersistFailure(w) == pc[w] = "persistFailure" /\ RecordAttempt(w, FailureOutcome(w))

PersistFailureConflict(w) ==
  /\ pc[w] = "persistFailure"
  /\ ~Storable(w, FailureOutcome(w))
  /\ Goto(w, "release")
  /\ UNCHANGED <<run, lease, stepRuns, signals, local, client, used, begun>>

\* resolveNextStep: the guarded transition the output selects, else the fallback.
ResolveNextStep(step, output) ==
  IF output \in Edges[step] THEN output ELSE Fallback[step]

\* advance merges the patch into the local context and follows the transition;
\* MutContextReplaced keeps the last patch only.
MutContextReplaced(w) == {<<Existing(w).stepId, Existing(w).visit>>}

ContextAfter(w) == local[w].run.context \cup {<<Existing(w).stepId, Existing(w).visit>>}

Complete(w) ==
  /\ pc[w] = "advance"
  /\ Edges[local[w].run.stepId] = {}
  /\ Store(Finished(run, ContextAfter(w)))
  /\ Goto(w, "release")
  /\ UNCHANGED <<lease, stepRuns, signals, local, client, used, begun>>

Advance(w) ==
  LET next == ResolveNextStep(local[w].run.stepId, Existing(w).output)
  IN /\ pc[w] = "advance"
     /\ Edges[local[w].run.stepId] # {}
     /\ next # None
     /\ Store(Moved(run, ContextAfter(w), next))
     /\ local' = [local EXCEPT ![w].run = Moved(@, ContextAfter(w), next),
                               ![w].id = 0, ![w].visit = 0]
     /\ Goto(w, "loop")
     /\ UNCHANGED <<lease, stepRuns, signals, client, used, begun>>

\* NoMatchingTransitionError leaves the tick; nothing is written.
NoMatchingTransition(w) ==
  /\ pc[w] = "advance"
  /\ Edges[local[w].run.stepId] # {}
  /\ ResolveNextStep(local[w].run.stepId, Existing(w).output) = None
  /\ Goto(w, "release")
  /\ UNCHANGED <<run, lease, stepRuns, signals, local, client, used, begun>>

ParkRun(w) ==
  /\ pc[w] = "parkRun"
  /\ Store(Parked(run, local[w].run.stepId, Existing(w).wakeAt))
  /\ Goto(w, "release")
  /\ UNCHANGED <<lease, stepRuns, signals, local, client, used, begun>>

BackOff(w) ==
  /\ pc[w] = "retry"
  /\ Store(BackingOff(run, local[w].run.stepId))
  /\ Goto(w, "release")
  /\ UNCHANGED <<lease, stepRuns, signals, local, client, used, begun>>

Fail(w) ==
  /\ pc[w] = "fail"
  /\ Store(Failed(run, local[w].run.stepId))
  /\ Goto(w, "release")
  /\ UNCHANGED <<lease, stepRuns, signals, local, client, used, begun>>

\* releaseLease matches on the owner.
Released(w) == IF lease.owner = w THEN NoLease ELSE lease

\* The finally block of tick, then the finally block of the worker's #process.
TickRelease(w) ==
  /\ pc[w] = "release"
  /\ lease' = Released(w)
  /\ Goto(w, "workerRelease")
  /\ UNCHANGED <<run, stepRuns, signals, local, client, used, begun>>

WorkerRelease(w) ==
  /\ pc[w] = "workerRelease"
  /\ lease' = Released(w)
  /\ local' = [local EXCEPT ![w] = NoLocal]
  /\ Goto(w, "idle")
  /\ UNCHANGED <<run, stepRuns, signals, client, used, begun>>

-----------------------------------------------------------------------------
(* Faults, the clock and the heartbeat *)

\* A storage call of the tick throws.  Before the try block only the worker
\* cleans up; inside the runner the attempt becomes a failure record; a release
\* that throws leaves the lease where it is.
AfterThrow(label) ==
  CASE label \in {"read", "release"} -> "workerRelease"
    [] label \in {"watermark", "persist"} -> "persistFailure"
    [] label = "workerRelease" -> "idle"
    [] OTHER -> "release"

StorageThrows(w) ==
  /\ pc[w] \notin {"idle", "running"}
  /\ Spend("throw")
  /\ Goto(w, AfterThrow(pc[w]))
  /\ local' = IF pc[w] = "workerRelease" THEN [local EXCEPT ![w] = NoLocal] ELSE local
  /\ UNCHANGED <<run, lease, stepRuns, signals, client, begun>>

\* The record was stored and only the reply is lost: the runner takes it for an
\* outcome that could not be stored.  (After a lost reply to any other write the
\* tick ends, and leaves what a crash after that write leaves.)
PersistReplyLost(w) ==
  /\ pc[w] = "persist"
  /\ Storable(w, Outcome(w))
  /\ Spend("throw")
  /\ stepRuns' = StepRunsAfter(w, Outcome(w))
  /\ Goto(w, AfterThrow("persist"))
  /\ UNCHANGED <<run, lease, signals, local, client, begun>>

\* From the claim to the end of engine.tick.
InTick(w) == pc[w] \notin {"idle", "workerRelease"}

\* The timer of startHeartbeat renews as long as the owner is unchanged; when it
\* is not, onLost only reports, so the tick goes on.
Heartbeat(w) ==
  /\ InTick(w)
  /\ lease.owner = w
  /\ ~lease.valid
  /\ lease' = [lease EXCEPT !.valid = TRUE]
  /\ UNCHANGED <<run, stepRuns, signals, pc, local, client, used, begun>>

\* Nobody renews the lease of a worker that is gone.  A live one loses its lease
\* only when its heartbeat is late for a whole lease period, which is a fault.
LeaseExpires ==
  /\ lease.valid
  /\ IF lease.owner \in Workers /\ pc[lease.owner] = "idle" THEN UNCHANGED used
     ELSE Spend("leaseLoss")
  /\ lease' = [lease EXCEPT !.valid = FALSE]
  /\ UNCHANGED <<run, stepRuns, signals, pc, local, client, begun>>

\* kill -9, and a restart under the same owner name.
Crash(w) ==
  /\ pc[w] # "idle"
  /\ Spend("crash")
  /\ Goto(w, "idle")
  /\ local' = [local EXCEPT ![w] = NoLocal]
  /\ UNCHANGED <<run, lease, stepRuns, signals, client, begun>>

Elapsed(wakeAt) == IF wakeAt = "pending" THEN "due" ELSE wakeAt

TimePasses ==
  /\ run.wakeAt = "pending" \/ \E id \in Ids : stepRuns[id].wakeAt = "pending"
  /\ run' = [run EXCEPT !.wakeAt = Elapsed(@)]
  /\ stepRuns' = [id \in Ids |-> [stepRuns[id] EXCEPT !.wakeAt = Elapsed(@)]]
  /\ UNCHANGED <<lease, signals, pc, local, client, used, begun>>

-----------------------------------------------------------------------------
(* The clients: each reads the run, then writes on the strength of it *)

ClientGoto(c, op) == client' = [client EXCEPT ![c].op = op]

ClientIdle(c) == client' = [client EXCEPT ![c] = IdleClient]

Active == run.status \notin TERMINAL_RUN_STATUSES \cup {"ABSENT"}

\* signal: requireRun, then append.
SignalRead(c) ==
  /\ client[c].op = "idle"
  /\ Active
  /\ Sendable # {}
  /\ Spend("signal")
  /\ ClientGoto(c, "append")
  /\ UNCHANGED <<run, lease, stepRuns, signals, pc, local, begun>>

SignalAppend(c) ==
  /\ client[c].op = "append"
  /\ IF run.status = "ABSENT" THEN UNCHANGED signals
     ELSE \E s \in Sendable :
            signals' = Append(signals, [name |-> s[1], stepId |-> s[2],
                                        consumed |-> FALSE, begun |-> begun])
  /\ ClientIdle(c)
  /\ UNCHANGED <<run, lease, stepRuns, pc, local, used, begun>>

\* cancel: requireRun, set the row, release the lease it saw.
CancelRead(c) ==
  /\ client[c].op = "idle"
  /\ Active
  /\ Spend("cancel")
  /\ client' = [client EXCEPT ![c] = [@ EXCEPT !.op = "cancelSet", !.owner = lease.owner]]
  /\ UNCHANGED <<run, lease, stepRuns, signals, pc, local, begun>>

CancelSet(c) ==
  /\ client[c].op = "cancelSet"
  /\ Store(Cancelled(run))
  /\ IF client[c].owner = None THEN ClientIdle(c) ELSE ClientGoto(c, "cancelRelease")
  /\ UNCHANGED <<lease, stepRuns, signals, pc, local, used, begun>>

CancelRelease(c) ==
  /\ client[c].op = "cancelRelease"
  /\ lease' = Released(client[c].owner)
  /\ ClientIdle(c)
  /\ UNCHANGED <<run, stepRuns, signals, pc, local, used, begun>>

\* reconcile: requireRun, and the run must have FAILED.
ReconcileRead(c) ==
  /\ client[c].op = "idle"
  /\ run.status = "FAILED"
  /\ Spend("reconcile")
  /\ \E op \in {"retryReset", "abandonSet"} :
       client' = [client EXCEPT ![c] = [@ EXCEPT !.op = op, !.stepRunId = run.stepRunId]]
  /\ UNCHANGED <<run, lease, stepRuns, signals, pc, local, begun>>

\* "retry": reset the failures of the active step run, then reopen the run.
ReconcileReset(c) ==
  LET id == client[c].stepRunId
  IN /\ client[c].op = "retryReset"
     /\ stepRuns' = IF Exists(id) THEN [stepRuns EXCEPT ![id].failures = 0] ELSE stepRuns
     /\ ClientGoto(c, "retrySet")
     /\ UNCHANGED <<run, lease, signals, pc, local, used, begun>>

ReconcileReopen(c) ==
  /\ client[c].op = "retrySet"
  /\ Store(Reopened(run))
  /\ ClientIdle(c)
  /\ UNCHANGED <<lease, stepRuns, signals, pc, local, used, begun>>

ReconcileAbandon(c) ==
  /\ client[c].op = "abandonSet"
  /\ Store(Cancelled(run))
  /\ ClientIdle(c)
  /\ UNCHANGED <<lease, stepRuns, signals, pc, local, used, begun>>

\* prune: delete the run if it ended before the cut-off, and all it owns.
Prune ==
  /\ run.status \in TERMINAL_RUN_STATUSES
  /\ run.completedAt
  /\ Spend("prune")
  /\ run' = NoRun
  /\ lease' = NoLease
  /\ stepRuns' = NoStepRuns
  /\ signals' = <<>>
  /\ UNCHANGED <<pc, local, client, begun>>

-----------------------------------------------------------------------------
(* The specification *)

\* The row start() inserts; start itself publishes the definition first.
Init ==
  /\ run = [NoRun EXCEPT !.status = "CREATED", !.stepId = Start]
  /\ lease = NoLease
  /\ stepRuns = NoStepRuns
  /\ signals = <<>>
  /\ pc = [w \in Workers |-> "idle"]
  /\ local = [w \in Workers |-> NoLocal]
  /\ client = [c \in Clients |-> IdleClient]
  /\ used = [f \in Faults |-> 0]
  /\ begun = {}

\* One tick, from reading the run to letting go of it.
Tick(w) ==
  \/ ReadRun(w) \/ ListByRun(w) \/ GetActive(w) \/ Begin(w)
  \/ ConsumeNext(w) \/ NothingToConsume(w) \/ SavePayload(w) \/ ResumeRun(w)
  \/ ParkAgain(w)
  \/ LoopExit(w) \/ RenewFails(w) \/ Replay(w) \/ Prepare(w) \/ Point(w)
  \/ StartHandler(w) \/ HandlerReturns(w) \/ Watermark(w)
  \/ Persist(w) \/ PersistConflict(w) \/ PersistFailure(w) \/ PersistFailureConflict(w)
  \/ Complete(w) \/ Advance(w) \/ NoMatchingTransition(w)
  \/ ParkRun(w) \/ BackOff(w) \/ Fail(w)
  \/ TickRelease(w) \/ WorkerRelease(w)

ClientStep(c) ==
  \/ SignalRead(c) \/ SignalAppend(c)
  \/ CancelRead(c) \/ CancelSet(c) \/ CancelRelease(c)
  \/ ReconcileRead(c) \/ ReconcileReset(c) \/ ReconcileReopen(c) \/ ReconcileAbandon(c)

Next ==
  \/ \E w \in Workers : \/ ClaimDue(w) \/ Tick(w) \/ StorageThrows(w)
                        \/ PersistReplyLost(w) \/ Heartbeat(w) \/ Crash(w)
  \/ \E c \in Clients : ClientStep(c)
  \/ LeaseExpires \/ TimePasses \/ Prune

Spec == Init /\ [][Next]_vars

\* Workers never stop polling and a tick that can go on does; a handler settles
\* (its timeout sees to that); a lease nobody renews runs out; time passes.
\* Clients owe nothing, and faults need not happen.
Fairness ==
  /\ \A w \in Workers : WF_vars(Tick(w)) /\ WF_vars(ClaimDue(w))
  /\ WF_vars(LeaseExpires /\ UNCHANGED used)
  /\ WF_vars(TimePasses)

FairSpec == Spec /\ Fairness

-----------------------------------------------------------------------------
(* Safety *)

\* The two events after which two workers may drive one run: a live worker
\* lost its lease, or a cancellation took it away.
Undisturbed == used["leaseLoss"] = 0 /\ used["cancel"] = 0

\* "At any time one run is driven by one worker": as long as no live worker's
\* lease ran out and nobody cancelled, at most one worker is inside a tick,
\* whatever crashes, storage errors and releases happened before.
SingleDriver ==
  Undisturbed => \A v, w \in Workers : InTick(v) /\ InTick(w) => v = w

\* No tick has ended between two of its writes.
NothingInterrupted == used["crash"] = 0 /\ used["throw"] = 0

\* A worker whose lease is gone notices at the next loop head: it starts at
\* most one handler without holding the lease, whoever took it and however.
OneStaleHandler == \A w \in Workers : local[w].stale <= 1

Done(key) ==
  \E id \in Ids : /\ stepRuns[id].status = "COMPLETED"
                  /\ <<stepRuns[id].stepId, stepRuns[id].visit>> = key

StartsHandler(w) == pc[w] = "handler" /\ pc'[w] = "running"

\* Steps run strictly one after the other, crashes included: a handler starts
\* only when every other idempotency key ever used belongs to a visit that has
\* completed and whose patch is in the context this handler will read.  So a
\* step interrupted by a crash is resumed under the key it had.
OneStepAtATime ==
  [][\A w \in Workers : StartsHandler(w) /\ Undisturbed =>
       \A key \in begun \ {KeyInHand(w)} :
         Done(key) /\ key \in local[w].run.context]_vars

\* The side effects of a visit that completed are never replayed: its patch and
\* its transition are, when a crash fell between the two writes.
CompletedNotReplayed ==
  [][\A w \in Workers : StartsHandler(w) /\ Undisturbed => ~Done(KeyInHand(w))]_vars

\* The context is the patches of the completed visits, each merged when the run
\* left the step: nothing is lost or invented by a crash between the writes.
ContextIsHistory ==
  Undisturbed /\ run.status # "ABSENT" =>
    run.context = {<<stepRuns[id].stepId, stepRuns[id].visit>> : id \in
                     {i \in Ids : stepRuns[i].status = "COMPLETED" /\ i # run.stepRunId}}

\* A run left WAITING with no worker inside a tick really waits: its pointer
\* names a step run of its current step that waits for a name, and the row has
\* a deadline exactly when the wait has one.  (Otherwise nothing would wake it.)
ParkedRunWaits ==
  /\ Undisturbed
  /\ run.status = "WAITING"
  /\ \A w \in Workers : ~InTick(w)
  => /\ Exists(run.stepRunId)
     /\ LET wait == stepRuns[run.stepRunId]
        IN /\ wait.status = "WAITING"
           /\ wait.waitFor # None
           /\ wait.stepId = run.stepId
           /\ (wait.wakeAt = "none") <=> (run.wakeAt = "none")

\* A signal reaches the wait it was meant for: a directed one only a step run of
\* its step, an undirected one only a step run whose handler had been started
\* when the signal was sent (an early approval of one gate never opens the
\* next), and one signal never serves two step runs.  (Two workers that drive
\* one run may write one step run under two keys, and then nothing is promised.)
SignalsReachTheirWait ==
  Undisturbed =>
    \A id \in Ids :
      LET rec == stepRuns[id]
          seq == rec.waitPayload
      IN rec.status # "ABSENT" /\ seq # 0 =>
           /\ seq \in DOMAIN signals
           /\ signals[seq].consumed
           /\ IF signals[seq].stepId # None
                THEN signals[seq].stepId = rec.stepId
                ELSE <<rec.stepId, rec.visit>> \in signals[seq].begun
           /\ \A other \in Ids : stepRuns[other].waitPayload = seq => other = id

\* Every attempt at a step that has waited is told the name it waits for and the
\* signal kept on the step run: a failed attempt, a retry and a reconciliation
\* lose neither.  Only an attempt at a step run that still waits, made because
\* its deadline passed, is told of no signal.  The signal kept there may be that of
\* an earlier wait, or, after a crash between SavePayload and the next record of
\* the attempt, the one that had just ended this wait: such a crash does lose it
\* for the handler, see ConsumedSignalWakes.
ResumeKept ==
  [][\A w \in Workers :
       LET rec == stepRuns[local[w].id]
           resume == local[w].resume
       IN StartsHandler(w) /\ Undisturbed /\ rec.waitFor # None =>
            /\ resume.waitFor = rec.waitFor
            /\ \/ resume.payload = rec.waitPayload
               \/ rec.status = "WAITING" /\ resume.wakeAt /\ resume.payload = 0]_vars

\* A step run that is not to be retried: an unknown outcome, an error that is
\* not retryable, or a spent retry budget.
Settled(rec) ==
  \/ rec.status = "UNKNOWN"
  \/ /\ rec.status = "FAILED"
     /\ ~(rec.retryable /\ ShouldRetry(MaxAttempts[rec.stepId], rec.failures))

\* Unless the process died or a storage call threw between the two writes, a
\* settled step run is attempted again only after a reconciliation has reset
\* its failures.
OnlyReconcileRevives ==
  [][\A w \in Workers :
       /\ StartsHandler(w)
       /\ Undisturbed
       /\ NothingInterrupted
       /\ Settled(stepRuns[local[w].id])
       => stepRuns[local[w].id].failures = 0]_vars

\* Nothing outlives a pruned run: a tick or a client that still works on it
\* cannot leave a step run or a signal behind.
NoOrphans == run.status = "ABSENT" => stepRuns = NoStepRuns /\ signals = <<>>

\* The engine, seen through the row, implements the walk of RunWalk.
Walk == INSTANCE RunWalk WITH status <- run.status, stepId <- run.stepId,
                              context <- run.context

ImplementsWalk == Walk!WalkSpec

-----------------------------------------------------------------------------
(* Liveness *)

\* A run that has not ended and names no step.  Every tick that claims it throws
\* (core/engine.ts:417-421), and nothing gives it a step again.
Stuck == Active /\ run.stepId = None

\* No run is forgotten: again and again its status is terminal, or it sleeps in a
\* wait that has neither a deadline nor a usable signal.  Crashes delay it only.
\* After a lost lease or a cancellation it may also be stuck, because a worker
\* that no longer holds the lease has written RUNNING over COMPLETED (how is what
\* CancelledComesToRest shows); nothing else is excused even then.
RunEnds ==
  []<>(\/ run.status \in TERMINAL_RUN_STATUSES \cup {"ABSENT"}
       \/ run.status = "WAITING" /\ run.wakeAt = "none" /\ ~HasPendingSignal
       \/ ~Undisturbed /\ Stuck)

\* A signal that a wait may use is consumed, or the run ends without it.
SignalIsConsumed ==
  HasPendingSignal ~> ~HasPendingSignal

\* A signal was taken from the queue, and no handler has been given it: no step
\* run it was taken for has been attempted since.
Undelivered ==
  \E seq \in DOMAIN signals :
    /\ signals[seq].consumed
    /\ \A id \in Ids : stepRuns[id].waitPayload = seq => stepRuns[id].status = "WAITING"

\* A signal taken from the queue is handed to a handler, unless a tick is cut
\* short by a crash or a storage error.
SignalNotLost == Undelivered ~> (~Undelivered \/ ~NothingInterrupted)

-----------------------------------------------------------------------------
(* What the documentation says and the code does not do: each of these is  *)
(* the subject of a run that TLC refutes.                                  *)

\* runtime/run.ts:9-13 and docs/architecture.md:370: no edge leaves CANCELLED, no
\* further step is driven.  So a run that was cancelled comes to rest: from some
\* moment on its status stays terminal.
CancelledComesToRest ==
  [](run.status = "CANCELLED" => <>[](run.status \in TERMINAL_RUN_STATUSES \cup {"ABSENT"}))

\* docs/architecture.md:144: an UNKNOWN outcome is never retried automatically,
\* that is, unless a reconciliation reset the failures of the step run.
UnknownNeverRetried ==
  [][\A w \in Workers :
       StartsHandler(w) /\ stepRuns[local[w].id].status = "UNKNOWN"
         => stepRuns[local[w].id].failures = 0]_vars

\* runtime/signal.ts:14: a signal that has arrived is not lost when the process
\* crashes: once consumed it is handed to a handler.
ConsumedSignalWakes == Undelivered ~> ~Undelivered

\* core/engine.ts:805: once a step has waited, every later attempt is given the
\* same resume.  The attempt a signal wakes is given its payload and no deadline,
\* so no later attempt may be told of both.
SameResume ==
  [][\A w \in Workers :
       StartsHandler(w) /\ local[w].resume.payload # 0 => ~local[w].resume.wakeAt]_vars
=============================================================================
