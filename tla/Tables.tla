------------------------------- MODULE Tables -------------------------------
(***************************************************************************)
(* The storage the engine relies on, as the SQL of src/src/storage/        *)
(* postgres.ts and schema.ts defines it: the tables workflow_runs,         *)
(* workflow_step_runs, workflow_signals and workflow_events, one statement *)
(* per action.                                                             *)
(*                                                                         *)
(* A table is the sequence of its rows in the order of the identity column *)
(* seq, the tables that hang off a run one sequence per run.  Columns  *)
(* that no WHERE, ORDER BY or constraint mentions are left out, but for    *)
(* the payload of a wait.  Timestamps are the numbers in Times.            *)
(***************************************************************************)
EXTENDS Runtime, Sublists, Sequences

CONSTANTS
  RunIds, StepRunIds, SignalIds, EventIds,
  Owners,          \* lease owners
  Times,           \* timestamps callers pass
  LeaseMs,         \* how long a lease is granted for
  Limits,          \* values of LIMIT
  NewRuns,         \* rows callers insert into workflow_runs
  RunPatches,      \* run id -> what they SET there: some columns and their values
  NewStepRuns,
  StepRunPatches,  \* step run id -> what they SET there
  NewSignals, NewEvents,
  MaxSeq,          \* bound: values of the identity column of the signals
  None             \* NULL

VARIABLES
  runs,       \* the rows of workflow_runs, in the order of seq
  stepRuns,   \* run id -> its rows of workflow_step_runs, in the order of seq
  signals,    \* run id -> its rows of workflow_signals, in the order of seq
  events,     \* run id -> its rows of workflow_events, in the order of seq
  lastSeq,    \* the identity value given out last
  reply       \* what the last statement told its caller

vars == <<runs, stepRuns, signals, events, lastSeq, reply>>

Replies == {"ok", "no", "conflict", "error"}

Rows(table) == {table[i] : i \in DOMAIN table}

RunExists(r) == \E row \in Rows(runs) : row.id = r

AllStepRuns == UNION {Rows(stepRuns[r]) : r \in RunIds}

AllSignals == UNION {Rows(signals[r]) : r \in RunIds}

AllEvents == UNION {Rows(events[r]) : r \in RunIds}

\* UPDATE ... SET: the columns of the patch, the others as they were.
Patched(row, patch) == [f \in DOMAIN row |-> IF f \in DOMAIN patch THEN patch[f] ELSE row[f]]

UpdateRows(table, id, patch) ==
  [i \in DOMAIN table |-> IF table[i].id = id THEN Patched(table[i], patch) ELSE table[i]]

\* ORDER BY created_at, seq LIMIT limit.
First(table, where, limit) ==
  {i \in where : limit > Cardinality({j \in where :
      \/ table[j].createdAt < table[i].createdAt
      \/ table[j].createdAt = table[i].createdAt /\ j < i})}

Init ==
  /\ runs = << >>
  /\ stepRuns = [r \in RunIds |-> << >>]
  /\ signals = [r \in RunIds |-> << >>]
  /\ events = [r \in RunIds |-> << >>]
  /\ lastSeq = 0
  /\ reply = "ok"

Refused(why) == reply' = why /\ UNCHANGED <<runs, stepRuns, signals, events, lastSeq>>

-----------------------------------------------------------------------------
\* workflow_runs
CreateRun(new) ==
  IF RunExists(new.id)
    THEN Refused("conflict")
    ELSE /\ runs' = Append(runs, new)
         /\ reply' = "ok"
         /\ UNCHANGED <<stepRuns, signals, events, lastSeq>>

UpdateRun(id, patch) ==
  /\ runs' = UpdateRows(runs, id, patch)
  /\ reply' = "ok"
  /\ UNCHANGED <<stepRuns, signals, events, lastSeq>>

\* The rule CLAIM_DUE_SQL and CONSUME_SIGNAL_SQL share.
Usable(signal, name, stepId, sinceSeq) ==
  /\ signal.name = name
  /\ ~signal.consumed
  /\ \/ signal.stepId # None /\ signal.stepId = stepId
     \/ signal.stepId = None /\ signal.seq > sinceSeq

\* CLAIM_DUE_SQL
Claimable(row, at) ==
  /\ row.status \in CLAIMABLE_RUN_STATUSES
  /\ row.leaseExpiresAt = None \/ row.leaseExpiresAt < at
  /\ IF row.status # "WAITING"
       THEN row.wakeAt = None \/ row.wakeAt <= at
       ELSE \/ row.wakeAt # None /\ row.wakeAt <= at
            \/ \E s \in Rows(signals[row.id]), sr \in AllStepRuns :
                 /\ sr.id = row.currentStepRunId
                 /\ sr.waitFor # None
                 /\ Usable(s, sr.waitFor, sr.stepId, sr.waitSinceSeq)

ClaimDue(owner, at, limit) ==
  LET claimed == First(runs, {i \in DOMAIN runs : Claimable(runs[i], at)}, limit)
  IN  /\ runs' = [i \in DOMAIN runs |->
                    IF i \in claimed
                      THEN Patched(runs[i], [leaseOwner |-> owner, leaseExpiresAt |-> at + LeaseMs])
                      ELSE runs[i]]
      /\ reply' = IF claimed = {} THEN "no" ELSE "ok"
      /\ UNCHANGED <<stepRuns, signals, events, lastSeq>>

Owned(id, owner) == \E row \in Rows(runs) : row.id = id /\ row.leaseOwner = owner

RenewLease(id, owner, at) ==
  IF Owned(id, owner)
    THEN /\ runs' = UpdateRows(runs, id, [leaseExpiresAt |-> at + LeaseMs])
         /\ reply' = "ok"
         /\ UNCHANGED <<stepRuns, signals, events, lastSeq>>
    ELSE Refused("no")

ReleaseLease(id, owner) ==
  IF Owned(id, owner)
    THEN /\ runs' = UpdateRows(runs, id, [leaseOwner |-> None, leaseExpiresAt |-> None])
         /\ reply' = "ok"
         /\ UNCHANGED <<stepRuns, signals, events, lastSeq>>
    ELSE Refused("ok")

\* DELETE ... ON DELETE CASCADE
DeleteTerminalBefore(before, limit) ==
  LET old     == {i \in DOMAIN runs : /\ runs[i].status \in TERMINAL_RUN_STATUSES
                                      /\ runs[i].completedAt # None
                                      /\ runs[i].completedAt < before}
      victims == {runs[i].id : i \in First(runs, old, limit)}
  IN  /\ runs' = Keep(runs, {i \in DOMAIN runs : runs[i].id \notin victims})
      /\ stepRuns' = [r \in RunIds |-> IF r \in victims THEN << >> ELSE stepRuns[r]]
      /\ signals' = [r \in RunIds |-> IF r \in victims THEN << >> ELSE signals[r]]
      /\ events' = [r \in RunIds |-> IF r \in victims THEN << >> ELSE events[r]]
      /\ reply' = IF victims = {} THEN "no" ELSE "ok"
      /\ UNCHANGED lastSeq

-----------------------------------------------------------------------------
\* workflow_step_runs
CreateStepRun(new) ==
  IF ~RunExists(new.runId) \/ \E sr \in AllStepRuns : sr.id = new.id \/ sr.key = new.key
    THEN Refused("conflict")
    ELSE /\ stepRuns' = [stepRuns EXCEPT ![new.runId] = Append(@, new)]
         /\ reply' = "ok"
         /\ UNCHANGED <<runs, signals, events, lastSeq>>

\* A patched value goes to $n::jsonb as the driver sends it: an object as JSON, a
\* string as its bare text, which is not JSON.
NotJson(patch) == "waitPayload" \in DOMAIN patch /\ patch.waitPayload = "text"

UpdateStepRun(id, patch) ==
  IF NotJson(patch)
    THEN Refused("error")
  ELSE IF "key" \in DOMAIN patch /\ \E sr \in AllStepRuns : sr.id # id /\ sr.key = patch.key
    THEN Refused("conflict")
    ELSE /\ stepRuns' = [r \in RunIds |-> UpdateRows(stepRuns[r], id, patch)]
         /\ reply' = "ok"
         /\ UNCHANGED <<runs, signals, events, lastSeq>>

-----------------------------------------------------------------------------
\* workflow_signals
\* The identity column may leave gaps.
AppendSignal(new) ==
  IF ~RunExists(new.runId) \/ \E s \in AllSignals : s.id = new.id
    THEN Refused("conflict")
    ELSE \E seq \in (lastSeq + 1)..MaxSeq :
           /\ signals' = [signals EXCEPT ![new.runId] = Append(@,
                [id |-> new.id, runId |-> new.runId, name |-> new.name, stepId |-> new.stepId,
                 createdAt |-> new.createdAt, seq |-> seq, consumed |-> FALSE])]
           /\ lastSeq' = seq
           /\ reply' = "ok"
           /\ UNCHANGED <<runs, stepRuns, events>>

\* CONSUME_SIGNAL_SQL
ConsumeNext(runId, name, stepId, sinceSeq) ==
  LET queue  == signals[runId]
      oldest == First(queue, {i \in DOMAIN queue : Usable(queue[i], name, stepId, sinceSeq)}, 1)
  IN  IF oldest = {}
        THEN Refused("no")
        ELSE /\ signals' = [signals EXCEPT ![runId] =
                   [i \in DOMAIN queue |-> IF i \in oldest THEN [queue[i] EXCEPT !.consumed = TRUE]
                                           ELSE queue[i]]]
             /\ reply' = "ok"
             /\ UNCHANGED <<runs, stepRuns, events, lastSeq>>

-----------------------------------------------------------------------------
\* workflow_events
AppendEvent(new) ==
  IF ~RunExists(new.runId) \/ \E e \in AllEvents : e.id = new.id
    THEN Refused("conflict")
    ELSE /\ events' = [events EXCEPT ![new.runId] = Append(@, new)]
         /\ reply' = "ok"
         /\ UNCHANGED <<runs, stepRuns, signals, lastSeq>>

-----------------------------------------------------------------------------
\* Reads.
GetByIdempotencyKey(key) == {sr \in AllStepRuns : sr.key = key}

\* ORDER BY visit DESC, seq DESC LIMIT 1
FindLatest(r, stepId) ==
  LET rows == {i \in DOMAIN stepRuns[r] : stepRuns[r][i].stepId = stepId}
  IN  {stepRuns[r][i] : i \in {j \in rows : \A k \in rows :
         \/ stepRuns[r][k].visit < stepRuns[r][j].visit
         \/ stepRuns[r][k].visit = stepRuns[r][j].visit /\ k <= j}}

Watermark(r) ==
  IF signals[r] = << >> THEN 0 ELSE signals[r][Len(signals[r])].seq

CountPending(r) == Cardinality({s \in Rows(signals[r]) : ~s.consumed})

\* The cursor is looked up among the events of the run, then the page is the events
\* whose seq is higher.
Cursor(rows, after) == {i \in DOMAIN rows : rows[i].id = after}

PageRefused(r, after) == after # None /\ Cursor(events[r], after) = {}

Page(r, after, limit) ==
  LET rows  == events[r]
      later == {i \in DOMAIN rows : \A c \in Cursor(rows, after) : i > c}
  IN  {rows[i] : i \in {j \in later : Cardinality({k \in later : k < j}) < limit}}

Next ==
  \/ \E new \in NewRuns : CreateRun(new)
  \/ \E id \in RunIds : \E patch \in RunPatches[id] : UpdateRun(id, patch)
  \/ \E id \in RunIds, owner \in Owners, at \in Times : RenewLease(id, owner, at)
  \/ \E id \in RunIds, owner \in Owners : ReleaseLease(id, owner)
  \/ \E before \in Times, limit \in Limits : DeleteTerminalBefore(before, limit)
  \/ \E new \in NewStepRuns : CreateStepRun(new)
  \/ \E id \in StepRunIds : \E patch \in StepRunPatches[id] : UpdateStepRun(id, patch)
  \/ \E new \in NewSignals : AppendSignal(new)
  \/ \E sr \in AllStepRuns :
       sr.waitFor # None /\ ConsumeNext(sr.runId, sr.waitFor, sr.stepId, sr.waitSinceSeq)
  \/ \E new \in NewEvents : AppendEvent(new)
  \/ \E owner \in Owners, at \in Times, limit \in Limits : ClaimDue(owner, at, limit)

Spec == Init /\ [][Next]_vars
=============================================================================
