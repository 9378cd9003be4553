---------------------------- MODULE EngineProofs ----------------------------
(***************************************************************************)
(* Theorems about module Engine, for every number of workers and clients,  *)
(* every definition, every handler behaviour and every fault budget.       *)
(***************************************************************************)
EXTENDS Engine, TLAPS

-----------------------------------------------------------------------------
(* Rows: every patch turns a run row into a run row *)

\* Ids are positive, so that 0 can be the null id.
LEMMA NullId == 0 \in IdOrNull /\ 0 \notin Ids /\ IdOrNull = Ids \cup {0}
  BY EngineAssumption DEF IdOrNull, Ids

\* Every patch of setRun keeps the row well typed.
LEMMA RowTypes ==
  /\ \A r \in Run : Started(r) \in Run
  /\ \A r \in Run : Resumed(r) \in Run
  /\ \A r \in Run, id \in IdOrNull : Pointed(r, id) \in Run
  /\ \A r \in Run, s \in Steps \cup {None}, t \in WakeAt : Parked(r, s, t) \in Run
  /\ \A r \in Run, context \in SUBSET Key, s \in Steps \cup {None} : Moved(r, context, s) \in Run
  /\ \A r \in Run, context \in SUBSET Key : Finished(r, context) \in Run
  /\ \A r \in Run, s \in Steps \cup {None} : BackingOff(r, s) \in Run
  /\ \A r \in Run, s \in Steps \cup {None} : Failed(r, s) \in Run
  /\ \A r \in Run : Cancelled(r) \in Run
  /\ \A r \in Run : Reopened(r) \in Run
<1>s. {"RUNNING", "WAITING", "RETRYING", "COMPLETED", "FAILED", "CANCELLED"} \subseteq RunStatus
  BY DEF RunStatus, TERMINAL_RUN_STATUSES, CLAIMABLE_RUN_STATUSES
<1>t. "none" \in WakeAt /\ "pending" \in WakeAt
  BY DEF WakeAt
<1>n. 0 \in IdOrNull /\ None \in Steps \cup {None}
  BY NullId
<1> USE <1>s, <1>t, <1>n DEF Run
<1>1. \A r \in Run : Started(r) \in Run
  BY DEF Started
<1>2. \A r \in Run : Resumed(r) \in Run
  BY DEF Resumed
<1>3. \A r \in Run, id \in IdOrNull : Pointed(r, id) \in Run
  BY DEF Pointed
<1>4. \A r \in Run, s \in Steps \cup {None}, t \in WakeAt : Parked(r, s, t) \in Run
  BY DEF Parked
<1>5. \A r \in Run, context \in SUBSET Key, s \in Steps \cup {None} : Moved(r, context, s) \in Run
  BY DEF Moved
<1>6. \A r \in Run, context \in SUBSET Key : Finished(r, context) \in Run
  BY DEF Finished
<1>7. \A r \in Run, s \in Steps \cup {None} : BackingOff(r, s) \in Run
  BY DEF BackingOff
<1>8. \A r \in Run, s \in Steps \cup {None} : Failed(r, s) \in Run
  BY DEF Failed
<1>9. \A r \in Run : Cancelled(r) \in Run
  BY DEF Cancelled
<1>10. \A r \in Run : Reopened(r) \in Run
  BY DEF Reopened
<1> QED BY <1>1, <1>2, <1>3, <1>4, <1>5, <1>6, <1>7, <1>8, <1>9, <1>10

\* A row written by setRun is a row, whether or not the run still exists.
LEMMA StoreType ==
  ASSUME run \in Run, NEW row \in Run, Store(row)
  PROVE  run' \in Run
  BY DEF Store

\* The empty values are values of their types.
LEMMA EmptyTypes ==
  /\ NoRun \in Run
  /\ NoStepRun \in StepRun
  /\ NoStepRuns \in [Ids -> StepRun]
  /\ NoResume \in Resume
  /\ NoResult \in Result
  /\ NoLocal \in Local
<1>1. NoRun \in Run
  BY NullId DEF NoRun, Run, RunStatus, WakeAt
<1>2. NoStepRun \in StepRun
  BY DEF NoStepRun, StepRun, StepStatus, WakeAt
<1>3. NoStepRuns \in [Ids -> StepRun]
  BY <1>2 DEF NoStepRuns
<1>4. NoResume \in Resume
  BY DEF NoResume, Resume
<1>5. NoResult \in Result
  BY DEF NoResult, Result
<1>6. NoLocal \in Local
  BY <1>1, <1>2, <1>3, <1>4, <1>5, NullId DEF NoLocal, Local
<1> QED BY <1>1, <1>2, <1>3, <1>4, <1>5, <1>6

-----------------------------------------------------------------------------
(* Type correctness.  TypeOK alone is not inductive: a handler's results are *)
(* typed only if the worker stands on a step, a patch is merged only if the  *)
(* record in hand exists, and an existing record names a step.               *)

Recorded(rec) == rec.status # "ABSENT" => rec.stepId \in Steps

\* The labels between the loop head and the next write of the run's row.
HandLabels == {"point", "handler", "running", "watermark", "persist",
               "persistFailure", "advance", "parkRun", "retry", "fail"}

LocalOK(rec, label) ==
  /\ rec \in Local
  /\ Recorded(rec.wait)
  /\ \A id \in Ids : Recorded(rec.history[id])
  /\ label \in HandLabels => rec.id \in Ids /\ rec.run.stepId \in Steps
  /\ label = "advance" => rec.history[rec.id].status = "COMPLETED"

TypeInv ==
  /\ TypeOK
  /\ \A id \in Ids : Recorded(stepRuns[id])
  /\ \A w \in Workers : LocalOK(local[w], pc[w])

\* Everything in TypeInv but the workers' part.
SharedOK ==
  /\ run \in Run
  /\ lease \in [owner: Workers \cup {None}, valid: BOOLEAN]
  /\ stepRuns \in [Ids -> StepRun]
  /\ \A id \in Ids : Recorded(stepRuns[id])
  /\ signals \in Seq(Signal)
  /\ client \in [Clients -> [op: ClientOps, owner: Workers \cup {None}, stepRunId: IdOrNull]]
  /\ used \in [Faults -> Nat]
  /\ begun \in SUBSET Key

\* A step that moves one worker keeps TypeInv if that worker's part and the
\* shared part stay correct.
LEMMA OneWorkerMoves ==
  ASSUME TypeInv, NEW w \in Workers,
         pc' = [pc EXCEPT ![w] = pc'[w]],
         local' = [local EXCEPT ![w] = local'[w]],
         pc'[w] \in Labels, LocalOK(local'[w], pc'[w]), SharedOK'
  PROVE  TypeInv'
<1>1. pc' \in [Workers -> Labels] /\ local' \in [Workers -> Local]
  BY DEF TypeInv, TypeOK, LocalOK
<1>2. ASSUME NEW v \in Workers PROVE LocalOK(local'[v], pc'[v])
  <2>1. CASE v = w
    BY <2>1
  <2>2. CASE v # w
    <3>1. local'[v] = local[v] /\ pc'[v] = pc[v]
      BY <2>2 DEF TypeInv, TypeOK
    <3> QED BY <3>1 DEF TypeInv
  <2> QED BY <2>1, <2>2
<1> QED BY <1>1, <1>2 DEF TypeInv, TypeOK, SharedOK

\* A step that writes the row of the run and nothing else that is shared.
LEMMA RowWritten ==
  ASSUME SharedOK, NEW row \in Run, Store(row),
         UNCHANGED <<lease, stepRuns, signals, client, used, begun>>
  PROVE  SharedOK'
  BY StoreType DEF SharedOK

\* A step that writes the lease and nothing else that is shared.
LEMMA LeaseWritten ==
  ASSUME SharedOK, lease' \in [owner: Workers \cup {None}, valid: BOOLEAN],
         UNCHANGED <<run, stepRuns, signals, client, used, begun>>
  PROVE  SharedOK'
  BY DEF SharedOK

\* A step that leaves all that is shared alone.
LEMMA NothingWritten ==
  ASSUME SharedOK, UNCHANGED <<run, lease, stepRuns, signals, client, used, begun>>
  PROVE  SharedOK'
  BY DEF SharedOK

\* Releasing a lease yields a lease.
LEMMA ReleasedType ==
  ASSUME SharedOK, NEW w
  PROVE  Released(w) \in [owner: Workers \cup {None}, valid: BOOLEAN]
  BY DEF SharedOK, Released, NoLease

\* The locals of a worker that is between two ticks.
LEMMA NoLocalOK ==
  ASSUME NEW label, label \notin HandLabels
  PROVE  LocalOK(NoLocal, label)
<1>1. NoLocal.wait = NoStepRun /\ NoLocal.history = NoStepRuns
  BY DEF NoLocal
<1>2. Recorded(NoStepRun)
  BY DEF Recorded, NoStepRun
<1>3. \A id \in Ids : NoStepRuns[id] = NoStepRun
  BY DEF NoStepRuns
<1> QED BY EmptyTypes, <1>1, <1>2, <1>3 DEF LocalOK, HandLabels

\* Leaving the part of the tick that has a step in hand asks nothing.
LEMMA HandEmptied ==
  ASSUME NEW rec, NEW label, NEW other, LocalOK(rec, label), other \notin HandLabels
  PROVE  LocalOK(rec, other)
  BY DEF LocalOK, HandLabels

\* Paying for a fault keeps the budgets numbers.
LEMMA SpendType ==
  ASSUME used \in [Faults -> Nat], NEW f \in Faults, Spend(f)
  PROVE  used' \in [Faults -> Nat]
  BY DEF Spend

\* A step run that was handed a payload is a step run.
LEMMA WithPayload ==
  ASSUME NEW rec \in StepRun, Recorded(rec), NEW n \in Nat
  PROVE  /\ [rec EXCEPT !.waitPayload = n] \in StepRun
         /\ Recorded([rec EXCEPT !.waitPayload = n])
  BY DEF StepRun, Recorded

\* A new copy of the row.
LEMMA LocalRun ==
  ASSUME NEW rec, NEW label, NEW other, LocalOK(rec, label), NEW r \in Run,
         other \in HandLabels =>
           label \in HandLabels /\ other # "advance" /\ r.stepId = rec.run.stepId
  PROVE  LocalOK([rec EXCEPT !.run = r], other)
<1>1. [rec EXCEPT !.run = r] \in Local
  BY DEF LocalOK, Local
<1>2. /\ [rec EXCEPT !.run = r].run = r
      /\ [rec EXCEPT !.run = r].id = rec.id
      /\ [rec EXCEPT !.run = r].wait = rec.wait
      /\ [rec EXCEPT !.run = r].history = rec.history
  BY DEF LocalOK, Local
<1> QED BY <1>1, <1>2 DEF LocalOK, HandLabels

\* A new copy of the row, at a label where no step is in hand.
LEMMA LocalRunFree ==
  ASSUME NEW rec, NEW label, NEW other, LocalOK(rec, label), NEW r \in Run,
         other \notin HandLabels
  PROVE  LocalOK([rec EXCEPT !.run = r], other)
  BY LocalRun

\* The types of a worker's locals, field by field.
LEMMA LocalFields ==
  ASSUME NEW rec \in Local
  PROVE  /\ rec.run \in Run
         /\ rec.run.stepId \in Steps \cup {None}
         /\ rec.run.stepRunId \in IdOrNull
         /\ rec.run.context \in SUBSET Key
         /\ rec.history \in [Ids -> StepRun]
         /\ rec.wait \in StepRun
         /\ rec.wait.wakeAt \in WakeAt
         /\ rec.id \in IdOrNull
         /\ rec.visit \in Nat
         /\ rec.resume \in Resume
         /\ rec.result \in Result
         /\ rec.mark \in Nat
         /\ rec.steps \in Nat
         /\ rec.stale \in Nat
  BY DEF Local, Run, StepRun

\* The fields that the end of an attempt resets.
LEMMA AttemptResets ==
  ASSUME NEW rec \in Local, NEW new,
         new = [rec EXCEPT !.result = NoResult, !.mark = 0, !.resume = NoResume]
  PROVE  new \in Local
  BY EmptyTypes DEF Local

\* The fields that an advance resets.
LEMMA AdvanceResets ==
  ASSUME NEW rec \in Local, NEW r \in Run, NEW new,
         new = [rec EXCEPT !.run = r, !.id = 0, !.visit = 0]
  PROVE  new \in Local
  BY NullId DEF Local

\* Whatever attempt ends, the record in hand is a step run of the current step.
LEMMA InHand ==
  ASSUME NEW w \in Workers, LocalOK(local[w], pc[w]), pc[w] \in HandLabels
  PROVE  /\ local[w].id \in Ids
         /\ local[w].run.stepId \in Steps
         /\ Existing(w) \in StepRun
         /\ Recorded(Existing(w))
  BY LocalFields DEF LocalOK, Existing

\* The record of an attempt is a step run of the current step.
LEMMA OutcomeType ==
  ASSUME NEW w \in Workers, LocalOK(local[w], pc[w]), pc[w] \in HandLabels
  PROVE  /\ Outcome(w) \in StepRun /\ Recorded(Outcome(w))
         /\ FailureOutcome(w) \in StepRun /\ Recorded(FailureOutcome(w))
         /\ Outcome(w).status # "ABSENT" /\ FailureOutcome(w).status # "ABSENT"
<1> DEFINE result == local[w].result
           old == Existing(w)
<1>1. /\ local[w] \in Local
      /\ local[w].run.stepId \in Steps
      /\ result \in Result
      /\ old \in StepRun
      /\ local[w].visit \in Nat /\ local[w].mark \in Nat
  BY InHand, LocalFields DEF LocalOK
<1>2. /\ old.failures \in Nat
      /\ old.waitFor \in Names \cup {None}
      /\ old.waitSinceSeq \in Nat
      /\ old.wakeAt \in WakeAt
      /\ old.waitPayload \in Nat
  BY <1>1 DEF StepRun
<1>3. result.to \in Steps \cup {None} /\ result.name \in Names \cup {None} /\ result.retryable \in BOOLEAN
  BY <1>1 DEF Result
<1>4. StatusOf(result) \in {"COMPLETED", "WAITING", "UNKNOWN", "FAILED"}
  BY DEF StatusOf
<1>5. Outcome(w) \in StepRun /\ Outcome(w).stepId \in Steps /\ Outcome(w).status # "ABSENT"
  <2>1. (IF result.status \in {"failed", "unknown"} THEN 1 ELSE 0) \in Nat
    OBVIOUS
  <2>2. (old.failures + IF result.status \in {"failed", "unknown"} THEN 1 ELSE 0) \in Nat
    BY <1>2, <2>1
  <2>3. (result.status = "failed" /\ result.retryable) \in BOOLEAN
    OBVIOUS
  <2>4. (IF ~(result.status = "waiting") THEN old.wakeAt
         ELSE IF result.wakes THEN "pending" ELSE "none") \in WakeAt
    BY <1>2 DEF WakeAt
  <2> QED BY <1>1, <1>2, <1>3, <1>4, <2>2, <2>3, <2>4 DEF Outcome, StepRun, StepStatus
<1>6. /\ FailureOutcome(w) \in StepRun
      /\ FailureOutcome(w).stepId \in Steps
      /\ FailureOutcome(w).status # "ABSENT"
  <2>1. old.failures + 1 \in Nat
    BY <1>2
  <2> HIDE DEF old
  <2>f. FailureOutcome(w) =
           [old EXCEPT !.stepId = local[w].run.stepId, !.visit = local[w].visit,
                       !.status = "FAILED", !.failures = @ + 1, !.retryable = FALSE,
                       !.output = None]
    BY DEF FailureOutcome, old
  <2>2. FailureOutcome(w) =
           [stepId |-> local[w].run.stepId, visit |-> local[w].visit, status |-> "FAILED",
            failures |-> old.failures + 1, retryable |-> FALSE, output |-> None,
            waitFor |-> old.waitFor, waitSinceSeq |-> old.waitSinceSeq,
            wakeAt |-> old.wakeAt, waitPayload |-> old.waitPayload]
    BY <1>1, <2>f DEF StepRun
  <2>3. "FAILED" \in StepStatus
    BY DEF StepStatus
  <2> QED BY <1>1, <1>2, <2>1, <2>2, <2>3 DEF StepRun
<1> QED BY <1>5, <1>6 DEF Recorded

\* The table after the record of an attempt was inserted or updated.
LEMMA StepRunsAfterType ==
  ASSUME SharedOK, NEW w \in Workers, local[w].id \in Ids, NEW rec \in StepRun, Recorded(rec)
  PROVE  /\ StepRunsAfter(w, rec) \in [Ids -> StepRun]
         /\ \A i \in Ids : Recorded(StepRunsAfter(w, rec)[i])
<1> DEFINE id == local[w].id
           after == StepRunsAfter(w, rec)
<1>1. CASE Existing(w).status = "ABSENT"
  <2>1. after = [stepRuns EXCEPT ![id] = rec]
    BY <1>1 DEF StepRunsAfter
  <2> QED BY <2>1 DEF SharedOK
<1>2. CASE Existing(w).status # "ABSENT" /\ ~Exists(id)
  BY <1>2 DEF StepRunsAfter, SharedOK
<1>3. CASE Existing(w).status # "ABSENT" /\ Exists(id)
  <2> DEFINE kept == [rec EXCEPT !.waitPayload = stepRuns[id].waitPayload]
  <2>1. after = [stepRuns EXCEPT ![id] = kept]
    BY <1>3 DEF StepRunsAfter
  <2>2. kept \in StepRun /\ Recorded(kept)
    BY DEF SharedOK, StepRun, Recorded
  <2> HIDE DEF kept
  <2> QED BY <2>1, <2>2 DEF SharedOK
<1> QED BY <1>1, <1>2, <1>3

\* Persisting an attempt, of either kind, keeps TypeInv.
LEMMA RecordAttemptKeepsTypes ==
  ASSUME TypeInv, NEW w \in Workers, pc[w] \in {"persist", "persistFailure"},
         NEW rec \in StepRun, Recorded(rec), RecordAttempt(w, rec)
  PROVE  TypeInv'
<1>0. /\ SharedOK
      /\ LocalOK(local[w], pc[w])
      /\ pc \in [Workers -> Labels]
      /\ local \in [Workers -> Local]
      /\ local[w] \in Local
  BY DEF TypeInv, TypeOK, SharedOK, LocalOK
<1> DEFINE id == local[w].id
           history == [local[w].history EXCEPT ![id] = rec]
<1>1. id \in Ids /\ local[w].run.stepId \in Steps
  BY <1>0 DEF LocalOK, HandLabels
<1>2. /\ pc' = [pc EXCEPT ![w] = pc'[w]] /\ local' = [local EXCEPT ![w] = local'[w]]
      /\ pc'[w] = After(w, rec)
      /\ local'[w] = [local[w] EXCEPT !.history = history, !.steps = @ + 1,
                        !.result = NoResult, !.mark = 0, !.resume = NoResume]
  BY <1>0 DEF RecordAttempt, Goto
<1>3. pc'[w] \in {"advance", "parkRun", "fail", "retry"} /\
      (pc'[w] = "advance" => rec.status = "COMPLETED")
  BY <1>2 DEF After
<1>4. history \in [Ids -> StepRun] /\ history[id] = rec /\ \A i \in Ids : Recorded(history[i])
  BY <1>0, <1>1, LocalFields DEF LocalOK
<1> HIDE DEF history
<1>5. local'[w] \in Local
  <2>1. local[w].steps + 1 \in Nat
    BY <1>0, LocalFields
  <2> DEFINE kept == [local[w] EXCEPT !.history = history, !.steps = local[w].steps + 1]
  <2>2. kept \in Local
    BY <1>0, <1>4, <2>1 DEF Local
  <2>3. local'[w] = [kept EXCEPT !.result = NoResult, !.mark = 0, !.resume = NoResume]
    BY <1>0, <1>2 DEF Local
  <2> HIDE DEF kept
  <2> QED BY <2>2, <2>3, AttemptResets
<1>6. /\ local'[w].id = id
      /\ local'[w].run = local[w].run
      /\ local'[w].wait = local[w].wait
      /\ local'[w].history = history
  BY <1>0, <1>2 DEF Local
<1>7. LocalOK(local'[w], pc'[w])
  BY <1>0, <1>1, <1>3, <1>4, <1>5, <1>6 DEF LocalOK
<1>8. stepRuns' \in [Ids -> StepRun] /\ \A i \in Ids : Recorded(stepRuns'[i])
  <2>1. stepRuns' = StepRunsAfter(w, rec)
    BY DEF RecordAttempt
  <2> QED BY <1>0, <1>1, <2>1, StepRunsAfterType
<1>9. SharedOK'
  BY <1>0, <1>8 DEF RecordAttempt, SharedOK
<1> QED BY <1>2, <1>3, <1>7, <1>9, OneWorkerMoves DEF Labels

\* The patch merged by advance is the patch of a visit.
LEMMA ContextAfterType ==
  ASSUME NEW w \in Workers, LocalOK(local[w], pc[w]), pc[w] = "advance"
  PROVE  ContextAfter(w) \in SUBSET Key
<1>1. Existing(w) \in StepRun /\ Recorded(Existing(w)) /\ Existing(w).status = "COMPLETED"
  BY InHand DEF LocalOK, HandLabels, Existing
<1>2. <<Existing(w).stepId, Existing(w).visit>> \in Key
  BY <1>1 DEF Recorded, StepRun, Key
<1>3. local[w].run.context \in SUBSET Key
  BY LocalFields DEF LocalOK
<1> QED BY <1>2, <1>3 DEF ContextAfter

\* Every step of a worker's tick keeps TypeInv.
LEMMA TickKeepsTypes ==
  ASSUME TypeInv, NEW w \in Workers,
         ClaimDue(w) \/ Tick(w) \/ StorageThrows(w) \/ PersistReplyLost(w) \/ Crash(w)
  PROVE  TypeInv'
<1>0. /\ SharedOK
      /\ LocalOK(local[w], pc[w])
      /\ pc \in [Workers -> Labels]
      /\ local \in [Workers -> Local]
      /\ local[w] \in Local
  BY DEF TypeInv, TypeOK, SharedOK, LocalOK
<1>1. CASE ClaimDue(w)
  <2> USE <1>1
  <2>1. pc' = [pc EXCEPT ![w] = pc'[w]] /\ local' = [local EXCEPT ![w] = local'[w]]
    BY <1>0 DEF ClaimDue, Goto
  <2>2. local'[w] = NoLocal /\ pc'[w] = "read"
    BY <1>0 DEF ClaimDue, Goto
  <2>3. SharedOK'
    BY <1>0, LeaseWritten DEF ClaimDue
  <2> QED BY <2>1, <2>2, <2>3, NoLocalOK, OneWorkerMoves DEF Labels, HandLabels
<1>2. CASE ReadRun(w)
  <2> USE <1>2
  <2>1. pc' = [pc EXCEPT ![w] = pc'[w]] /\ local' = [local EXCEPT ![w] = local'[w]]
    BY <1>0 DEF ReadRun, Goto
  <2>2. SharedOK'
    BY <1>0, NothingWritten DEF ReadRun
  <2>3. CASE pc'[w] = "workerRelease"
    <3>1. local'[w] = local[w]
      BY <1>0, <2>3 DEF ReadRun, Goto
    <3> QED BY <1>0, <2>1, <2>2, <2>3, <3>1, HandEmptied, OneWorkerMoves DEF Labels, HandLabels
  <2>4. CASE pc'[w] # "workerRelease"
    <3>1. pc'[w] = "list" /\ local'[w] = [local[w] EXCEPT !.run = run]
      BY <1>0, <2>4 DEF ReadRun, Goto
    <3>2. run \in Run /\ "list" \notin HandLabels
      BY <1>0 DEF SharedOK, HandLabels
    <3>3. LocalOK([local[w] EXCEPT !.run = run], "list")
      BY <1>0, <3>2, LocalRunFree
    <3>4. LocalOK(local'[w], pc'[w])
      BY <3>1, <3>3
    <3> QED BY <2>1, <2>2, <3>1, <3>4, OneWorkerMoves DEF Labels
  <2> QED BY <2>3, <2>4
<1>3. CASE ListByRun(w)
  <2> USE <1>3
  <2>1. pc' = [pc EXCEPT ![w] = pc'[w]] /\ local' = [local EXCEPT ![w] = local'[w]]
    BY <1>0 DEF ListByRun, Goto
  <2>2. local'[w] = [local[w] EXCEPT !.history = stepRuns] /\ pc'[w] = "active"
    BY <1>0 DEF ListByRun, Goto
  <2>3. LocalOK(local'[w], pc'[w])
    BY <1>0, <2>2 DEF LocalOK, Local, SharedOK, HandLabels
  <2>4. SharedOK'
    BY <1>0, NothingWritten DEF ListByRun
  <2> QED BY <2>1, <2>2, <2>3, <2>4, OneWorkerMoves DEF Labels
<1>4. CASE GetActive(w)
  <2> USE <1>4
  <2>1. pc' = [pc EXCEPT ![w] = pc'[w]] /\ local' = [local EXCEPT ![w] = local'[w]]
    BY <1>0 DEF GetActive, Goto
  <2>2. /\ local'[w] = [local[w] EXCEPT !.wait = ActiveStepRun(local[w].run)]
        /\ pc'[w] \in {"consume", "begin", "loop"}
    BY <1>0 DEF GetActive, Goto
  <2>3. ActiveStepRun(local[w].run) \in StepRun /\ Recorded(ActiveStepRun(local[w].run))
    BY <1>0, LocalFields, NullId, EmptyTypes DEF ActiveStepRun, SharedOK, Recorded, NoStepRun
  <2>4. LocalOK(local'[w], pc'[w])
    BY <1>0, <2>2, <2>3 DEF LocalOK, Local, HandLabels
  <2>5. SharedOK'
    BY <1>0, NothingWritten DEF GetActive
  <2> QED BY <2>1, <2>2, <2>4, <2>5, OneWorkerMoves DEF Labels
<1>5. CASE Begin(w)
  <2> USE <1>5
  <2>1. pc' = [pc EXCEPT ![w] = pc'[w]] /\ local' = [local EXCEPT ![w] = local'[w]]
    BY <1>0 DEF Begin, Goto
  <2>2. local'[w] = [local[w] EXCEPT !.run = Started(local[w].run)] /\ pc'[w] = "loop"
    BY <1>0 DEF Begin, Goto
  <2>3. LocalOK(local'[w], pc'[w])
    <3>1. Started(local[w].run) \in Run /\ "loop" \notin HandLabels
      BY <1>0, LocalFields, RowTypes DEF HandLabels
    <3>2. LocalOK([local[w] EXCEPT !.run = Started(local[w].run)], "loop")
      BY <1>0, <3>1, LocalRunFree
    <3> QED BY <2>2, <3>2
  <2>4. Started(run) \in Run
    BY <1>0, RowTypes DEF SharedOK
  <2>5. SharedOK'
    BY <1>0, <2>4, RowWritten DEF Begin
  <2> QED BY <2>1, <2>2, <2>3, <2>5, OneWorkerMoves DEF Labels
<1>6. CASE ConsumeNext(w)
  <2> USE <1>6
  <2>1. PICK i \in Oldest(EligibleFor(local[w].wait)) :
           /\ signals' = [signals EXCEPT ![i].consumed = TRUE]
           /\ local' = [local EXCEPT ![w].resume =
                          [waitFor |-> local[w].wait.waitFor, wakeAt |-> FALSE, payload |-> i]]
    BY DEF ConsumeNext
  <2>2. i \in DOMAIN signals /\ i \in Nat
    BY <1>0, <2>1 DEF Oldest, EligibleFor, SharedOK
  <2>3. pc' = [pc EXCEPT ![w] = pc'[w]] /\ local' = [local EXCEPT ![w] = local'[w]]
    BY <1>0, <2>1 DEF ConsumeNext, Goto
  <2>4. /\ pc'[w] = "savePayload"
        /\ local'[w] = [local[w] EXCEPT !.resume =
                          [waitFor |-> local[w].wait.waitFor, wakeAt |-> FALSE, payload |-> i]]
    BY <1>0, <2>1 DEF ConsumeNext, Goto
  <2>5. [waitFor |-> local[w].wait.waitFor, wakeAt |-> FALSE, payload |-> i] \in Resume
    BY <1>0, <2>2, LocalFields DEF Resume, StepRun
  <2>6. LocalOK(local'[w], pc'[w])
    BY <1>0, <2>4, <2>5 DEF LocalOK, Local, HandLabels
  <2>7. signals' \in Seq(Signal)
    <3>1. signals[i] \in Signal
      BY <1>0, <2>2 DEF SharedOK
    <3>2. [signals[i] EXCEPT !.consumed = TRUE] \in Signal
      BY <3>1 DEF Signal
    <3> QED BY <1>0, <2>1, <2>2, <3>2 DEF SharedOK
  <2>8. SharedOK'
    BY <1>0, <2>7 DEF ConsumeNext, SharedOK
  <2> QED BY <2>3, <2>4, <2>6, <2>8, OneWorkerMoves DEF Labels
<1>7. CASE NothingToConsume(w)
  <2> USE <1>7
  <2>1. pc' = [pc EXCEPT ![w] = pc'[w]] /\ local' = [local EXCEPT ![w] = local'[w]]
    BY <1>0 DEF NothingToConsume, Goto
  <2>2. SharedOK'
    BY <1>0, NothingWritten DEF NothingToConsume
  <2>3. CASE local[w].wait.wakeAt = "due"
    <3>1. /\ pc'[w] = "resume"
          /\ local'[w] = [local[w] EXCEPT !.resume =
               [waitFor |-> local[w].wait.waitFor, wakeAt |-> TRUE, payload |-> 0]]
      BY <1>0, <2>3 DEF NothingToConsume, Goto
    <3>2. [waitFor |-> local[w].wait.waitFor, wakeAt |-> TRUE, payload |-> 0] \in Resume
      BY <1>0, LocalFields DEF Resume, StepRun
    <3>3. LocalOK(local'[w], pc'[w])
      BY <1>0, <3>1, <3>2 DEF LocalOK, Local, HandLabels
    <3> QED BY <2>1, <2>2, <3>1, <3>3, OneWorkerMoves DEF Labels
  <2>4. CASE local[w].wait.wakeAt # "due"
    <3>1. pc'[w] \in {"release", "park"} /\ local'[w] = local[w]
      BY <1>0, <2>4 DEF NothingToConsume, Goto
    <3> QED BY <1>0, <2>1, <2>2, <3>1, HandEmptied, OneWorkerMoves DEF Labels, HandLabels
  <2> QED BY <2>3, <2>4
<1>8. CASE SavePayload(w)
  <2> USE <1>8
  <2> DEFINE id == local[w].run.stepRunId
             payload == local[w].resume.payload
             rec == [local[w].wait EXCEPT !.waitPayload = payload]
  <2>1. pc' = [pc EXCEPT ![w] = pc'[w]] /\ local' = [local EXCEPT ![w] = local'[w]]
    BY <1>0 DEF SavePayload, Goto
  <2>2. pc'[w] = "resume" /\ local'[w] = [local[w] EXCEPT !.history = [@ EXCEPT ![id] = rec]]
    BY <1>0 DEF SavePayload, Goto
  <2>3. payload \in Nat
    BY <1>0, LocalFields DEF Resume
  <2>4. rec \in StepRun /\ Recorded(rec)
    BY <1>0, <2>3, LocalFields DEF StepRun, Recorded, LocalOK
  <2>5. LocalOK(local'[w], pc'[w])
    <3>1. /\ [local[w].history EXCEPT ![id] = rec] \in [Ids -> StepRun]
          /\ \A i \in Ids : Recorded([local[w].history EXCEPT ![id] = rec][i])
      BY <1>0, <2>4, LocalFields DEF LocalOK
    <3> HIDE DEF rec, id
    <3> QED BY <1>0, <2>2, <3>1 DEF LocalOK, Local, HandLabels
  <2>6. stepRuns' \in [Ids -> StepRun] /\ \A i \in Ids : Recorded(stepRuns'[i])
    <3>1. CASE Exists(id)
      <4>1. id \in Ids
        BY <1>0, <3>1, LocalFields, NullId DEF Exists
      <4>2. stepRuns' = [stepRuns EXCEPT ![id] = [stepRuns[id] EXCEPT !.waitPayload = payload]]
        BY <3>1 DEF SavePayload
      <4>3. /\ [stepRuns[id] EXCEPT !.waitPayload = payload] \in StepRun
            /\ Recorded([stepRuns[id] EXCEPT !.waitPayload = payload])
        <5>1. stepRuns[id] \in StepRun /\ Recorded(stepRuns[id])
          BY <1>0, <4>1 DEF SharedOK
        <5> HIDE DEF payload, id
        <5> QED BY <2>3, <5>1, WithPayload
      <4> HIDE DEF payload, id
      <4> QED BY <1>0, <4>1, <4>2, <4>3 DEF SharedOK
    <3>2. CASE ~Exists(id)
      BY <1>0, <3>2 DEF SavePayload, SharedOK
    <3> QED BY <3>1, <3>2
  <2>7. SharedOK'
    BY <1>0, <2>6 DEF SavePayload, SharedOK
  <2> QED BY <2>1, <2>2, <2>5, <2>7, OneWorkerMoves DEF Labels
<1>9. CASE ResumeRun(w)
  <2> USE <1>9
  <2>1. pc' = [pc EXCEPT ![w] = pc'[w]] /\ local' = [local EXCEPT ![w] = local'[w]]
    BY <1>0 DEF ResumeRun, Goto
  <2>2. /\ pc'[w] = "loop"
        /\ local'[w] = [[local[w] EXCEPT !.run = Resumed(local[w].run)] EXCEPT !.wait = NoStepRun]
    BY <1>0 DEF ResumeRun, Goto
  <2>3. Resumed(run) \in Run /\ Resumed(local[w].run) \in Run
    BY <1>0, LocalFields, RowTypes DEF SharedOK
  <2>4. LocalOK([local[w] EXCEPT !.run = Resumed(local[w].run)], pc'[w])
    <3>1. "loop" \notin HandLabels
      BY DEF HandLabels
    <3>2. LocalOK([local[w] EXCEPT !.run = Resumed(local[w].run)], "loop")
      BY <1>0, <2>3, <3>1, LocalRunFree
    <3> QED BY <2>2, <3>2
  <2>5. LocalOK(local'[w], pc'[w])
    <3> DEFINE rec == [local[w] EXCEPT !.run = Resumed(local[w].run)]
    <3>1. rec \in Local /\ Recorded(NoStepRun)
      BY <2>4 DEF LocalOK, Recorded, NoStepRun
    <3> HIDE DEF rec
    <3>2. /\ [rec EXCEPT !.wait = NoStepRun] \in Local
          /\ [rec EXCEPT !.wait = NoStepRun].wait = NoStepRun
          /\ [rec EXCEPT !.wait = NoStepRun].history = rec.history
      BY <3>1, EmptyTypes DEF Local
    <3>3. LocalOK(rec, "loop")
      BY <2>2, <2>4 DEF rec
    <3>4. LocalOK([rec EXCEPT !.wait = NoStepRun], "loop")
      BY <3>1, <3>2, <3>3 DEF LocalOK, HandLabels
    <3> QED BY <2>2, <3>4 DEF rec
  <2>6. SharedOK'
    BY <1>0, <2>3, RowWritten DEF ResumeRun
  <2> QED BY <2>1, <2>2, <2>5, <2>6, OneWorkerMoves DEF Labels
<1>10. CASE ParkAgain(w)
  <2> USE <1>10
  <2>1. pc' = [pc EXCEPT ![w] = pc'[w]] /\ local' = [local EXCEPT ![w] = local'[w]]
    BY <1>0 DEF ParkAgain, Goto
  <2>2. local'[w] = local[w] /\ pc'[w] = "release"
    BY <1>0 DEF ParkAgain, Goto
  <2>3. Parked(run, run.stepId, local[w].wait.wakeAt) \in Run
    BY <1>0, RowTypes, LocalFields DEF SharedOK, Run
  <2>4. SharedOK'
    BY <1>0, <2>3, RowWritten DEF ParkAgain
  <2> QED BY <1>0, <2>1, <2>2, <2>4, HandEmptied, OneWorkerMoves DEF Labels, HandLabels
<1>11. CASE LoopExit(w)
  <2> USE <1>11
  <2>1. pc' = [pc EXCEPT ![w] = pc'[w]] /\ local' = [local EXCEPT ![w] = local'[w]]
    BY <1>0 DEF LoopExit, Goto
  <2>2. local'[w] = local[w] /\ pc'[w] = "release"
    BY <1>0 DEF LoopExit, Goto
  <2>3. SharedOK'
    BY <1>0, NothingWritten DEF LoopExit
  <2> QED BY <1>0, <2>1, <2>2, <2>3, HandEmptied, OneWorkerMoves DEF Labels, HandLabels
<1>12. CASE RenewFails(w)
  <2> USE <1>12
  <2>1. pc' = [pc EXCEPT ![w] = pc'[w]] /\ local' = [local EXCEPT ![w] = local'[w]]
    BY <1>0 DEF RenewFails, Goto
  <2>2. local'[w] = local[w] /\ pc'[w] = "release"
    BY <1>0 DEF RenewFails, Goto
  <2>3. SharedOK'
    BY <1>0, NothingWritten DEF RenewFails
  <2> QED BY <1>0, <2>1, <2>2, <2>3, HandEmptied, OneWorkerMoves DEF Labels, HandLabels
<1>13. CASE Replay(w)
  <2> USE <1>13
  <2>1. pc' = [pc EXCEPT ![w] = pc'[w]] /\ local' = [local EXCEPT ![w] = local'[w]]
    BY <1>0 DEF Replay, Goto
  <2> DEFINE id == local[w].run.stepRunId
             active == ActiveInHistory(w)
  <2>2. /\ pc'[w] = "advance"
        /\ local'[w] = [local[w] EXCEPT !.id = id, !.visit = active.visit, !.steps = @ + 1]
    BY <1>0 DEF Replay, Goto
  <2>3. active.status = "COMPLETED" /\ local[w].run.stepId \in Steps
    BY <1>0, LocalFields DEF Replay, AlreadyDone, AtLoopHead
  <2>4. id \in Ids /\ active = local[w].history[id]
    BY <1>0, <2>3, LocalFields, NullId DEF ActiveInHistory, NoStepRun
  <2>5. active.visit \in Nat
    BY <1>0, <2>4, LocalFields DEF StepRun
  <2>6. local'[w] \in Local
    <3>1. local[w].steps + 1 \in Nat
      BY <1>0, LocalFields
    <3> HIDE DEF id, active
    <3> QED BY <1>0, <2>2, <2>4, <2>5, <3>1, NullId DEF Local
  <2>7. /\ local'[w].id = id
        /\ local'[w].run = local[w].run
        /\ local'[w].wait = local[w].wait
        /\ local'[w].history = local[w].history
    <3> HIDE DEF id, active
    <3> QED BY <1>0, <2>2 DEF Local
  <2>8. LocalOK(local'[w], pc'[w])
    BY <1>0, <2>3, <2>4, <2>6, <2>7 DEF LocalOK
  <2>9. SharedOK'
    BY <1>0, LeaseWritten DEF Replay, SharedOK
  <2> QED BY <2>1, <2>2, <2>8, <2>9, OneWorkerMoves DEF Labels
<1>14. CASE Prepare(w)
  <2> USE <1>14
  <2> DEFINE active == ActiveInHistory(w)
             pointer == local[w].run.stepRunId
             told(res) == IF res = NoResume THEN ReconstructResume(active) ELSE res
  <2>1. PICK id \in IF pointer = 0 THEN LeastFreshId ELSE {pointer}, visit \in VisitOf(w, active) :
          local' = [local EXCEPT ![w].id = id, ![w].visit = visit, ![w].resume = told(@)]
    BY DEF Prepare
  <2>2. active \in StepRun
    BY <1>0, LocalFields, NullId, EmptyTypes DEF ActiveInHistory
  <2>3. id \in Ids
    BY <1>0, <2>1, LocalFields, NullId DEF LeastFreshId, FreshIds
  <2>4. visit \in Nat
    <3>1. CASE active.status = "ABSENT"
      <4>1. KnownVisits(w) \subseteq Nat
        BY <1>0, LocalFields DEF KnownVisits, StepRun
      <4>2. visit \in NextVisit(w)
        BY <2>1, <3>1 DEF VisitOf
      <4> QED BY <4>1, <4>2 DEF NextVisit
    <3>2. CASE active.status # "ABSENT"
      BY <2>1, <2>2, <3>2 DEF VisitOf, StepRun
    <3> QED BY <3>1, <3>2
  <2>5. told(local[w].resume) \in Resume
    <3>1. ReconstructResume(active) \in Resume
      BY <2>2, EmptyTypes DEF ReconstructResume, StepRun, Resume
    <3> QED BY <1>0, <3>1, LocalFields
  <2> HIDE DEF active, told
  <2>6. /\ pc' = [pc EXCEPT ![w] = pc'[w]] /\ local' = [local EXCEPT ![w] = local'[w]]
        /\ pc'[w] \in {"point", "handler"}
        /\ local'[w] = [local[w] EXCEPT !.id = id, !.visit = visit, !.resume = told(@)]
    BY <1>0, <2>1 DEF Prepare, Goto
  <2>7. local[w].run.stepId \in Steps
    BY <1>0, LocalFields DEF Prepare, AtLoopHead
  <2>8. local'[w] \in Local
    BY <1>0, <2>3, <2>4, <2>5, <2>6, NullId DEF Local
  <2>9. /\ local'[w].id = id
        /\ local'[w].run = local[w].run
        /\ local'[w].wait = local[w].wait
        /\ local'[w].history = local[w].history
    BY <1>0, <2>6 DEF Local
  <2>10. LocalOK(local'[w], pc'[w])
    BY <1>0, <2>3, <2>6, <2>7, <2>8, <2>9 DEF LocalOK
  <2>11. SharedOK'
    BY <1>0, LeaseWritten DEF Prepare, SharedOK
  <2> QED BY <2>6, <2>10, <2>11, OneWorkerMoves DEF Labels
<1>15. CASE Point(w)
  <2> USE <1>15
  <2>1. pc' = [pc EXCEPT ![w] = pc'[w]] /\ local' = [local EXCEPT ![w] = local'[w]]
    BY <1>0 DEF Point, Goto
  <2> DEFINE id == local[w].id
  <2>2. local'[w] = [local[w] EXCEPT !.run = Pointed(local[w].run, id)] /\ pc'[w] = "handler"
    BY <1>0 DEF Point, Goto
  <2>3. Pointed(run, id) \in Run /\ Pointed(local[w].run, id) \in Run
    BY <1>0, LocalFields, RowTypes DEF SharedOK
  <2>4. pc[w] = "point" /\ Pointed(local[w].run, id).stepId = local[w].run.stepId
    BY <1>0, LocalFields DEF Point, Pointed, Run
  <2>5. LocalOK(local'[w], pc'[w])
    BY <1>0, <2>2, <2>3, <2>4, LocalRun DEF HandLabels
  <2>6. SharedOK'
    BY <1>0, <2>3, RowWritten DEF Point
  <2> QED BY <2>1, <2>2, <2>5, <2>6, OneWorkerMoves DEF Labels
<1>16. CASE StartHandler(w)
  <2> USE <1>16
  <2>1. pc' = [pc EXCEPT ![w] = pc'[w]] /\ local' = [local EXCEPT ![w] = local'[w]]
    BY <1>0 DEF StartHandler, Goto
  <2>2. CASE run.status = "ABSENT"
    <3>1. local'[w] = local[w] /\ pc'[w] = "release"
      BY <1>0, <2>2 DEF StartHandler, Goto
    <3>2. SharedOK'
      BY <1>0, <2>2, NothingWritten DEF StartHandler
    <3> QED BY <1>0, <2>1, <3>1, <3>2, HandEmptied, OneWorkerMoves DEF Labels, HandLabels
  <2>3. CASE run.status # "ABSENT"
    <3>1. PICK n \in Nat : local'[w] = [local[w] EXCEPT !.stale = n]
      <4> DEFINE n == IF lease.owner = w THEN local[w].stale ELSE local[w].stale + 1
      <4>1. local'[w] = [local[w] EXCEPT !.stale = n]
        BY <1>0, <2>3 DEF StartHandler
      <4>2. n \in Nat
        BY <1>0, LocalFields
      <4> HIDE DEF n
      <4> QED BY <4>1, <4>2
    <3>2. pc'[w] = "running" /\ pc[w] = "handler"
      BY <1>0, <2>3 DEF StartHandler, Goto
    <3>3. LocalOK(local'[w], pc'[w])
      BY <1>0, <3>1, <3>2 DEF LocalOK, Local, HandLabels
    <3>4. KeyInHand(w) \in Key
      BY <1>0, <3>2, LocalFields DEF KeyInHand, Key, LocalOK, HandLabels
    <3>5. SharedOK'
      BY <1>0, <2>3, <3>4 DEF StartHandler, SharedOK
    <3> QED BY <2>1, <3>2, <3>3, <3>5, OneWorkerMoves DEF Labels
  <2> QED BY <2>2, <2>3
<1>17. CASE HandlerReturns(w)
  <2> USE <1>17
  <2>1. PICK result \in Behaviour[<<local[w].run.stepId, local[w].resume # NoResume>>] :
           /\ local' = [local EXCEPT ![w].result = result]
           /\ Goto(w, IF result.status = "waiting" THEN "watermark" ELSE "persist")
    BY DEF HandlerReturns
  <2>2. pc[w] = "running" /\ local[w].run.stepId \in Steps
    BY <1>0 DEF HandlerReturns, LocalOK, HandLabels
  <2>3. result \in Result
    BY <2>1, <2>2, EngineAssumption
  <2>4. /\ pc' = [pc EXCEPT ![w] = pc'[w]] /\ local' = [local EXCEPT ![w] = local'[w]]
        /\ local'[w] = [local[w] EXCEPT !.result = result]
        /\ pc'[w] \in {"watermark", "persist"}
    BY <1>0, <2>1 DEF Goto
  <2>5. LocalOK(local'[w], pc'[w])
    BY <1>0, <2>2, <2>3, <2>4 DEF LocalOK, Local, HandLabels
  <2>6. SharedOK'
    BY <1>0, NothingWritten DEF HandlerReturns
  <2> QED BY <2>4, <2>5, <2>6, OneWorkerMoves DEF Labels
<1>18. CASE Watermark(w)
  <2> USE <1>18
  <2>1. pc' = [pc EXCEPT ![w] = pc'[w]] /\ local' = [local EXCEPT ![w] = local'[w]]
    BY <1>0 DEF Watermark, Goto
  <2>2. PICK n \in Nat : local'[w] = [local[w] EXCEPT !.mark = n]
    <3>1. (IF run.status = "ABSENT" THEN 0 ELSE Len(signals)) \in Nat
      BY <1>0 DEF SharedOK
    <3> QED BY <1>0, <3>1 DEF Watermark
  <2>3. pc'[w] = "persist" /\ pc[w] = "watermark"
    BY <1>0 DEF Watermark, Goto
  <2>4. LocalOK(local'[w], pc'[w])
    BY <1>0, <2>2, <2>3 DEF LocalOK, Local, HandLabels
  <2>5. SharedOK'
    BY <1>0, NothingWritten DEF Watermark
  <2> QED BY <2>1, <2>3, <2>4, <2>5, OneWorkerMoves DEF Labels
<1>19. CASE Persist(w)
  <2> USE <1>19
  <2>1. Outcome(w) \in StepRun /\ Recorded(Outcome(w))
    BY <1>0, OutcomeType DEF Persist, HandLabels
  <2> QED BY <2>1, RecordAttemptKeepsTypes DEF Persist
<1>20. CASE PersistConflict(w)
  <2> USE <1>20
  <2>1. pc' = [pc EXCEPT ![w] = pc'[w]] /\ local' = [local EXCEPT ![w] = local'[w]]
    BY <1>0 DEF PersistConflict, Goto
  <2>2. local'[w] = local[w] /\ pc'[w] = "persistFailure" /\ pc[w] = "persist"
    BY <1>0 DEF PersistConflict, Goto
  <2>3. LocalOK(local'[w], pc'[w])
    BY <1>0, <2>2 DEF LocalOK, HandLabels
  <2>4. SharedOK'
    BY <1>0, NothingWritten DEF PersistConflict
  <2> QED BY <2>1, <2>2, <2>3, <2>4, OneWorkerMoves DEF Labels
<1>21. CASE PersistFailure(w)
  <2> USE <1>21
  <2>1. FailureOutcome(w) \in StepRun /\ Recorded(FailureOutcome(w))
    BY <1>0, OutcomeType DEF PersistFailure, HandLabels
  <2> QED BY <2>1, RecordAttemptKeepsTypes DEF PersistFailure
<1>22. CASE PersistFailureConflict(w)
  <2> USE <1>22
  <2>1. pc' = [pc EXCEPT ![w] = pc'[w]] /\ local' = [local EXCEPT ![w] = local'[w]]
    BY <1>0 DEF PersistFailureConflict, Goto
  <2>2. local'[w] = local[w] /\ pc'[w] = "release"
    BY <1>0 DEF PersistFailureConflict, Goto
  <2>3. SharedOK'
    BY <1>0, NothingWritten DEF PersistFailureConflict
  <2> QED BY <1>0, <2>1, <2>2, <2>3, HandEmptied, OneWorkerMoves DEF Labels, HandLabels
<1>23. CASE Complete(w)
  <2> USE <1>23
  <2>1. pc' = [pc EXCEPT ![w] = pc'[w]] /\ local' = [local EXCEPT ![w] = local'[w]]
    BY <1>0 DEF Complete, Goto
  <2>2. local'[w] = local[w] /\ pc'[w] = "release"
    BY <1>0 DEF Complete, Goto
  <2>3. Finished(run, ContextAfter(w)) \in Run
    BY <1>0, ContextAfterType, RowTypes DEF Complete, SharedOK
  <2>4. SharedOK'
    BY <1>0, <2>3, RowWritten DEF Complete
  <2> QED BY <1>0, <2>1, <2>2, <2>4, HandEmptied, OneWorkerMoves DEF Labels, HandLabels
<1>24. CASE Advance(w)
  <2> USE <1>24
  <2> DEFINE next == ResolveNextStep(local[w].run.stepId, Existing(w).output)
             context == ContextAfter(w)
  <2>1. pc[w] = "advance" /\ local[w].run.stepId \in Steps
    BY <1>0 DEF Advance, LocalOK, HandLabels
  <2>2. context \in SUBSET Key
    BY <1>0, <2>1, ContextAfterType
  <2>3. next \in Steps \cup {None}
    BY <2>1, EngineAssumption DEF ResolveNextStep
  <2>4. Moved(run, context, next) \in Run /\ Moved(local[w].run, context, next) \in Run
    BY <1>0, <2>2, <2>3, RowTypes, LocalFields DEF SharedOK
  <2>5. /\ pc' = [pc EXCEPT ![w] = pc'[w]] /\ local' = [local EXCEPT ![w] = local'[w]]
        /\ pc'[w] = "loop"
        /\ local'[w] = [local[w] EXCEPT !.run = Moved(local[w].run, context, next),
                                        !.id = 0, !.visit = 0]
    BY <1>0 DEF Advance, Goto
  <2>6. Store(Moved(run, context, next)) /\ UNCHANGED <<lease, stepRuns, signals, client, used, begun>>
    BY DEF Advance
  <2> HIDE DEF next, context
  <2>7. LocalOK(local'[w], pc'[w])
    <3> DEFINE row == Moved(local[w].run, context, next)
    <3> HIDE DEF row
    <3>1. row \in Run /\ local'[w] = [local[w] EXCEPT !.run = row, !.id = 0, !.visit = 0]
      BY <2>4, <2>5 DEF row
    <3>2. local[w] \in Local /\ 0 \in IdOrNull
      BY <1>0, NullId
    <3>3. local'[w] \in Local
      BY <3>1, <3>2, AdvanceResets
    <3>4. local'[w].wait = local[w].wait /\ local'[w].history = local[w].history
      BY <3>1, <3>2 DEF Local
    <3> QED BY <1>0, <2>5, <3>3, <3>4 DEF LocalOK, HandLabels
  <2>8. SharedOK'
    BY <1>0, <2>4, <2>6, RowWritten
  <2> QED BY <2>5, <2>7, <2>8, OneWorkerMoves DEF Labels
<1>25. CASE NoMatchingTransition(w)
  <2> USE <1>25
  <2>1. pc' = [pc EXCEPT ![w] = pc'[w]] /\ local' = [local EXCEPT ![w] = local'[w]]
    BY <1>0 DEF NoMatchingTransition, Goto
  <2>2. local'[w] = local[w] /\ pc'[w] = "release"
    BY <1>0 DEF NoMatchingTransition, Goto
  <2>3. SharedOK'
    BY <1>0, NothingWritten DEF NoMatchingTransition
  <2> QED BY <1>0, <2>1, <2>2, <2>3, HandEmptied, OneWorkerMoves DEF Labels, HandLabels
<1>26. CASE ParkRun(w)
  <2> USE <1>26
  <2>1. pc' = [pc EXCEPT ![w] = pc'[w]] /\ local' = [local EXCEPT ![w] = local'[w]]
    BY <1>0 DEF ParkRun, Goto
  <2>2. local'[w] = local[w] /\ pc'[w] = "release"
    BY <1>0 DEF ParkRun, Goto
  <2>3. Parked(run, local[w].run.stepId, Existing(w).wakeAt) \in Run
    <3>1. Existing(w) \in StepRun
      BY <1>0, InHand DEF ParkRun, HandLabels
    <3> QED BY <1>0, <3>1, RowTypes, LocalFields DEF SharedOK, StepRun
  <2>4. SharedOK'
    BY <1>0, <2>3, RowWritten DEF ParkRun
  <2> QED BY <1>0, <2>1, <2>2, <2>4, HandEmptied, OneWorkerMoves DEF Labels, HandLabels
<1>27. CASE BackOff(w)
  <2> USE <1>27
  <2>1. pc' = [pc EXCEPT ![w] = pc'[w]] /\ local' = [local EXCEPT ![w] = local'[w]]
    BY <1>0 DEF BackOff, Goto
  <2>2. local'[w] = local[w] /\ pc'[w] = "release"
    BY <1>0 DEF BackOff, Goto
  <2>3. BackingOff(run, local[w].run.stepId) \in Run
    BY <1>0, RowTypes, NullId, LocalFields DEF SharedOK, WakeAt, Key
  <2>4. SharedOK'
    BY <1>0, <2>3, RowWritten DEF BackOff
  <2> QED BY <1>0, <2>1, <2>2, <2>4, HandEmptied, OneWorkerMoves DEF Labels, HandLabels
<1>28. CASE Fail(w)
  <2> USE <1>28
  <2>1. pc' = [pc EXCEPT ![w] = pc'[w]] /\ local' = [local EXCEPT ![w] = local'[w]]
    BY <1>0 DEF Fail, Goto
  <2>2. local'[w] = local[w] /\ pc'[w] = "release"
    BY <1>0 DEF Fail, Goto
  <2>3. Failed(run, local[w].run.stepId) \in Run
    BY <1>0, RowTypes, LocalFields DEF SharedOK
  <2>4. SharedOK'
    BY <1>0, <2>3, RowWritten DEF Fail
  <2> QED BY <1>0, <2>1, <2>2, <2>4, HandEmptied, OneWorkerMoves DEF Labels, HandLabels
<1>29. CASE TickRelease(w)
  <2> USE <1>29
  <2>1. pc' = [pc EXCEPT ![w] = pc'[w]] /\ local' = [local EXCEPT ![w] = local'[w]]
    BY <1>0 DEF TickRelease, Goto
  <2>2. local'[w] = local[w] /\ pc'[w] = "workerRelease"
    BY <1>0 DEF TickRelease, Goto
  <2>3. SharedOK'
    BY <1>0, ReleasedType, LeaseWritten DEF TickRelease
  <2> QED BY <1>0, <2>1, <2>2, <2>3, HandEmptied, OneWorkerMoves DEF Labels, HandLabels
<1>30. CASE WorkerRelease(w)
  <2> USE <1>30
  <2>1. pc' = [pc EXCEPT ![w] = pc'[w]] /\ local' = [local EXCEPT ![w] = local'[w]]
    BY <1>0 DEF WorkerRelease, Goto
  <2>2. local'[w] = NoLocal /\ pc'[w] = "idle"
    BY <1>0 DEF WorkerRelease, Goto
  <2>3. SharedOK'
    BY <1>0, ReleasedType, LeaseWritten DEF WorkerRelease
  <2> QED BY <2>1, <2>2, <2>3, NoLocalOK, OneWorkerMoves DEF Labels, HandLabels
<1>31. CASE StorageThrows(w)
  <2> USE <1>31
  <2>1. /\ pc' = [pc EXCEPT ![w] = pc'[w]] /\ local' = [local EXCEPT ![w] = local'[w]]
        /\ pc'[w] = AfterThrow(pc[w])
        /\ local'[w] = IF pc[w] = "workerRelease" THEN NoLocal ELSE local[w]
    BY <1>0 DEF StorageThrows, Goto
  <2>2. SharedOK'
    <3>1. used' \in [Faults -> Nat]
      BY <1>0, SpendType DEF StorageThrows, SharedOK, Faults
    <3> QED BY <1>0, <3>1 DEF StorageThrows, SharedOK
  <2>3. CASE pc[w] = "workerRelease"
    <3>1. pc'[w] = "idle" /\ local'[w] = NoLocal
      BY <2>1, <2>3 DEF AfterThrow
    <3> QED BY <2>1, <2>2, <3>1, NoLocalOK, OneWorkerMoves DEF Labels, HandLabels
  <2>4. CASE pc[w] \in {"watermark", "persist"}
    <3>1. pc'[w] = "persistFailure" /\ local'[w] = local[w]
      BY <2>1, <2>4 DEF AfterThrow
    <3>2. LocalOK(local'[w], pc'[w])
      BY <1>0, <2>4, <3>1 DEF LocalOK, HandLabels
    <3> QED BY <2>1, <2>2, <3>1, <3>2, OneWorkerMoves DEF Labels
  <2>5. CASE pc[w] \notin {"workerRelease", "watermark", "persist"}
    <3>1. pc'[w] \in {"workerRelease", "release"} /\ local'[w] = local[w]
      BY <2>1, <2>5 DEF AfterThrow
    <3> QED BY <1>0, <2>1, <2>2, <3>1, HandEmptied, OneWorkerMoves DEF Labels, HandLabels
  <2> QED BY <2>3, <2>4, <2>5
<1>32. CASE Crash(w)
  <2> USE <1>32
  <2>1. pc' = [pc EXCEPT ![w] = pc'[w]] /\ local' = [local EXCEPT ![w] = local'[w]]
    BY <1>0 DEF Crash, Goto
  <2>2. local'[w] = NoLocal /\ pc'[w] = "idle"
    BY <1>0 DEF Crash, Goto
  <2>3. SharedOK'
    <3>1. used' \in [Faults -> Nat]
      BY <1>0, SpendType DEF Crash, SharedOK, Faults
    <3> QED BY <1>0, <3>1 DEF Crash, SharedOK
  <2> QED BY <2>1, <2>2, <2>3, NoLocalOK, OneWorkerMoves DEF Labels, HandLabels
<1>33. CASE PersistReplyLost(w)
  <2> USE <1>33
  <2>1. pc' = [pc EXCEPT ![w] = pc'[w]] /\ local' = [local EXCEPT ![w] = local'[w]]
    BY <1>0 DEF PersistReplyLost, Goto
  <2>2. local'[w] = local[w] /\ pc'[w] = "persistFailure" /\ pc[w] = "persist"
    BY <1>0 DEF PersistReplyLost, Goto, AfterThrow
  <2>3. LocalOK(local'[w], pc'[w])
    BY <1>0, <2>2 DEF LocalOK, HandLabels
  <2>4. Outcome(w) \in StepRun /\ Recorded(Outcome(w)) /\ local[w].id \in Ids
    BY <1>0, <2>2, InHand, OutcomeType DEF HandLabels
  <2>5. stepRuns' \in [Ids -> StepRun] /\ \A i \in Ids : Recorded(stepRuns'[i])
    BY <1>0, <2>4, StepRunsAfterType DEF PersistReplyLost
  <2>6. used' \in [Faults -> Nat]
    BY <1>0, SpendType DEF PersistReplyLost, SharedOK, Faults
  <2>7. SharedOK'
    BY <1>0, <2>5, <2>6 DEF PersistReplyLost, SharedOK
  <2> QED BY <2>1, <2>2, <2>3, <2>7, OneWorkerMoves DEF Labels
<1> QED
  BY <1>1, <1>2, <1>3, <1>4, <1>5, <1>6, <1>7, <1>8, <1>9, <1>10, <1>11, <1>12, <1>13, <1>14, <1>15, <1>16, <1>17, <1>18, <1>19, <1>20, <1>21, <1>22, <1>23, <1>24, <1>25, <1>26, <1>27, <1>28, <1>29, <1>30, <1>31, <1>32, <1>33 DEF Tick

\* What neither starts nor belongs to a tick keeps TypeInv.
LEMMA WorkersStay ==
  ASSUME TypeInv, UNCHANGED <<pc, local>>, SharedOK'
  PROVE  TypeInv'
  BY DEF TypeInv, TypeOK, SharedOK

\* Time turns pending deadlines into due ones, and nothing else.
LEMMA ElapsedType == \A t \in WakeAt : Elapsed(t) \in WakeAt
  BY DEF Elapsed, WakeAt

\* The heartbeat, the clock and the cut-off of prune keep TypeInv.
LEMMA EnvironmentKeepsTypes ==
  ASSUME TypeInv, (\E w \in Workers : Heartbeat(w)) \/ LeaseExpires \/ TimePasses \/ Prune
  PROVE  TypeInv'
<1>0. SharedOK
  BY DEF TypeInv, TypeOK, SharedOK
<1>1. ASSUME NEW w \in Workers, Heartbeat(w) PROVE TypeInv'
  BY <1>0, <1>1, LeaseWritten, WorkersStay DEF Heartbeat, SharedOK
<1>2. CASE LeaseExpires
  <2>1. lease' \in [owner: Workers \cup {None}, valid: BOOLEAN]
    BY <1>0, <1>2 DEF LeaseExpires, SharedOK
  <2>2. used' \in [Faults -> Nat]
    BY <1>0, <1>2, SpendType DEF LeaseExpires, SharedOK, Faults
  <2> QED BY <1>0, <1>2, <2>1, <2>2, WorkersStay DEF LeaseExpires, SharedOK
<1>3. CASE TimePasses
  <2>1. run' \in Run
    <3>1. run' = [run EXCEPT !.wakeAt = Elapsed(run.wakeAt)] /\ run \in Run /\ run.wakeAt \in WakeAt
      BY <1>0, <1>3 DEF TimePasses, SharedOK, Run
    <3> QED BY <3>1, ElapsedType DEF Run
  <2>2. stepRuns' \in [Ids -> StepRun] /\ \A i \in Ids : Recorded(stepRuns'[i])
    <3> DEFINE later(rec) == [rec EXCEPT !.wakeAt = Elapsed(rec.wakeAt)]
    <3>1. \A rec \in StepRun : later(rec) \in StepRun /\ later(rec).status = rec.status
                               /\ later(rec).stepId = rec.stepId
      BY ElapsedType DEF StepRun
    <3>2. stepRuns' = [i \in Ids |-> later(stepRuns[i])]
      BY <1>3 DEF TimePasses
    <3> HIDE DEF later
    <3> QED BY <1>0, <3>1, <3>2 DEF SharedOK, Recorded
  <2>3. SharedOK'
    BY <1>0, <1>3, <2>1, <2>2 DEF TimePasses, SharedOK
  <2> QED BY <1>3, <2>3, WorkersStay DEF TimePasses
<1>4. CASE Prune
  <2>1. run' \in Run /\ stepRuns' \in [Ids -> StepRun] /\ \A i \in Ids : Recorded(stepRuns'[i])
    BY <1>4, EmptyTypes DEF Prune, NoStepRuns, NoStepRun, Recorded
  <2>2. lease' \in [owner: Workers \cup {None}, valid: BOOLEAN] /\ signals' \in Seq(Signal)
    BY <1>4 DEF Prune, NoLease
  <2>3. used' \in [Faults -> Nat]
    BY <1>0, <1>4, SpendType DEF Prune, SharedOK, Faults
  <2> QED BY <1>0, <1>4, <2>1, <2>2, <2>3, WorkersStay DEF Prune, SharedOK
<1> QED BY <1>1, <1>2, <1>3, <1>4

\* The records of the clients.
ClientRecord == [op: ClientOps, owner: Workers \cup {None}, stepRunId: IdOrNull]

\* Every step of a client keeps TypeInv.
LEMMA ClientKeepsTypes ==
  ASSUME TypeInv, NEW c \in Clients, ClientStep(c)
  PROVE  TypeInv'
<1>0. SharedOK /\ client \in [Clients -> ClientRecord] /\ client[c] \in ClientRecord
  BY DEF TypeInv, TypeOK, SharedOK, ClientRecord
<1>1. \A op \in ClientOps : ClientGoto(c, op) => client' \in [Clients -> ClientRecord]
  BY <1>0 DEF ClientGoto, ClientRecord
<1>2. ClientIdle(c) => client' \in [Clients -> ClientRecord]
  <2>1. IdleClient \in ClientRecord
    BY NullId DEF IdleClient, ClientRecord, ClientOps
  <2> QED BY <1>0, <2>1 DEF ClientIdle
<1>3. \A f \in Faults : Spend(f) => used' \in [Faults -> Nat]
  BY <1>0, SpendType DEF SharedOK
<1>4. CASE SignalRead(c)
  <2>1. client' \in [Clients -> ClientRecord] /\ used' \in [Faults -> Nat]
    BY <1>1, <1>3, <1>4 DEF SignalRead, ClientOps, Faults
  <2> QED BY <1>0, <1>4, <2>1, WorkersStay DEF SignalRead, SharedOK, ClientRecord
<1>5. CASE SignalAppend(c)
  <2>1. signals' \in Seq(Signal)
    <3>1. CASE run.status = "ABSENT"
      BY <1>0, <1>5, <3>1 DEF SignalAppend, SharedOK
    <3>2. CASE run.status # "ABSENT"
      <4>1. PICK s \in Sendable :
              signals' = Append(signals, [name |-> s[1], stepId |-> s[2],
                                          consumed |-> FALSE, begun |-> begun])
        BY <1>5, <3>2 DEF SignalAppend
      <4>2. s[1] \in Names /\ s[2] \in Steps \cup {None}
        BY EngineAssumption
      <4>3. [name |-> s[1], stepId |-> s[2], consumed |-> FALSE, begun |-> begun] \in Signal
        BY <1>0, <4>2 DEF Signal, SharedOK
      <4> QED BY <1>0, <4>1, <4>3 DEF SharedOK
    <3> QED BY <3>1, <3>2
  <2> QED BY <1>0, <1>2, <1>5, <2>1, WorkersStay DEF SignalAppend, SharedOK, ClientRecord
<1>6. CASE CancelRead(c)
  <2>1. client' \in [Clients -> ClientRecord]
    BY <1>0, <1>6 DEF CancelRead, ClientRecord, ClientOps, SharedOK
  <2>2. used' \in [Faults -> Nat]
    BY <1>3, <1>6 DEF CancelRead, Faults
  <2> QED BY <1>0, <1>6, <2>1, <2>2, WorkersStay DEF CancelRead, SharedOK, ClientRecord
<1>7. CASE CancelSet(c)
  <2>1. client' \in [Clients -> ClientRecord]
    BY <1>1, <1>2, <1>7 DEF CancelSet, ClientOps
  <2>2. run' \in Run
    BY <1>0, <1>7, RowTypes, StoreType DEF CancelSet, SharedOK
  <2> QED BY <1>0, <1>7, <2>1, <2>2, WorkersStay DEF CancelSet, SharedOK, ClientRecord
<1>8. CASE CancelRelease(c)
  BY <1>0, <1>2, <1>8, ReleasedType, WorkersStay DEF CancelRelease, SharedOK, ClientRecord
<1>9. CASE ReconcileRead(c)
  <2>1. client' \in [Clients -> ClientRecord]
    <3>1. PICK op \in {"retryReset", "abandonSet"} :
            client' = [client EXCEPT ![c] = [@ EXCEPT !.op = op, !.stepRunId = run.stepRunId]]
      BY <1>9 DEF ReconcileRead
    <3>2. op \in ClientOps /\ run.stepRunId \in IdOrNull
      BY <1>0 DEF ClientOps, SharedOK, Run
    <3>3. [client[c] EXCEPT !.op = op, !.stepRunId = run.stepRunId] \in ClientRecord
      BY <1>0, <3>2 DEF ClientRecord
    <3> QED BY <1>0, <3>1, <3>3
  <2>2. used' \in [Faults -> Nat]
    BY <1>3, <1>9 DEF ReconcileRead, Faults
  <2> QED BY <1>0, <1>9, <2>1, <2>2, WorkersStay DEF ReconcileRead, SharedOK, ClientRecord
<1>10. CASE ReconcileReset(c)
  <2> DEFINE id == client[c].stepRunId
  <2>1. client' \in [Clients -> ClientRecord]
    BY <1>1, <1>10 DEF ReconcileReset, ClientOps
  <2>2. stepRuns' \in [Ids -> StepRun] /\ \A i \in Ids : Recorded(stepRuns'[i])
    <3>1. CASE Exists(id)
      <4> DEFINE rec == [stepRuns[id] EXCEPT !.failures = 0]
      <4>1. id \in Ids
        BY <1>0, <3>1, NullId DEF Exists, ClientRecord
      <4>2. stepRuns[id] \in StepRun /\ Recorded(stepRuns[id])
        BY <1>0, <4>1 DEF SharedOK
      <4>3. rec \in StepRun /\ Recorded(rec)
        BY <4>2 DEF StepRun, Recorded
      <4>4. stepRuns' = [stepRuns EXCEPT ![id] = rec]
        BY <1>10, <3>1 DEF ReconcileReset
      <4> HIDE DEF rec, id
      <4> QED BY <1>0, <4>1, <4>3, <4>4 DEF SharedOK
    <3>2. CASE ~Exists(id)
      BY <1>0, <1>10, <3>2 DEF ReconcileReset, SharedOK
    <3> QED BY <3>1, <3>2
  <2> QED BY <1>0, <1>10, <2>1, <2>2, WorkersStay DEF ReconcileReset, SharedOK, ClientRecord
<1>11. CASE ReconcileReopen(c)
  <2>1. run' \in Run
    BY <1>0, <1>11, RowTypes, StoreType DEF ReconcileReopen, SharedOK
  <2> QED BY <1>0, <1>2, <1>11, <2>1, WorkersStay DEF ReconcileReopen, SharedOK, ClientRecord
<1>12. CASE ReconcileAbandon(c)
  <2>1. run' \in Run
    BY <1>0, <1>12, RowTypes, StoreType DEF ReconcileAbandon, SharedOK
  <2> QED BY <1>0, <1>2, <1>12, <2>1, WorkersStay DEF ReconcileAbandon, SharedOK, ClientRecord
<1> QED BY <1>4, <1>5, <1>6, <1>7, <1>8, <1>9, <1>10, <1>11, <1>12 DEF ClientStep

\* TypeInv holds initially.
LEMMA InitTypes == Init => TypeInv
<1> SUFFICES ASSUME Init PROVE TypeInv
  OBVIOUS
<1>1. run \in Run
  BY EngineAssumption, NullId DEF Init, NoRun, Run, RunStatus, CLAIMABLE_RUN_STATUSES, WakeAt
<1>2. stepRuns \in [Ids -> StepRun] /\ \A id \in Ids : Recorded(stepRuns[id])
  BY EmptyTypes DEF Init, NoStepRuns, NoStepRun, Recorded
<1>3. /\ lease \in [owner: Workers \cup {None}, valid: BOOLEAN]
      /\ signals \in Seq(Signal)
      /\ used \in [Faults -> Nat]
      /\ begun \in SUBSET Key
  BY DEF Init, NoLease
<1>4. client \in [Clients -> [op: ClientOps, owner: Workers \cup {None}, stepRunId: IdOrNull]]
  BY NullId DEF Init, IdleClient, ClientOps
<1>5. /\ pc \in [Workers -> Labels] /\ local \in [Workers -> Local]
      /\ \A w \in Workers : LocalOK(local[w], pc[w])
  <2>1. LocalOK(NoLocal, "idle") /\ "idle" \in Labels
    BY NoLocalOK DEF HandLabels, Labels
  <2> QED BY <2>1, EmptyTypes DEF Init
<1> QED BY <1>1, <1>2, <1>3, <1>4, <1>5 DEF TypeInv, TypeOK

\* TypeInv is inductive.
LEMMA TypeInvInductive == TypeInv /\ [Next]_vars => TypeInv'
<1> SUFFICES ASSUME TypeInv, [Next]_vars PROVE TypeInv'
  OBVIOUS
<1>1. ASSUME NEW w \in Workers,
             ClaimDue(w) \/ Tick(w) \/ StorageThrows(w) \/ PersistReplyLost(w) \/ Crash(w)
      PROVE  TypeInv'
  BY <1>1, TickKeepsTypes
<1>2. CASE (\E w \in Workers : Heartbeat(w)) \/ LeaseExpires \/ TimePasses \/ Prune
  BY <1>2, EnvironmentKeepsTypes
<1>3. ASSUME NEW c \in Clients, ClientStep(c) PROVE TypeInv'
  BY <1>3, ClientKeepsTypes
<1>4. CASE UNCHANGED vars
  BY <1>4 DEF vars, TypeInv, TypeOK
<1> QED BY <1>1, <1>2, <1>3, <1>4 DEF Next

\* Every reachable state satisfies TypeInv.
LEMMA TypeInvHolds == Spec => []TypeInv
<1>1. TypeInv /\ [Next]_vars => TypeInv'
  BY TypeInvInductive
<1> QED BY InitTypes, <1>1, PTL DEF Spec

\* Type correctness: whatever the engine writes into the row, the step runs and
\* the signal queue, and whatever a worker or a client keeps, has its type.
THEOREM TypesCorrect == Spec => []TypeOK
<1>1. TypeInv => TypeOK
  BY DEF TypeInv
<1> QED BY TypeInvHolds, <1>1, PTL

-----------------------------------------------------------------------------
(* One worker at a time.  What makes SingleDriver inductive: a worker inside *)
(* a tick holds a valid lease, unless the run is gone; nobody can claim a    *)
(* run that is gone, and only a cancellation takes a lease from another.     *)

DriverInv ==
  /\ SingleDriver
  /\ Undisturbed =>
       /\ \A w \in Workers :
            InTick(w) => run.status = "ABSENT" \/ (lease.owner = w /\ lease.valid)
       /\ \A c \in Clients : client[c].op \notin {"cancelSet", "cancelRelease"}

\* What a step of a tick may do to the program counters, the lease and the row.
TickFrame(w) ==
  /\ pc[w] # "idle"
  /\ pc[w] = "workerRelease" => pc'[w] = "idle"
  /\ pc' = [pc EXCEPT ![w] = pc'[w]]
  /\ UNCHANGED <<client, used>>
  /\ \/ lease' = lease
     \/ lease' = [lease EXCEPT !.valid = TRUE]
     \/ lease' = Released(w) /\ pc'[w] \in {"idle", "workerRelease"}
  /\ run.status = "ABSENT" => run'.status = "ABSENT"

\* Every step of a tick keeps to that frame.
LEMMA TickIsFramed ==
  ASSUME TypeInv, NEW w \in Workers, Tick(w)
  PROVE  TickFrame(w)
<1> USE DEF TickFrame, Goto, Store
<1>0. pc \in [Workers -> Labels]
  BY DEF TypeInv, TypeOK
<1>1. CASE ReadRun(w)
  BY <1>0, <1>1 DEF ReadRun
<1>2. CASE ListByRun(w)
  BY <1>0, <1>2 DEF ListByRun
<1>3. CASE GetActive(w)
  BY <1>0, <1>3 DEF GetActive
<1>4. CASE Begin(w)
  BY <1>0, <1>4 DEF Begin
<1>5. CASE ConsumeNext(w)
  BY <1>0, <1>5 DEF ConsumeNext
<1>6. CASE NothingToConsume(w)
  BY <1>0, <1>6 DEF NothingToConsume
<1>7. CASE SavePayload(w)
  BY <1>0, <1>7 DEF SavePayload
<1>8. CASE ResumeRun(w)
  BY <1>0, <1>8 DEF ResumeRun
<1>9. CASE ParkAgain(w)
  BY <1>0, <1>9 DEF ParkAgain
<1>10. CASE LoopExit(w)
  BY <1>0, <1>10 DEF LoopExit
<1>11. CASE RenewFails(w)
  BY <1>0, <1>11 DEF RenewFails, AtLoopHead
<1>12. CASE Replay(w)
  BY <1>0, <1>12 DEF Replay, AtLoopHead, HoldsLease
<1>13. CASE Prepare(w)
  BY <1>0, <1>13 DEF Prepare, AtLoopHead, HoldsLease
<1>14. CASE Point(w)
  BY <1>0, <1>14 DEF Point
<1>15. CASE StartHandler(w)
  BY <1>0, <1>15 DEF StartHandler
<1>16. CASE HandlerReturns(w)
  BY <1>0, <1>16 DEF HandlerReturns
<1>17. CASE Watermark(w)
  BY <1>0, <1>17 DEF Watermark
<1>18. CASE Persist(w)
  BY <1>0, <1>18 DEF Persist, RecordAttempt, After
<1>19. CASE PersistConflict(w)
  BY <1>0, <1>19 DEF PersistConflict
<1>20. CASE PersistFailure(w)
  BY <1>0, <1>20 DEF PersistFailure, RecordAttempt, After
<1>21. CASE PersistFailureConflict(w)
  BY <1>0, <1>21 DEF PersistFailureConflict
<1>22. CASE Complete(w)
  BY <1>0, <1>22 DEF Complete
<1>23. CASE Advance(w)
  BY <1>0, <1>23 DEF Advance
<1>24. CASE NoMatchingTransition(w)
  BY <1>0, <1>24 DEF NoMatchingTransition
<1>25. CASE ParkRun(w)
  BY <1>0, <1>25 DEF ParkRun
<1>26. CASE BackOff(w)
  BY <1>0, <1>26 DEF BackOff
<1>27. CASE Fail(w)
  BY <1>0, <1>27 DEF Fail
<1>28. CASE TickRelease(w)
  BY <1>0, <1>28 DEF TickRelease
<1>29. CASE WorkerRelease(w)
  BY <1>0, <1>29 DEF WorkerRelease
<1> QED
  BY <1>1, <1>2, <1>3, <1>4, <1>5, <1>6, <1>7, <1>8, <1>9, <1>10, <1>11, <1>12, <1>13, <1>14, <1>15, <1>16, <1>17, <1>18, <1>19, <1>20, <1>21, <1>22, <1>23, <1>24, <1>25, <1>26, <1>27, <1>28, <1>29 DEF Tick

\* A tick step, a storage error and a crash keep DriverInv.
LEMMA TickKeepsDriver ==
  ASSUME TypeInv, DriverInv, NEW w \in Workers,
         Tick(w) \/ StorageThrows(w) \/ PersistReplyLost(w) \/ Crash(w)
  PROVE  DriverInv'
<1> SUFFICES ASSUME Undisturbed'
             PROVE  /\ \A u, v \in Workers : (InTick(u) /\ InTick(v))' => u = v
                    /\ \A v \in Workers : InTick(v)' =>
                         run'.status = "ABSENT" \/ (lease'.owner = v /\ lease'.valid)
                    /\ \A c \in Clients : client'[c].op \notin {"cancelSet", "cancelRelease"}
  BY DEF DriverInv, SingleDriver
<1>0. pc \in [Workers -> Labels] /\ None \notin Workers
      /\ lease \in [owner: Workers \cup {None}, valid: BOOLEAN] /\ used \in [Faults -> Nat]
  BY EngineAssumption DEF TypeInv, TypeOK
<1>1. CASE Tick(w)
  <2>1. TickFrame(w)
    BY <1>1, TickIsFramed
  <2>2. Undisturbed
    BY <2>1 DEF TickFrame, Undisturbed
  <2>3. \A v \in Workers : InTick(v)' => InTick(v)
    BY <1>0, <2>1 DEF TickFrame, InTick
  <2>4. ASSUME NEW v \in Workers, InTick(v)'
        PROVE  run'.status = "ABSENT" \/ (lease'.owner = v /\ lease'.valid)
    <3>1. InTick(v) /\ (run.status = "ABSENT" \/ (lease.owner = v /\ lease.valid))
      BY <2>2, <2>3, <2>4 DEF DriverInv
    <3>2. CASE run.status = "ABSENT"
      BY <2>1, <3>2 DEF TickFrame
    <3>3. CASE lease.owner = v /\ lease.valid
      <4>1. CASE lease' = lease \/ lease' = [lease EXCEPT !.valid = TRUE]
        BY <1>0, <3>3, <4>1
      <4>2. CASE lease' = Released(w) /\ pc'[w] \in {"idle", "workerRelease"}
        <5>1. v # w
          BY <2>4, <4>2 DEF InTick
        <5> QED BY <3>3, <4>2, <5>1 DEF Released
      <4> QED BY <2>1, <4>1, <4>2 DEF TickFrame
    <3> QED BY <3>1, <3>2, <3>3
  <2>5. \A u, v \in Workers : (InTick(u) /\ InTick(v))' => u = v
    BY <2>2, <2>3 DEF DriverInv, SingleDriver
  <2>6. \A c \in Clients : client'[c].op \notin {"cancelSet", "cancelRelease"}
    BY <2>1, <2>2 DEF TickFrame, DriverInv
  <2> QED BY <2>4, <2>5, <2>6
<1>2. CASE StorageThrows(w) \/ PersistReplyLost(w) \/ Crash(w)
  <2>1. /\ UNCHANGED <<run, lease, client>>
        /\ \A v \in Workers : InTick(v)' => InTick(v)
    BY <1>0, <1>2 DEF StorageThrows, PersistReplyLost, Crash, Goto, AfterThrow, InTick
  <2>2. Undisturbed
    BY <1>0, <1>2 DEF StorageThrows, PersistReplyLost, Crash, Spend, Undisturbed, Faults
  <2> QED BY <2>1, <2>2 DEF DriverInv, SingleDriver
<1> QED BY <1>1, <1>2

\* Claiming keeps DriverInv: a run that somebody drives cannot be claimed.
LEMMA ClaimKeepsDriver ==
  ASSUME TypeInv, DriverInv, NEW w \in Workers, ClaimDue(w)
  PROVE  DriverInv'
<1> SUFFICES ASSUME Undisturbed'
             PROVE  /\ \A u, v \in Workers : (InTick(u) /\ InTick(v))' => u = v
                    /\ \A v \in Workers : InTick(v)' =>
                         run'.status = "ABSENT" \/ (lease'.owner = v /\ lease'.valid)
                    /\ \A c \in Clients : client'[c].op \notin {"cancelSet", "cancelRelease"}
  BY DEF DriverInv, SingleDriver
<1>1. Undisturbed
  BY DEF ClaimDue, Undisturbed
<1>2. \A v \in Workers : ~InTick(v)
  <2>1. run.status # "ABSENT" /\ (lease.owner = None \/ ~lease.valid)
    BY DEF ClaimDue, Claimable, CLAIMABLE_RUN_STATUSES
  <2> QED BY <1>1, <2>1, EngineAssumption DEF DriverInv
<1>3. \A v \in Workers : InTick(v)' => v = w
  BY <1>2 DEF ClaimDue, Goto, InTick, TypeInv, TypeOK
<1>4. lease' = [owner |-> w, valid |-> TRUE] /\ client' = client
  BY DEF ClaimDue
<1> QED BY <1>1, <1>3, <1>4 DEF DriverInv

\* The environment and the clients keep DriverInv: nobody inside a tick is moved,
\* and without a lease loss or a cancellation no valid lease is taken away.
LEMMA OthersKeepDriver ==
  ASSUME TypeInv, DriverInv,
         \/ \E w \in Workers : Heartbeat(w)
         \/ LeaseExpires \/ TimePasses \/ Prune
         \/ \E c \in Clients : ClientStep(c)
  PROVE  DriverInv'
<1> SUFFICES ASSUME Undisturbed'
             PROVE  /\ \A u, v \in Workers : (InTick(u) /\ InTick(v))' => u = v
                    /\ \A v \in Workers : InTick(v)' =>
                         run'.status = "ABSENT" \/ (lease'.owner = v /\ lease'.valid)
                    /\ \A c \in Clients : client'[c].op \notin {"cancelSet", "cancelRelease"}
  BY DEF DriverInv, SingleDriver
<1>0. /\ used \in [Faults -> Nat]
      /\ run \in Run
      /\ lease \in [owner: Workers \cup {None}, valid: BOOLEAN]
      /\ client \in [Clients -> ClientRecord]
  BY DEF TypeInv, TypeOK, ClientRecord
<1>1. CASE \E w \in Workers : Heartbeat(w)
  BY <1>0, <1>1 DEF Heartbeat, InTick, Undisturbed, DriverInv, SingleDriver
<1>2. CASE LeaseExpires
  <2>1. Undisturbed /\ lease.owner \in Workers => pc[lease.owner] = "idle"
    BY <1>0, <1>2 DEF LeaseExpires, Spend, Undisturbed, Faults
  <2>2. Undisturbed /\ UNCHANGED <<run, pc, client>>
    BY <1>0, <1>2 DEF LeaseExpires, Spend, Undisturbed, Faults
  <2>3. \A v \in Workers : InTick(v) => run.status = "ABSENT"
    BY <2>1, <2>2 DEF DriverInv, InTick
  <2> QED BY <2>2, <2>3 DEF DriverInv, SingleDriver, InTick
<1>3. CASE TimePasses
  <2>1. run'.status = run.status
    BY <1>0, <1>3 DEF TimePasses, Run
  <2> QED BY <1>3, <2>1 DEF TimePasses, InTick, Undisturbed, DriverInv, SingleDriver
<1>4. CASE Prune
  <2>1. Undisturbed /\ UNCHANGED <<pc, client>> /\ run'.status = "ABSENT"
    <3>1. /\ used' = [used EXCEPT !["prune"] = used["prune"] + 1]
          /\ UNCHANGED <<pc, client>>
          /\ run' = NoRun
      BY <1>4 DEF Prune, Spend
    <3>2. Undisturbed
      BY <1>0, <3>1 DEF Undisturbed, Faults
    <3> QED BY <3>1, <3>2 DEF NoRun
  <2> QED BY <2>1 DEF DriverInv, SingleDriver, InTick
<1>5. ASSUME NEW c \in Clients, ClientStep(c)
      PROVE  /\ Undisturbed /\ UNCHANGED pc
             /\ lease' = lease
             /\ run.status = "ABSENT" => run'.status = "ABSENT"
             /\ \A d \in Clients : client'[d].op \notin {"cancelSet", "cancelRelease"}
  <2> USE DEF Undisturbed, Faults
  <2>1. Undisturbed
    <3>1. CASE SignalRead(c) \/ CancelRead(c) \/ ReconcileRead(c)
      BY <1>0, <3>1 DEF SignalRead, CancelRead, ReconcileRead, Spend
    <3>2. CASE SignalAppend(c) \/ CancelSet(c) \/ CancelRelease(c)
      BY <3>2 DEF SignalAppend, CancelSet, CancelRelease
    <3>3. CASE ReconcileReset(c) \/ ReconcileReopen(c) \/ ReconcileAbandon(c)
      BY <3>3 DEF ReconcileReset, ReconcileReopen, ReconcileAbandon
    <3> QED BY <1>5, <3>1, <3>2, <3>3 DEF ClientStep
  <2>2. client[c] \in ClientRecord /\ client[c].op \notin {"cancelSet", "cancelRelease"}
    BY <1>0, <2>1 DEF DriverInv
  <2>3. ~CancelRead(c) /\ ~CancelSet(c) /\ ~CancelRelease(c)
    BY <1>0, <2>2 DEF CancelRead, CancelSet, CancelRelease, Spend
  <2>4. /\ client' = [client EXCEPT ![c] = client'[c]]
        /\ client'[c].op \notin {"cancelSet", "cancelRelease"}
    <3>1. CASE SignalRead(c) \/ ReconcileReset(c)
      BY <1>0, <2>2, <3>1 DEF SignalRead, ReconcileReset, ClientGoto, ClientRecord
    <3>2. CASE SignalAppend(c) \/ ReconcileReopen(c) \/ ReconcileAbandon(c)
      BY <1>0, <3>2 DEF SignalAppend, ReconcileReopen, ReconcileAbandon, ClientIdle, IdleClient
    <3>3. CASE ReconcileRead(c)
      <4>1. PICK op \in {"retryReset", "abandonSet"} :
              client' = [client EXCEPT ![c] = [@ EXCEPT !.op = op, !.stepRunId = run.stepRunId]]
        BY <3>3 DEF ReconcileRead
      <4>2. [client[c] EXCEPT !.op = op, !.stepRunId = run.stepRunId].op = op
        BY <2>2 DEF ClientRecord
      <4> QED BY <1>0, <4>1, <4>2
    <3> QED BY <1>5, <2>3, <3>1, <3>2, <3>3 DEF ClientStep
  <2>5. UNCHANGED <<pc, lease>> /\ (run.status = "ABSENT" => run'.status = "ABSENT")
    BY <1>5, <2>3 DEF ClientStep, SignalRead, SignalAppend, ReconcileRead, ReconcileReset,
         ReconcileReopen, ReconcileAbandon, Store
  <2> QED BY <1>0, <2>1, <2>4, <2>5 DEF DriverInv
<1>6. ASSUME NEW c \in Clients, ClientStep(c)
      PROVE  /\ \A u, v \in Workers : (InTick(u) /\ InTick(v))' => u = v
             /\ \A v \in Workers : InTick(v)' =>
                  run'.status = "ABSENT" \/ (lease'.owner = v /\ lease'.valid)
             /\ \A d \in Clients : client'[d].op \notin {"cancelSet", "cancelRelease"}
  BY <1>5, <1>6 DEF DriverInv, SingleDriver, InTick
<1> QED BY <1>1, <1>2, <1>3, <1>4, <1>6

\* Every reachable state satisfies DriverInv.
LEMMA DriverInvHolds == Spec => []DriverInv
<1>1. Init => DriverInv
  BY DEF Init, DriverInv, SingleDriver, InTick, IdleClient
<1>2. TypeInv /\ DriverInv /\ [Next]_vars => DriverInv'
  <2> SUFFICES ASSUME TypeInv, DriverInv, [Next]_vars PROVE DriverInv'
    OBVIOUS
  <2>1. CASE UNCHANGED vars
    BY <2>1 DEF vars, DriverInv, SingleDriver, InTick, Undisturbed
  <2> QED BY <2>1, TickKeepsDriver, ClaimKeepsDriver, OthersKeepDriver DEF Next
<1> QED BY <1>1, <1>2, TypeInvHolds, PTL DEF Spec

\* "At any time one run is driven by one worker": however many workers poll and
\* whatever crashes, storage errors, reconciliations and prunes happen, two of
\* them are inside a tick of the run only after a live worker's lease ran out
\* or a cancellation took it.
THEOREM OneDriver == Spec => []SingleDriver
<1>1. DriverInv => SingleDriver
  BY DEF DriverInv
<1> QED BY DriverInvHolds, <1>1, PTL

-----------------------------------------------------------------------------
(* A worker without its lease.  Nobody but its owner gives a worker a lease, *)
(* and it only does so by claiming, between two ticks: what a tick lost, it  *)
(* never gets back.                                                          *)

StaleInv ==
  \A w \in Workers :
    /\ local[w].stale \in {0, 1}
    /\ local[w].stale = 1 => lease.owner # w
    /\ pc[w] \in {"point", "handler"} => local[w].stale = 0

\* What a step of a tick may do to the owner of the lease and the stale starts.
StaleFrame(w) ==
  /\ pc' = [pc EXCEPT ![w] = pc'[w]]
  /\ local' = [local EXCEPT ![w] = local'[w]]
  /\ lease'.owner \in {lease.owner, None}
  /\ \/ local'[w].stale = 0
     \/ /\ local'[w].stale = local[w].stale
        /\ pc'[w] \in {"point", "handler"} => pc[w] = "point" \/ lease.owner = w
     \/ /\ pc[w] = "handler"
        /\ pc'[w] = "running"
        /\ lease' = lease
        /\ local'[w].stale = IF lease.owner = w THEN local[w].stale ELSE local[w].stale + 1

\* Every step of a tick keeps to that frame.
LEMMA TickIsStaleFramed ==
  ASSUME TypeInv, NEW w \in Workers, Tick(w)
  PROVE  StaleFrame(w)
<1> USE DEF StaleFrame, Goto
<1>0. /\ pc \in [Workers -> Labels]
      /\ local \in [Workers -> Local] /\ local[w] \in Local
      /\ lease \in [owner: Workers \cup {None}, valid: BOOLEAN]
  BY DEF TypeInv, TypeOK
<1>1. CASE ReadRun(w)
  BY <1>0, <1>1 DEF ReadRun, Local
<1>2. CASE ListByRun(w)
  BY <1>0, <1>2 DEF ListByRun, Local
<1>3. CASE GetActive(w)
  BY <1>0, <1>3 DEF GetActive, Local
<1>4. CASE Begin(w)
  BY <1>0, <1>4 DEF Begin, Local
<1>5. CASE ConsumeNext(w)
  BY <1>0, <1>5 DEF ConsumeNext, Local
<1>6. CASE NothingToConsume(w)
  BY <1>0, <1>6 DEF NothingToConsume, Local
<1>7. CASE SavePayload(w)
  BY <1>0, <1>7 DEF SavePayload, Local
<1>8. CASE ResumeRun(w)
  BY <1>0, <1>8 DEF ResumeRun, Local
<1>9. CASE ParkAgain(w)
  BY <1>0, <1>9 DEF ParkAgain, Local
<1>10. CASE LoopExit(w)
  BY <1>0, <1>10 DEF LoopExit, Local
<1>11. CASE RenewFails(w)
  BY <1>0, <1>11 DEF RenewFails, AtLoopHead, Local
<1>12. CASE Replay(w)
  BY <1>0, <1>12 DEF Replay, AtLoopHead, HoldsLease, Local
<1>13. CASE Prepare(w)
  <2> DEFINE active == ActiveInHistory(w)
             pointer == local[w].run.stepRunId
             told(res) == IF res = NoResume THEN ReconstructResume(active) ELSE res
  <2>1. PICK id \in IF pointer = 0 THEN LeastFreshId ELSE {pointer}, visit \in VisitOf(w, active) :
          local' = [local EXCEPT ![w].id = id, ![w].visit = visit, ![w].resume = told(@)]
    BY <1>13 DEF Prepare
  <2> HIDE DEF told
  <2>2. local' = [local EXCEPT ![w] = local'[w]] /\ local'[w].stale = local[w].stale
    BY <1>0, <2>1 DEF Local
  <2>3. lease.owner = w /\ lease'.owner = lease.owner /\ pc' = [pc EXCEPT ![w] = pc'[w]]
    BY <1>0, <1>13 DEF Prepare, HoldsLease
  <2> QED BY <2>2, <2>3
<1>14. CASE Point(w)
  BY <1>0, <1>14 DEF Point, Local
<1>15. CASE StartHandler(w)
  BY <1>0, <1>15 DEF StartHandler, Local
<1>16. CASE HandlerReturns(w)
  BY <1>0, <1>16 DEF HandlerReturns, Local
<1>17. CASE Watermark(w)
  BY <1>0, <1>17 DEF Watermark, Local
<1>18. CASE Persist(w)
  BY <1>0, <1>18 DEF Persist, RecordAttempt, After, Local
<1>19. CASE PersistConflict(w)
  BY <1>0, <1>19 DEF PersistConflict, Local
<1>20. CASE PersistFailure(w)
  BY <1>0, <1>20 DEF PersistFailure, RecordAttempt, After, Local
<1>21. CASE PersistFailureConflict(w)
  BY <1>0, <1>21 DEF PersistFailureConflict, Local
<1>22. CASE Complete(w)
  BY <1>0, <1>22 DEF Complete, Local
<1>23. CASE Advance(w)
  BY <1>0, <1>23 DEF Advance, Local
<1>24. CASE NoMatchingTransition(w)
  BY <1>0, <1>24 DEF NoMatchingTransition, Local
<1>25. CASE ParkRun(w)
  BY <1>0, <1>25 DEF ParkRun, Local
<1>26. CASE BackOff(w)
  BY <1>0, <1>26 DEF BackOff, Local
<1>27. CASE Fail(w)
  BY <1>0, <1>27 DEF Fail, Local
<1>28. CASE TickRelease(w)
  BY <1>0, <1>28 DEF TickRelease, Released, NoLease, Local
<1>29. CASE WorkerRelease(w)
  BY <1>0, <1>29 DEF WorkerRelease, Released, NoLease, NoLocal, Local
<1> QED
  BY <1>1, <1>2, <1>3, <1>4, <1>5, <1>6, <1>7, <1>8, <1>9, <1>10, <1>11, <1>12, <1>13, <1>14, <1>15, <1>16, <1>17, <1>18, <1>19, <1>20, <1>21, <1>22, <1>23, <1>24, <1>25, <1>26, <1>27, <1>28, <1>29 DEF Tick

\* A storage error and a crash keep to it as well.
LEMMA FaultIsStaleFramed ==
  ASSUME TypeInv, NEW w \in Workers, StorageThrows(w) \/ PersistReplyLost(w) \/ Crash(w)
  PROVE  StaleFrame(w)
<1>0. pc \in [Workers -> Labels] /\ local \in [Workers -> Local]
  BY DEF TypeInv, TypeOK
<1>1. CASE StorageThrows(w)
  <2>1. pc'[w] \notin {"point", "handler"} /\ local'[w] \in {local[w], NoLocal}
    BY <1>0, <1>1 DEF StorageThrows, Goto, AfterThrow
  <2> QED BY <1>0, <1>1, <2>1 DEF StaleFrame, StorageThrows, Goto, NoLocal
<1>2. CASE Crash(w)
  BY <1>0, <1>2 DEF StaleFrame, Crash, Goto, NoLocal
<1>3. CASE PersistReplyLost(w)
  BY <1>0, <1>3 DEF StaleFrame, PersistReplyLost, Goto, AfterThrow
<1> QED BY <1>1, <1>2, <1>3

\* Every step keeps StaleInv.
LEMMA StaleInvInductive == TypeInv /\ StaleInv /\ [Next]_vars => StaleInv'
<1> SUFFICES ASSUME TypeInv, StaleInv, [Next]_vars PROVE StaleInv'
  OBVIOUS
<1>0. /\ pc \in [Workers -> Labels] /\ local \in [Workers -> Local]
      /\ lease \in [owner: Workers \cup {None}, valid: BOOLEAN]
      /\ None \notin Workers
  BY EngineAssumption DEF TypeInv, TypeOK
<1>1. ASSUME NEW w \in Workers, Tick(w) \/ StorageThrows(w) \/ PersistReplyLost(w) \/ Crash(w)
      PROVE  StaleInv'
  <2>1. StaleFrame(w)
    BY <1>1, TickIsStaleFramed, FaultIsStaleFramed
  <2>2. ASSUME NEW v \in Workers, v # w
        PROVE  local'[v] = local[v] /\ pc'[v] = pc[v]
    BY <1>0, <2>1, <2>2 DEF StaleFrame
  <2>3. ASSUME NEW v \in Workers, v # w
        PROVE  /\ local'[v].stale \in {0, 1}
               /\ local'[v].stale = 1 => lease'.owner # v
               /\ pc'[v] \in {"point", "handler"} => local'[v].stale = 0
    BY <1>0, <2>1, <2>2, <2>3 DEF StaleFrame, StaleInv
  <2>4. /\ local'[w].stale \in {0, 1}
        /\ local'[w].stale = 1 => lease'.owner # w
        /\ pc'[w] \in {"point", "handler"} => local'[w].stale = 0
    <3>1. /\ local[w].stale \in {0, 1}
          /\ local[w].stale = 1 => lease.owner # w
          /\ pc[w] \in {"point", "handler"} => local[w].stale = 0
      BY DEF StaleInv
    <3> QED BY <1>0, <2>1, <3>1 DEF StaleFrame
  <2> QED BY <2>3, <2>4 DEF StaleInv
<1>2. ASSUME NEW w \in Workers, ClaimDue(w) PROVE StaleInv'
  BY <1>0, <1>2 DEF ClaimDue, Goto, StaleInv, NoLocal
<1>3. CASE (\E w \in Workers : Heartbeat(w)) \/ LeaseExpires \/ TimePasses \/ Prune
  <2>1. UNCHANGED <<pc, local>> /\ lease'.owner \in {lease.owner, None}
    BY <1>0, <1>3 DEF Heartbeat, LeaseExpires, TimePasses, Prune, NoLease
  <2> QED BY <1>0, <2>1 DEF StaleInv
<1>4. ASSUME NEW c \in Clients, ClientStep(c) PROVE StaleInv'
  <2>1. UNCHANGED <<pc, local>> /\ lease'.owner \in {lease.owner, None}
    BY <1>0, <1>4 DEF ClientStep, SignalRead, SignalAppend, CancelRead, CancelSet, CancelRelease,
         ReconcileRead, ReconcileReset, ReconcileReopen, ReconcileAbandon, Released, NoLease
  <2> QED BY <1>0, <2>1 DEF StaleInv
<1>5. CASE UNCHANGED vars
  BY <1>5 DEF vars, StaleInv
<1> QED BY <1>1, <1>2, <1>3, <1>4, <1>5 DEF Next

\* A worker whose lease is gone starts at most one handler in that tick, however
\* it lost the lease: its heartbeat was late, another worker or a cancellation
\* took it, or the run was pruned.
THEOREM AtMostOneStaleHandler == Spec => []OneStaleHandler
<1>1. Init => StaleInv
  BY DEF Init, StaleInv, NoLocal
<1>2. StaleInv => OneStaleHandler
  BY DEF StaleInv, OneStaleHandler
<1> QED BY <1>1, <1>2, StaleInvInductive, TypeInvHolds, PTL DEF Spec

-----------------------------------------------------------------------------
(* Nothing outlives a pruned run: inductive once it is known that no row is  *)
(* ever written with the status of a run that is gone.                       *)

\* A patch of setRun never makes a run disappear.
LEMMA StoreKeepsRun ==
  ASSUME run \in Run, NEW row, Store(row), row.status # "ABSENT"
  PROVE  run'.status = "ABSENT" => run.status = "ABSENT"
  BY DEF Store

\* Every patch of setRun names a status.
LEMMA RowStatus ==
  ASSUME NEW r \in Run, NEW id, NEW s, NEW context, NEW t
  PROVE  /\ Started(r).status = "RUNNING" /\ Resumed(r).status = "RUNNING"
         /\ Pointed(r, id).status = "RUNNING" /\ Parked(r, s, t).status = "WAITING"
         /\ Moved(r, context, s).status = "RUNNING" /\ Finished(r, context).status = "COMPLETED"
         /\ BackingOff(r, s).status = "RETRYING" /\ Failed(r, s).status = "FAILED"
         /\ Cancelled(r).status = "CANCELLED" /\ Reopened(r).status = "RUNNING"
  BY DEF Run, Started, Resumed, Pointed, Parked, Moved, Finished, BackingOff, Failed,
         Cancelled, Reopened

\* A run that is gone has no step run left to update.
LEMMA NothingExists ==
  ASSUME stepRuns = NoStepRuns, NEW id \in IdOrNull
  PROVE  ~Exists(id)
  BY NullId DEF Exists, NoStepRuns, NoStepRun

\* An attempt that ends after the run is gone is recorded nowhere: the INSERT has
\* no run to refer to and the UPDATE finds no row.
LEMMA RecordLeavesNoOrphans ==
  ASSUME TypeInv, NoOrphans, NEW w \in Workers, NEW rec, Storable(w, rec),
         run.status = "ABSENT"
  PROVE  StepRunsAfter(w, rec) = NoStepRuns /\ signals = <<>>
<1>1. stepRuns = NoStepRuns /\ signals = <<>>
  BY DEF NoOrphans
<1>2. Existing(w).status # "ABSENT"
  BY DEF Storable, CanCreate
<1>3. local[w].id \in IdOrNull
  BY LocalFields DEF TypeInv, TypeOK
<1> QED BY <1>1, <1>2, <1>3, NothingExists DEF StepRunsAfter

\* Once the run is gone, a tick that still works on it inserts and updates nothing.
LEMMA TickLeavesNoOrphans ==
  ASSUME TypeInv, NoOrphans, NEW w \in Workers, Tick(w)
  PROVE  NoOrphans'
<1>0. /\ run \in Run
      /\ local[w] \in Local
      /\ LocalOK(local[w], pc[w])
  BY DEF TypeInv, TypeOK
<1> SUFFICES ASSUME run'.status = "ABSENT"
             PROVE  stepRuns' = NoStepRuns /\ signals' = <<>>
  BY DEF NoOrphans
<1>1. CASE ReadRun(w)
  BY <1>1 DEF ReadRun, NoOrphans
<1>2. CASE ListByRun(w)
  BY <1>2 DEF ListByRun, NoOrphans
<1>3. CASE GetActive(w)
  BY <1>3 DEF GetActive, NoOrphans
<1>4. CASE Begin(w)
  <2>1. run.status = "ABSENT"
    BY <1>0, <1>4, RowStatus DEF Begin, Store
  <2> QED BY <1>4, <2>1 DEF Begin, NoOrphans
<1>5. CASE ConsumeNext(w)
  <2>1. signals = <<>>
    BY <1>5 DEF ConsumeNext, NoOrphans
  <2>2. EligibleFor(local[w].wait) = {}
    BY <2>1 DEF EligibleFor
  <2> QED BY <1>5, <2>2 DEF ConsumeNext, Oldest
<1>6. CASE NothingToConsume(w)
  BY <1>6 DEF NothingToConsume, NoOrphans
<1>7. CASE SavePayload(w)
  <2>1. stepRuns = NoStepRuns /\ signals = <<>>
    BY <1>7 DEF SavePayload, NoOrphans
  <2>2. ~Exists(local[w].run.stepRunId)
    BY <1>0, <2>1, LocalFields, NothingExists
  <2> QED BY <1>7, <2>1, <2>2 DEF SavePayload
<1>8. CASE ResumeRun(w)
  <2>1. run.status = "ABSENT"
    BY <1>0, <1>8, RowStatus DEF ResumeRun, Store
  <2> QED BY <1>8, <2>1 DEF ResumeRun, NoOrphans
<1>9. CASE ParkAgain(w)
  <2>1. run.status = "ABSENT"
    BY <1>0, <1>9, RowStatus DEF ParkAgain, Store
  <2> QED BY <1>9, <2>1 DEF ParkAgain, NoOrphans
<1>10. CASE LoopExit(w)
  BY <1>10 DEF LoopExit, NoOrphans
<1>11. CASE RenewFails(w)
  BY <1>11 DEF RenewFails, NoOrphans
<1>12. CASE Replay(w)
  BY <1>12 DEF Replay, NoOrphans
<1>13. CASE Prepare(w)
  BY <1>13 DEF Prepare, NoOrphans
<1>14. CASE Point(w)
  <2>1. run.status = "ABSENT"
    BY <1>0, <1>14, RowStatus DEF Point, Store
  <2> QED BY <1>14, <2>1 DEF Point, NoOrphans
<1>15. CASE StartHandler(w)
  BY <1>15 DEF StartHandler, NoOrphans
<1>16. CASE HandlerReturns(w)
  BY <1>16 DEF HandlerReturns, NoOrphans
<1>17. CASE Watermark(w)
  BY <1>17 DEF Watermark, NoOrphans
<1>18. CASE Persist(w)
  <2>1. /\ Storable(w, Outcome(w)) /\ run.status = "ABSENT" /\ signals' = signals
        /\ stepRuns' = StepRunsAfter(w, Outcome(w))
    BY <1>18 DEF Persist, RecordAttempt
  <2> QED BY <2>1, RecordLeavesNoOrphans
<1>19. CASE PersistConflict(w)
  BY <1>19 DEF PersistConflict, NoOrphans
<1>20. CASE PersistFailure(w)
  <2>1. /\ Storable(w, FailureOutcome(w)) /\ run.status = "ABSENT" /\ signals' = signals
        /\ stepRuns' = StepRunsAfter(w, FailureOutcome(w))
    BY <1>20 DEF PersistFailure, RecordAttempt
  <2> QED BY <2>1, RecordLeavesNoOrphans
<1>21. CASE PersistFailureConflict(w)
  BY <1>21 DEF PersistFailureConflict, NoOrphans
<1>22. CASE Complete(w)
  <2>1. run.status = "ABSENT"
    BY <1>0, <1>22, RowStatus DEF Complete, Store
  <2> QED BY <1>22, <2>1 DEF Complete, NoOrphans
<1>23. CASE Advance(w)
  <2>1. run.status = "ABSENT"
    BY <1>0, <1>23, RowStatus DEF Advance, Store
  <2> QED BY <1>23, <2>1 DEF Advance, NoOrphans
<1>24. CASE NoMatchingTransition(w)
  BY <1>24 DEF NoMatchingTransition, NoOrphans
<1>25. CASE ParkRun(w)
  <2>1. run.status = "ABSENT"
    BY <1>0, <1>25, RowStatus DEF ParkRun, Store
  <2> QED BY <1>25, <2>1 DEF ParkRun, NoOrphans
<1>26. CASE BackOff(w)
  <2>1. run.status = "ABSENT"
    BY <1>0, <1>26, RowStatus DEF BackOff, Store
  <2> QED BY <1>26, <2>1 DEF BackOff, NoOrphans
<1>27. CASE Fail(w)
  <2>1. run.status = "ABSENT"
    BY <1>0, <1>27, RowStatus DEF Fail, Store
  <2> QED BY <1>27, <2>1 DEF Fail, NoOrphans
<1>28. CASE TickRelease(w)
  BY <1>28 DEF TickRelease, NoOrphans
<1>29. CASE WorkerRelease(w)
  BY <1>29 DEF WorkerRelease, NoOrphans
<1> QED
  BY <1>1, <1>2, <1>3, <1>4, <1>5, <1>6, <1>7, <1>8, <1>9, <1>10, <1>11, <1>12, <1>13, <1>14, <1>15, <1>16, <1>17, <1>18, <1>19, <1>20, <1>21, <1>22, <1>23, <1>24, <1>25, <1>26, <1>27, <1>28, <1>29 DEF Tick

\* Every step keeps NoOrphans.
LEMMA NoOrphansInductive == TypeInv /\ NoOrphans /\ [Next]_vars => NoOrphans'
<1> SUFFICES ASSUME TypeInv, NoOrphans, [Next]_vars PROVE NoOrphans'
  OBVIOUS
<1>0. run \in Run /\ client \in [Clients -> ClientRecord]
  BY DEF TypeInv, TypeOK, ClientRecord
<1>1. ASSUME NEW w \in Workers, Tick(w) PROVE NoOrphans'
  BY <1>1, TickLeavesNoOrphans
<1>2. ASSUME NEW w \in Workers, ClaimDue(w) \/ StorageThrows(w) \/ Crash(w) \/ Heartbeat(w)
      PROVE  NoOrphans'
  BY <1>2 DEF ClaimDue, StorageThrows, Crash, Heartbeat, NoOrphans
<1>3. CASE LeaseExpires \/ UNCHANGED vars
  BY <1>3 DEF LeaseExpires, vars, NoOrphans
<1>4. CASE TimePasses
  <2>1. run'.status = run.status
    BY <1>0, <1>4 DEF TimePasses, Run
  <2>2. ASSUME stepRuns = NoStepRuns PROVE stepRuns' = NoStepRuns
    <3>1. Elapsed("none") = "none"
      BY DEF Elapsed
    <3>2. [NoStepRun EXCEPT !.wakeAt = Elapsed(NoStepRun.wakeAt)] = NoStepRun
      <4>1. NoStepRun.wakeAt = "none"
        BY DEF NoStepRun
      <4> QED BY <3>1, <4>1, EmptyTypes DEF StepRun
    <3>3. stepRuns' = [i \in Ids |-> [stepRuns[i] EXCEPT !.wakeAt = Elapsed(stepRuns[i].wakeAt)]]
      BY <1>4 DEF TimePasses
    <3>4. \A i \in Ids : stepRuns[i] = NoStepRun
      BY <2>2 DEF NoStepRuns
    <3> QED BY <3>2, <3>3, <3>4 DEF NoStepRuns
  <2> QED BY <1>4, <2>1, <2>2 DEF TimePasses, NoOrphans
<1>5. CASE Prune
  BY <1>5 DEF Prune, NoOrphans
<1>6. ASSUME NEW c \in Clients, ClientStep(c) PROVE NoOrphans'
  <2>1. CASE SignalRead(c) \/ CancelRead(c) \/ ReconcileRead(c) \/ CancelRelease(c)
    BY <2>1 DEF SignalRead, CancelRead, ReconcileRead, CancelRelease, NoOrphans
  <2>2. CASE SignalAppend(c)
    BY <2>2 DEF SignalAppend, NoOrphans
  <2>3. CASE CancelSet(c) \/ ReconcileAbandon(c)
    <3>1. Store(Cancelled(run)) /\ UNCHANGED <<stepRuns, signals>>
      BY <2>3 DEF CancelSet, ReconcileAbandon
    <3> QED BY <1>0, <3>1, RowStatus DEF Store, NoOrphans
  <2>4. CASE ReconcileReopen(c)
    <3>1. Store(Reopened(run)) /\ UNCHANGED <<stepRuns, signals>>
      BY <2>4 DEF ReconcileReopen
    <3> QED BY <1>0, <3>1, RowStatus DEF Store, NoOrphans
  <2>5. CASE ReconcileReset(c)
    <3>1. client[c].stepRunId \in IdOrNull
      BY <1>0 DEF ClientRecord
    <3> QED BY <2>5, <3>1, NothingExists DEF ReconcileReset, NoOrphans
  <2> QED BY <1>6, <2>1, <2>2, <2>3, <2>4, <2>5 DEF ClientStep
<1>7. ASSUME NEW w \in Workers, PersistReplyLost(w) PROVE NoOrphans'
  <2>1. /\ Storable(w, Outcome(w)) /\ UNCHANGED <<run, signals>>
        /\ stepRuns' = StepRunsAfter(w, Outcome(w))
    BY <1>7 DEF PersistReplyLost
  <2> QED BY <2>1, RecordLeavesNoOrphans DEF NoOrphans
<1> QED BY <1>1, <1>2, <1>3, <1>4, <1>5, <1>6, <1>7 DEF Next

\* Nothing outlives a pruned run: no worker and no client that still works on it,
\* however stale its copy, leaves a step run or a signal behind.
THEOREM PrunedRunLeavesNothing == Spec => []NoOrphans
<1>1. Init => NoOrphans
  BY DEF Init, NoOrphans, NoRun
<1> QED BY <1>1, NoOrphansInductive, TypeInvHolds, PTL DEF Spec

=============================================================================
