-------------------------- MODULE EngineWalkProofs --------------------------
(***************************************************************************)
(* The engine implements the walk of RunWalk, and only a reconciliation    *)
(* revives a step run that has failed for good, proved for every           *)
(* definition, every handler behaviour, every number of workers and every  *)
(* fault budget, as long as no live worker loses its lease and             *)
(* reconciliations do not overlap.  (Two that overlap break both: the      *)
(* first reopens the run, a worker drives it on, and the second writes     *)
(* RUNNING or CANCELLED over whatever the row says by then, because        *)
(* reconcile reads the status and writes it without a condition.)          *)
(***************************************************************************)
EXTENDS EngineWaitProofs

-----------------------------------------------------------------------------
(* The invariants *)

Reconciling(c) == client[c].op \in {"retryReset", "retrySet", "abandonSet"}

\* No two callers are inside reconcile at the same time.
OneReconciler == \A c, d \in Clients : Reconciling(c) /\ Reconciling(d) => c = d

\* The visits of a step are numbered 1, 2, 3 ...
VisitsCount(recs) ==
  \A i \in Ids : There(recs, i) =>
    \/ recs[i].visit = 1
    \/ \E j \in Ids : /\ There(recs, j)
                      /\ recs[j].stepId = recs[i].stepId
                      /\ recs[j].visit + 1 = recs[i].visit

\* Before the first write of the row.
ReadLabels == {"list", "active", "begin"} \cup WaitLabels

\* What a worker inside a tick knows of the status of the run.
StatusKnown(l, label, r) ==
  /\ label # "release" => r.status \in CLAIMABLE_RUN_STATUSES
  /\ label \in ReadLabels => l.run.status = r.status
  /\ label = "begin" => r.status = "CREATED"
  /\ label = "park" => l.run.status # "WAITING"
  /\ label \in {"loop"} \cup HandLabels => r.status \in {"RUNNING", "RETRYING"}

\* A run that has not begun has no step run; only a run that has ended for good
\* has a completion date; a reconciliation is of a run that has failed.
WalkInv ==
  Undisturbed /\ run.status # "ABSENT" =>
    /\ VisitsCount(stepRuns)
    /\ run.status = "CREATED" => run.stepRunId = 0
    /\ run.completedAt => run.status \in {"COMPLETED", "CANCELLED"}
    /\ \A c \in Clients : Reconciling(c) => run.status = "FAILED"
    /\ \A w \in Workers : InTick(w) => StatusKnown(local[w], pc[w], run)

\* Failed for good, and not forgiven.
Hopeless(rec) == Settled(rec) /\ rec.failures # 0

\* A hopeless step run is that of a run that has ended, or that a worker is about
\* to fail; a reconciliation first forgives the step run it reopens the run at.
ReviveInv ==
  Undisturbed /\ NothingInterrupted /\ run.status # "ABSENT" =>
    /\ (\E i \in Ids : Hopeless(stepRuns[i])) =>
         run.status \in {"FAILED", "CANCELLED"} \/ \E w \in Workers : pc[w] = "fail"
    /\ \A c \in Clients : client[c].op = "retryReset" => client[c].stepRunId = run.stepRunId
    /\ \A c \in Clients : client[c].op = "retrySet" => \A i \in Ids : ~Hopeless(stepRuns[i])

-----------------------------------------------------------------------------
(* Every step of a tick *)

\* A step of RunWalk, or one it does not see.
WalkStep == Walk!WalkNext \/ UNCHANGED <<run.status, run.stepId, run.context>>

\* What the invariant says of the row alone.
RowStatusOK(r) ==
  /\ r.status = "CREATED" => r.stepRunId = 0
  /\ r.completedAt => r.status \in {"COMPLETED", "CANCELLED"}

\* Every status is terminal, claimable or that of a run that is gone.
LEMMA Statuses ==
  /\ RunStatus = {"CREATED", "RUNNING", "RETRYING", "WAITING", "COMPLETED", "FAILED", "CANCELLED", "ABSENT"}
  /\ CLAIMABLE_RUN_STATUSES = {"CREATED", "RUNNING", "RETRYING", "WAITING"}
  /\ TERMINAL_RUN_STATUSES = {"COMPLETED", "FAILED", "CANCELLED"}
  BY DEF RunStatus, CLAIMABLE_RUN_STATUSES, TERMINAL_RUN_STATUSES

\* Leaving the step in hand merges a visit that was never merged, and the one
\* before it was.
LEMMA LeavingMerges ==
  ASSUME TypeInv, RowsOK(run, stepRuns, begun), VisitsCount(stepRuns),
         run.stepRunId \in Ids, stepRuns[run.stepRunId].status = "COMPLETED",
         run'.context = run.context \cup {KeyOf(stepRuns[run.stepRunId])}
  PROVE  Walk!Merges
<1> DEFINE id == run.stepRunId
           key == KeyOf(stepRuns[id])
<1>1. There(stepRuns, id) /\ stepRuns[id].stepId = run.stepId
  BY DEF There, RowsOK
<1>2. key = <<run.stepId, stepRuns[id].visit>>
  BY <1>1 DEF KeyOf
<1>3. key \notin run.context
  BY <1>1 DEF RowsOK, Left, There
<1>4. stepRuns[id].visit = 1 \/ <<run.stepId, stepRuns[id].visit - 1>> \in run.context
  <2> SUFFICES ASSUME stepRuns[id].visit # 1 PROVE <<run.stepId, stepRuns[id].visit - 1>> \in run.context
    OBVIOUS
  <2>1. PICK j \in Ids : /\ There(stepRuns, j)
                         /\ stepRuns[j].stepId = stepRuns[id].stepId
                         /\ stepRuns[j].visit + 1 = stepRuns[id].visit
    BY <1>1 DEF VisitsCount
  <2>2. stepRuns[j].visit \in Nat /\ stepRuns[id].visit \in Nat
    BY <2>1 DEF TypeInv, TypeOK, StepRun
  <2>3. j # id /\ stepRuns[j].visit = stepRuns[id].visit - 1
    BY <2>1, <2>2
  <2>4. j \in Left(run, stepRuns)
    BY <2>1, <2>3 DEF RowsOK, Left
  <2>5. KeyOf(stepRuns[j]) \in run.context
    BY <2>4 DEF RowsOK
  <2> QED BY <1>1, <2>1, <2>3, <2>5 DEF KeyOf
<1> HIDE DEF key
<1>5. key \in run'.context \ run.context /\ key[1] = run.stepId /\ key[2] = stepRuns[id].visit
  BY <1>2, <1>3 DEF key
<1> QED BY <1>4, <1>5 DEF Walk!Merges, key

\* Whatever a worker inside a tick writes is a step of the walk; it writes the row
\* only while the run is claimable, and it knows the status of what it has written.
LEMMA TickWalks ==
  ASSUME TypeInv, NEW w \in Workers, Tick(w), pc[w] # "workerRelease", run.status # "ABSENT",
         RowsOK(run, stepRuns, begun), HandOK(local[w], pc[w], run, stepRuns),
         WaitsOK(run, stepRuns, signals, begun),
         WaitOK(local[w], pc[w], run, stepRuns, signals, begun),
         VisitsCount(stepRuns), RowStatusOK(run), StatusKnown(local[w], pc[w], run)
  PROVE  /\ RowStatusOK(run')
         /\ pc'[w] \notin {"release", "workerRelease"} => StatusKnown(local'[w], pc'[w], run')
         /\ WalkStep
         /\ run' = run \/ run.status \in CLAIMABLE_RUN_STATUSES
<1> DEFINE l == local[w]
           moving == {"RUNNING", "RETRYING"}
<1>0. /\ run \in Run /\ stepRuns \in [Ids -> StepRun]
      /\ pc \in [Workers -> Labels]
      /\ local \in [Workers -> Local]
      /\ l \in Local /\ l.run \in Run
      /\ LocalOK(l, pc[w])
      /\ run.status \in RunStatus
  BY LocalFields DEF TypeInv, TypeOK, Run
<1>a. pc'[w] \in {"begin", "loop"} \cup HandLabels => run'.status # "WAITING"
  BY TickKeepsWaitHand DEF WaitOK
<1>b. pc[w] \in WaitLabels => run.status # "CREATED" /\ l.run.stepRunId \in Ids
  BY NullId DEF WaitOK, WaitInHand, HandOK, Position, RowStatusOK, WaitLabels, ListedLabels
<1> USE Statuses DEF HandLabels, WaitLabels, ReadLabels
<1>s. ASSUME run' = run,
             pc'[w] \notin {"release", "workerRelease"} => StatusKnown(local'[w], pc'[w], run')
      PROVE  /\ RowStatusOK(run') /\ WalkStep
             /\ pc'[w] \notin {"release", "workerRelease"} => StatusKnown(local'[w], pc'[w], run')
             /\ run' = run \/ run.status \in CLAIMABLE_RUN_STATUSES
  BY <1>s DEF WalkStep
<1>1. CASE ReadRun(w)
  <2>1. run' = run
    BY <1>1 DEF ReadRun
  <2>2. CASE pc'[w] = "workerRelease"
    BY <1>s, <2>1, <2>2
  <2>3. CASE pc'[w] # "workerRelease"
    <3>1. /\ pc'[w] = "list" /\ local'[w] = [l EXCEPT !.run = run]
          /\ run.status \notin TERMINAL_RUN_STATUSES
      BY <1>0, <1>1, <2>3 DEF ReadRun, Goto
    <3>2. local'[w].run = run
      BY <1>0, <3>1 DEF Local
    <3>3. StatusKnown(local'[w], pc'[w], run')
      BY <1>0, <2>1, <3>1, <3>2 DEF StatusKnown
    <3> QED BY <1>s, <2>1, <3>3
  <2> QED BY <2>2, <2>3
<1>2. CASE ListByRun(w) \/ ConsumeNext(w) \/ SavePayload(w)
  <2>1. /\ run' = run
        /\ \/ pc[w] = "list" /\ pc'[w] = "active"
           \/ pc[w] = "consume" /\ pc'[w] = "savePayload"
           \/ pc[w] = "savePayload" /\ pc'[w] = "resume"
    BY <1>0, <1>2 DEF ListByRun, ConsumeNext, SavePayload, Goto
  <2>2. local'[w].run = l.run
    <3>1. CASE ListByRun(w)
      BY <1>0, <3>1 DEF ListByRun, Local
    <3>2. CASE ConsumeNext(w)
      BY <1>0, <3>2 DEF ConsumeNext, Local
    <3>3. CASE SavePayload(w)
      BY <1>0, <3>3 DEF SavePayload, Local
    <3> QED BY <1>2, <3>1, <3>2, <3>3
  <2>3. StatusKnown(local'[w], pc'[w], run')
    BY <2>1, <2>2 DEF StatusKnown
  <2> QED BY <1>s, <2>1, <2>3
<1>3. CASE GetActive(w)
  <2>1. run' = run /\ pc[w] = "active" /\ pc'[w] \in {"consume", "begin", "loop"}
        /\ (pc'[w] = "begin" => l.run.status = "CREATED")
        /\ (pc'[w] = "loop" => l.run.status # "CREATED")
    BY <1>0, <1>3 DEF GetActive, Goto
  <2>2. local'[w].run = l.run
    BY <1>0, <1>3 DEF GetActive, Local
  <2>3. StatusKnown(local'[w], pc'[w], run')
    BY <1>0, <1>a, <2>1, <2>2 DEF StatusKnown
  <2> QED BY <1>s, <2>1, <2>3
<1>4. CASE Begin(w)
  <2>1. pc[w] = "begin" /\ pc'[w] = "loop" /\ run' = Started(run)
    BY <1>0, <1>4 DEF Begin, Store, Goto
  <2>2. /\ run'.status = "RUNNING" /\ run'.stepId = run.stepId /\ run'.context = run.context
        /\ run'.completedAt = run.completedAt
    BY <1>0, <2>1 DEF Started, Run
  <2>3. run.status = "CREATED"
    BY <2>1 DEF StatusKnown
  <2> QED BY <2>1, <2>2, <2>3 DEF RowStatusOK, StatusKnown, WalkStep, Walk!WalkNext, Walk!WalkBegin, Walk!Stays
<1>5. CASE NothingToConsume(w)
  <2>1. run' = run /\ pc[w] = "consume" /\ pc'[w] \in {"resume", "release", "park"}
        /\ (pc'[w] = "park" => l.run.status # "WAITING")
    BY <1>0, <1>5 DEF NothingToConsume, Goto
  <2>2. local'[w].run = l.run
    BY <1>0, <1>5 DEF NothingToConsume, Local
  <2>3. pc'[w] # "release" => StatusKnown(local'[w], pc'[w], run')
    BY <2>1, <2>2 DEF StatusKnown
  <2> QED BY <1>s, <2>1, <2>3
<1>6. CASE ResumeRun(w)
  <2>1. pc[w] = "resume" /\ pc'[w] = "loop" /\ run' = Resumed(run)
    BY <1>0, <1>6 DEF ResumeRun, Store, Goto
  <2>2. /\ run'.status = "RUNNING" /\ run'.stepId = run.stepId /\ run'.context = run.context
        /\ run'.completedAt = run.completedAt
    BY <1>0, <2>1 DEF Resumed, Run
  <2>3. run.status \in {"RUNNING", "RETRYING", "WAITING"}
    BY <1>b, <2>1 DEF StatusKnown
  <2> QED BY <2>1, <2>2, <2>3 DEF RowStatusOK, StatusKnown, WalkStep, Walk!WalkNext, Walk!WalkWake, Walk!Stays
<1>7. CASE ParkAgain(w)
  <2>1. pc[w] = "park" /\ pc'[w] = "release" /\ run' = Parked(run, run.stepId, l.wait.wakeAt)
    BY <1>0, <1>7 DEF ParkAgain, Store, Goto
  <2>2. /\ run'.status = "WAITING" /\ run'.stepId = run.stepId /\ run'.context = run.context
        /\ run'.completedAt = run.completedAt
    BY <1>0, <2>1 DEF Parked, Run
  <2>3. run.status \in moving
    BY <1>b, <2>1 DEF StatusKnown
  <2> QED BY <2>1, <2>2, <2>3 DEF RowStatusOK, WalkStep, Walk!WalkNext, Walk!WalkSuspend, Walk!Moving, Walk!Stays
<1>8. CASE LoopExit(w) \/ RenewFails(w) \/ PersistFailureConflict(w) \/ NoMatchingTransition(w)
              \/ TickRelease(w)
  <2>1. run' = run /\ pc'[w] \in {"release", "workerRelease"}
    BY <1>0, <1>8 DEF LoopExit, RenewFails, PersistFailureConflict, NoMatchingTransition,
                      TickRelease, Goto
  <2> QED BY <1>s, <2>1
<1>9. CASE Replay(w) \/ Prepare(w) \/ StartHandler(w) \/ HandlerReturns(w) \/ Watermark(w)
             \/ Persist(w) \/ PersistConflict(w) \/ PersistFailure(w)
  <2>1. run' = run /\ pc[w] \in {"loop"} \cup HandLabels /\ pc'[w] \in HandLabels
    BY <1>0, <1>9 DEF Replay, Prepare, AtLoopHead, StartHandler, HandlerReturns, Watermark, Persist,
         PersistConflict, PersistFailure, RecordAttempt, After, Goto
  <2>2. StatusKnown(local'[w], pc'[w], run')
    BY <2>1 DEF StatusKnown
  <2> QED BY <1>s, <2>1, <2>2
<1>10. CASE Point(w)
  <2>1. pc[w] = "point" /\ pc'[w] = "handler" /\ run' = Pointed(run, l.id)
    BY <1>0, <1>10 DEF Point, Store, Goto
  <2>2. /\ run'.status = "RUNNING" /\ run'.stepId = run.stepId /\ run'.context = run.context
        /\ run'.completedAt = run.completedAt
    BY <1>0, <2>1 DEF Pointed, Run
  <2>3. run.status \in moving
    BY <2>1 DEF StatusKnown
  <2> QED BY <2>1, <2>2, <2>3 DEF RowStatusOK, StatusKnown, WalkStep, Walk!WalkNext, Walk!WalkWake, Walk!Stays
<1>11. CASE Complete(w) \/ Advance(w)
  <2> DEFINE next == ResolveNextStep(l.run.stepId, Existing(w).output)
  <2>1. pc[w] = "advance"
    BY <1>11 DEF Complete, Advance
  <2>2. /\ run.status \in moving
        /\ l.run.stepId = run.stepId /\ run.stepId \in Steps /\ l.id = run.stepRunId /\ l.id \in Ids
        /\ Position(l.run) = Position(run) /\ Existing(w) = l.history[l.id]
        /\ Face(l.history[l.id]) = Face(stepRuns[l.id]) /\ Existing(w).status = "COMPLETED"
    BY <1>0, <2>1 DEF StatusKnown, HandOK, LocalOK, Position, Existing, ListedLabels
  <2>3. /\ stepRuns[run.stepRunId].status = "COMPLETED"
        /\ ContextAfter(w) = run.context \cup {KeyOf(stepRuns[run.stepRunId])}
    BY <2>2 DEF Face, KeyOf, Position, ContextAfter
  <2>4. run'.context = ContextAfter(w) => Walk!Merges
    BY <2>2, <2>3, LeavingMerges
  <2>5. CASE Complete(w)
    <3>1. pc'[w] = "release" /\ run' = Finished(run, ContextAfter(w)) /\ Edges[run.stepId] = {}
      BY <1>0, <2>2, <2>5 DEF Complete, Store, Goto
    <3>2. run'.status = "COMPLETED" /\ run'.stepId = None /\ run'.context = ContextAfter(w)
      BY <1>0, <3>1 DEF Finished, Run
    <3> QED BY <2>2, <2>4, <3>1, <3>2 DEF RowStatusOK, WalkStep, Walk!WalkNext, Walk!WalkFinish, Walk!Moving
  <2>6. CASE Advance(w)
    <3>1. pc'[w] = "loop" /\ run' = Moved(run, ContextAfter(w), next) /\ next # None
      BY <1>0, <2>6 DEF Advance, Store, Goto
    <3>2. next \in Edges[run.stepId]
      BY <2>2, <3>1, EngineAssumption DEF ResolveNextStep
    <3> HIDE DEF next
    <3>3. /\ run'.status = "RUNNING" /\ run'.stepId = next /\ run'.context = ContextAfter(w)
          /\ run'.completedAt = run.completedAt
      BY <1>0, <3>1 DEF Moved, Run
    <3> QED BY <2>2, <2>4, <3>1, <3>2, <3>3 DEF RowStatusOK, StatusKnown, WalkStep, Walk!WalkNext,
              Walk!WalkAdvance, Walk!Moving
  <2> QED BY <1>11, <2>5, <2>6
<1>12. CASE ParkRun(w) \/ BackOff(w) \/ Fail(w)
  <2>1. /\ pc[w] \in {"parkRun", "retry", "fail"} /\ pc'[w] = "release"
        /\ run' \in {Parked(run, l.run.stepId, Existing(w).wakeAt),
                     BackingOff(run, l.run.stepId), Failed(run, l.run.stepId)}
    BY <1>0, <1>12 DEF ParkRun, BackOff, Fail, Store, Goto
  <2>2. run.status \in moving /\ l.run.stepId = run.stepId
    BY <2>1 DEF StatusKnown, HandOK, Position, ListedLabels
  <2>3. /\ run'.status \in {"WAITING", "RETRYING", "FAILED"} /\ run'.stepId = run.stepId
        /\ run'.context = run.context /\ run'.completedAt = run.completedAt
    BY <1>0, <2>1, <2>2 DEF Parked, BackingOff, Failed, Run
  <2> QED BY <2>1, <2>2, <2>3 DEF RowStatusOK, WalkStep, Walk!WalkNext, Walk!WalkSuspend,
            Walk!WalkFail, Walk!Moving, Walk!Stays
<1>13. CASE WorkerRelease(w)
  BY <1>13 DEF WorkerRelease
<1> QED
  BY <1>1, <1>2, <1>3, <1>4, <1>5, <1>6, <1>7, <1>8, <1>9, <1>10, <1>11, <1>12, <1>13 DEF Tick

-----------------------------------------------------------------------------
(* The visits of a step are counted *)

\* Steps that write no face create no visit.
LEMMA QuietVisits ==
  ASSUME NEW recs, VisitsCount(recs), NEW other, \A i \in Ids : Face(other[i]) = Face(recs[i])
  PROVE  VisitsCount(other)
<1>1. \A i \in Ids : /\ other[i].stepId = recs[i].stepId
                     /\ other[i].visit = recs[i].visit
                     /\ other[i].status = recs[i].status
  BY DEF Face
<1> QED BY <1>1 DEF VisitsCount, There

\* Recording an attempt creates the next visit of the step, or none.
LEMMA RecordCounts ==
  ASSUME TypeInv, NEW w \in Workers, pc[w] \in {"persist", "persistFailure"},
         RowsOK(run, stepRuns, begun), HandOK(local[w], pc[w], run, stepRuns), VisitsCount(stepRuns),
         NEW rec \in StepRun, rec.stepId = local[w].run.stepId, rec.visit = local[w].visit,
         rec.status # "ABSENT", Storable(w, rec), stepRuns' = StepRunsAfter(w, rec)
  PROVE  VisitsCount(stepRuns')
<1> DEFINE id == local[w].id
<1>0. stepRuns \in [Ids -> StepRun]
  BY DEF TypeInv, TypeOK
<1>1. /\ \A i \in Ids : i # id => stepRuns'[i] = stepRuns[i]
      /\ Face(stepRuns'[id]) = Face(rec)
  BY Recorder
<1>2. /\ id \in Ids /\ id = run.stepRunId /\ local[w].run.stepId = run.stepId
      /\ IF There(stepRuns, id) THEN local[w].visit = stepRuns[id].visit
         ELSE local[w].visit \in NextOf(stepRuns, run.stepId)
  BY HandKey DEF AttemptLabels
<1>3. /\ There(stepRuns', id)
      /\ stepRuns'[id].stepId = run.stepId /\ stepRuns'[id].visit = local[w].visit
  BY <1>1, <1>2 DEF Face, There
<1>4. ASSUME NEW i \in Ids, There(stepRuns, i)
      PROVE  /\ There(stepRuns', i)
             /\ stepRuns'[i].stepId = stepRuns[i].stepId /\ stepRuns'[i].visit = stepRuns[i].visit
  <2>1. CASE i = id
    BY <1>2, <1>3, <1>4, <2>1 DEF RowsOK
  <2>2. CASE i # id
    BY <1>1, <1>4, <2>2 DEF There
  <2> QED BY <2>1, <2>2
<1>5. ASSUME NEW i \in Ids, There(stepRuns', i)
      PROVE  \/ stepRuns'[i].visit = 1
             \/ \E j \in Ids : /\ There(stepRuns', j)
                               /\ stepRuns'[j].stepId = stepRuns'[i].stepId
                               /\ stepRuns'[j].visit + 1 = stepRuns'[i].visit
  <2>1. CASE There(stepRuns, i)
    <3>1. CASE stepRuns[i].visit = 1
      BY <1>4, <2>1, <3>1
    <3>2. CASE stepRuns[i].visit # 1
      <4>1. PICK j \in Ids : /\ There(stepRuns, j)
                             /\ stepRuns[j].stepId = stepRuns[i].stepId
                             /\ stepRuns[j].visit + 1 = stepRuns[i].visit
        BY <2>1, <3>2 DEF VisitsCount
      <4> QED BY <1>4, <2>1, <4>1
    <3> QED BY <3>1, <3>2
  <2>2. CASE ~There(stepRuns, i)
    <3>1. i = id
      BY <1>1, <1>5, <2>2 DEF There
    <3>2. PICK u \in {0} \cup VisitsOf(stepRuns, run.stepId) : local[w].visit = u + 1
      BY <1>2, <2>2, <3>1 DEF NextOf
    <3>3. CASE u = 0
      BY <1>3, <3>1, <3>2, <3>3
    <3>4. CASE u \in VisitsOf(stepRuns, run.stepId)
      <4>1. PICK j \in Ids : stepRuns[j].status # "ABSENT" /\ stepRuns[j].stepId = run.stepId /\ stepRuns[j].visit = u
        BY <3>4 DEF VisitsOf
      <4>2. There(stepRuns, j)
        BY <4>1 DEF There
      <4> QED BY <1>3, <1>4, <3>1, <3>2, <4>1, <4>2
    <3> QED BY <3>2, <3>3, <3>4
  <2> QED BY <2>1, <2>2
<1> QED BY <1>5 DEF VisitsCount

\* The steps of a tick that do not record an attempt write no face.
LEMMA TickFaces ==
  ASSUME TypeInv, NEW w \in Workers, Tick(w)
  PROVE  \/ \A i \in Ids : Face(stepRuns'[i]) = Face(stepRuns[i])
         \/ Persist(w) \/ PersistFailure(w)
<1>1. CASE SavePayload(w)
  <2> DEFINE id == local[w].run.stepRunId
             new == [stepRuns[id] EXCEPT !.waitPayload = local[w].resume.payload]
  <2>0. stepRuns \in [Ids -> StepRun] /\ id \in IdOrNull
    BY LocalFields DEF TypeInv, TypeOK, Run
  <2>1. CASE Exists(id)
    <3>1. id \in Ids /\ stepRuns' = [stepRuns EXCEPT ![id] = new]
      BY <1>1, <2>0, <2>1, NullId DEF SavePayload, Exists
    <3>2. Face(new) = Face(stepRuns[id])
      BY <2>0, <3>1 DEF StepRun, Face
    <3> HIDE DEF new, id
    <3> QED BY <2>0, <3>1, <3>2
  <2>2. CASE ~Exists(id)
    BY <1>1, <2>2 DEF SavePayload
  <2> QED BY <2>1, <2>2
<1>2. CASE ~SavePayload(w) /\ ~Persist(w) /\ ~PersistFailure(w)
  <2>1. stepRuns' = stepRuns
    BY <1>2 DEF Tick, ReadRun, ListByRun, GetActive, Begin, ConsumeNext, NothingToConsume,
         ResumeRun, ParkAgain, LoopExit, RenewFails, Replay, Prepare, Point,
         StartHandler, HandlerReturns, Watermark, PersistConflict,
         PersistFailureConflict, Complete, Advance, NoMatchingTransition, ParkRun, BackOff, Fail,
         TickRelease, WorkerRelease
  <2> QED BY <2>1
<1> QED BY <1>1, <1>2

-----------------------------------------------------------------------------
(* The invariant is inductive while reconciliations do not overlap *)

\* A step of a tick keeps WalkInv, and is a step of the walk.
LEMMA TickKeepsWalk ==
  ASSUME TypeInv, DriverInv, StepsInv, WaitInv, WalkInv, NEW w \in Workers, Tick(w)
  PROVE  WalkInv' /\ (Undisturbed => WalkStep)
<1>0. /\ pc \in [Workers -> Labels] /\ local \in [Workers -> Local]
      /\ pc' = [pc EXCEPT ![w] = pc'[w]] /\ local' = [local EXCEPT ![w] = local'[w]]
  BY TickIsStaleFramed DEF TypeInv, TypeOK, StaleFrame
<1>1. /\ Undisturbed' <=> Undisturbed
      /\ pc[w] # "idle" /\ client' = client
      /\ (pc[w] = "workerRelease" => pc'[w] = "idle")
      /\ run'.status # "ABSENT" => run.status # "ABSENT"
  BY TickIsFramed DEF TickFrame, Undisturbed
<1>2. ASSUME run.status = "ABSENT" PROVE run' = run
  BY <1>2 DEF Tick, ReadRun, ListByRun, GetActive, Begin, ConsumeNext, NothingToConsume,
       SavePayload, ResumeRun, ParkAgain, LoopExit, RenewFails, Replay, Prepare, Point,
       StartHandler, HandlerReturns, Watermark, Persist, PersistConflict, PersistFailure, RecordAttempt,
       PersistFailureConflict, Complete, Advance, NoMatchingTransition, ParkRun, BackOff, Fail,
       TickRelease, WorkerRelease, Store
<1>3. CASE ~Undisturbed \/ run.status = "ABSENT"
  BY <1>1, <1>2, <1>3 DEF WalkInv, WalkStep
<1>4. CASE Undisturbed /\ run.status # "ABSENT"
  <2>1. /\ RowsOK(run, stepRuns, begun) /\ WaitsOK(run, stepRuns, signals, begun)
        /\ VisitsCount(stepRuns) /\ RowStatusOK(run)
        /\ \A c \in Clients : Reconciling(c) => run.status = "FAILED"
        /\ \A v \in Workers : InTick(v) =>
             /\ HandOK(local[v], pc[v], run, stepRuns)
             /\ WaitOK(local[v], pc[v], run, stepRuns, signals, begun)
             /\ StatusKnown(local[v], pc[v], run)
    BY <1>4 DEF StepsInv, WaitInv, WalkInv, RowStatusOK
  <2>2. VisitsCount(stepRuns')
    <3>1. CASE \A i \in Ids : Face(stepRuns'[i]) = Face(stepRuns[i])
      BY <2>1, <3>1, QuietVisits
    <3>2. CASE Persist(w) \/ PersistFailure(w)
      <4>1. PICK rec \in {Outcome(w), FailureOutcome(w)} : RecordAttempt(w, rec)
        BY <3>2 DEF Persist, PersistFailure
      <4>2. pc[w] \in {"persist", "persistFailure"} /\ InTick(w)
        BY <3>2 DEF Persist, PersistFailure, InTick
      <4>3. /\ rec \in StepRun /\ rec.status # "ABSENT"
            /\ rec.stepId = local[w].run.stepId /\ rec.visit = local[w].visit
        BY <4>2, OutcomeKeys
      <4>4. Storable(w, rec) /\ stepRuns' = StepRunsAfter(w, rec)
        BY <4>1 DEF RecordAttempt
      <4> QED BY <2>1, <4>2, <4>3, <4>4, RecordCounts
    <3> QED BY <3>1, <3>2, TickFaces
  <2>3. CASE pc[w] = "workerRelease"
    <3>1. run' = run
      BY <2>3 DEF Tick, ReadRun, ListByRun, GetActive, Begin, ConsumeNext, NothingToConsume,
         SavePayload, ResumeRun, ParkAgain, LoopExit, RenewFails, AtLoopHead, Replay, Prepare, Point,
         StartHandler, HandlerReturns, Watermark, Persist, PersistConflict, PersistFailure,
         PersistFailureConflict, Complete, Advance, NoMatchingTransition, ParkRun, BackOff, Fail,
         TickRelease, WorkerRelease
    <3>2. \A v \in Workers : InTick(v)' => v # w
      BY <1>0, <1>1, <2>3 DEF InTick
    <3>3. \A v \in Workers : v # w => local'[v] = local[v] /\ pc'[v] = pc[v] /\ (InTick(v)' <=> InTick(v))
      BY <1>0 DEF InTick
    <3> QED BY <1>1, <2>1, <2>2, <3>1, <3>2, <3>3 DEF WalkInv, RowStatusOK, WalkStep, Reconciling
  <2>4. CASE pc[w] # "workerRelease"
    <3>1. InTick(w)
      BY <1>1, <2>4 DEF InTick
    <3>2. /\ RowStatusOK(run')
          /\ pc'[w] \notin {"release", "workerRelease"} => StatusKnown(local'[w], pc'[w], run')
          /\ WalkStep
          /\ run' = run \/ run.status \in CLAIMABLE_RUN_STATUSES
      BY <1>4, <2>1, <2>4, <3>1, TickWalks
    <3>3. \A v \in Workers : v # w => ~InTick(v)'
      BY <1>0, <1>4, <3>1 DEF DriverInv, SingleDriver, InTick
    <3>4. InTick(w)' => StatusKnown(local'[w], pc'[w], run')
      BY <3>2 DEF InTick, StatusKnown, ReadLabels, WaitLabels, HandLabels
    <3>5. \A c \in Clients : Reconciling(c)' => run'.status = "FAILED"
      BY <1>1, <2>1, <3>2, Statuses DEF Reconciling
    <3> QED BY <2>2, <3>2, <3>3, <3>4, <3>5 DEF WalkInv, RowStatusOK
  <2> QED BY <2>3, <2>4
<1> QED BY <1>3, <1>4

\* A step that leaves the row and the faces alone, under which every worker knows
\* what it knew or is outside the tick or on its way out.
LEMMA QuietWalk ==
  ASSUME WalkInv, Undisturbed' => Undisturbed, run'.status = run.status,
         run'.stepId = run.stepId, run'.stepRunId = run.stepRunId,
         run'.context = run.context, run'.completedAt = run.completedAt,
         \A i \in Ids : Face(stepRuns'[i]) = Face(stepRuns[i]),
         \A c \in Clients : Reconciling(c)' => Reconciling(c) \/ run.status = "FAILED",
         \A v \in Workers :
           \/ local'[v] = local[v] /\ pc'[v] = pc[v]
           \/ pc'[v] \in {"idle", "release", "workerRelease"}
           \/ pc'[v] = "read" /\ run.status \in CLAIMABLE_RUN_STATUSES
           \/ pc[v] \in {"watermark", "persist"} /\ pc'[v] = "persistFailure" /\ local'[v] = local[v]
  PROVE  WalkInv' /\ WalkStep
<1>1. WalkStep
  BY DEF WalkStep
<1> SUFFICES ASSUME Undisturbed', run'.status # "ABSENT"
             PROVE  /\ VisitsCount(stepRuns')
                    /\ run'.status = "CREATED" => run'.stepRunId = 0
                    /\ run'.completedAt => run'.status \in {"COMPLETED", "CANCELLED"}
                    /\ \A c \in Clients : Reconciling(c)' => run'.status = "FAILED"
                    /\ \A v \in Workers : InTick(v)' => StatusKnown(local'[v], pc'[v], run')
  BY <1>1 DEF WalkInv
<1>2. VisitsCount(stepRuns')
  BY QuietVisits DEF WalkInv
<1>3. ASSUME NEW v \in Workers, InTick(v)' PROVE StatusKnown(local'[v], pc'[v], run')
  BY <1>3 DEF WalkInv, InTick, StatusKnown, ReadLabels, WaitLabels, HandLabels
<1> QED BY <1>2, <1>3 DEF WalkInv

\* A recording whose reply is lost creates the next visit all the same.
LEMMA ReplyLostKeepsWalk ==
  ASSUME TypeInv, StepsInv, WalkInv, NEW w \in Workers, PersistReplyLost(w)
  PROVE  WalkInv' /\ WalkStep
<1>0. pc \in [Workers -> Labels] /\ used \in [Faults -> Nat]
  BY DEF TypeInv, TypeOK
<1>1. /\ pc[w] = "persist" /\ pc' = [pc EXCEPT ![w] = "persistFailure"] /\ Spend("throw")
      /\ UNCHANGED <<run, local, begun, client>>
      /\ Storable(w, Outcome(w)) /\ stepRuns' = StepRunsAfter(w, Outcome(w))
  BY DEF PersistReplyLost, Goto, AfterThrow
<1>2. Undisturbed' => Undisturbed
  BY <1>0, <1>1, SpendDisturbs DEF Faults
<1>3. WalkStep
  BY <1>1 DEF WalkStep
<1> SUFFICES ASSUME Undisturbed', run'.status # "ABSENT"
             PROVE  /\ VisitsCount(stepRuns')
                    /\ run'.status = "CREATED" => run'.stepRunId = 0
                    /\ run'.completedAt => run'.status \in {"COMPLETED", "CANCELLED"}
                    /\ \A c \in Clients : Reconciling(c)' => run'.status = "FAILED"
                    /\ \A v \in Workers : InTick(v)' => StatusKnown(local'[v], pc'[v], run')
  BY <1>3 DEF WalkInv
<1>4. RowsOK(run, stepRuns, begun) /\ HandOK(local[w], pc[w], run, stepRuns) /\ VisitsCount(stepRuns)
  BY <1>1, <1>2 DEF StepsInv, WalkInv, InTick
<1>5. VisitsCount(stepRuns')
  BY <1>1, <1>4, OutcomeKeys, RecordCounts
<1>6. ASSUME NEW v \in Workers, InTick(v)' PROVE StatusKnown(local'[v], pc'[v], run')
  BY <1>0, <1>1, <1>2, <1>6 DEF WalkInv, InTick, StatusKnown, ReadLabels, WaitLabels, HandLabels
<1> QED BY <1>1, <1>2, <1>5, <1>6 DEF WalkInv, Reconciling

\* The end of a reconciliation: nobody else reconciles, and no worker is at work.
LEMMA ReconcileKeepsWalk ==
  ASSUME TypeInv, WalkInv, OneReconciler, NEW c \in Clients, ReconcileReopen(c) \/ ReconcileAbandon(c),
         Undisturbed
  PROVE  WalkInv' /\ WalkStep
<1>0. run \in Run /\ Reconciling(c)
  BY DEF TypeInv, TypeOK, ReconcileReopen, ReconcileAbandon, Reconciling
<1>1. /\ UNCHANGED <<stepRuns, pc, local, used>> /\ client' = [client EXCEPT ![c] = IdleClient]
      /\ run' = IF run.status = "ABSENT" THEN run ELSE run'
      /\ run.status # "ABSENT" => run' \in {Reopened(run), Cancelled(run)}
  BY DEF ReconcileReopen, ReconcileAbandon, Store, ClientIdle
<1>2. CASE run.status = "ABSENT"
  BY <1>1, <1>2 DEF WalkInv, WalkStep
<1>3. CASE run.status # "ABSENT"
  <2>1. /\ run.status = "FAILED" /\ VisitsCount(stepRuns)
        /\ run.status = "CREATED" => run.stepRunId = 0
        /\ \A v \in Workers : InTick(v) => pc[v] = "release"
    BY <1>0, <1>3, Statuses DEF WalkInv, StatusKnown
  <2>2. /\ \/ run'.status = "RUNNING" /\ run'.completedAt = FALSE
           \/ run'.status = "CANCELLED"
        /\ run'.stepId = run.stepId /\ run'.context = run.context
    BY <1>0, <1>1, <1>3 DEF Reopened, Cancelled, Run
  <2>3. WalkStep
    BY <2>1, <2>2 DEF WalkStep, Walk!WalkNext, Walk!WalkReconcile, Walk!Stays
  <2>4. \A d \in Clients : ~Reconciling(d)'
    <3>1. client \in [Clients -> [op: ClientOps, owner: Workers \cup {None}, stepRunId: IdOrNull]]
      BY DEF TypeInv, TypeOK
    <3> QED BY <1>0, <1>1, <3>1 DEF OneReconciler, Reconciling, IdleClient
  <2>5. \A v \in Workers : InTick(v)' => StatusKnown(local'[v], pc'[v], run')
    BY <1>1, <2>1 DEF InTick, StatusKnown, ReadLabels, WaitLabels, HandLabels
  <2> QED BY <1>1, <2>1, <2>2, <2>3, <2>4, <2>5 DEF WalkInv
<1> QED BY <1>2, <1>3

\* WalkInv is inductive, and every step is a step of the walk or one it does not
\* see, as long as the run is undisturbed and reconciliations do not overlap.
LEMMA WalkInvInductive ==
  TypeInv /\ DriverInv /\ StepsInv /\ WaitInv /\ WalkInv /\ OneReconciler /\ [Next]_vars =>
    WalkInv' /\ (Undisturbed' => WalkStep)
<1> SUFFICES ASSUME TypeInv, DriverInv, StepsInv, WaitInv, WalkInv, OneReconciler, [Next]_vars
             PROVE  WalkInv' /\ (Undisturbed' => WalkStep)
  OBVIOUS
<1>0. /\ pc \in [Workers -> Labels] /\ local \in [Workers -> Local]
      /\ used \in [Faults -> Nat] /\ run \in Run
      /\ client \in [Clients -> [op: ClientOps, owner: Workers \cup {None}, stepRunId: IdOrNull]]
  BY DEF TypeInv, TypeOK
<1>1. ASSUME NEW w \in Workers, Tick(w) PROVE WalkInv' /\ (Undisturbed' => WalkStep)
  <2>1. used' = used
    BY <1>1, TickIsFramed DEF TickFrame
  <2> QED BY <1>1, <2>1, TickKeepsWalk DEF Undisturbed
<1>2. ASSUME NEW w \in Workers, ClaimDue(w) PROVE WalkInv' /\ WalkStep
  <2>1. /\ UNCHANGED <<run, stepRuns, client, used>>
        /\ pc' = [pc EXCEPT ![w] = "read"] /\ local' = [local EXCEPT ![w] = NoLocal]
        /\ run.status \in CLAIMABLE_RUN_STATUSES
    BY <1>2 DEF ClaimDue, Claimable, Goto
  <2> QED BY <1>0, <2>1, QuietWalk DEF Undisturbed, Reconciling
<1>3. ASSUME NEW w \in Workers, StorageThrows(w) PROVE WalkInv' /\ WalkStep
  <2>1. /\ UNCHANGED <<run, stepRuns, client>> /\ Spend("throw")
        /\ pc' = [pc EXCEPT ![w] = AfterThrow(pc[w])]
        /\ local' = IF pc[w] = "workerRelease" THEN [local EXCEPT ![w] = NoLocal] ELSE local
    BY <1>3 DEF StorageThrows, Goto
  <2>2. Undisturbed' => Undisturbed
    BY <1>0, <2>1, SpendDisturbs DEF Faults
  <2>3. \/ pc'[w] \in {"idle", "release", "workerRelease"}
        \/ pc[w] \in {"watermark", "persist"} /\ pc'[w] = "persistFailure" /\ local'[w] = local[w]
    BY <1>0, <2>1 DEF AfterThrow
  <2> QED BY <1>0, <2>1, <2>2, <2>3, QuietWalk DEF Reconciling
<1>4. ASSUME NEW w \in Workers, PersistReplyLost(w) PROVE WalkInv' /\ WalkStep
  BY <1>4, ReplyLostKeepsWalk
<1>5. ASSUME NEW w \in Workers, Heartbeat(w) PROVE WalkInv' /\ WalkStep
  BY <1>5, QuietWalk DEF Heartbeat, Undisturbed, Reconciling
<1>6. ASSUME NEW w \in Workers, Crash(w) PROVE WalkInv' /\ WalkStep
  <2>1. /\ UNCHANGED <<run, stepRuns, client>> /\ Spend("crash")
        /\ pc' = [pc EXCEPT ![w] = "idle"] /\ local' = [local EXCEPT ![w] = NoLocal]
    BY <1>6 DEF Crash, Goto
  <2>2. Undisturbed' => Undisturbed
    BY <1>0, <2>1, SpendDisturbs DEF Faults
  <2> QED BY <1>0, <2>1, <2>2, QuietWalk DEF Reconciling
<1>7. ASSUME NEW c \in Clients, ClientStep(c) PROVE WalkInv' /\ (Undisturbed' => WalkStep)
  <2>1. CASE SignalRead(c) \/ CancelRead(c) \/ ReconcileRead(c)
    <3>1. /\ \E f \in Faults : Spend(f)
          /\ UNCHANGED <<run, stepRuns, pc, local>>
      BY <2>1 DEF SignalRead, CancelRead, ReconcileRead, Faults
    <3>2. Undisturbed' => Undisturbed
      BY <1>0, <3>1, SpendDisturbs
    <3>3. \A d \in Clients : Reconciling(d)' => Reconciling(d) \/ run.status = "FAILED"
      BY <1>0, <2>1 DEF SignalRead, CancelRead, ReconcileRead, ClientGoto, Reconciling
    <3> QED BY <3>1, <3>2, <3>3, QuietWalk
  <2>2. CASE SignalAppend(c) \/ CancelRelease(c)
    <3>1. UNCHANGED <<run, stepRuns, pc, local, used>> /\ client' = [client EXCEPT ![c] = IdleClient]
      BY <2>2 DEF SignalAppend, CancelRelease, ClientIdle
    <3>2. \A d \in Clients : Reconciling(d)' => Reconciling(d)
      BY <1>0, <3>1 DEF Reconciling, IdleClient
    <3> QED BY <3>1, <3>2, QuietWalk DEF Undisturbed
  <2>3. CASE CancelSet(c)
    <3>1. used' = used /\ client[c].op = "cancelSet"
      BY <2>3 DEF CancelSet
    <3>2. ~Undisturbed
      BY <3>1 DEF DriverInv
    <3> QED BY <3>1, <3>2 DEF WalkInv, Undisturbed
  <2>4. CASE ReconcileReset(c)
    <3>1. UNCHANGED <<run, pc, local, used>> /\ client' = [client EXCEPT ![c].op = "retrySet"]
          /\ client[c].op = "retryReset"
      BY <2>4 DEF ReconcileReset, ClientGoto
    <3>2. \A d \in Clients : Reconciling(d)' => Reconciling(d)
      BY <1>0, <3>1 DEF Reconciling
    <3> QED BY <2>4, <3>1, <3>2, ResetKeepsFaces, QuietWalk DEF Undisturbed
  <2>5. CASE ReconcileReopen(c) \/ ReconcileAbandon(c)
    <3>1. used' = used
      BY <2>5 DEF ReconcileReopen, ReconcileAbandon
    <3> QED BY <2>5, <3>1, ReconcileKeepsWalk DEF Undisturbed, WalkInv
  <2> QED BY <1>7, <2>1, <2>2, <2>3, <2>4, <2>5 DEF ClientStep
<1>8. CASE LeaseExpires
  <2>1. UNCHANGED <<run, stepRuns, pc, local, client>> /\ (used' = used \/ Spend("leaseLoss"))
    BY <1>8 DEF LeaseExpires
  <2>2. Undisturbed' => Undisturbed
    BY <1>0, <2>1, SpendDisturbs DEF Faults, Undisturbed
  <2> QED BY <2>1, <2>2, QuietWalk DEF Reconciling
<1>9. CASE TimePasses
  <2>1. UNCHANGED <<pc, local, client, used>> /\ run' = [run EXCEPT !.wakeAt = Elapsed(run.wakeAt)]
    BY <1>9 DEF TimePasses
  <2>2. /\ run'.status = run.status /\ run'.stepId = run.stepId /\ run'.stepRunId = run.stepRunId
        /\ run'.context = run.context /\ run'.completedAt = run.completedAt
    BY <1>0, <2>1 DEF Run
  <2>3. \A i \in Ids : Face(stepRuns'[i]) = Face(stepRuns[i])
    BY <1>9, TimeKeepsFaces
  <2> QED BY <2>1, <2>2, <2>3, QuietWalk DEF Undisturbed, Reconciling
<1>10. CASE Prune
  <2>1. run' = NoRun /\ run.completedAt /\ run.status \in TERMINAL_RUN_STATUSES /\ Spend("prune")
    BY <1>10 DEF Prune
  <2>2. Undisturbed' => Undisturbed
    BY <1>0, <2>1, SpendDisturbs DEF Faults
  <2>3. Undisturbed => WalkStep
    BY <2>1, Statuses DEF WalkInv, WalkStep, Walk!WalkNext, Walk!WalkPrune, NoRun
  <2> QED BY <2>1, <2>2, <2>3 DEF WalkInv, NoRun
<1>11. CASE UNCHANGED vars
  BY <1>11, QuietWalk DEF vars, Undisturbed, Reconciling
<1> QED
  BY <1>1, <1>2, <1>3, <1>4, <1>5, <1>6, <1>7, <1>8, <1>9, <1>10, <1>11 DEF Next

\* WalkInv holds initially.
LEMMA InitWalk == Init => WalkInv
<1> SUFFICES ASSUME Init PROVE WalkInv
  OBVIOUS
<1>1. /\ \A i \in Ids : ~There(stepRuns, i)
      /\ run.stepRunId = 0 /\ run.completedAt = FALSE
      /\ \A w \in Workers : ~InTick(w)
      /\ \A c \in Clients : ~Reconciling(c)
  BY DEF Init, NoStepRuns, NoStepRun, NoRun, InTick, There, Reconciling, IdleClient
<1> QED BY <1>1 DEF WalkInv, VisitsCount

\* Every state of a behaviour without overlapping reconciliations satisfies WalkInv.
LEMMA WalkInvHolds == Spec /\ []OneReconciler => []WalkInv
<1>1. TypeInv /\ DriverInv /\ StepsInv /\ WaitInv /\ WalkInv /\ OneReconciler /\ [Next]_vars => WalkInv'
  BY WalkInvInductive
<1> QED BY <1>1, InitWalk, TypeInvHolds, DriverInvHolds, StepsInvHolds, WaitInvHolds, PTL DEF Spec

\* The engine implements the walk: seen through the row, a run walks the graph of
\* its definition one visit at a time and merges the patch of a visit exactly when
\* it leaves the step, through crashes, storage errors and lost replies, as long
\* as no live worker loses its lease and reconciliations do not overlap.
THEOREM EngineImplementsWalk ==
  Spec /\ [](Undisturbed /\ OneReconciler) => ImplementsWalk
<1>1. Init => Walk!WalkInit
  BY DEF Init, Walk!WalkInit, NoRun
<1>2. TypeInv /\ DriverInv /\ StepsInv /\ WaitInv /\ WalkInv /\ OneReconciler
        /\ Undisturbed' /\ [Next]_vars => [Walk!WalkNext]_(Walk!walkVars)
  BY WalkInvInductive DEF WalkStep, Walk!walkVars
<1>3. Spec /\ []OneReconciler => []WalkInv
  BY WalkInvHolds
<1> QED BY <1>1, <1>2, <1>3, TypeInvHolds, DriverInvHolds, StepsInvHolds, WaitInvHolds, PTL
        DEF Spec, ImplementsWalk, Walk!WalkSpec

-----------------------------------------------------------------------------
(* Only a reconciliation revives *)

\* What decides whether a step run is hopeless.
Credit(rec) == <<rec.status, rec.stepId, rec.failures, rec.retryable>>

\* Two step runs with the same credit are both hopeless or neither is.
LEMMA SameCredit ==
  ASSUME NEW rec, NEW other, Credit(rec) = Credit(other)
  PROVE  Hopeless(rec) <=> Hopeless(other)
<1>1. /\ rec.status = other.status /\ rec.stepId = other.stepId
      /\ rec.failures = other.failures /\ rec.retryable = other.retryable
  BY DEF Credit
<1> QED BY <1>1 DEF Hopeless, Settled

\* A step run that never failed and is not unknown is not hopeless.
LEMMA NotHopeless ==
  ASSUME NEW rec, rec.status \notin {"FAILED", "UNKNOWN"} \/ rec.failures = 0
  PROVE  ~Hopeless(rec)
  BY DEF Hopeless, Settled

\* Of the steps of a tick only the recording of an attempt may leave a step run
\* hopeless, and then the worker goes on to fail the run.
LEMMA TickCredits ==
  ASSUME TypeInv, NEW w \in Workers, Tick(w), NEW i \in Ids,
         ~Hopeless(stepRuns[i]), Hopeless(stepRuns'[i])
  PROVE  pc'[w] = "fail"
<1>0. /\ stepRuns \in [Ids -> StepRun] /\ pc \in [Workers -> Labels] /\ local[w] \in Local
      /\ LocalOK(local[w], pc[w])
  BY DEF TypeInv, TypeOK
<1>1. CASE SavePayload(w)
  <2> DEFINE id == local[w].run.stepRunId
             new == [stepRuns[id] EXCEPT !.waitPayload = local[w].resume.payload]
  <2>0. id \in IdOrNull
    BY <1>0, LocalFields
  <2>1. stepRuns' # stepRuns
    OBVIOUS
  <2>2. id \in Ids /\ stepRuns' = [stepRuns EXCEPT ![id] = new]
    BY <1>1, <2>0, <2>1, NullId DEF SavePayload, Exists
  <2>3. Credit(new) = Credit(stepRuns[id])
    BY <1>0, <2>2 DEF StepRun, Credit
  <2> HIDE DEF new, id
  <2>4. Credit(stepRuns'[i]) = Credit(stepRuns[i])
    BY <1>0, <2>2, <2>3
  <2> QED BY <2>4, SameCredit
<1>2. CASE Persist(w) \/ PersistFailure(w)
  <2> DEFINE id == local[w].id
  <2>1. PICK rec \in {Outcome(w), FailureOutcome(w)} : RecordAttempt(w, rec)
    BY <1>2 DEF Persist, PersistFailure
  <2>2. pc[w] \in HandLabels
    BY <1>2 DEF Persist, PersistFailure, HandLabels
  <2>3. rec \in StepRun /\ id \in Ids
    BY <1>0, <2>2, OutcomeType, InHand
  <2>4. stepRuns' = StepRunsAfter(w, rec) /\ pc' = [pc EXCEPT ![w] = After(w, rec)]
    BY <2>1 DEF RecordAttempt, Goto
  <2> DEFINE kept == [rec EXCEPT !.waitPayload = stepRuns[id].waitPayload]
  <2>5. Credit(kept) = Credit(rec)
    BY <2>3 DEF StepRun, Credit
  <2>6. stepRuns' \in {stepRuns, [stepRuns EXCEPT ![id] = rec], [stepRuns EXCEPT ![id] = kept]}
    BY <2>4 DEF StepRunsAfter
  <2> HIDE DEF kept, id
  <2>7. Credit(stepRuns'[i]) = Credit(rec) \/ stepRuns'[i] = stepRuns[i]
    BY <1>0, <2>3, <2>5, <2>6
  <2>8. Hopeless(rec)
    BY <2>7, SameCredit
  <2>9. After(w, rec) = "fail"
    BY <2>8 DEF Hopeless, Settled, After
  <2> QED BY <1>0, <2>4, <2>9
<1>3. CASE ~SavePayload(w) /\ ~Persist(w) /\ ~PersistFailure(w)
  <2>1. stepRuns' = stepRuns
    BY <1>3 DEF Tick, ReadRun, ListByRun, GetActive, Begin, ConsumeNext, NothingToConsume,
         ResumeRun, ParkAgain, LoopExit, RenewFails, Replay, Prepare, Point,
         StartHandler, HandlerReturns, Watermark, PersistConflict,
         PersistFailureConflict, Complete, Advance, NoMatchingTransition, ParkRun, BackOff, Fail,
         TickRelease, WorkerRelease
  <2> QED BY <2>1
<1> QED BY <1>1, <1>2, <1>3

\* No worker is at work on a run with a hopeless step run, but the one about to
\* fail it.
LEMMA HopelessStopsWork ==
  ASSUME DriverInv, WalkInv, ReviveInv, Undisturbed, NothingInterrupted, run.status # "ABSENT",
         NEW w \in Workers, InTick(w), pc[w] \notin {"release", "fail"}
  PROVE  \A i \in Ids : ~Hopeless(stepRuns[i])
<1>1. run.status \notin {"FAILED", "CANCELLED"}
  BY Statuses DEF WalkInv, StatusKnown
<1>2. \A v \in Workers : pc[v] = "fail" => v = w
  BY DEF DriverInv, SingleDriver, InTick
<1> QED BY <1>1, <1>2 DEF ReviveInv

\* A step of a tick keeps ReviveInv.
LEMMA TickKeepsRevive ==
  ASSUME TypeInv, DriverInv, StepsInv, WaitInv, WalkInv, ReviveInv, NEW w \in Workers, Tick(w)
  PROVE  ReviveInv'
<1>0. /\ pc \in [Workers -> Labels] /\ run \in Run
      /\ pc' = [pc EXCEPT ![w] = pc'[w]]
      /\ pc[w] # "idle" /\ client' = client /\ used' = used
      /\ run'.status # "ABSENT" => run.status # "ABSENT"
  BY TickIsFramed DEF TypeInv, TypeOK, TickFrame
<1> SUFFICES ASSUME Undisturbed, NothingInterrupted, run.status # "ABSENT"
             PROVE  /\ (\E i \in Ids : Hopeless(stepRuns'[i])) =>
                         run'.status \in {"FAILED", "CANCELLED"} \/ \E v \in Workers : pc'[v] = "fail"
                    /\ \A c \in Clients : client[c].op = "retryReset" => client[c].stepRunId = run'.stepRunId
                    /\ \A c \in Clients : client[c].op = "retrySet" => \A i \in Ids : ~Hopeless(stepRuns'[i])
  BY <1>0 DEF ReviveInv, Undisturbed, NothingInterrupted
<1>1. CASE InTick(w) /\ pc[w] \notin {"release", "fail"}
  <2>1. \A i \in Ids : ~Hopeless(stepRuns[i])
    BY <1>1, HopelessStopsWork
  <2>2. \A c \in Clients : client[c].op \notin {"retryReset", "retrySet"}
    BY <1>1, Statuses DEF WalkInv, StatusKnown, Reconciling
  <2>3. (\E i \in Ids : Hopeless(stepRuns'[i])) => pc'[w] = "fail"
    BY <2>1, TickCredits
  <2> QED BY <2>2, <2>3
<1>2. CASE pc[w] = "fail"
  <2>1. Fail(w)
    BY <1>2 DEF Tick, ReadRun, ListByRun, GetActive, Begin, ConsumeNext, NothingToConsume,
         SavePayload, ResumeRun, ParkAgain, LoopExit, RenewFails, AtLoopHead, Replay, Prepare, Point,
         StartHandler, HandlerReturns, Watermark, Persist, PersistConflict, PersistFailure,
         PersistFailureConflict, Complete, Advance, NoMatchingTransition, ParkRun, BackOff, Fail,
         TickRelease, WorkerRelease
  <2>2. run'.status = "FAILED"
    BY <1>0, <2>1 DEF Fail, Store, Failed, Run
  <2>3. \A c \in Clients : client[c].op \notin {"retryReset", "retrySet"}
    BY <1>2, Statuses DEF WalkInv, StatusKnown, Reconciling, InTick
  <2> QED BY <2>2, <2>3
<1>3. CASE pc[w] \in {"release", "workerRelease"}
  <2>1. UNCHANGED <<run, stepRuns>>
    BY <1>3 DEF Tick, ReadRun, ListByRun, GetActive, Begin, ConsumeNext, NothingToConsume,
         SavePayload, ResumeRun, ParkAgain, LoopExit, RenewFails, AtLoopHead, Replay, Prepare, Point,
         StartHandler, HandlerReturns, Watermark, Persist, PersistConflict, PersistFailure,
         PersistFailureConflict, Complete, Advance, NoMatchingTransition, ParkRun, BackOff, Fail,
         TickRelease, WorkerRelease
  <2>2. \A v \in Workers : pc[v] = "fail" => pc'[v] = "fail"
    BY <1>0, <1>3
  <2> QED BY <2>1, <2>2 DEF ReviveInv
<1> QED BY <1>0, <1>1, <1>2, <1>3 DEF InTick

\* A step that makes no step run hopeless, leaves the status and the pointer of
\* the run alone, stops no worker that is about to fail it and is not a step of a
\* reconciliation.
LEMMA QuietRevive ==
  ASSUME ReviveInv, Undisturbed' => Undisturbed, NothingInterrupted' => NothingInterrupted,
         run'.status = run.status, run'.stepRunId = run.stepRunId,
         \A i \in Ids : Hopeless(stepRuns'[i]) => Hopeless(stepRuns[i]),
         \A v \in Workers : pc[v] = "fail" => pc'[v] = "fail",
         \A c \in Clients : client'[c] = client[c] \/ ~Reconciling(c)'
  PROVE  ReviveInv'
  BY DEF ReviveInv, Reconciling

\* Spending on a fault forgets no interruption.
LEMMA SpendInterrupts ==
  ASSUME used \in [Faults -> Nat], NEW f \in Faults, Spend(f)
  PROVE  /\ NothingInterrupted' => NothingInterrupted
         /\ f \in {"crash", "throw"} => ~NothingInterrupted'
  BY DEF Spend, NothingInterrupted, Faults

\* Time does not change what a step run is worth.
LEMMA TimeKeepsCredit ==
  ASSUME TypeInv, TimePasses, NEW i \in Ids
  PROVE  Hopeless(stepRuns'[i]) <=> Hopeless(stepRuns[i])
<1>1. stepRuns[i] \in StepRun /\ stepRuns'[i] = [stepRuns[i] EXCEPT !.wakeAt = Elapsed(stepRuns[i].wakeAt)]
  BY DEF TypeInv, TypeOK, TimePasses
<1>2. Credit(stepRuns'[i]) = Credit(stepRuns[i])
  BY <1>1 DEF StepRun, Credit
<1> QED BY <1>2, SameCredit

\* A reconciliation forgives the only step run that may be hopeless.
LEMMA ResetForgives ==
  ASSUME TypeInv, RowsOK(run, stepRuns, begun), NEW c \in Clients, ReconcileReset(c),
         client[c].stepRunId = run.stepRunId
  PROVE  \A i \in Ids : ~Hopeless(stepRuns'[i])
<1> DEFINE id == run.stepRunId
           new == [stepRuns[id] EXCEPT !.failures = 0]
<1>0. stepRuns \in [Ids -> StepRun] /\ id \in IdOrNull
  BY DEF TypeInv, TypeOK, Run
<1>1. ASSUME NEW i \in Ids, i # id PROVE ~Hopeless(stepRuns[i])
  <2>1. stepRuns[i].status \in {"COMPLETED", "ABSENT"}
    BY <1>1 DEF RowsOK, There
  <2> QED BY <2>1, NotHopeless
<1>2. CASE Exists(id)
  <2>1. id \in Ids /\ stepRuns' = [stepRuns EXCEPT ![id] = new]
    BY <1>0, <1>2, NullId DEF ReconcileReset, Exists
  <2>2. new.failures = 0
    BY <1>0, <2>1 DEF StepRun
  <2>3. ~Hopeless(new)
    BY <2>2, NotHopeless
  <2> HIDE DEF new, id
  <2> QED BY <1>0, <1>1, <2>1, <2>3
<1>3. CASE ~Exists(id)
  <2>1. stepRuns' = stepRuns
    BY <1>3 DEF ReconcileReset
  <2>2. ASSUME NEW i \in Ids, i = id PROVE ~Hopeless(stepRuns[i])
    <3>1. stepRuns[i].status = "ABSENT"
      BY <1>3, <2>2, NullId DEF Exists
    <3> QED BY <3>1, NotHopeless
  <2> QED BY <1>1, <2>1, <2>2
<1> QED BY <1>2, <1>3

\* Every step of a client keeps ReviveInv.
LEMMA ClientKeepsRevive ==
  ASSUME TypeInv, DriverInv, StepsInv, WalkInv, ReviveInv, OneReconciler,
         NEW c \in Clients, ClientStep(c)
  PROVE  ReviveInv'
<1>0. /\ client \in [Clients -> [op: ClientOps, owner: Workers \cup {None}, stepRunId: IdOrNull]]
      /\ used \in [Faults -> Nat] /\ run \in Run
  BY DEF TypeInv, TypeOK
<1>1. CASE SignalRead(c) \/ CancelRead(c)
  <2>1. /\ \E f \in Faults : Spend(f)
        /\ UNCHANGED <<run, stepRuns, pc>>
        /\ client' = [client EXCEPT ![c] = client'[c]] /\ client'[c].op \in {"append", "cancelSet"}
    BY <1>0, <1>1 DEF SignalRead, CancelRead, ClientGoto, Faults
  <2>2. (Undisturbed' => Undisturbed) /\ (NothingInterrupted' => NothingInterrupted)
    BY <1>0, <2>1, SpendDisturbs, SpendInterrupts
  <2>3. \A d \in Clients : client'[d] = client[d] \/ ~Reconciling(d)'
    BY <1>0, <2>1 DEF Reconciling
  <2> QED BY <2>1, <2>2, <2>3, QuietRevive
<1>2. CASE SignalAppend(c) \/ CancelRelease(c)
  <2>1. UNCHANGED <<run, stepRuns, pc, used>> /\ client' = [client EXCEPT ![c] = IdleClient]
    BY <1>2 DEF SignalAppend, CancelRelease, ClientIdle
  <2>2. \A d \in Clients : client'[d] = client[d] \/ ~Reconciling(d)'
    BY <1>0, <2>1 DEF Reconciling, IdleClient
  <2> QED BY <2>1, <2>2, QuietRevive DEF Undisturbed, NothingInterrupted
<1>3. CASE CancelSet(c)
  <2>1. used' = used /\ ~Undisturbed
    BY <1>3 DEF CancelSet, DriverInv
  <2> QED BY <2>1 DEF ReviveInv, Undisturbed
<1>4. CASE ReconcileRead(c)
  <2>1. /\ UNCHANGED <<run, stepRuns, pc>> /\ Spend("reconcile") /\ run.status = "FAILED"
        /\ \A d \in Clients : d # c => client'[d] = client[d]
        /\ client'[c].op \in {"retryReset", "abandonSet"} /\ client'[c].stepRunId = run.stepRunId
    BY <1>0, <1>4 DEF ReconcileRead
  <2>2. (Undisturbed' => Undisturbed) /\ (NothingInterrupted' => NothingInterrupted)
    BY <1>0, <2>1, SpendDisturbs, SpendInterrupts DEF Faults
  <2> QED BY <2>1, <2>2 DEF ReviveInv
<1>5. CASE ReconcileReset(c)
  <2>1. /\ UNCHANGED <<run, pc, used>> /\ client' = [client EXCEPT ![c].op = "retrySet"]
        /\ client[c].op = "retryReset"
    BY <1>5 DEF ReconcileReset, ClientGoto
  <2> SUFFICES ASSUME Undisturbed, NothingInterrupted, run.status # "ABSENT"
               PROVE  /\ \A i \in Ids : ~Hopeless(stepRuns'[i])
                      /\ \A d \in Clients : client'[d].op # "retryReset"
    BY <2>1 DEF ReviveInv, Undisturbed, NothingInterrupted
  <2>2. \A i \in Ids : ~Hopeless(stepRuns'[i])
    BY <1>5, <2>1, ResetForgives DEF StepsInv, ReviveInv
  <2>3. \A d \in Clients : client'[d].op # "retryReset"
    BY <1>0, <2>1 DEF OneReconciler, Reconciling
  <2> QED BY <2>2, <2>3
<1>6. CASE ReconcileReopen(c) \/ ReconcileAbandon(c)
  <2>1. /\ UNCHANGED <<stepRuns, pc, used>> /\ client' = [client EXCEPT ![c] = IdleClient]
        /\ client[c].op \in {"retrySet", "abandonSet"}
        /\ client[c].op = "abandonSet" => run.status = "ABSENT" \/ run' = Cancelled(run)
        /\ run.status = "ABSENT" => run' = run
    BY <1>6 DEF ReconcileReopen, ReconcileAbandon, Store, ClientIdle
  <2>2. \A d \in Clients : ~Reconciling(d)'
    BY <1>0, <2>1 DEF OneReconciler, Reconciling, IdleClient
  <2> SUFFICES ASSUME Undisturbed, NothingInterrupted, run.status # "ABSENT",
                      NEW i \in Ids, Hopeless(stepRuns[i])
               PROVE  run'.status = "CANCELLED"
    BY <2>1, <2>2 DEF ReviveInv, Undisturbed, NothingInterrupted, Reconciling
  <2>3. client[c].op = "abandonSet"
    BY <2>1 DEF ReviveInv
  <2> QED BY <1>0, <2>1, <2>3 DEF Cancelled, Run
<1> QED BY <1>1, <1>2, <1>3, <1>4, <1>5, <1>6 DEF ClientStep

\* ReviveInv is inductive, as long as reconciliations do not overlap.
LEMMA ReviveInvInductive ==
  TypeInv /\ DriverInv /\ StepsInv /\ WaitInv /\ WalkInv /\ OneReconciler /\ ReviveInv /\ [Next]_vars =>
    ReviveInv'
<1> SUFFICES ASSUME TypeInv, DriverInv, StepsInv, WaitInv, WalkInv, OneReconciler, ReviveInv, [Next]_vars
             PROVE  ReviveInv'
  OBVIOUS
<1>0. pc \in [Workers -> Labels] /\ used \in [Faults -> Nat] /\ run \in Run
  BY DEF TypeInv, TypeOK
<1>1. ASSUME NEW w \in Workers, Tick(w) PROVE ReviveInv'
  BY <1>1, TickKeepsRevive
<1>2. ASSUME NEW w \in Workers, ClaimDue(w) \/ Heartbeat(w) PROVE ReviveInv'
  <2>1. UNCHANGED <<run, stepRuns, client, used>> /\ \A v \in Workers : pc[v] = "fail" => pc'[v] = "fail"
    BY <1>0, <1>2 DEF ClaimDue, Heartbeat, Goto
  <2> QED BY <2>1, QuietRevive DEF Undisturbed, NothingInterrupted
<1>3. ASSUME NEW w \in Workers, StorageThrows(w) \/ PersistReplyLost(w) \/ Crash(w) PROVE ReviveInv'
  <2>1. Spend("throw") \/ Spend("crash")
    BY <1>3 DEF StorageThrows, PersistReplyLost, Crash
  <2>2. ~NothingInterrupted'
    BY <1>0, <2>1, SpendInterrupts DEF Faults
  <2> QED BY <2>2 DEF ReviveInv
<1>4. ASSUME NEW c \in Clients, ClientStep(c) PROVE ReviveInv'
  BY <1>4, ClientKeepsRevive
<1>5. CASE LeaseExpires
  <2>1. UNCHANGED <<run, stepRuns, pc, client>> /\ (used' = used \/ Spend("leaseLoss"))
    BY <1>5 DEF LeaseExpires
  <2>2. (Undisturbed' => Undisturbed) /\ (NothingInterrupted' => NothingInterrupted)
    BY <1>0, <2>1, SpendDisturbs, SpendInterrupts DEF Faults, Undisturbed, NothingInterrupted
  <2> QED BY <2>1, <2>2, QuietRevive
<1>6. CASE TimePasses
  <2>1. UNCHANGED <<pc, client, used>> /\ run' = [run EXCEPT !.wakeAt = Elapsed(run.wakeAt)]
    BY <1>6 DEF TimePasses
  <2>2. run'.status = run.status /\ run'.stepRunId = run.stepRunId
    BY <1>0, <2>1 DEF Run
  <2> QED BY <1>6, <2>1, <2>2, TimeKeepsCredit, QuietRevive DEF Undisturbed, NothingInterrupted
<1>7. CASE Prune
  BY <1>7 DEF Prune, ReviveInv, NoRun
<1>8. CASE UNCHANGED vars
  BY <1>8, QuietRevive DEF vars, Undisturbed, NothingInterrupted
<1> QED BY <1>1, <1>2, <1>3, <1>4, <1>5, <1>6, <1>7, <1>8 DEF Next

\* A run that nothing interrupts and whose reconciliations do not overlap attempts
\* a step run that has failed for good only after a reconciliation forgave it.
THEOREM OnlyReconciliationRevives == Spec /\ []OneReconciler => OnlyReconcileRevives
<1>1. Init => ReviveInv
  BY NotHopeless DEF Init, ReviveInv, NoStepRuns, NoStepRun, IdleClient
<1>2. TypeInv /\ DriverInv /\ StepsInv /\ WalkInv /\ ReviveInv /\ [Next]_vars =>
        [\A w \in Workers : /\ StartsHandler(w)
                            /\ Undisturbed
                            /\ NothingInterrupted
                            /\ Settled(stepRuns[local[w].id])
                            => stepRuns[local[w].id].failures = 0]_vars
  <2> SUFFICES ASSUME TypeInv, DriverInv, StepsInv, WalkInv, ReviveInv, Next, NEW w \in Workers,
                      StartsHandler(w), Undisturbed, NothingInterrupted,
                      Settled(stepRuns[local[w].id])
               PROVE  stepRuns[local[w].id].failures = 0
    BY DEF vars
  <2>1. StartHandler(w)
    BY OnlyStartHandlerStarts
  <2>2. run.status # "ABSENT" /\ pc[w] = "handler"
    BY <2>1 DEF StartHandler, StartsHandler, Goto, TypeInv, TypeOK
  <2>3. local[w].id \in Ids
    BY <2>2 DEF TypeInv, LocalOK, HandLabels
  <2>4. ~Hopeless(stepRuns[local[w].id])
    BY <2>2, <2>3, HopelessStopsWork DEF InTick
  <2> QED BY <2>4 DEF Hopeless
<1>3. Spec /\ []OneReconciler => []WalkInv
  BY WalkInvHolds
<1> QED BY <1>1, <1>2, <1>3, ReviveInvInductive, TypeInvHolds, DriverInvHolds, StepsInvHolds,
           WaitInvHolds, PTL DEF Spec, OnlyReconcileRevives

=============================================================================
