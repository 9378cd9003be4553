-------------------------- MODULE EngineStepProofs --------------------------
(***************************************************************************)
(* What a tick may rely on when it starts a handler, proved for every      *)
(* definition, every handler behaviour, every number of workers and every  *)
(* fault budget: the context of the run is the history of its completed    *)
(* visits, steps run strictly one after the other, and a completed visit   *)
(* is never executed again.                                                *)
(***************************************************************************)
EXTENDS EngineProofs

-----------------------------------------------------------------------------
(* The invariant.  It is stated with operators of the row r, the step runs   *)
(* recs, the keys used so far and a worker's locals l at a label, so that    *)
(* what one step does to it is a lemma about values.                         *)

\* Where the run is: its step, its pointer and the patches merged so far.
Position(r) == <<r.stepId, r.stepRunId, r.context>>

\* What a worker must know of a step run to tell what to do next.
Face(rec) == <<rec.stepId, rec.visit, rec.status>>

KeyOf(rec) == <<rec.stepId, rec.visit>>

There(recs, id) == id \in Ids /\ recs[id].status # "ABSENT"

VisitsOf(recs, s) ==
  {recs[i].visit : i \in {j \in Ids : recs[j].status # "ABSENT" /\ recs[j].stepId = s}}

\* NextVisit, of any table of step runs.
NextOf(recs, s) ==
  {v + 1 : v \in {u \in {0} \cup VisitsOf(recs, s) : \A t \in VisitsOf(recs, s) : t <= u}}

\* The step runs the run has left.
Left(r, recs) == {i \in Ids : recs[i].status = "COMPLETED" /\ i # r.stepRunId}

\* The idempotency key of the step run the pointer names, recorded or about to be.
CurrentKey(r, recs, key) ==
  /\ r.stepRunId # 0
  /\ IF There(recs, r.stepRunId) THEN key = KeyOf(recs[r.stepRunId])
     ELSE \E v \in NextOf(recs, r.stepId) : key = <<r.stepId, v>>

\* No two step runs share a key; the context is what the run has left; only the
\* step run the pointer names may be unfinished, and it is one of the current
\* step; every key a handler was started with was left or is the current one.
RowsOK(r, recs, keys) ==
  /\ \A i, j \in Ids : There(recs, i) /\ There(recs, j) /\ KeyOf(recs[i]) = KeyOf(recs[j]) => i = j
  /\ r.context = {KeyOf(recs[i]) : i \in Left(r, recs)}
  /\ \A i \in Ids : There(recs, i) /\ i # r.stepRunId => recs[i].status = "COMPLETED"
  /\ There(recs, r.stepRunId) => recs[r.stepRunId].stepId = r.stepId
  /\ \A key \in keys : \/ \E i \in Left(r, recs) : KeyOf(recs[i]) = key
                       \/ CurrentKey(r, recs, key)

\* From reading the step runs to the last write of the row.
ListedLabels == {"active", "begin", "consume", "savePayload", "resume", "park", "loop"}
                  \cup HandLabels

\* From the loop head's decision to run a handler to the record of its outcome.
AttemptLabels == {"handler", "running", "watermark", "persist", "persistFailure"}

\* A worker inside a tick has a true copy of the row and of the step runs, except
\* for the one step run whose stored outcome it may not have heard of; the step
\* run in hand is the one the pointer names (or will name), not completed when
\* it is attempted, and attempted under the key it has or the next one.
HandOK(l, label, r, recs) ==
  /\ label \in ListedLabels \cup {"list"} => Position(l.run) = Position(r)
  /\ label \in ListedLabels =>
       \A i \in Ids : Face(l.history[i]) = Face(recs[i]) \/ (label = "persistFailure" /\ i = l.id)
  /\ label \in {"consume", "savePayload"} =>
       l.run.stepRunId \in Ids /\ Face(l.wait) = Face(recs[l.run.stepRunId])
  /\ label = "point" => l.run.stepRunId = 0
  /\ label \in HandLabels \ {"point"} => l.id = l.run.stepRunId
  /\ label \in AttemptLabels => l.history[l.id].status # "COMPLETED"
  /\ label \in AttemptLabels \cup {"point"} =>
       IF There(l.history, l.id) THEN KeyOf(l.history[l.id]) = <<l.run.stepId, l.visit>>
       ELSE l.visit \in NextOf(l.history, l.run.stepId)
  /\ label = "point" => ~There(recs, l.id)
  /\ label = "persistFailure" =>
       \/ Face(l.history[l.id]) = Face(recs[l.id])
       \/ There(recs, l.id) /\ KeyOf(recs[l.id]) = <<l.run.stepId, l.visit>>

StepsInv ==
  Undisturbed /\ run.status # "ABSENT" =>
    /\ RowsOK(run, stepRuns, begun)
    /\ \A w \in Workers : InTick(w) => HandOK(local[w], pc[w], run, stepRuns)

-----------------------------------------------------------------------------
(* Lemmas about values *)

\* Two tables that show the same faces have the same visits.
LEMMA SameNext ==
  ASSUME NEW recs, NEW other, NEW s, \A i \in Ids : Face(other[i]) = Face(recs[i])
  PROVE  VisitsOf(other, s) = VisitsOf(recs, s) /\ NextOf(other, s) = NextOf(recs, s)
<1>1. \A i \in Ids : /\ other[i].stepId = recs[i].stepId
                     /\ other[i].visit = recs[i].visit
                     /\ other[i].status = recs[i].status
  BY DEF Face
<1>2. VisitsOf(other, s) = VisitsOf(recs, s)
  BY <1>1 DEF VisitsOf
<1> QED BY <1>2 DEF NextOf

\* The next visit of a step is above every visit recorded of it.
LEMMA NextIsAbove ==
  ASSUME NEW recs \in [Ids -> StepRun], NEW s, NEW v \in NextOf(recs, s),
         NEW i, There(recs, i), recs[i].stepId = s
  PROVE  recs[i].visit # v
<1>1. PICK u \in {0} \cup VisitsOf(recs, s) :
        v = u + 1 /\ \A t \in VisitsOf(recs, s) : t <= u
  BY DEF NextOf
<1>2. recs[i].visit \in VisitsOf(recs, s)
  BY DEF VisitsOf, There
<1>3. VisitsOf(recs, s) \subseteq Nat
  BY DEF VisitsOf, StepRun
<1> QED BY <1>1, <1>2, <1>3

\* There is only one next visit.
LEMMA NextIsOne ==
  ASSUME NEW recs \in [Ids -> StepRun], NEW s, NEW v \in NextOf(recs, s), NEW t \in NextOf(recs, s)
  PROVE  v = t /\ v \in Nat
<1>1. VisitsOf(recs, s) \subseteq Nat
  BY DEF VisitsOf, StepRun
<1>2. PICK u \in {0} \cup VisitsOf(recs, s) :
        v = u + 1 /\ \A x \in VisitsOf(recs, s) : x <= u
  BY DEF NextOf
<1>3. PICK y \in {0} \cup VisitsOf(recs, s) :
        t = y + 1 /\ \A x \in VisitsOf(recs, s) : x <= y
  BY DEF NextOf
<1>4. u \in Nat /\ y \in Nat
  BY <1>1
<1>5. u <= y \/ u = 0
  BY <1>3
<1>6. y <= u \/ y = 0
  BY <1>2
<1> QED BY <1>2, <1>3, <1>4, <1>5, <1>6

\* What is written of a row or a step run besides position and face (statuses of
\* the run, deadlines, failures, payloads) disturbs neither the rows ...
LEMMA QuietRows ==
  ASSUME NEW r, NEW recs, NEW keys, RowsOK(r, recs, keys),
         NEW row, Position(row) = Position(r),
         NEW other, \A i \in Ids : Face(other[i]) = Face(recs[i])
  PROVE  RowsOK(row, other, keys)
<1>1. /\ row.stepId = r.stepId
      /\ row.stepRunId = r.stepRunId
      /\ row.context = r.context
  BY DEF Position
<1>2. \A i \in Ids : /\ other[i].stepId = recs[i].stepId
                     /\ other[i].visit = recs[i].visit
                     /\ other[i].status = recs[i].status
                     /\ KeyOf(other[i]) = KeyOf(recs[i])
  BY DEF Face, KeyOf
<1>3. \A i : There(other, i) <=> There(recs, i)
  BY <1>2 DEF There
<1>4. Left(row, other) = Left(r, recs)
  BY <1>1, <1>2 DEF Left
<1>5. {KeyOf(other[i]) : i \in Left(row, other)} = {KeyOf(recs[i]) : i \in Left(r, recs)}
  BY <1>2, <1>4 DEF Left
<1>6. \A key : CurrentKey(row, other, key) <=> CurrentKey(r, recs, key)
  <2>1. NextOf(other, row.stepId) = NextOf(recs, r.stepId)
    BY <1>1, SameNext
  <2> QED BY <1>1, <1>2, <1>3, <2>1 DEF CurrentKey, There
<1>7. There(other, row.stepRunId) => other[row.stepRunId].stepId = row.stepId
  BY <1>1, <1>2, <1>3 DEF RowsOK, There
<1>8. \A key \in keys : \/ \E i \in Left(row, other) : KeyOf(other[i]) = key
                        \/ CurrentKey(row, other, key)
  BY <1>2, <1>4, <1>6 DEF RowsOK, Left
<1>9. row.context = {KeyOf(other[i]) : i \in Left(row, other)}
  BY <1>1, <1>5 DEF RowsOK
<1>10. \A i, j \in Ids : There(other, i) /\ There(other, j) /\ KeyOf(other[i]) = KeyOf(other[j]) => i = j
  BY <1>2, <1>3 DEF RowsOK
<1>11. \A i \in Ids : There(other, i) /\ i # row.stepRunId => other[i].status = "COMPLETED"
  BY <1>1, <1>2, <1>3 DEF RowsOK
<1> QED BY <1>7, <1>8, <1>9, <1>10, <1>11 DEF RowsOK

\* ... nor what a worker knows of them.
LEMMA QuietHand ==
  ASSUME NEW r, NEW recs, NEW l \in Local, NEW label, HandOK(l, label, r, recs),
         label \in HandLabels => l.id \in Ids,
         NEW row, Position(row) = Position(r),
         NEW other, \A i \in Ids : Face(other[i]) = Face(recs[i])
  PROVE  HandOK(l, label, row, other)
<1>1. \A i \in Ids : /\ There(other, i) <=> There(recs, i)
                     /\ KeyOf(other[i]) = KeyOf(recs[i])
  BY DEF Face, KeyOf, There
<1>2. \A i : There(other, i) <=> There(recs, i)
  BY DEF There, Face
<1>3. label = "persistFailure" \/ label = "point" => l.id \in Ids
  BY DEF HandLabels
<1> QED BY <1>1, <1>2, <1>3 DEF HandOK

\* A worker that neither reads nor writes the run has nothing to know of it.
LEMMA HandFree ==
  ASSUME NEW l, NEW label, NEW r, NEW recs, label \notin ListedLabels \cup {"list"}
  PROVE  HandOK(l, label, r, recs)
  BY DEF HandOK, ListedLabels, HandLabels, AttemptLabels

\* Recording an attempt of the step run the pointer names, under its key.
LEMMA Recording ==
  ASSUME NEW r, NEW recs \in [Ids -> StepRun], NEW keys, RowsOK(r, recs, keys),
         r.stepRunId \in Ids, r.stepRunId # 0,
         NEW rec, rec.status # "ABSENT", rec.stepId = r.stepId,
         IF There(recs, r.stepRunId) THEN rec.visit = recs[r.stepRunId].visit
         ELSE rec.visit \in NextOf(recs, r.stepId),
         NEW other, \A i \in Ids : i # r.stepRunId => other[i] = recs[i],
         Face(other[r.stepRunId]) = Face(rec)
  PROVE  RowsOK(r, other, keys)
<1> DEFINE id == r.stepRunId
<1>1. /\ other[id].stepId = r.stepId
      /\ other[id].visit = rec.visit
      /\ other[id].status # "ABSENT"
  BY DEF Face
<1>2. There(other, id) /\ KeyOf(other[id]) = <<r.stepId, rec.visit>>
  BY <1>1 DEF There, KeyOf
<1>3. \A i \in Ids : i # id => (There(other, i) <=> There(recs, i)) /\ KeyOf(other[i]) = KeyOf(recs[i])
  BY DEF There, KeyOf
<1>4. ASSUME NEW i \in Ids, i # id, There(recs, i) PROVE KeyOf(recs[i]) # <<r.stepId, rec.visit>>
  <2>1. CASE There(recs, id)
    <3>1. KeyOf(recs[id]) = <<r.stepId, rec.visit>>
      BY <2>1 DEF RowsOK, KeyOf
    <3> QED BY <1>4, <2>1, <3>1 DEF RowsOK
  <2>2. CASE ~There(recs, id)
    <3>1. rec.visit \in NextOf(recs, r.stepId)
      BY <2>2
    <3>2. recs[i].stepId = r.stepId => recs[i].visit # rec.visit
      BY <1>4, <3>1, NextIsAbove
    <3> QED BY <3>2 DEF KeyOf
  <2> QED BY <2>1, <2>2
<1>5. Left(r, other) = Left(r, recs)
  BY DEF Left
<1>6. \A i \in Left(r, other) : KeyOf(other[i]) = KeyOf(recs[i])
  BY <1>3 DEF Left
<1>7. {KeyOf(other[i]) : i \in Left(r, other)} = {KeyOf(recs[i]) : i \in Left(r, recs)}
  BY <1>5, <1>6
<1>8. ASSUME NEW key \in keys, CurrentKey(r, recs, key) PROVE CurrentKey(r, other, key)
  <2>1. key = <<r.stepId, rec.visit>>
    <3>1. CASE There(recs, id)
      BY <1>8, <3>1 DEF CurrentKey, RowsOK, KeyOf
    <3>2. CASE ~There(recs, id)
      BY <1>8, <3>2, NextIsOne DEF CurrentKey
    <3> QED BY <3>1, <3>2
  <2> QED BY <1>2, <2>1 DEF CurrentKey
<1>9. \A key \in keys : \/ \E i \in Left(r, other) : KeyOf(other[i]) = key
                        \/ CurrentKey(r, other, key)
  BY <1>5, <1>6, <1>8 DEF RowsOK
<1>10. \A i, j \in Ids : There(other, i) /\ There(other, j) /\ KeyOf(other[i]) = KeyOf(other[j]) => i = j
  BY <1>2, <1>3, <1>4 DEF RowsOK
<1>11. \A i \in Ids : There(other, i) /\ i # id => other[i].status = "COMPLETED"
  BY <1>3 DEF RowsOK
<1> QED BY <1>1, <1>7, <1>9, <1>10, <1>11 DEF RowsOK

\* Leaving a step: its patch is merged and the pointer is dropped.
LEMMA Leaving ==
  ASSUME NEW r, NEW recs, NEW keys, RowsOK(r, recs, keys),
         r.stepRunId \in Ids, recs[r.stepRunId].status = "COMPLETED",
         NEW row, row.stepRunId = 0, row.context = r.context \cup {KeyOf(recs[r.stepRunId])}
  PROVE  RowsOK(row, recs, keys)
<1>1. 0 \notin Ids
  BY NullId
<1>2. Left(row, recs) = Left(r, recs) \cup {r.stepRunId}
  BY <1>1 DEF Left
<1>3. row.context = {KeyOf(recs[i]) : i \in Left(row, recs)}
  BY <1>2 DEF RowsOK
<1>4. ASSUME NEW key \in keys PROVE \E i \in Left(row, recs) : KeyOf(recs[i]) = key
  <2>1. There(recs, r.stepRunId)
    BY DEF There
  <2> QED BY <1>2, <2>1 DEF RowsOK, CurrentKey
<1>5. ~There(recs, row.stepRunId)
  BY <1>1 DEF There
<1>6. \A i \in Ids : There(recs, i) => recs[i].status = "COMPLETED"
  BY DEF RowsOK
<1>7. \A i, j \in Ids : There(recs, i) /\ There(recs, j) /\ KeyOf(recs[i]) = KeyOf(recs[j]) => i = j
  BY DEF RowsOK
<1> QED BY <1>3, <1>4, <1>5, <1>6, <1>7 DEF RowsOK

\* Writing down the id of the step run that is about to be attempted.
LEMMA Pointing ==
  ASSUME NEW r, NEW recs, NEW keys, RowsOK(r, recs, keys), r.stepRunId = 0,
         NEW id \in Ids, ~There(recs, id), NEW row, Position(row) = <<r.stepId, id, r.context>>
  PROVE  RowsOK(row, recs, keys)
<1>1. 0 \notin Ids /\ recs[id].status = "ABSENT"
  BY NullId DEF There
<1>2. row.stepId = r.stepId /\ row.stepRunId = id /\ row.context = r.context
  BY DEF Position
<1>3. Left(row, recs) = Left(r, recs)
  BY <1>1, <1>2 DEF Left
<1>4. \A key : ~CurrentKey(r, recs, key)
  BY DEF CurrentKey
<1>5. \A key \in keys : \E i \in Left(row, recs) : KeyOf(recs[i]) = key
  BY <1>3, <1>4 DEF RowsOK
<1>6. \A i \in Ids : There(recs, i) => recs[i].status = "COMPLETED"
  BY <1>1 DEF RowsOK
<1>7. \A i, j \in Ids : There(recs, i) /\ There(recs, j) /\ KeyOf(recs[i]) = KeyOf(recs[j]) => i = j
  BY DEF RowsOK
<1>8. row.context = {KeyOf(recs[i]) : i \in Left(row, recs)}
  BY <1>2, <1>3 DEF RowsOK
<1> QED BY <1>2, <1>5, <1>6, <1>7, <1>8 DEF RowsOK

\* Starting a handler under the current key.
LEMMA Starting ==
  ASSUME NEW r, NEW recs, NEW keys, RowsOK(r, recs, keys), NEW key, CurrentKey(r, recs, key)
  PROVE  RowsOK(r, recs, keys \cup {key})
  BY DEF RowsOK

-----------------------------------------------------------------------------
(* What the actions do to position and face *)

\* The patches that leave the run where it is, and those that move it.
LEMMA Positions ==
  ASSUME NEW r \in Run
  PROVE  /\ Position(Started(r)) = Position(r)
         /\ Position(Resumed(r)) = Position(r)
         /\ Position(Cancelled(r)) = Position(r)
         /\ Position(Reopened(r)) = Position(r)
         /\ \A t : Position(Parked(r, r.stepId, t)) = Position(r)
         /\ Position(BackingOff(r, r.stepId)) = Position(r)
         /\ Position(Failed(r, r.stepId)) = Position(r)
         /\ \A id : Position(Pointed(r, id)) = <<r.stepId, id, r.context>>
         /\ \A context, s : Position(Moved(r, context, s)) = <<s, 0, context>>
         /\ \A context : Position(Finished(r, context)) = <<None, 0, context>>
  BY DEF Run, Position, Started, Resumed, Cancelled, Reopened, Parked, BackingOff, Failed,
         Pointed, Moved, Finished

\* What a worker knows when nothing it knows of is written.
LEMMA HandQuiet ==
  ASSUME TypeInv, NEW v \in Workers, HandOK(local[v], pc[v], run, stepRuns),
         Position(run') = Position(run), \A i \in Ids : Face(stepRuns'[i]) = Face(stepRuns[i])
  PROVE  HandOK(local[v], pc[v], run', stepRuns')
<1>1. local[v] \in Local /\ (pc[v] \in HandLabels => local[v].id \in Ids)
  BY DEF TypeInv, LocalOK
<1> QED BY <1>1, QuietHand

\* A step that writes the row, but not where the run is, ends the tick.
LEMMA TickEndsQuietly ==
  ASSUME NEW w \in Workers, RowsOK(run, stepRuns, begun),
         Position(run') = Position(run), UNCHANGED <<stepRuns, begun>>,
         pc'[w] \in {"release", "workerRelease"}
  PROVE  /\ RowsOK(run', stepRuns', begun')
         /\ HandOK(local'[w], pc'[w], run', stepRuns')
  BY QuietRows, HandFree DEF ListedLabels, HandLabels

\* The key of the step in hand is the current key, and its visit is the one of
\* the step run the pointer names, or the next one of the step.
LEMMA HandKey ==
  ASSUME TypeInv, NEW w \in Workers, pc[w] \in AttemptLabels,
         RowsOK(run, stepRuns, begun), HandOK(local[w], pc[w], run, stepRuns)
  PROVE  /\ local[w].id \in Ids /\ local[w].id # 0
         /\ local[w].id = run.stepRunId
         /\ local[w].run.stepId = run.stepId
         /\ IF There(stepRuns, local[w].id) THEN local[w].visit = stepRuns[local[w].id].visit
            ELSE local[w].visit \in NextOf(stepRuns, run.stepId)
         /\ CurrentKey(run, stepRuns, KeyInHand(w))
<1> DEFINE l == local[w]
           id == local[w].id
<1>1. id \in Ids /\ id # 0
  BY NullId DEF TypeInv, LocalOK, AttemptLabels, HandLabels
<1>2. id = run.stepRunId /\ l.run.stepId = run.stepId
  BY DEF HandOK, AttemptLabels, HandLabels, ListedLabels, Position
<1>3. ASSUME There(stepRuns, id) PROVE stepRuns[id].stepId = run.stepId
  BY <1>2, <1>3 DEF RowsOK
<1>4. IF There(stepRuns, id) THEN l.visit = stepRuns[id].visit
      ELSE l.visit \in NextOf(stepRuns, run.stepId)
  <2>1. IF There(l.history, id) THEN KeyOf(l.history[id]) = <<l.run.stepId, l.visit>>
        ELSE l.visit \in NextOf(l.history, l.run.stepId)
    BY DEF HandOK
  <2>2. CASE Face(l.history[id]) = Face(stepRuns[id])
    <3>1. \A i \in Ids : Face(l.history[i]) = Face(stepRuns[i])
      BY <2>2 DEF HandOK, ListedLabels, HandLabels, AttemptLabels
    <3>2. There(l.history, id) <=> There(stepRuns, id)
      BY <2>2 DEF Face, There
    <3>3. l.history[id].visit = stepRuns[id].visit
      BY <2>2 DEF Face
    <3>4. NextOf(l.history, l.run.stepId) = NextOf(stepRuns, run.stepId)
      BY <1>2, <3>1, SameNext
    <3> QED BY <2>1, <3>2, <3>3, <3>4 DEF KeyOf
  <2>3. CASE There(stepRuns, id) /\ KeyOf(stepRuns[id]) = <<l.run.stepId, l.visit>>
    BY <2>3 DEF KeyOf
  <2>4. Face(l.history[id]) = Face(stepRuns[id]) \/
        (There(stepRuns, id) /\ KeyOf(stepRuns[id]) = <<l.run.stepId, l.visit>>)
    BY <1>1 DEF HandOK, ListedLabels, HandLabels, AttemptLabels
  <2> QED BY <2>2, <2>3, <2>4
<1>5. CurrentKey(run, stepRuns, KeyInHand(w))
  BY <1>1, <1>2, <1>3, <1>4 DEF CurrentKey, KeyInHand, KeyOf
<1> QED BY <1>1, <1>2, <1>4, <1>5

\* The table after an attempt was recorded: one step run of the current step is
\* new or updated, and it shows what was recorded.
LEMMA Recorder ==
  ASSUME TypeInv, NEW w \in Workers, pc[w] \in {"persist", "persistFailure"},
         RowsOK(run, stepRuns, begun), HandOK(local[w], pc[w], run, stepRuns),
         NEW rec \in StepRun, rec.stepId = local[w].run.stepId, rec.visit = local[w].visit,
         rec.status # "ABSENT", Storable(w, rec),
         stepRuns' = StepRunsAfter(w, rec)
  PROVE  /\ \A i \in Ids : i # local[w].id => stepRuns'[i] = stepRuns[i]
         /\ Face(stepRuns'[local[w].id]) = Face(rec)
         /\ RowsOK(run, stepRuns', begun)
<1> DEFINE id == local[w].id
<1>1. /\ id \in Ids /\ id # 0 /\ id = run.stepRunId
      /\ local[w].run.stepId = run.stepId
      /\ IF There(stepRuns, id) THEN local[w].visit = stepRuns[id].visit
         ELSE local[w].visit \in NextOf(stepRuns, run.stepId)
  BY HandKey DEF AttemptLabels
<1>2. stepRuns \in [Ids -> StepRun]
  BY DEF TypeInv, TypeOK
<1>3. Existing(w).status # "ABSENT" => Exists(id)
  <2>1. Face(Existing(w)) = Face(stepRuns[id]) \/ There(stepRuns, id)
    BY <1>1 DEF HandOK, ListedLabels, HandLabels, Existing
  <2> QED BY <1>1, <2>1 DEF Face, There, Exists
<1>4. (\A i \in Ids : i # id => stepRuns'[i] = stepRuns[i]) /\ Face(stepRuns'[id]) = Face(rec)
  <2>1. CASE Existing(w).status = "ABSENT"
    BY <1>1, <1>2, <2>1 DEF StepRunsAfter
  <2>2. CASE Existing(w).status # "ABSENT"
    <3> DEFINE kept == [rec EXCEPT !.waitPayload = stepRuns[id].waitPayload]
    <3>1. stepRuns' = [stepRuns EXCEPT ![id] = kept]
      BY <1>3, <2>2 DEF StepRunsAfter
    <3>2. Face(kept) = Face(rec)
      BY DEF Face, StepRun
    <3> HIDE DEF kept
    <3> QED BY <1>1, <1>2, <3>1, <3>2
  <2> QED BY <2>1, <2>2
<1>5. RowsOK(run, stepRuns', begun)
  BY <1>1, <1>2, <1>4, Recording
<1> QED BY <1>4, <1>5

\* Recording an attempt, of either kind, leaves the rows and the worker in order.
LEMMA RecordAttemptKeepsHand ==
  ASSUME TypeInv, NEW w \in Workers, pc[w] \in {"persist", "persistFailure"},
         RowsOK(run, stepRuns, begun), HandOK(local[w], pc[w], run, stepRuns),
         NEW rec \in StepRun, rec.stepId = local[w].run.stepId, rec.visit = local[w].visit,
         rec.status # "ABSENT", RecordAttempt(w, rec)
  PROVE  /\ RowsOK(run', stepRuns', begun')
         /\ HandOK(local'[w], pc'[w], run', stepRuns')
<1> DEFINE id == local[w].id
           history == [local[w].history EXCEPT ![id] = rec]
<1>0. /\ local \in [Workers -> Local] /\ pc \in [Workers -> Labels]
      /\ local[w] \in Local /\ local[w].history \in [Ids -> StepRun] /\ id \in Ids
  BY LocalFields DEF TypeInv, TypeOK, LocalOK, HandLabels
<1>1. UNCHANGED <<run, begun>> /\ Storable(w, rec) /\ stepRuns' = StepRunsAfter(w, rec)
  BY DEF RecordAttempt
<1>2. /\ \A i \in Ids : i # id => stepRuns'[i] = stepRuns[i]
      /\ Face(stepRuns'[id]) = Face(rec)
      /\ RowsOK(run, stepRuns', begun)
  BY <1>1, Recorder
<1>3. /\ local'[w] = [local[w] EXCEPT !.history = history, !.steps = @ + 1,
                        !.result = NoResult, !.mark = 0, !.resume = NoResume]
      /\ pc'[w] = After(w, rec)
  BY <1>0 DEF RecordAttempt, Goto
<1>4. history[id] = rec /\ \A i \in Ids : i # id => history[i] = local[w].history[i]
  BY <1>0
<1> HIDE DEF history
<1>5. /\ local'[w].id = id
      /\ local'[w].run = local[w].run
      /\ local'[w].history = history
  BY <1>0, <1>3 DEF Local
<1>6. pc'[w] \in {"advance", "parkRun", "fail", "retry"}
  BY <1>3 DEF After
<1>7. id = local[w].run.stepRunId /\ Position(local[w].run) = Position(run)
  BY DEF HandOK, HandLabels, ListedLabels
<1>8. \A i \in Ids : i # id => Face(local[w].history[i]) = Face(stepRuns[i])
  BY DEF HandOK, HandLabels, ListedLabels
<1>9. \A i \in Ids : Face(history[i]) = Face(stepRuns'[i])
  BY <1>2, <1>4, <1>8
<1>10. HandOK(local'[w], pc'[w], run, stepRuns')
  BY <1>5, <1>6, <1>7, <1>9 DEF HandOK, HandLabels, ListedLabels, AttemptLabels
<1> QED BY <1>1, <1>2, <1>10

\* The records an attempt may end with carry the key in hand.
LEMMA OutcomeKeys ==
  ASSUME TypeInv, NEW w \in Workers, pc[w] \in {"persist", "persistFailure"}
  PROVE  /\ Outcome(w) \in StepRun /\ Outcome(w).status # "ABSENT"
         /\ Outcome(w).stepId = local[w].run.stepId /\ Outcome(w).visit = local[w].visit
         /\ FailureOutcome(w) \in StepRun /\ FailureOutcome(w).status # "ABSENT"
         /\ FailureOutcome(w).stepId = local[w].run.stepId /\ FailureOutcome(w).visit = local[w].visit
<1>1. LocalOK(local[w], pc[w]) /\ pc[w] \in HandLabels
  BY DEF TypeInv, HandLabels
<1>2. Existing(w) \in StepRun
  BY <1>1, InHand
<1> QED BY <1>1, <1>2, OutcomeType DEF Outcome, FailureOutcome, StepRun

-----------------------------------------------------------------------------
(* Every step of a tick *)

\* Whatever a worker inside a tick does next, it keeps the rows in order and its
\* own copies true.
LEMMA TickKeepsHand ==
  ASSUME TypeInv, NEW w \in Workers, Tick(w), run.status # "ABSENT",
         RowsOK(run, stepRuns, begun), HandOK(local[w], pc[w], run, stepRuns)
  PROVE  /\ RowsOK(run', stepRuns', begun')
         /\ HandOK(local'[w], pc'[w], run', stepRuns')
<1> DEFINE l == local[w]
<1>0. /\ run \in Run /\ stepRuns \in [Ids -> StepRun]
      /\ pc \in [Workers -> Labels]
      /\ local \in [Workers -> Local]
      /\ l \in Local
      /\ LocalOK(l, pc[w])
  BY DEF TypeInv, TypeOK
<1> USE DEF HandLabels, ListedLabels, AttemptLabels
<1>1. CASE ReadRun(w)
  <2>1. UNCHANGED <<run, stepRuns, begun>>
    BY <1>1 DEF ReadRun
  <2>2. CASE pc'[w] = "workerRelease"
    BY <2>1, <2>2, TickEndsQuietly
  <2>3. CASE pc'[w] # "workerRelease"
    <3>1. pc'[w] = "list" /\ local'[w] = [l EXCEPT !.run = run]
      BY <1>0, <1>1, <2>3 DEF ReadRun, Goto
    <3>2. local'[w].run = run
      BY <1>0, <3>1 DEF Local
    <3> QED BY <2>1, <3>1, <3>2 DEF HandOK
  <2> QED BY <2>2, <2>3
<1>2. CASE ListByRun(w)
  <2>1. UNCHANGED <<run, stepRuns, begun>>
    BY <1>2 DEF ListByRun
  <2>2. pc[w] = "list" /\ pc'[w] = "active" /\ local'[w] = [l EXCEPT !.history = stepRuns]
    BY <1>0, <1>2 DEF ListByRun, Goto
  <2>3. local'[w].run = l.run /\ local'[w].history = stepRuns
    BY <1>0, <2>2 DEF Local
  <2> QED BY <2>1, <2>2, <2>3 DEF HandOK
<1>3. CASE GetActive(w)
  <2> DEFINE wait == ActiveStepRun(l.run)
  <2>1. UNCHANGED <<run, stepRuns, begun>>
    BY <1>3 DEF GetActive
  <2>2. /\ pc[w] = "active" /\ pc'[w] \in {"consume", "begin", "loop"}
        /\ pc'[w] = "consume" => wait.status = "WAITING"
        /\ local'[w] = [l EXCEPT !.wait = wait]
    BY <1>0, <1>3 DEF GetActive, Goto
  <2>3. wait.status = "WAITING" => l.run.stepRunId \in Ids /\ wait = stepRuns[l.run.stepRunId]
    BY <1>0, LocalFields, NullId DEF ActiveStepRun, NoStepRun
  <2> HIDE DEF wait
  <2>4. /\ local'[w].run = l.run /\ local'[w].history = l.history
        /\ local'[w].wait = wait /\ local'[w].id = l.id
    BY <1>0, <2>2 DEF Local
  <2> QED BY <2>1, <2>2, <2>3, <2>4 DEF HandOK
<1>4. CASE Begin(w)
  <2>1. UNCHANGED <<stepRuns, begun>> /\ run' = Started(run)
    BY <1>4 DEF Begin, Store
  <2>2. pc[w] = "begin" /\ pc'[w] = "loop" /\ local'[w] = [l EXCEPT !.run = Started(l.run)]
    BY <1>0, <1>4 DEF Begin, Goto
  <2>3. local'[w].run = Started(l.run) /\ local'[w].history = l.history
    BY <1>0, <2>2 DEF Local
  <2>4. Position(run') = Position(run) /\ Position(local'[w].run) = Position(l.run)
    BY <1>0, <2>1, <2>3, LocalFields, Positions
  <2>5. RowsOK(run', stepRuns', begun')
    BY <2>1, <2>4, QuietRows
  <2> QED BY <2>1, <2>2, <2>3, <2>4, <2>5 DEF HandOK
<1>5. CASE ConsumeNext(w)
  <2>1. UNCHANGED <<run, stepRuns, begun>>
    BY <1>5 DEF ConsumeNext
  <2>2. PICK res : local' = [local EXCEPT ![w].resume = res]
    BY <1>5 DEF ConsumeNext
  <2>3. pc[w] = "consume" /\ pc'[w] = "savePayload" /\ local'[w] = [l EXCEPT !.resume = res]
    BY <1>0, <1>5, <2>2 DEF ConsumeNext, Goto
  <2>4. local'[w].run = l.run /\ local'[w].history = l.history /\ local'[w].wait = l.wait
    BY <1>0, <2>3 DEF Local
  <2> QED BY <2>1, <2>3, <2>4 DEF HandOK
<1>6. CASE NothingToConsume(w)
  <2>1. UNCHANGED <<run, stepRuns, begun>>
    BY <1>6 DEF NothingToConsume
  <2>2. CASE l.wait.wakeAt = "due"
    <3>1. PICK res : local' = [local EXCEPT ![w].resume = res]
      BY <1>6, <2>2 DEF NothingToConsume
    <3>2. pc[w] = "consume" /\ pc'[w] = "resume" /\ local'[w] = [l EXCEPT !.resume = res]
      BY <1>0, <1>6, <2>2, <3>1 DEF NothingToConsume, Goto
    <3>3. local'[w].run = l.run /\ local'[w].history = l.history
      BY <1>0, <3>2 DEF Local
    <3> QED BY <2>1, <3>2, <3>3 DEF HandOK
  <2>3. CASE l.wait.wakeAt # "due"
    <3>1. pc[w] = "consume" /\ pc'[w] \in {"release", "park"} /\ local'[w] = l
      BY <1>0, <1>6, <2>3 DEF NothingToConsume, Goto
    <3> QED BY <2>1, <3>1 DEF HandOK
  <2> QED BY <2>2, <2>3
<1>7. CASE SavePayload(w)
  <2> DEFINE id == l.run.stepRunId
             payload == l.resume.payload
             rec == [l.wait EXCEPT !.waitPayload = payload]
             history == [l.history EXCEPT ![id] = rec]
  <2>1. UNCHANGED <<run, begun>>
    BY <1>7 DEF SavePayload
  <2>2. pc[w] = "savePayload" /\ pc'[w] = "resume" /\ local'[w] = [l EXCEPT !.history = history]
    BY <1>0, <1>7 DEF SavePayload, Goto
  <2>3. id \in Ids /\ Face(l.wait) = Face(stepRuns[id])
    BY <2>2 DEF HandOK
  <2>4. l.wait \in StepRun /\ l.history \in [Ids -> StepRun]
    BY <1>0, LocalFields
  <2>5. Face(rec) = Face(l.wait)
    BY <2>4 DEF StepRun, Face
  <2>6. \A i \in Ids : Face(history[i]) = Face(stepRuns[i])
    <3>1. \A i \in Ids : Face(l.history[i]) = Face(stepRuns[i])
      BY <2>2 DEF HandOK
    <3> HIDE DEF rec, id
    <3> QED BY <2>3, <2>4, <2>5, <3>1
  <2>7. \A i \in Ids : Face(stepRuns'[i]) = Face(stepRuns[i])
    <3>1. CASE Exists(id)
      <4> DEFINE new == [stepRuns[id] EXCEPT !.waitPayload = payload]
      <4>1. stepRuns' = [stepRuns EXCEPT ![id] = new]
        BY <1>7, <3>1 DEF SavePayload
      <4>2. Face(new) = Face(stepRuns[id])
        BY <1>0, <2>3 DEF StepRun, Face
      <4> HIDE DEF new, id
      <4> QED BY <1>0, <2>3, <4>1, <4>2
    <3>2. CASE ~Exists(id)
      BY <1>7, <3>2 DEF SavePayload
    <3> QED BY <3>1, <3>2
  <2>8. RowsOK(run', stepRuns', begun')
    BY <2>1, <2>7, QuietRows
  <2> HIDE DEF history
  <2>9. local'[w].run = l.run /\ local'[w].history = history
    BY <1>0, <2>2 DEF Local
  <2> QED BY <2>1, <2>2, <2>6, <2>7, <2>8, <2>9 DEF HandOK
<1>8. CASE ResumeRun(w)
  <2>1. UNCHANGED <<stepRuns, begun>> /\ run' = Resumed(run)
    BY <1>8 DEF ResumeRun, Store
  <2>2. /\ pc[w] = "resume" /\ pc'[w] = "loop"
        /\ local'[w] = [[l EXCEPT !.run = Resumed(l.run)] EXCEPT !.wait = NoStepRun]
    BY <1>0, <1>8 DEF ResumeRun, Goto
  <2>3. local'[w].run = Resumed(l.run) /\ local'[w].history = l.history
    BY <1>0, <2>2 DEF Local
  <2>4. Position(run') = Position(run) /\ Position(local'[w].run) = Position(l.run)
    BY <1>0, <2>1, <2>3, LocalFields, Positions
  <2>5. RowsOK(run', stepRuns', begun')
    BY <2>1, <2>4, QuietRows
  <2> QED BY <2>1, <2>2, <2>3, <2>4, <2>5 DEF HandOK
<1>9. CASE ParkAgain(w)
  <2>1. UNCHANGED <<stepRuns, begun>> /\ run' = Parked(run, run.stepId, l.wait.wakeAt) /\ pc'[w] = "release"
    BY <1>0, <1>9 DEF ParkAgain, Store, Goto
  <2> QED BY <1>0, <2>1, Positions, TickEndsQuietly
<1>10. CASE LoopExit(w) \/ RenewFails(w) \/ PersistFailureConflict(w) \/ NoMatchingTransition(w)
              \/ TickRelease(w)
  <2>1. UNCHANGED <<run, stepRuns, begun>> /\ pc'[w] \in {"release", "workerRelease"}
    BY <1>0, <1>10 DEF LoopExit, RenewFails, PersistFailureConflict, NoMatchingTransition,
                       TickRelease, Goto
  <2> QED BY <2>1, TickEndsQuietly
<1>11. CASE Replay(w)
  <2>1. UNCHANGED <<run, stepRuns, begun>>
    BY <1>11 DEF Replay
  <2> DEFINE active == ActiveInHistory(w)
  <2>2. /\ pc[w] = "loop" /\ pc'[w] = "advance"
        /\ local'[w] = [l EXCEPT !.id = l.run.stepRunId, !.visit = active.visit, !.steps = @ + 1]
    BY <1>0, <1>11 DEF Replay, AtLoopHead, Goto
  <2>3. local'[w].run = l.run /\ local'[w].history = l.history /\ local'[w].id = l.run.stepRunId
    BY <1>0, <2>2 DEF Local
  <2> QED BY <2>1, <2>2, <2>3 DEF HandOK
<1>12. CASE Prepare(w)
  <2> DEFINE active == ActiveInHistory(w)
             pointer == l.run.stepRunId
             told(res) == IF res = NoResume THEN ReconstructResume(active) ELSE res
  <2>1. UNCHANGED <<run, stepRuns, begun>>
    BY <1>12 DEF Prepare
  <2>2. PICK id \in IF pointer = 0 THEN LeastFreshId ELSE {pointer}, visit \in VisitOf(w, active) :
          local' = [local EXCEPT ![w].id = id, ![w].visit = visit, ![w].resume = told(@)]
    BY <1>12 DEF Prepare
  <2>3. /\ pc[w] = "loop" /\ pc'[w] = IF pointer = 0 THEN "point" ELSE "handler"
        /\ active.status # "COMPLETED"
    BY <1>0, <1>12 DEF Prepare, AtLoopHead, AlreadyDone, Goto
  <2>4. pointer = 0 => id \in Ids /\ ~There(stepRuns, id) /\ active.status = "ABSENT"
    BY <2>2 DEF LeastFreshId, FreshIds, Exists, There, ActiveInHistory, NoStepRun, Ids
  <2>5. pointer # 0 => id = pointer /\ id \in Ids /\ active = l.history[id]
    BY <1>0, <2>2, LocalFields, NullId DEF ActiveInHistory
  <2>6. NextVisit(w) = NextOf(l.history, l.run.stepId)
    BY DEF NextVisit, KnownVisits, NextOf, VisitsOf
  <2>7. \A i \in Ids : Face(l.history[i]) = Face(stepRuns[i])
    BY <2>3 DEF HandOK
  <2>8. IF There(l.history, id) THEN KeyOf(l.history[id]) = <<l.run.stepId, visit>>
        ELSE visit \in NextOf(l.history, l.run.stepId)
    <3>1. visit \in IF active.status = "ABSENT" THEN NextOf(l.history, l.run.stepId) ELSE {active.visit}
      BY <2>2, <2>6 DEF VisitOf
    <3>2. pointer = 0 => ~There(l.history, id)
      BY <2>4, <2>7 DEF Face, There
    <3>3. ASSUME There(l.history, id) PROVE l.history[id].stepId = l.run.stepId
      <4>1. pointer # 0 /\ id = pointer /\ id \in Ids
        BY <2>5, <3>2, <3>3
      <4>2. Position(l.run) = Position(run)
        BY <2>3 DEF HandOK
      <4>3. id = run.stepRunId /\ l.run.stepId = run.stepId
        BY <4>1, <4>2 DEF Position
      <4>4. There(stepRuns, id) /\ l.history[id].stepId = stepRuns[id].stepId
        BY <2>7, <3>3, <4>1 DEF Face, There
      <4> QED BY <4>3, <4>4 DEF RowsOK
    <3> HIDE DEF active
    <3> QED BY <2>4, <2>5, <3>1, <3>2, <3>3 DEF There, KeyOf
  <2> HIDE DEF active, told
  <2>9. local'[w] = [l EXCEPT !.id = id, !.visit = visit, !.resume = told(@)]
    BY <1>0, <2>2
  <2>10. /\ local'[w].run = l.run /\ local'[w].history = l.history
         /\ local'[w].id = id /\ local'[w].visit = visit
    BY <1>0, <2>9 DEF Local
  <2> QED BY <2>1, <2>3, <2>4, <2>5, <2>7, <2>8, <2>10 DEF HandOK
<1>13. CASE Point(w)
  <2> DEFINE id == l.id
  <2>1. UNCHANGED <<stepRuns, begun>> /\ run' = Pointed(run, id)
    BY <1>13 DEF Point, Store
  <2>2. pc[w] = "point" /\ pc'[w] = "handler" /\ local'[w] = [l EXCEPT !.run = Pointed(l.run, id)]
    BY <1>0, <1>13 DEF Point, Goto
  <2>3. id \in Ids
    BY <1>0, <2>2 DEF LocalOK
  <2>4. /\ local'[w].run = Pointed(l.run, id) /\ local'[w].history = l.history
        /\ local'[w].id = id /\ local'[w].visit = l.visit
    BY <1>0, <2>2 DEF Local
  <2>5. /\ Position(l.run) = Position(run) /\ l.run.stepRunId = 0 /\ ~There(stepRuns, id)
        /\ \A i \in Ids : Face(l.history[i]) = Face(stepRuns[i])
        /\ IF There(l.history, id) THEN KeyOf(l.history[id]) = <<l.run.stepId, l.visit>>
           ELSE l.visit \in NextOf(l.history, l.run.stepId)
    BY <2>2 DEF HandOK
  <2>6. /\ Position(run') = <<run.stepId, id, run.context>>
        /\ Position(local'[w].run) = Position(run')
        /\ local'[w].run.stepRunId = id /\ local'[w].run.stepId = l.run.stepId
    BY <1>0, <2>1, <2>4, <2>5, LocalFields, Positions DEF Position
  <2>7. RowsOK(run', stepRuns', begun')
    <3>1. run.stepRunId = 0
      BY <2>5 DEF Position
    <3> QED BY <2>1, <2>3, <2>5, <2>6, <3>1, Pointing
  <2>8. l.history[id].status = "ABSENT"
    BY <2>3, <2>5 DEF There, Face
  <2> QED BY <2>1, <2>2, <2>3, <2>4, <2>5, <2>6, <2>7, <2>8 DEF HandOK
<1>14. CASE StartHandler(w)
  <2>1. UNCHANGED <<run, stepRuns>> /\ begun' = begun \cup {KeyInHand(w)}
    BY <1>14 DEF StartHandler
  <2>2. PICK n : local' = [local EXCEPT ![w].stale = n]
    BY <1>14 DEF StartHandler
  <2>3. pc[w] = "handler" /\ pc'[w] = "running" /\ local'[w] = [l EXCEPT !.stale = n]
    BY <1>0, <1>14, <2>2 DEF StartHandler, Goto
  <2>4. /\ local'[w].run = l.run /\ local'[w].history = l.history
        /\ local'[w].id = l.id /\ local'[w].visit = l.visit
    BY <1>0, <2>3 DEF Local
  <2>5. RowsOK(run', stepRuns', begun')
    BY <2>1, <2>3, HandKey, Starting
  <2> QED BY <2>1, <2>3, <2>4, <2>5 DEF HandOK
<1>15. CASE HandlerReturns(w)
  <2>1. UNCHANGED <<run, stepRuns, begun>>
    BY <1>15 DEF HandlerReturns
  <2>2. PICK result :
           /\ local' = [local EXCEPT ![w].result = result]
           /\ Goto(w, IF result.status = "waiting" THEN "watermark" ELSE "persist")
    BY <1>15 DEF HandlerReturns
  <2>3. /\ pc[w] = "running" /\ pc'[w] \in {"watermark", "persist"}
        /\ local'[w] = [l EXCEPT !.result = result]
    BY <1>0, <1>15, <2>2 DEF HandlerReturns, Goto
  <2>4. /\ local'[w].run = l.run /\ local'[w].history = l.history
        /\ local'[w].id = l.id /\ local'[w].visit = l.visit
    BY <1>0, <2>3 DEF Local
  <2> QED BY <2>1, <2>3, <2>4 DEF HandOK
<1>16. CASE Watermark(w)
  <2>1. UNCHANGED <<run, stepRuns, begun>>
    BY <1>16 DEF Watermark
  <2>2. PICK n : local' = [local EXCEPT ![w].mark = n]
    BY <1>16 DEF Watermark
  <2>3. pc[w] = "watermark" /\ pc'[w] = "persist" /\ local'[w] = [l EXCEPT !.mark = n]
    BY <1>0, <1>16, <2>2 DEF Watermark, Goto
  <2>4. /\ local'[w].run = l.run /\ local'[w].history = l.history
        /\ local'[w].id = l.id /\ local'[w].visit = l.visit
    BY <1>0, <2>3 DEF Local
  <2> QED BY <2>1, <2>3, <2>4 DEF HandOK
<1>17. CASE Persist(w)
  <2>1. pc[w] = "persist" /\ RecordAttempt(w, Outcome(w))
    BY <1>17 DEF Persist
  <2> QED BY <2>1, OutcomeKeys, RecordAttemptKeepsHand
<1>18. CASE PersistConflict(w)
  <2>1. UNCHANGED <<run, stepRuns, begun>>
    BY <1>18 DEF PersistConflict
  <2>2. pc[w] = "persist" /\ pc'[w] = "persistFailure" /\ local'[w] = l
    BY <1>0, <1>18 DEF PersistConflict, Goto
  <2>3. l.id \in Ids
    BY <1>0, <2>2 DEF LocalOK
  <2> QED BY <2>1, <2>2, <2>3 DEF HandOK
<1>19. CASE PersistFailure(w)
  <2>1. pc[w] = "persistFailure" /\ RecordAttempt(w, FailureOutcome(w))
    BY <1>19 DEF PersistFailure
  <2> QED BY <2>1, OutcomeKeys, RecordAttemptKeepsHand
<1>20. CASE Complete(w) \/ Advance(w)
  <2> DEFINE next == ResolveNextStep(l.run.stepId, Existing(w).output)
  <2>1. pc[w] = "advance" /\ UNCHANGED <<stepRuns, begun>>
    BY <1>20 DEF Complete, Advance
  <2>2. l.id \in Ids /\ Existing(w).status = "COMPLETED"
    BY <1>0, <2>1 DEF LocalOK, Existing
  <2>3. /\ Position(l.run) = Position(run)
        /\ l.id = run.stepRunId
        /\ \A i \in Ids : Face(l.history[i]) = Face(stepRuns[i])
    BY <2>1 DEF HandOK, Position
  <2>4. stepRuns[run.stepRunId].status = "COMPLETED" /\ KeyOf(Existing(w)) = KeyOf(stepRuns[run.stepRunId])
    BY <2>2, <2>3 DEF Face, KeyOf, Existing
  <2>5. ContextAfter(w) = run.context \cup {KeyOf(stepRuns[run.stepRunId])}
    BY <2>3, <2>4 DEF ContextAfter, Position, KeyOf
  <2>6. ASSUME NEW row, run' = row, row.stepRunId = 0, row.context = ContextAfter(w)
        PROVE  RowsOK(run', stepRuns', begun')
    BY <2>1, <2>2, <2>3, <2>4, <2>5, <2>6, Leaving
  <2>7. CASE Complete(w)
    <3>1. run' = Finished(run, ContextAfter(w)) /\ pc'[w] = "release"
      BY <1>0, <2>7 DEF Complete, Store, Goto
    <3>2. run'.stepRunId = 0 /\ run'.context = ContextAfter(w)
      BY <1>0, <3>1, Positions DEF Position
    <3> QED BY <2>6, <3>1, <3>2, HandFree
  <2>8. CASE Advance(w)
    <3>1. /\ run' = Moved(run, ContextAfter(w), next) /\ pc'[w] = "loop"
          /\ local'[w] = [l EXCEPT !.run = Moved(l.run, ContextAfter(w), next), !.id = 0, !.visit = 0]
      BY <1>0, <2>8 DEF Advance, Store, Goto
    <3> HIDE DEF next
    <3>2. local'[w].run = Moved(l.run, ContextAfter(w), next) /\ local'[w].history = l.history
      BY <1>0, <3>1 DEF Local
    <3>3. run'.stepRunId = 0 /\ run'.context = ContextAfter(w) /\ Position(local'[w].run) = Position(run')
      BY <1>0, <3>1, <3>2, LocalFields, Positions DEF Position
    <3>4. RowsOK(run', stepRuns', begun')
      BY <2>6, <3>3
    <3> QED BY <2>1, <2>3, <3>1, <3>2, <3>3, <3>4 DEF HandOK
  <2> QED BY <1>20, <2>7, <2>8
<1>21. CASE ParkRun(w) \/ BackOff(w) \/ Fail(w)
  <2>1. /\ UNCHANGED <<stepRuns, begun>> /\ pc'[w] = "release"
        /\ pc[w] \in {"parkRun", "retry", "fail"}
        /\ run' \in {Parked(run, l.run.stepId, Existing(w).wakeAt),
                     BackingOff(run, l.run.stepId), Failed(run, l.run.stepId)}
    BY <1>0, <1>21 DEF ParkRun, BackOff, Fail, Store, Goto
  <2>2. l.run.stepId = run.stepId
    BY <2>1 DEF HandOK, Position
  <2>3. Position(run') = Position(run)
    BY <1>0, <2>1, <2>2, Positions
  <2> QED BY <2>1, <2>3, TickEndsQuietly
<1>22. CASE WorkerRelease(w)
  <2>1. UNCHANGED <<run, stepRuns, begun>> /\ pc'[w] = "idle"
    BY <1>0, <1>22 DEF WorkerRelease, Goto
  <2> QED BY <2>1, HandFree
<1> QED
  BY <1>1, <1>2, <1>3, <1>4, <1>5, <1>6, <1>7, <1>8, <1>9, <1>10, <1>11, <1>12, <1>13, <1>14, <1>15, <1>16, <1>17, <1>18, <1>19, <1>20, <1>21, <1>22 DEF Tick

-----------------------------------------------------------------------------
(* The invariant is inductive.  Since at most one worker is inside a tick,   *)
(* a step of a tick has only that worker's copies to keep true.              *)

\* A step of a tick keeps StepsInv.
LEMMA TickKeepsSteps ==
  ASSUME TypeInv, DriverInv, StepsInv, NEW w \in Workers, Tick(w)
  PROVE  StepsInv'
<1> SUFFICES ASSUME Undisturbed', run'.status # "ABSENT"
             PROVE  /\ RowsOK(run', stepRuns', begun')
                    /\ \A v \in Workers : InTick(v)' => HandOK(local'[v], pc'[v], run', stepRuns')
  BY DEF StepsInv
<1>0. /\ pc \in [Workers -> Labels] /\ local \in [Workers -> Local]
      /\ pc' = [pc EXCEPT ![w] = pc'[w]] /\ local' = [local EXCEPT ![w] = local'[w]]
  BY TickIsStaleFramed DEF TypeInv, TypeOK, StaleFrame
<1>1. Undisturbed /\ run.status # "ABSENT" /\ pc[w] # "idle"
      /\ (pc[w] = "workerRelease" => pc'[w] = "idle")
  BY TickIsFramed DEF TickFrame, Undisturbed
<1>2. RowsOK(run, stepRuns, begun) /\ \A v \in Workers : InTick(v) => HandOK(local[v], pc[v], run, stepRuns)
  BY <1>1 DEF StepsInv
<1>3. CASE pc[w] # "workerRelease"
  <2>1. InTick(w)
    BY <1>1, <1>3 DEF InTick
  <2>2. RowsOK(run', stepRuns', begun') /\ HandOK(local'[w], pc'[w], run', stepRuns')
    BY <1>1, <1>2, <2>1, TickKeepsHand
  <2>3. \A v \in Workers : v # w => ~InTick(v)'
    BY <1>0, <1>1, <2>1 DEF DriverInv, SingleDriver, InTick
  <2> QED BY <2>2, <2>3
<1>4. CASE pc[w] = "workerRelease"
  <2>1. UNCHANGED <<run, stepRuns, begun>>
    BY <1>4 DEF Tick, ReadRun, ListByRun, GetActive, Begin, ConsumeNext, NothingToConsume,
         SavePayload, ResumeRun, ParkAgain, LoopExit, RenewFails, AtLoopHead, Replay, Prepare, Point,
         StartHandler, HandlerReturns, Watermark, Persist, PersistConflict, PersistFailure,
         PersistFailureConflict, Complete, Advance, NoMatchingTransition, ParkRun, BackOff, Fail,
         TickRelease, WorkerRelease
  <2>2. \A v \in Workers : InTick(v)' => v # w
    BY <1>0, <1>1, <1>4 DEF InTick
  <2>3. \A v \in Workers : v # w => local'[v] = local[v] /\ pc'[v] = pc[v] /\ (InTick(v)' <=> InTick(v))
    BY <1>0 DEF InTick
  <2> QED BY <1>2, <2>1, <2>2, <2>3
<1> QED BY <1>3, <1>4

\* A lost reply, or a storage error before the record was stored, leaves a worker
\* with the copies it had.
LEMMA ThrownHand ==
  ASSUME NEW l, NEW r, NEW recs, NEW label \in {"watermark", "persist"}, HandOK(l, label, r, recs),
         l.id \in Ids
  PROVE  HandOK(l, "persistFailure", r, recs)
<1>1. Face(l.history[l.id]) = Face(recs[l.id])
  BY DEF HandOK, HandLabels, ListedLabels
<1> QED BY <1>1 DEF HandOK, HandLabels, ListedLabels, AttemptLabels

\* Paying for a fault never makes a disturbed run undisturbed.
LEMMA SpendDisturbs ==
  ASSUME used \in [Faults -> Nat], NEW f \in Faults, Spend(f), Undisturbed'
  PROVE  Undisturbed
  BY DEF Spend, Undisturbed, Faults

\* A step after which every worker knows what it knew, or need not know it, and
\* which writes neither a position nor a face.
LEMMA QuietStep ==
  ASSUME TypeInv, StepsInv, Undisturbed' => Undisturbed, begun' = begun,
         run'.status # "ABSENT" =>
           /\ run.status # "ABSENT"
           /\ Position(run') = Position(run)
           /\ \A i \in Ids : Face(stepRuns'[i]) = Face(stepRuns[i]),
         \A v \in Workers :
           \/ local'[v] = local[v] /\ pc'[v] = pc[v]
           \/ pc'[v] \in {"idle", "read", "release", "workerRelease"}
           \/ pc[v] \in {"watermark", "persist"} /\ pc'[v] = "persistFailure" /\ local'[v] = local[v]
  PROVE  StepsInv'
<1> SUFFICES ASSUME Undisturbed', run'.status # "ABSENT"
             PROVE  /\ RowsOK(run', stepRuns', begun')
                    /\ \A v \in Workers : InTick(v)' => HandOK(local'[v], pc'[v], run', stepRuns')
  BY DEF StepsInv
<1>1. RowsOK(run', stepRuns', begun')
  BY QuietRows DEF StepsInv
<1>2. ASSUME NEW v \in Workers, InTick(v)' PROVE HandOK(local'[v], pc'[v], run', stepRuns')
  <2>1. CASE pc'[v] \in {"idle", "read", "release", "workerRelease"}
    BY <2>1, HandFree DEF ListedLabels, HandLabels
  <2>2. CASE pc'[v] \notin {"idle", "read", "release", "workerRelease"}
    <3>1. InTick(v) /\ local'[v] = local[v]
      BY <1>2, <2>2 DEF InTick
    <3>2. HandOK(local[v], pc[v], run', stepRuns')
      BY <3>1, HandQuiet DEF StepsInv
    <3>3. CASE pc'[v] = pc[v]
      BY <3>1, <3>2, <3>3
    <3>4. CASE pc'[v] # pc[v]
      <4>1. pc[v] \in {"watermark", "persist"} /\ pc'[v] = "persistFailure"
        BY <2>2, <3>4
      <4>2. local[v].id \in Ids
        BY <4>1 DEF TypeInv, LocalOK, HandLabels
      <4> QED BY <3>1, <3>2, <4>1, <4>2, ThrownHand
    <3> QED BY <3>3, <3>4
  <2> QED BY <2>1, <2>2
<1> QED BY <1>1, <1>2

\* The outcome is stored and its reply lost: the worker may no longer know what
\* the step run in hand says, only that it is there, under the key in hand.
LEMMA ReplyLostKeepsSteps ==
  ASSUME TypeInv, DriverInv, StepsInv, NEW w \in Workers, PersistReplyLost(w)
  PROVE  StepsInv'
<1> SUFFICES ASSUME Undisturbed', run'.status # "ABSENT"
             PROVE  /\ RowsOK(run', stepRuns', begun')
                    /\ \A v \in Workers : InTick(v)' => HandOK(local'[v], pc'[v], run', stepRuns')
  BY DEF StepsInv
<1> DEFINE id == local[w].id
<1>0. pc \in [Workers -> Labels] /\ used \in [Faults -> Nat] /\ id \in Ids
  BY DEF TypeInv, TypeOK, LocalOK, PersistReplyLost, HandLabels
<1>1. /\ pc[w] = "persist" /\ pc' = [pc EXCEPT ![w] = "persistFailure"] /\ Spend("throw")
      /\ UNCHANGED <<run, local, begun>>
      /\ Storable(w, Outcome(w)) /\ stepRuns' = StepRunsAfter(w, Outcome(w))
  BY DEF PersistReplyLost, Goto, AfterThrow
<1>2. Undisturbed
  BY <1>0, <1>1, SpendDisturbs DEF Faults
<1>3. RowsOK(run, stepRuns, begun) /\ HandOK(local[w], pc[w], run, stepRuns)
  BY <1>1, <1>2 DEF StepsInv, InTick
<1>4. /\ \A i \in Ids : i # id => stepRuns'[i] = stepRuns[i]
      /\ Face(stepRuns'[id]) = Face(Outcome(w))
      /\ RowsOK(run, stepRuns', begun)
  BY <1>1, <1>3, OutcomeKeys, Recorder
<1>5. HandOK(local[w], "persistFailure", run, stepRuns')
  <2>1. There(stepRuns', id) /\ KeyOf(stepRuns'[id]) = <<local[w].run.stepId, local[w].visit>>
    BY <1>0, <1>1, <1>4, OutcomeKeys DEF There, KeyOf, Face
  <2>2. HandOK(local[w], "persistFailure", run, stepRuns)
    BY <1>0, <1>1, <1>3, ThrownHand
  <2> QED BY <1>4, <2>1, <2>2 DEF HandOK, HandLabels, ListedLabels, AttemptLabels
<1>6. \A v \in Workers : InTick(v)' => v = w
  BY <1>0, <1>1, <1>2 DEF DriverInv, SingleDriver, InTick
<1> QED BY <1>0, <1>1, <1>4, <1>5, <1>6

\* The clock moves deadlines only.
LEMMA TimeKeepsFaces ==
  ASSUME TypeInv, TimePasses
  PROVE  /\ Position(run') = Position(run) /\ run'.status = run.status
         /\ \A i \in Ids : Face(stepRuns'[i]) = Face(stepRuns[i])
<1>1. run \in Run /\ run' = [run EXCEPT !.wakeAt = Elapsed(run.wakeAt)]
  BY DEF TypeInv, TypeOK, TimePasses
<1>2. ASSUME NEW i \in Ids PROVE Face(stepRuns'[i]) = Face(stepRuns[i])
  <2>1. stepRuns[i] \in StepRun /\ stepRuns'[i] = [stepRuns[i] EXCEPT !.wakeAt = Elapsed(stepRuns[i].wakeAt)]
    BY DEF TypeInv, TypeOK, TimePasses
  <2> QED BY <2>1 DEF StepRun, Face
<1> QED BY <1>1, <1>2 DEF Run, Position

\* A reconciliation resets failures only.
LEMMA ResetKeepsFaces ==
  ASSUME TypeInv, NEW c \in Clients, ReconcileReset(c)
  PROVE  \A i \in Ids : Face(stepRuns'[i]) = Face(stepRuns[i])
<1> DEFINE id == client[c].stepRunId
<1>1. stepRuns \in [Ids -> StepRun] /\ id \in IdOrNull
  BY DEF TypeInv, TypeOK
<1>2. CASE Exists(id)
  <2> DEFINE rec == [stepRuns[id] EXCEPT !.failures = 0]
  <2>1. id \in Ids /\ stepRuns' = [stepRuns EXCEPT ![id] = rec]
    BY <1>1, <1>2, NullId DEF ReconcileReset, Exists
  <2>2. Face(rec) = Face(stepRuns[id])
    BY <1>1, <2>1 DEF StepRun, Face
  <2> HIDE DEF rec, id
  <2> QED BY <1>1, <2>1, <2>2
<1>3. CASE ~Exists(id)
  BY <1>3 DEF ReconcileReset
<1> QED BY <1>2, <1>3

\* Every step of a client keeps StepsInv.
LEMMA ClientKeepsSteps ==
  ASSUME TypeInv, StepsInv, NEW c \in Clients, ClientStep(c)
  PROVE  StepsInv'
<1>0. run \in Run /\ used \in [Faults -> Nat]
  BY DEF TypeInv, TypeOK
<1>1. CASE SignalRead(c) \/ CancelRead(c) \/ ReconcileRead(c)
  <2>1. /\ \E f \in Faults : Spend(f)
        /\ UNCHANGED <<run, stepRuns, pc, local, begun>>
    BY <1>1 DEF SignalRead, CancelRead, ReconcileRead, Faults
  <2>2. Undisturbed' => Undisturbed
    BY <1>0, <2>1, SpendDisturbs
  <2> QED BY <2>1, <2>2, QuietStep
<1>2. CASE SignalAppend(c) \/ CancelRelease(c)
  BY <1>2, QuietStep DEF SignalAppend, CancelRelease, Undisturbed
<1>3. CASE CancelSet(c) \/ ReconcileReopen(c) \/ ReconcileAbandon(c)
  <2>1. /\ UNCHANGED <<stepRuns, pc, local, begun, used>>
        /\ run' \in {run, Cancelled(run), Reopened(run)}
        /\ run.status = "ABSENT" => run' = run
    BY <1>3 DEF CancelSet, ReconcileReopen, ReconcileAbandon, Store
  <2>2. Position(run') = Position(run)
    BY <1>0, <2>1, Positions
  <2> QED BY <2>1, <2>2, QuietStep DEF Undisturbed
<1>4. CASE ReconcileReset(c)
  <2>1. UNCHANGED <<run, pc, local, begun, used>>
    BY <1>4 DEF ReconcileReset
  <2> QED BY <1>4, <2>1, ResetKeepsFaces, QuietStep DEF Undisturbed
<1> QED BY <1>1, <1>2, <1>3, <1>4 DEF ClientStep

\* StepsInv is inductive.
LEMMA StepsInvInductive == TypeInv /\ DriverInv /\ StepsInv /\ [Next]_vars => StepsInv'
<1> SUFFICES ASSUME TypeInv, DriverInv, StepsInv, [Next]_vars PROVE StepsInv'
  OBVIOUS
<1>0. /\ pc \in [Workers -> Labels] /\ local \in [Workers -> Local]
      /\ used \in [Faults -> Nat]
  BY DEF TypeInv, TypeOK
<1>1. ASSUME NEW w \in Workers, Tick(w) PROVE StepsInv'
  BY <1>1, TickKeepsSteps
<1>2. ASSUME NEW w \in Workers, ClaimDue(w) PROVE StepsInv'
  <2>1. /\ UNCHANGED <<run, stepRuns, begun, used>>
        /\ pc' = [pc EXCEPT ![w] = "read"] /\ local' = [local EXCEPT ![w] = NoLocal]
    BY <1>2 DEF ClaimDue, Goto
  <2> QED BY <1>0, <2>1, QuietStep DEF Undisturbed
<1>3. ASSUME NEW w \in Workers, StorageThrows(w) PROVE StepsInv'
  <2>1. /\ UNCHANGED <<run, stepRuns, begun>> /\ Spend("throw")
        /\ pc' = [pc EXCEPT ![w] = AfterThrow(pc[w])]
        /\ local' = IF pc[w] = "workerRelease" THEN [local EXCEPT ![w] = NoLocal] ELSE local
    BY <1>3 DEF StorageThrows, Goto
  <2>2. Undisturbed' => Undisturbed
    BY <1>0, <2>1, SpendDisturbs DEF Faults
  <2>3. \/ pc'[w] \in {"idle", "release", "workerRelease"}
        \/ pc[w] \in {"watermark", "persist"} /\ pc'[w] = "persistFailure" /\ local'[w] = local[w]
    BY <1>0, <2>1 DEF AfterThrow
  <2> QED BY <1>0, <2>1, <2>2, <2>3, QuietStep
<1>4. ASSUME NEW w \in Workers, PersistReplyLost(w) PROVE StepsInv'
  BY <1>4, ReplyLostKeepsSteps
<1>5. ASSUME NEW w \in Workers, Heartbeat(w) PROVE StepsInv'
  BY <1>5, QuietStep DEF Heartbeat, Undisturbed
<1>6. ASSUME NEW w \in Workers, Crash(w) PROVE StepsInv'
  <2>1. /\ UNCHANGED <<run, stepRuns, begun>> /\ Spend("crash")
        /\ pc' = [pc EXCEPT ![w] = "idle"] /\ local' = [local EXCEPT ![w] = NoLocal]
    BY <1>6 DEF Crash, Goto
  <2>2. Undisturbed' => Undisturbed
    BY <1>0, <2>1, SpendDisturbs DEF Faults
  <2> QED BY <1>0, <2>1, <2>2, QuietStep
<1>7. ASSUME NEW c \in Clients, ClientStep(c) PROVE StepsInv'
  BY <1>7, ClientKeepsSteps
<1>8. CASE LeaseExpires
  <2>1. UNCHANGED <<run, stepRuns, pc, local, begun>> /\ (used' = used \/ Spend("leaseLoss"))
    BY <1>8 DEF LeaseExpires
  <2>2. Undisturbed' => Undisturbed
    BY <1>0, <2>1, SpendDisturbs DEF Faults, Undisturbed
  <2> QED BY <2>1, <2>2, QuietStep
<1>9. CASE TimePasses
  <2>1. UNCHANGED <<pc, local, begun, used>>
    BY <1>9 DEF TimePasses
  <2> QED BY <1>9, <2>1, TimeKeepsFaces, QuietStep DEF Undisturbed
<1>10. CASE Prune
  <2>1. run'.status = "ABSENT"
    BY <1>10 DEF Prune, NoRun
  <2> QED BY <2>1 DEF StepsInv
<1>11. CASE UNCHANGED vars
  BY <1>11, QuietStep DEF vars, Undisturbed
<1> QED
  BY <1>1, <1>2, <1>3, <1>4, <1>5, <1>6, <1>7, <1>8, <1>9, <1>10, <1>11 DEF Next

\* StepsInv holds initially: nothing exists and no key was used.
LEMMA InitSteps == Init => StepsInv
<1> SUFFICES ASSUME Init PROVE StepsInv
  OBVIOUS
<1>1. /\ \A i \in Ids : stepRuns[i].status = "ABSENT"
      /\ run.context = {} /\ begun = {}
      /\ \A w \in Workers : ~InTick(w)
  BY DEF Init, NoStepRuns, NoStepRun, NoRun, InTick
<1>2. RowsOK(run, stepRuns, begun)
  BY <1>1 DEF RowsOK, There, Left
<1> QED BY <1>1, <1>2 DEF StepsInv

\* Every reachable state satisfies StepsInv.
LEMMA StepsInvHolds == Spec => []StepsInv
  BY InitSteps, StepsInvInductive, TypeInvHolds, DriverInvHolds, PTL DEF Spec

-----------------------------------------------------------------------------
(* What follows from it *)

\* The context of a run is the patches of its completed visits, each merged when
\* the run left the step: a crash, a lost reply, a storage error or a retry loses
\* none and invents none, as long as no live worker loses its lease.
THEOREM ContextCorrect == Spec => []ContextIsHistory
<1>1. StepsInv => ContextIsHistory
  BY DEF StepsInv, ContextIsHistory, RowsOK, KeyOf, Left
<1> QED BY <1>1, StepsInvHolds, PTL

\* Only one step of a worker calls a handler.
LEMMA OnlyStartHandlerStarts ==
  ASSUME TypeInv, Next, NEW w \in Workers, StartsHandler(w)
  PROVE  StartHandler(w)
<1>0. pc \in [Workers -> Labels] /\ pc[w] = "handler" /\ pc'[w] = "running"
  BY DEF TypeInv, TypeOK, StartsHandler
<1>1. ASSUME NEW v \in Workers, Tick(v) PROVE StartHandler(w)
  <2>1. v = w
    BY <1>0, <1>1, TickIsFramed DEF TickFrame
  <2> QED BY <1>0, <1>1, <2>1 DEF Tick, ReadRun, ListByRun, GetActive, Begin, ConsumeNext,
        NothingToConsume, SavePayload, ResumeRun, ParkAgain, LoopExit, RenewFails, AtLoopHead, Replay,
        Prepare, Point, HandlerReturns, Watermark, Persist, PersistConflict, PersistFailure,
        PersistFailureConflict, Complete, Advance, NoMatchingTransition, ParkRun, BackOff, Fail,
        TickRelease, WorkerRelease
<1>2. ASSUME NEW v \in Workers, ClaimDue(v) \/ StorageThrows(v) \/ PersistReplyLost(v) \/ Crash(v)
      PROVE  FALSE
  <2>1. pc' = [pc EXCEPT ![v] = pc'[v]] /\ (pc'[v] # "running" \/ pc[v] # "handler")
    BY <1>0, <1>2 DEF ClaimDue, StorageThrows, PersistReplyLost, Crash, Goto, AfterThrow
  <2> QED BY <1>0, <2>1
<1>3. ASSUME NEW v \in Workers, Heartbeat(v) PROVE FALSE
  BY <1>0, <1>3 DEF Heartbeat
<1>4. ASSUME NEW c \in Clients, ClientStep(c) PROVE FALSE
  BY <1>0, <1>4 DEF ClientStep, SignalRead, SignalAppend, CancelRead, CancelSet, CancelRelease,
       ReconcileRead, ReconcileReset, ReconcileReopen, ReconcileAbandon
<1>5. CASE LeaseExpires \/ TimePasses \/ Prune
  BY <1>0, <1>5 DEF LeaseExpires, TimePasses, Prune
<1> QED BY <1>1, <1>2, <1>3, <1>4, <1>5 DEF Next

\* What a worker has in hand when it calls a handler.
LEMMA AtHandlerStart ==
  ASSUME TypeInv, StepsInv, Undisturbed, NEW w \in Workers, StartHandler(w), StartsHandler(w)
  PROVE  /\ RowsOK(run, stepRuns, begun)
         /\ HandOK(local[w], pc[w], run, stepRuns)
         /\ pc[w] \in AttemptLabels /\ pc[w] = "handler"
<1>1. run.status # "ABSENT"
  BY DEF StartHandler, StartsHandler, Goto, TypeInv, TypeOK
<1> QED BY <1>1 DEF StepsInv, StartsHandler, InTick, AttemptLabels

\* Steps run strictly one after the other, whatever crashes in between: when a
\* handler starts, every other key ever used belongs to a completed visit whose
\* patch is in the context the handler reads.
THEOREM StepsRunOneAtATime == Spec => OneStepAtATime
<1>1. TypeInv /\ StepsInv /\ [Next]_vars =>
        [\A w \in Workers : StartsHandler(w) /\ Undisturbed =>
           \A key \in begun \ {KeyInHand(w)} : Done(key) /\ key \in local[w].run.context]_vars
  <2> SUFFICES ASSUME TypeInv, StepsInv, Next, NEW w \in Workers, StartsHandler(w), Undisturbed,
                      NEW key \in begun \ {KeyInHand(w)}
               PROVE  Done(key) /\ key \in local[w].run.context
    OBVIOUS
  <2>1. /\ RowsOK(run, stepRuns, begun)
        /\ HandOK(local[w], pc[w], run, stepRuns)
        /\ pc[w] \in AttemptLabels /\ pc[w] = "handler"
    BY OnlyStartHandlerStarts, AtHandlerStart
  <2>2. CurrentKey(run, stepRuns, KeyInHand(w))
    BY <2>1, HandKey
  <2>3. ~CurrentKey(run, stepRuns, key)
    <3>1. stepRuns \in [Ids -> StepRun]
      BY DEF TypeInv, TypeOK
    <3> QED BY <2>2, <3>1, NextIsOne DEF CurrentKey
  <2>4. PICK i \in Left(run, stepRuns) : KeyOf(stepRuns[i]) = key
    BY <2>1, <2>3 DEF RowsOK
  <2>5. Done(key) /\ key \in run.context
    BY <2>1, <2>4 DEF Left, Done, KeyOf, RowsOK
  <2>6. local[w].run.context = run.context
    BY <2>1 DEF HandOK, ListedLabels, HandLabels, Position
  <2> QED BY <2>5, <2>6
<1> QED BY <1>1, TypeInvHolds, StepsInvHolds, PTL DEF Spec, OneStepAtATime

\* The handler of a visit that has completed is never called again: recovery
\* replays its patch and its transition, not its side effects.
THEOREM CompletedVisitsAreNotReplayed == Spec => CompletedNotReplayed
<1>1. TypeInv /\ StepsInv /\ [Next]_vars =>
        [\A w \in Workers : StartsHandler(w) /\ Undisturbed => ~Done(KeyInHand(w))]_vars
  <2> SUFFICES ASSUME TypeInv, StepsInv, Next, NEW w \in Workers, StartsHandler(w), Undisturbed,
                      NEW i \in Ids, stepRuns[i].status = "COMPLETED",
                      KeyOf(stepRuns[i]) = KeyInHand(w)
               PROVE  FALSE
    BY DEF Done, KeyOf
  <2> DEFINE id == local[w].id
  <2>1. /\ RowsOK(run, stepRuns, begun)
        /\ HandOK(local[w], pc[w], run, stepRuns)
        /\ pc[w] \in AttemptLabels /\ pc[w] = "handler"
    BY OnlyStartHandlerStarts, AtHandlerStart
  <2>2. /\ id \in Ids /\ id = run.stepRunId
        /\ local[w].run.stepId = run.stepId
        /\ IF There(stepRuns, id) THEN local[w].visit = stepRuns[id].visit
           ELSE local[w].visit \in NextOf(stepRuns, run.stepId)
        /\ CurrentKey(run, stepRuns, KeyInHand(w))
    BY <2>1, HandKey
  <2>3. There(stepRuns, i)
    BY DEF There
  <2>4. CASE There(stepRuns, id)
    <3>1. KeyOf(stepRuns[id]) = KeyOf(stepRuns[i])
      BY <2>2, <2>4 DEF CurrentKey
    <3>2. i = id
      BY <2>1, <2>2, <2>3, <2>4, <3>1 DEF RowsOK
    <3>3. stepRuns[id].status # "COMPLETED"
      <4>1. local[w].history[id].status # "COMPLETED" /\ Face(local[w].history[id]) = Face(stepRuns[id])
        BY <2>1, <2>2 DEF HandOK, ListedLabels, HandLabels
      <4> QED BY <4>1 DEF Face
    <3> QED BY <3>2, <3>3
  <2>5. CASE ~There(stepRuns, id)
    <3>1. stepRuns[i].stepId = run.stepId /\ stepRuns[i].visit = local[w].visit
      BY <2>2 DEF KeyOf, KeyInHand
    <3>2. stepRuns \in [Ids -> StepRun]
      BY DEF TypeInv, TypeOK
    <3> QED BY <2>2, <2>3, <2>5, <3>1, <3>2, NextIsAbove
  <2> QED BY <2>4, <2>5
<1> QED BY <1>1, TypeInvHolds, StepsInvHolds, PTL DEF Spec, CompletedNotReplayed

=============================================================================
