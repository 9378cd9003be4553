-------------------------- MODULE EngineWaitProofs --------------------------
(***************************************************************************)
(* What becomes of waits and signals, proved for every definition, every   *)
(* handler behaviour, every number of workers and every fault budget: a    *)
(* signal reaches the wait it was meant for and no other, the handler that *)
(* is woken is told by what, and a run left WAITING really waits.          *)
(***************************************************************************)
EXTENDS EngineStepProofs

-----------------------------------------------------------------------------
(* The invariant.  Like StepsInv, it is stated with operators of the row r,  *)
(* the step runs recs, the signal queue sigs, the keys used so far and a     *)
(* worker's locals l at a label.                                             *)

\* Two copies of a step run agree on its wait; the clock may have moved between.
SameWait(rec, other) ==
  /\ rec.waitFor = other.waitFor
  /\ rec.waitSinceSeq = other.waitSinceSeq
  /\ rec.wakeAt = "none" <=> other.wakeAt = "none"

\* Every signal after the mark was sent when a handler had this key.
HeardSince(mark, key, sigs) ==
  \A seq \in DOMAIN sigs : seq > mark => key \in sigs[seq].begun

\* A step run, in the database or in a worker's copy: one that does not exist has
\* no wait, one that waits has a name, one that exists belongs to a handler that
\* was started, before any signal its wait has yet to see was sent.
RecordOK(rec, sigs, keys) ==
  /\ rec.status = "ABSENT" => rec.waitFor = None /\ rec.waitPayload = 0
  /\ rec.status = "WAITING" => rec.waitFor # None
  /\ rec.status # "ABSENT" => KeyOf(rec) \in keys
  /\ rec.waitFor # None => HeardSince(rec.waitSinceSeq, KeyOf(rec), sigs)

\* The signal was taken from the queue, and it was meant for this step run.
ServedBy(rec, seq, sigs) ==
  /\ seq \in DOMAIN sigs
  /\ sigs[seq].consumed
  /\ IF sigs[seq].stepId # None THEN sigs[seq].stepId = rec.stepId
     ELSE KeyOf(rec) \in sigs[seq].begun

\* The payload a step run keeps was meant for it and is kept by no other; the
\* row says WAITING only when its step run does, with or without a deadline.
WaitsOK(r, recs, sigs, keys) ==
  /\ \A i \in Ids : RecordOK(recs[i], sigs, keys)
  /\ \A i \in Ids : recs[i].waitPayload # 0 =>
       /\ ServedBy(recs[i], recs[i].waitPayload, sigs)
       /\ \A j \in Ids : recs[j].waitPayload = recs[i].waitPayload => j = i
  /\ r.status = "WAITING" =>
       /\ r.stepRunId \in Ids
       /\ recs[r.stepRunId].status = "WAITING"
       /\ recs[r.stepRunId].wakeAt = "none" <=> r.wakeAt = "none"

\* What an attempt is told is what the step run keeps; only the attempt a
\* deadline woke is told of no signal, whatever an earlier wait has left there.
ToldOf(resume, rec) ==
  /\ resume.waitFor = rec.waitFor
  /\ \/ resume.payload = rec.waitPayload
     \/ rec.status = "WAITING" /\ resume.wakeAt /\ resume.payload = 0

\* While a worker resolves a wait.
WaitLabels == {"consume", "savePayload", "resume", "park"}

\* While a handler runs, and until its outcome is recorded.
RanLabels == {"running", "watermark", "persist", "persistFailure"}

\* A worker's copies agree with the step runs on waits and payloads, except for
\* the one step run whose stored outcome it may not have heard of.
CopiesOK(l, label, recs, sigs, keys) ==
  label \in ListedLabels =>
    \A i \in Ids : /\ l.history[i].waitPayload = recs[i].waitPayload
                   /\ RecordOK(l.history[i], sigs, keys)
                   /\ SameWait(l.history[i], recs[i]) \/ (label = "persistFailure" /\ i = l.id)

\* The wait in hand is that of the step run the pointer names.
WaitInHand(l, label, recs) ==
  label \in WaitLabels =>
    /\ l.run.stepRunId \in Ids
    /\ l.wait.status = "WAITING"
    /\ Face(l.wait) = Face(recs[l.run.stepRunId])
    /\ SameWait(l.wait, recs[l.run.stepRunId])

\* The signal in hand was meant for that wait, and no step run keeps it yet.
SignalInHand(l, label, recs, sigs) ==
  label = "savePayload" =>
    /\ l.resume.payload # 0
    /\ l.resume.waitFor = l.wait.waitFor
    /\ ServedBy(recs[l.run.stepRunId], l.resume.payload, sigs)
    /\ \A i \in Ids : recs[i].waitPayload # l.resume.payload

\* What the next attempt will be told.
ResumeInHand(l, label, recs) ==
  /\ label \in {"read", "list", "active", "begin", "consume", "advance"} => l.resume = NoResume
  /\ label \in {"resume", "loop"} /\ l.resume # NoResume =>
       /\ l.run.stepRunId \in Ids
       /\ recs[l.run.stepRunId].status = "WAITING"
       /\ ToldOf(l.resume, recs[l.run.stepRunId])
  /\ label \in {"point", "handler"} /\ recs[l.id].waitFor # None => ToldOf(l.resume, recs[l.id])

\* The attempt in hand: its key is used, and when its handler asks to wait it
\* gives a name and its mark is behind no signal that came before the handler.
AttemptInHand(l, label, sigs, keys) ==
  /\ label \in RanLabels => <<l.run.stepId, l.visit>> \in keys
  /\ label \in {"watermark", "persist"} /\ l.result.status = "waiting" => l.result.name # None
  /\ label = "persist" /\ l.result.status = "waiting" =>
       HeardSince(l.mark, <<l.run.stepId, l.visit>>, sigs)
  /\ label = "parkRun" => l.history[l.id].status = "WAITING"

WaitOK(l, label, r, recs, sigs, keys) ==
  /\ CopiesOK(l, label, recs, sigs, keys)
  /\ WaitInHand(l, label, recs)
  /\ SignalInHand(l, label, recs, sigs)
  /\ ResumeInHand(l, label, recs)
  /\ AttemptInHand(l, label, sigs, keys)
  /\ label \in {"begin", "loop"} \cup HandLabels => r.status # "WAITING"

WaitInv ==
  Undisturbed /\ run.status # "ABSENT" =>
    /\ WaitsOK(run, stepRuns, signals, begun)
    /\ \A w \in Workers : InTick(w) => WaitOK(local[w], pc[w], run, stepRuns, signals, begun)

-----------------------------------------------------------------------------
(* Lemmas about values *)

\* The queue after a step: no signal is lost, readdressed or handed back, and a
\* new one knows the keys used before it was sent.
Grown(sigs, more, keys) ==
  /\ DOMAIN sigs \subseteq DOMAIN more
  /\ \A seq \in DOMAIN sigs :
       /\ more[seq].stepId = sigs[seq].stepId
       /\ more[seq].begun = sigs[seq].begun
       /\ sigs[seq].consumed => more[seq].consumed
  /\ \A seq \in DOMAIN more \ DOMAIN sigs : keys \subseteq more[seq].begun

\* Two tables of step runs agree on all that matters to waits.
SameWaits(recs, other) ==
  \A i \in Ids : /\ Face(other[i]) = Face(recs[i])
                 /\ SameWait(other[i], recs[i])
                 /\ other[i].waitPayload = recs[i].waitPayload

\* The row says WAITING only if it did before, with or without a deadline.
NoNewWait(r, row) ==
  row.status = "WAITING" =>
    r.status = "WAITING" /\ row.stepRunId = r.stepRunId /\ (row.wakeAt = "none" <=> r.wakeAt = "none")

\* A queue that does not change has grown by nothing.
LEMMA GrownSame == ASSUME NEW sigs, NEW keys PROVE Grown(sigs, sigs, keys)
  BY DEF Grown

\* New signals are sent after what has been heard so far.
LEMMA HeardGrown ==
  ASSUME NEW mark, NEW sigs, NEW keys, NEW key \in keys, HeardSince(mark, key, sigs),
         NEW more, Grown(sigs, more, keys)
  PROVE  HeardSince(mark, key, more)
  BY DEF HeardSince, Grown

\* So a correct step run stays one ...
LEMMA RecordGrown ==
  ASSUME NEW rec, NEW sigs, NEW keys, RecordOK(rec, sigs, keys),
         NEW more, Grown(sigs, more, keys), NEW uses, keys \subseteq uses
  PROVE  RecordOK(rec, more, uses)
  BY HeardGrown DEF RecordOK

\* ... and a step run that was served stays served.
LEMMA ServedGrown ==
  ASSUME NEW rec, NEW seq, NEW sigs, ServedBy(rec, seq, sigs),
         NEW keys, NEW more, Grown(sigs, more, keys)
  PROVE  ServedBy(rec, seq, more)
  BY DEF ServedBy, Grown

\* A copy that agrees on face and wait is as correct as the original.
LEMMA RecordLike ==
  ASSUME NEW rec, NEW other, NEW sigs, NEW keys, RecordOK(rec, sigs, keys),
         Face(other) = Face(rec), SameWait(other, rec),
         other.waitPayload = rec.waitPayload \/ rec.status # "ABSENT"
  PROVE  RecordOK(other, sigs, keys)
  BY DEF RecordOK, Face, KeyOf, SameWait

\* What a step writes besides waits disturbs neither the rows ...
LEMMA QuietWaits ==
  ASSUME NEW r, NEW recs, NEW sigs, NEW keys, WaitsOK(r, recs, sigs, keys),
         NEW row, NoNewWait(r, row), NEW other, SameWaits(recs, other),
         NEW more, Grown(sigs, more, keys), NEW uses, keys \subseteq uses
  PROVE  WaitsOK(row, other, more, uses)
<1>1. \A i \in Ids : /\ other[i].stepId = recs[i].stepId
                     /\ other[i].status = recs[i].status
                     /\ other[i].waitPayload = recs[i].waitPayload
                     /\ KeyOf(other[i]) = KeyOf(recs[i])
                     /\ other[i].wakeAt = "none" <=> recs[i].wakeAt = "none"
  BY DEF SameWaits, SameWait, Face, KeyOf
<1>2. ASSUME NEW i \in Ids PROVE RecordOK(other[i], more, uses)
  <2>1. RecordOK(other[i], sigs, keys)
    BY RecordLike DEF WaitsOK, SameWaits
  <2> QED BY <2>1, RecordGrown
<1>3. ASSUME NEW i \in Ids, other[i].waitPayload # 0
      PROVE  /\ ServedBy(other[i], other[i].waitPayload, more)
             /\ \A j \in Ids : other[j].waitPayload = other[i].waitPayload => j = i
  <2>1. /\ ServedBy(recs[i], recs[i].waitPayload, sigs)
        /\ \A j \in Ids : recs[j].waitPayload = recs[i].waitPayload => j = i
    BY <1>1, <1>3 DEF WaitsOK
  <2>2. ServedBy(recs[i], recs[i].waitPayload, more)
    BY <2>1, ServedGrown
  <2> QED BY <1>1, <2>1, <2>2 DEF ServedBy
<1>4. row.status = "WAITING" =>
        /\ row.stepRunId \in Ids
        /\ other[row.stepRunId].status = "WAITING"
        /\ other[row.stepRunId].wakeAt = "none" <=> row.wakeAt = "none"
  BY <1>1 DEF WaitsOK, NoNewWait
<1> QED BY <1>2, <1>3, <1>4 DEF WaitsOK

\* ... nor what a worker has in hand.
LEMMA QuietWaitHand ==
  ASSUME NEW l, NEW label, NEW r, NEW recs, NEW sigs, NEW keys, WaitOK(l, label, r, recs, sigs, keys),
         label \in HandLabels => l.id \in Ids,
         NEW row, NoNewWait(r, row), NEW other, SameWaits(recs, other),
         NEW more, Grown(sigs, more, keys), NEW uses, keys \subseteq uses
  PROVE  WaitOK(l, label, row, other, more, uses)
<1> DEFINE id == l.run.stepRunId
<1>1. CopiesOK(l, label, other, more, uses)
  <2> SUFFICES ASSUME label \in ListedLabels, NEW i \in Ids
               PROVE  /\ l.history[i].waitPayload = other[i].waitPayload
                      /\ RecordOK(l.history[i], more, uses)
                      /\ SameWait(l.history[i], other[i]) \/ (label = "persistFailure" /\ i = l.id)
    BY DEF CopiesOK
  <2>1. /\ l.history[i].waitPayload = recs[i].waitPayload
        /\ RecordOK(l.history[i], sigs, keys)
        /\ SameWait(l.history[i], recs[i]) \/ (label = "persistFailure" /\ i = l.id)
    BY DEF WaitOK, CopiesOK
  <2>2. RecordOK(l.history[i], more, uses)
    BY <2>1, RecordGrown
  <2>3. SameWait(l.history[i], recs[i]) => SameWait(l.history[i], other[i])
    BY DEF SameWaits, SameWait
  <2> QED BY <2>1, <2>2, <2>3 DEF SameWaits
<1>2. WaitInHand(l, label, other)
  BY DEF WaitOK, WaitInHand, SameWaits, SameWait
<1>3. SignalInHand(l, label, other, more)
  <2> SUFFICES ASSUME label = "savePayload" PROVE SignalInHand(l, label, other, more)
    BY DEF SignalInHand
  <2>1. id \in Ids /\ ServedBy(recs[id], l.resume.payload, sigs)
    BY DEF WaitOK, SignalInHand, WaitInHand, WaitLabels
  <2>2. ServedBy(recs[id], l.resume.payload, more)
    BY <2>1, ServedGrown
  <2>3. ServedBy(other[id], l.resume.payload, more)
    BY <2>1, <2>2 DEF ServedBy, SameWaits, Face, KeyOf
  <2> QED BY <2>3 DEF WaitOK, SignalInHand, SameWaits
<1>4. ResumeInHand(l, label, other)
  <2>1. \A i \in Ids : ToldOf(l.resume, recs[i]) => ToldOf(l.resume, other[i])
    BY DEF ToldOf, SameWaits, SameWait, Face
  <2>2. label \in {"point", "handler"} => l.id \in Ids
    BY DEF HandLabels
  <2> QED BY <2>1, <2>2 DEF WaitOK, ResumeInHand, SameWaits, SameWait, Face
<1>5. AttemptInHand(l, label, more, uses)
  <2>1. label = "persist" /\ l.result.status = "waiting" =>
          HeardSince(l.mark, <<l.run.stepId, l.visit>>, more)
    BY HeardGrown DEF WaitOK, AttemptInHand, RanLabels
  <2> QED BY <2>1 DEF WaitOK, AttemptInHand
<1> QED BY <1>1, <1>2, <1>3, <1>4, <1>5 DEF WaitOK, NoNewWait

\* A worker that neither reads nor writes the run has nothing to know of waits.
LEMMA WaitFree ==
  ASSUME NEW l, NEW label \in {"idle", "release", "workerRelease"}, NEW r, NEW recs, NEW sigs, NEW keys
  PROVE  WaitOK(l, label, r, recs, sigs, keys)
  BY DEF WaitOK, CopiesOK, WaitInHand, SignalInHand, ResumeInHand, AttemptInHand, ListedLabels,
         HandLabels, WaitLabels, RanLabels

-----------------------------------------------------------------------------
(* What the actions do to waits *)

\* Of all patches only parking says WAITING.
LEMMA Wakings ==
  ASSUME NEW r \in Run
  PROVE  /\ Started(r).status # "WAITING" /\ Resumed(r).status # "WAITING"
         /\ Cancelled(r).status # "WAITING" /\ Reopened(r).status # "WAITING"
         /\ \A id : Pointed(r, id).status # "WAITING"
         /\ \A context, s : Moved(r, context, s).status # "WAITING"
         /\ \A context : Finished(r, context).status # "WAITING"
         /\ \A s : BackingOff(r, s).status # "WAITING" /\ Failed(r, s).status # "WAITING"
         /\ \A s, t : /\ Parked(r, s, t).status = "WAITING" /\ Parked(r, s, t).wakeAt = t
                      /\ Parked(r, s, t).stepRunId = r.stepRunId
  BY DEF Run, Started, Resumed, Cancelled, Reopened, Pointed, Moved, Finished, BackingOff, Failed, Parked

\* A table agrees with itself.
LEMMA SameWaitsSame == ASSUME NEW recs PROVE SameWaits(recs, recs)
  BY DEF SameWaits, SameWait

\* The rows stay in order when a step writes none of what matters to waits, or
\* wakes the run.
LEMMA RowsAsleep ==
  ASSUME WaitsOK(run, stepRuns, signals, begun), UNCHANGED <<stepRuns, signals>>,
         begun \subseteq begun', NoNewWait(run, run')
  PROVE  WaitsOK(run', stepRuns', signals', begun')
  BY QuietWaits, GrownSame, SameWaitsSame

\* A step that ends the tick without parking the run.
LEMMA TickEndsAwake ==
  ASSUME NEW w \in Workers, WaitsOK(run, stepRuns, signals, begun),
         UNCHANGED <<stepRuns, signals, begun>>, NoNewWait(run, run'),
         pc'[w] \in {"release", "workerRelease"}
  PROVE  /\ WaitsOK(run', stepRuns', signals', begun')
         /\ WaitOK(local'[w], pc'[w], run', stepRuns', signals', begun')
  BY RowsAsleep, WaitFree

\* A step that ends the tick by parking the run on its waiting step run.
LEMMA TickParks ==
  ASSUME NEW w \in Workers, WaitsOK(run, stepRuns, signals, begun), run \in Run,
         UNCHANGED <<stepRuns, signals, begun>>, pc'[w] = "release",
         NEW s, NEW t, run' = Parked(run, s, t),
         run.stepRunId \in Ids, stepRuns[run.stepRunId].status = "WAITING",
         stepRuns[run.stepRunId].wakeAt = "none" <=> t = "none"
  PROVE  /\ WaitsOK(run', stepRuns', signals', begun')
         /\ WaitOK(local'[w], pc'[w], run', stepRuns', signals', begun')
<1>1. run'.status = "WAITING" /\ run'.wakeAt = t /\ run'.stepRunId = run.stepRunId
  BY Wakings
<1> QED BY <1>1, WaitFree DEF WaitsOK

\* The table after an attempt was recorded: the step run in hand keeps its
\* payload and has the wait that was recorded.
LEMMA WaitRecorder ==
  ASSUME TypeInv, NEW w \in Workers, pc[w] \in {"persist", "persistFailure"},
         RowsOK(run, stepRuns, begun), HandOK(local[w], pc[w], run, stepRuns),
         WaitsOK(run, stepRuns, signals, begun),
         WaitOK(local[w], pc[w], run, stepRuns, signals, begun),
         NEW rec \in StepRun, rec.stepId = local[w].run.stepId, rec.visit = local[w].visit,
         rec.status # "ABSENT", Storable(w, rec), stepRuns' = StepRunsAfter(w, rec),
         rec.waitPayload = Existing(w).waitPayload, RecordOK(rec, signals, begun)
  PROVE  /\ \A i \in Ids : i # local[w].id => stepRuns'[i] = stepRuns[i]
         /\ SameWait(stepRuns'[local[w].id], rec)
         /\ stepRuns'[local[w].id].waitPayload = rec.waitPayload
         /\ WaitsOK(run, stepRuns', signals, begun)
<1> DEFINE id == local[w].id
<1>1. id \in Ids /\ stepRuns \in [Ids -> StepRun]
  BY HandKey DEF AttemptLabels, TypeInv, TypeOK
<1>2. /\ \A i \in Ids : i # id => stepRuns'[i] = stepRuns[i]
      /\ Face(stepRuns'[id]) = Face(rec)
  BY Recorder
<1>3. rec.waitPayload = stepRuns[id].waitPayload
  BY <1>1 DEF Existing, WaitOK, CopiesOK, ListedLabels, HandLabels
<1>4. SameWait(stepRuns'[id], rec) /\ stepRuns'[id].waitPayload = rec.waitPayload
  <2>1. CASE Existing(w).status = "ABSENT"
    BY <1>1, <2>1 DEF StepRunsAfter, SameWait
  <2>2. CASE Existing(w).status # "ABSENT"
    <3> DEFINE kept == [rec EXCEPT !.waitPayload = stepRuns[id].waitPayload]
    <3>1. Exists(id)
      <4>1. Face(Existing(w)) = Face(stepRuns[id]) \/ There(stepRuns, id)
        BY <1>1 DEF HandOK, ListedLabels, HandLabels, Existing
      <4> QED BY <1>1, <2>2, <4>1, NullId DEF Face, There, Exists
    <3>2. stepRuns' = [stepRuns EXCEPT ![id] = kept]
      BY <2>2, <3>1 DEF StepRunsAfter
    <3>3. SameWait(kept, rec) /\ kept.waitPayload = rec.waitPayload
      BY <1>3 DEF StepRun, SameWait
    <3> HIDE DEF kept
    <3> QED BY <1>1, <3>2, <3>3
  <2> QED BY <2>1, <2>2
<1>5. \A i \in Ids : stepRuns'[i].waitPayload = stepRuns[i].waitPayload
  BY <1>2, <1>3, <1>4
<1>6. \A i \in Ids : RecordOK(stepRuns'[i], signals, begun)
  <2>1. RecordOK(stepRuns'[id], signals, begun)
    BY <1>2, <1>4, RecordLike
  <2> QED BY <1>2, <2>1 DEF WaitsOK
<1>7. ASSUME NEW i \in Ids, stepRuns'[i].waitPayload # 0
      PROVE  /\ ServedBy(stepRuns'[i], stepRuns'[i].waitPayload, signals)
             /\ \A j \in Ids : stepRuns'[j].waitPayload = stepRuns'[i].waitPayload => j = i
  <2>1. /\ ServedBy(stepRuns[i], stepRuns[i].waitPayload, signals)
        /\ \A j \in Ids : stepRuns[j].waitPayload = stepRuns[i].waitPayload => j = i
    BY <1>5, <1>7 DEF WaitsOK
  <2>2. stepRuns'[i].stepId = stepRuns[i].stepId /\ KeyOf(stepRuns'[i]) = KeyOf(stepRuns[i])
    <3>1. CASE i # id
      BY <1>2, <3>1
    <3>2. CASE i = id
      <4>1. There(stepRuns, id)
        BY <1>1, <1>5, <1>7, <3>2 DEF WaitsOK, RecordOK, There
      <4>2. stepRuns[id].stepId = rec.stepId /\ stepRuns[id].visit = rec.visit
        BY <4>1, HandKey DEF AttemptLabels, RowsOK
      <4> QED BY <1>2, <3>2, <4>2 DEF Face, KeyOf
    <3> QED BY <3>1, <3>2
  <2> QED BY <1>5, <2>1, <2>2 DEF ServedBy
<1>8. run.status # "WAITING"
  BY DEF WaitOK, HandLabels
<1> QED BY <1>2, <1>4, <1>6, <1>7, <1>8 DEF WaitsOK

\* Recording an attempt, of either kind, keeps rows and worker in order.
LEMMA RecordAttemptKeepsWaits ==
  ASSUME TypeInv, NEW w \in Workers, pc[w] \in {"persist", "persistFailure"},
         RowsOK(run, stepRuns, begun), HandOK(local[w], pc[w], run, stepRuns),
         WaitsOK(run, stepRuns, signals, begun),
         WaitOK(local[w], pc[w], run, stepRuns, signals, begun),
         NEW rec \in StepRun, rec.stepId = local[w].run.stepId, rec.visit = local[w].visit,
         rec.status # "ABSENT", RecordAttempt(w, rec),
         rec.waitPayload = Existing(w).waitPayload, RecordOK(rec, signals, begun)
  PROVE  /\ WaitsOK(run', stepRuns', signals', begun')
         /\ WaitOK(local'[w], pc'[w], run', stepRuns', signals', begun')
<1> DEFINE id == local[w].id
           history == [local[w].history EXCEPT ![id] = rec]
<1>0. /\ local \in [Workers -> Local] /\ pc \in [Workers -> Labels]
      /\ local[w] \in Local /\ local[w].history \in [Ids -> StepRun] /\ id \in Ids
  BY LocalFields DEF TypeInv, TypeOK, LocalOK, HandLabels
<1>1. UNCHANGED <<run, signals, begun>> /\ Storable(w, rec) /\ stepRuns' = StepRunsAfter(w, rec)
  BY DEF RecordAttempt
<1>2. /\ \A i \in Ids : i # id => stepRuns'[i] = stepRuns[i]
      /\ SameWait(stepRuns'[id], rec)
      /\ stepRuns'[id].waitPayload = rec.waitPayload
      /\ WaitsOK(run, stepRuns', signals, begun)
  BY <1>1, WaitRecorder
<1>3. /\ local'[w] = [local[w] EXCEPT !.history = history, !.steps = @ + 1,
                        !.result = NoResult, !.mark = 0, !.resume = NoResume]
      /\ pc'[w] = After(w, rec)
  BY <1>0 DEF RecordAttempt, Goto
<1>4. history[id] = rec /\ \A i \in Ids : i # id => history[i] = local[w].history[i]
  BY <1>0
<1> HIDE DEF history
<1>5. local'[w].id = id /\ local'[w].history = history /\ local'[w].resume = NoResume
  BY <1>0, <1>3 DEF Local
<1>6. pc'[w] \in {"advance", "parkRun", "fail", "retry"} /\ (pc'[w] = "parkRun" => rec.status = "WAITING")
  BY <1>3 DEF After
<1>7. ASSUME NEW i \in Ids
      PROVE  /\ history[i].waitPayload = stepRuns'[i].waitPayload
             /\ RecordOK(history[i], signals, begun)
             /\ SameWait(history[i], stepRuns'[i])
  <2>1. CASE i = id
    BY <1>2, <1>4, <2>1 DEF SameWait
  <2>2. CASE i # id
    BY <1>2, <1>4, <2>2 DEF WaitOK, CopiesOK, ListedLabels, HandLabels
  <2> QED BY <2>1, <2>2
<1>8. run.status # "WAITING"
  BY DEF WaitOK, HandLabels
<1>9. WaitOK(local'[w], pc'[w], run, stepRuns', signals, begun)
  BY <1>4, <1>5, <1>6, <1>7, <1>8 DEF WaitOK, CopiesOK, WaitInHand, SignalInHand, ResumeInHand,
     AttemptInHand, ListedLabels, HandLabels, WaitLabels, RanLabels
<1> QED BY <1>1, <1>2, <1>9

\* The records an attempt may end with are correct step runs: a wait is marked
\* with what was heard, and an attempt that does not wait keeps the old one.
LEMMA OutcomeWaits ==
  ASSUME TypeInv, NEW w \in Workers, pc[w] \in {"persist", "persistFailure"},
         HandOK(local[w], pc[w], run, stepRuns),
         WaitOK(local[w], pc[w], run, stepRuns, signals, begun)
  PROVE  /\ Outcome(w).waitPayload = Existing(w).waitPayload
         /\ pc[w] = "persist" => RecordOK(Outcome(w), signals, begun)
         /\ FailureOutcome(w).waitPayload = Existing(w).waitPayload
         /\ RecordOK(FailureOutcome(w), signals, begun)
<1> DEFINE old == Existing(w)
           result == local[w].result
           key == <<local[w].run.stepId, local[w].visit>>
<1>0. /\ local[w].id \in Ids /\ old \in StepRun
      /\ RecordOK(old, signals, begun)
      /\ key \in begun
      /\ old.status # "ABSENT" => KeyOf(old) = key
  <2>1. local[w].id \in Ids /\ old = local[w].history[local[w].id]
    BY HandKey DEF TypeInv, LocalOK, HandLabels, Existing
  <2>2. old \in StepRun
    BY <2>1, InHand DEF TypeInv, HandLabels
  <2>3. RecordOK(old, signals, begun) /\ key \in begun
    BY <2>1 DEF WaitOK, CopiesOK, AttemptInHand, ListedLabels, HandLabels, RanLabels
  <2>4. old.status # "ABSENT" => KeyOf(old) = key
    BY <2>1 DEF HandOK, AttemptLabels, There
  <2> QED BY <2>1, <2>2, <2>3, <2>4
<1>1. old.waitFor # None => HeardSince(old.waitSinceSeq, key, signals)
  BY <1>0 DEF RecordOK
<1>2. pc[w] = "persist" => RecordOK(Outcome(w), signals, begun)
  <2> DEFINE rec == Outcome(w)
  <2> SUFFICES ASSUME pc[w] = "persist" PROVE RecordOK(rec, signals, begun)
    OBVIOUS
  <2>1. /\ KeyOf(rec) = key
        /\ rec.status = StatusOf(result)
        /\ rec.waitFor = IF result.status = "waiting" THEN result.name ELSE old.waitFor
        /\ rec.waitSinceSeq = IF result.status = "waiting" THEN local[w].mark ELSE old.waitSinceSeq
    BY DEF Outcome, KeyOf
  <2>2. rec.status # "ABSENT" /\ (rec.status = "WAITING" => result.status = "waiting")
    BY <2>1 DEF StatusOf
  <2>3. result.status = "waiting" => result.name # None /\ HeardSince(local[w].mark, key, signals)
    BY DEF WaitOK, AttemptInHand
  <2> HIDE DEF rec
  <2>4. CASE result.status = "waiting"
    <3>1. rec.waitFor # None /\ HeardSince(rec.waitSinceSeq, KeyOf(rec), signals)
      BY <2>1, <2>3, <2>4
    <3> QED BY <1>0, <2>1, <2>2, <3>1 DEF RecordOK
  <2>5. CASE result.status # "waiting"
    <3>1. /\ rec.waitFor = old.waitFor /\ rec.waitSinceSeq = old.waitSinceSeq
          /\ rec.status # "WAITING"
      BY <2>1, <2>2, <2>5
    <3>2. rec.waitFor # None => HeardSince(rec.waitSinceSeq, KeyOf(rec), signals)
      BY <1>1, <2>1, <3>1
    <3> QED BY <1>0, <2>1, <2>2, <3>1, <3>2 DEF RecordOK
  <2> QED BY <2>4, <2>5
<1>3. /\ FailureOutcome(w).waitPayload = old.waitPayload
      /\ FailureOutcome(w).waitFor = old.waitFor /\ FailureOutcome(w).waitSinceSeq = old.waitSinceSeq
      /\ FailureOutcome(w).status = "FAILED" /\ KeyOf(FailureOutcome(w)) = key
  BY <1>0 DEF FailureOutcome, StepRun, KeyOf
<1>4. RecordOK(FailureOutcome(w), signals, begun)
  BY <1>0, <1>1, <1>3 DEF RecordOK
<1> QED BY <1>2, <1>3, <1>4 DEF Outcome

-----------------------------------------------------------------------------
(* Every step of a tick *)

\* Whatever a worker inside a tick does next, it keeps the waits in order and
\* what it has in hand true.
LEMMA TickKeepsWaitHand ==
  ASSUME TypeInv, NEW w \in Workers, Tick(w), run.status # "ABSENT",
         RowsOK(run, stepRuns, begun), HandOK(local[w], pc[w], run, stepRuns),
         WaitsOK(run, stepRuns, signals, begun),
         WaitOK(local[w], pc[w], run, stepRuns, signals, begun)
  PROVE  /\ WaitsOK(run', stepRuns', signals', begun')
         /\ WaitOK(local'[w], pc'[w], run', stepRuns', signals', begun')
<1> DEFINE l == local[w]
<1>0. /\ run \in Run /\ stepRuns \in [Ids -> StepRun]
      /\ pc \in [Workers -> Labels]
      /\ local \in [Workers -> Local]
      /\ l \in Local
      /\ LocalOK(l, pc[w])
  BY DEF TypeInv, TypeOK
<1>a. WaitsOK(run, stepRuns, signals, begun)
  OBVIOUS
<1>b. /\ CopiesOK(l, pc[w], stepRuns, signals, begun)
      /\ WaitInHand(l, pc[w], stepRuns)
      /\ SignalInHand(l, pc[w], stepRuns, signals)
      /\ ResumeInHand(l, pc[w], stepRuns)
      /\ AttemptInHand(l, pc[w], signals, begun)
      /\ pc[w] \in {"begin", "loop"} \cup HandLabels => run.status # "WAITING"
  BY DEF WaitOK
<1> USE DEF HandLabels, ListedLabels, AttemptLabels, WaitLabels, RanLabels
<1>1. CASE ReadRun(w)
  <2>1. UNCHANGED <<run, stepRuns, signals, begun>>
    BY <1>1 DEF ReadRun
  <2>2. CASE pc'[w] = "workerRelease"
    BY <2>1, <2>2, TickEndsAwake DEF NoNewWait
  <2>3. CASE pc'[w] # "workerRelease"
    <3>1. pc[w] = "read" /\ pc'[w] = "list" /\ local'[w] = [l EXCEPT !.run = run]
      BY <1>0, <1>1, <2>3 DEF ReadRun, Goto
    <3>2. local'[w].resume = NoResume
      BY <1>0, <1>b, <3>1 DEF Local, ResumeInHand
    <3> QED BY <2>1, <3>1, <3>2 DEF WaitOK, CopiesOK, WaitInHand, SignalInHand, ResumeInHand, AttemptInHand
  <2> QED BY <2>2, <2>3
<1>2. CASE ListByRun(w)
  <2>1. UNCHANGED <<run, stepRuns, signals, begun>>
    BY <1>2 DEF ListByRun
  <2>2. pc[w] = "list" /\ pc'[w] = "active" /\ local'[w] = [l EXCEPT !.history = stepRuns]
    BY <1>0, <1>2 DEF ListByRun, Goto
  <2>3. local'[w].history = stepRuns /\ local'[w].resume = NoResume
    BY <1>0, <1>b, <2>2 DEF Local, ResumeInHand
  <2>4. CopiesOK(local'[w], pc'[w], stepRuns, signals, begun)
    BY <2>3 DEF CopiesOK, WaitsOK, SameWait
  <2> QED BY <2>1, <2>2, <2>3, <2>4 DEF WaitOK, WaitInHand, SignalInHand, ResumeInHand, AttemptInHand
<1>3. CASE GetActive(w)
  <2> DEFINE wait == ActiveStepRun(l.run)
  <2>1. UNCHANGED <<run, stepRuns, signals, begun>>
    BY <1>3 DEF GetActive
  <2>2. /\ pc[w] = "active"
        /\ pc'[w] = IF wait.status = "WAITING" /\ wait.waitFor # None THEN "consume"
                    ELSE IF l.run.status = "CREATED" THEN "begin" ELSE "loop"
        /\ local'[w] = [l EXCEPT !.wait = wait]
    BY <1>0, <1>3 DEF GetActive, Goto
  <2>3. wait.status = "WAITING" => l.run.stepRunId \in Ids /\ wait = stepRuns[l.run.stepRunId]
    BY <1>0, LocalFields, NullId DEF ActiveStepRun, NoStepRun
  <2>4. run.status = "WAITING" => wait.status = "WAITING" /\ wait.waitFor # None
    <3>1. l.run.stepRunId = run.stepRunId
      BY <2>2 DEF HandOK, Position
    <3>2. ASSUME run.status = "WAITING"
          PROVE  /\ run.stepRunId \in Ids /\ stepRuns[run.stepRunId].status = "WAITING"
                 /\ stepRuns[run.stepRunId].waitFor # None
      BY <1>a, <3>2 DEF WaitsOK, RecordOK
    <3> QED BY <3>1, <3>2, NullId DEF ActiveStepRun
  <2> HIDE DEF wait
  <2>5. /\ local'[w].run = l.run /\ local'[w].history = l.history
        /\ local'[w].wait = wait /\ local'[w].id = l.id /\ local'[w].resume = NoResume
    BY <1>0, <1>b, <2>2 DEF Local, ResumeInHand
  <2>6. CopiesOK(local'[w], pc'[w], stepRuns, signals, begun)
    BY <1>b, <2>2, <2>5 DEF CopiesOK
  <2>7. WaitInHand(local'[w], pc'[w], stepRuns)
    BY <2>2, <2>3, <2>5 DEF WaitInHand, SameWait
  <2> QED BY <2>1, <2>2, <2>4, <2>5, <2>6, <2>7 DEF WaitOK, SignalInHand, ResumeInHand, AttemptInHand
<1>4. CASE Begin(w)
  <2>1. UNCHANGED <<stepRuns, signals, begun>> /\ run' = Started(run)
    BY <1>4 DEF Begin, Store
  <2>2. pc[w] = "begin" /\ pc'[w] = "loop" /\ local'[w] = [l EXCEPT !.run = Started(l.run)]
    BY <1>0, <1>4 DEF Begin, Goto
  <2>3. local'[w].history = l.history /\ local'[w].resume = NoResume
    BY <1>0, <1>b, <2>2 DEF Local, ResumeInHand
  <2>4. run'.status # "WAITING"
    BY <1>0, <2>1, Wakings
  <2>5. WaitsOK(run', stepRuns', signals', begun')
    BY <2>1, <2>4, RowsAsleep DEF NoNewWait
  <2>6. CopiesOK(local'[w], pc'[w], stepRuns, signals, begun)
    BY <1>b, <2>2, <2>3 DEF CopiesOK
  <2> QED BY <2>1, <2>2, <2>3, <2>4, <2>5, <2>6 DEF WaitOK, WaitInHand, SignalInHand, ResumeInHand, AttemptInHand
<1>5. CASE ConsumeNext(w)
  <2> DEFINE id == l.run.stepRunId
  <2>0. signals \in Seq(Signal)
    BY DEF TypeInv, TypeOK
  <2>1. PICK i \in Oldest(EligibleFor(l.wait)) :
          /\ signals' = [signals EXCEPT ![i].consumed = TRUE]
          /\ local' = [local EXCEPT ![w].resume =
                         [waitFor |-> l.wait.waitFor, wakeAt |-> FALSE, payload |-> i]]
    BY <1>5 DEF ConsumeNext
  <2>2. /\ pc[w] = "consume" /\ pc'[w] = "savePayload" /\ UNCHANGED <<run, stepRuns, begun>>
        /\ local'[w] = [l EXCEPT !.resume = [waitFor |-> l.wait.waitFor, wakeAt |-> FALSE, payload |-> i]]
    BY <1>0, <1>5, <2>1 DEF ConsumeNext, Goto
  <2>3. /\ local'[w].run = l.run /\ local'[w].history = l.history /\ local'[w].wait = l.wait
        /\ local'[w].id = l.id
        /\ local'[w].resume.payload = i /\ local'[w].resume.waitFor = l.wait.waitFor
    BY <1>0, <2>2 DEF Local
  <2>4. /\ i \in DOMAIN signals /\ i # 0 /\ ~signals[i].consumed
        /\ IsSignalEligible(signals[i], i, l.wait, None)
    BY <2>0, <2>1 DEF Oldest, EligibleFor
  <2>5. /\ DOMAIN signals' = DOMAIN signals /\ signals'[i].consumed
        /\ \A seq \in DOMAIN signals : signals'[seq].begun = signals[seq].begun
                                       /\ signals'[seq].stepId = signals[seq].stepId
                                       /\ (signals[seq].consumed => signals'[seq].consumed)
    <3> DEFINE signal == [signals[i] EXCEPT !.consumed = TRUE]
    <3>1. signals' = [signals EXCEPT ![i] = signal]
      BY <2>1
    <3>2. signal.consumed /\ signal.begun = signals[i].begun /\ signal.stepId = signals[i].stepId
      BY <2>0, <2>4 DEF Signal
    <3>3. signals = [seq \in 1..Len(signals) |-> signals[seq]] /\ DOMAIN signals = 1..Len(signals)
      BY <2>0
    <3> HIDE DEF signal
    <3> QED BY <2>4, <3>1, <3>2, <3>3
  <2>6. Grown(signals, signals', begun)
    BY <2>5 DEF Grown
  <2>7. WaitsOK(run', stepRuns', signals', begun')
    BY <2>2, <2>6, QuietWaits, SameWaitsSame DEF NoNewWait
  <2>8. CopiesOK(local'[w], pc'[w], stepRuns, signals', begun)
    BY <1>b, <2>2, <2>3, <2>6, RecordGrown DEF CopiesOK
  <2>9. /\ id \in Ids /\ l.wait.status = "WAITING"
        /\ Face(l.wait) = Face(stepRuns[id]) /\ SameWait(l.wait, stepRuns[id])
    BY <1>b, <2>2 DEF WaitInHand
  <2>10. ServedBy(stepRuns[id], i, signals')
    <3>1. /\ stepRuns[id].stepId = l.wait.stepId /\ stepRuns[id].status = "WAITING"
          /\ stepRuns[id].waitSinceSeq = l.wait.waitSinceSeq
      BY <2>9 DEF Face, SameWait
    <3>2. signals[i].stepId = None => KeyOf(stepRuns[id]) \in signals[i].begun
      <4>1. stepRuns[id].waitFor # None /\ RecordOK(stepRuns[id], signals, begun)
        BY <1>a, <2>9, <3>1 DEF WaitsOK, RecordOK
      <4> QED BY <2>4, <3>1, <4>1 DEF RecordOK, HeardSince, IsSignalEligible
    <3>3. signals[i].stepId # None => signals[i].stepId = stepRuns[id].stepId
      BY <2>4, <3>1 DEF IsSignalEligible
    <3> QED BY <2>4, <2>5, <3>2, <3>3 DEF ServedBy
  <2>11. \A j \in Ids : stepRuns[j].waitPayload # i
    BY <1>a, <2>4 DEF WaitsOK, ServedBy
  <2>12. SignalInHand(local'[w], pc'[w], stepRuns, signals')
    BY <2>3, <2>4, <2>10, <2>11 DEF SignalInHand
  <2>13. WaitInHand(local'[w], pc'[w], stepRuns)
    BY <2>3, <2>9 DEF WaitInHand
  <2> QED BY <2>2, <2>3, <2>7, <2>8, <2>12, <2>13 DEF WaitOK, ResumeInHand, AttemptInHand
<1>6. CASE NothingToConsume(w)
  <2> DEFINE id == l.run.stepRunId
             woken == [waitFor |-> l.wait.waitFor, wakeAt |-> TRUE, payload |-> 0]
  <2>1. pc[w] = "consume" /\ UNCHANGED <<run, stepRuns, signals, begun>>
    BY <1>6 DEF NothingToConsume
  <2>2. /\ id \in Ids /\ l.wait.status = "WAITING"
        /\ Face(l.wait) = Face(stepRuns[id]) /\ SameWait(l.wait, stepRuns[id])
    BY <1>b, <2>1 DEF WaitInHand
  <2>3. CASE l.wait.wakeAt = "due"
    <3>1. pc'[w] = "resume" /\ local'[w] = [l EXCEPT !.resume = woken]
      BY <1>0, <1>6, <2>3 DEF NothingToConsume, Goto
    <3>2. /\ local'[w].run = l.run /\ local'[w].history = l.history /\ local'[w].wait = l.wait
          /\ local'[w].id = l.id /\ local'[w].resume = woken
      BY <1>0, <3>1 DEF Local
    <3>3. CopiesOK(local'[w], pc'[w], stepRuns, signals, begun)
      BY <1>b, <2>1, <3>1, <3>2 DEF CopiesOK
    <3>4. ToldOf(woken, stepRuns[id]) /\ stepRuns[id].status = "WAITING"
      BY <2>2 DEF ToldOf, SameWait, Face
    <3> QED BY <2>1, <2>2, <3>1, <3>2, <3>3, <3>4 DEF WaitOK, WaitInHand, SignalInHand, ResumeInHand, AttemptInHand
  <2>4. CASE l.wait.wakeAt # "due" /\ l.run.status = "WAITING"
    <3>1. pc'[w] = "release"
      BY <1>0, <1>6, <2>4 DEF NothingToConsume, Goto
    <3> QED BY <2>1, <3>1, TickEndsAwake DEF NoNewWait
  <2>5. CASE l.wait.wakeAt # "due" /\ l.run.status # "WAITING"
    <3>1. pc'[w] = "park" /\ local' = local
      BY <1>0, <1>6, <2>5 DEF NothingToConsume, Goto
    <3>2. CopiesOK(l, "park", stepRuns, signals, begun)
      BY <1>b, <2>1 DEF CopiesOK
    <3> QED BY <2>1, <2>2, <3>1, <3>2 DEF WaitOK, WaitInHand, SignalInHand, ResumeInHand, AttemptInHand
  <2> QED BY <2>3, <2>4, <2>5
<1>7. CASE SavePayload(w)
  <2> DEFINE id == l.run.stepRunId
             payload == l.resume.payload
             rec == [l.wait EXCEPT !.waitPayload = payload]
             new == [stepRuns[id] EXCEPT !.waitPayload = payload]
             history == [l.history EXCEPT ![id] = rec]
  <2>1. UNCHANGED <<run, signals, begun>>
    BY <1>7 DEF SavePayload
  <2>2. pc[w] = "savePayload" /\ pc'[w] = "resume" /\ local'[w] = [l EXCEPT !.history = history]
    BY <1>0, <1>7 DEF SavePayload, Goto
  <2>3. /\ id \in Ids /\ l.wait.status = "WAITING"
        /\ Face(l.wait) = Face(stepRuns[id]) /\ SameWait(l.wait, stepRuns[id])
    BY <1>b, <2>2 DEF WaitInHand
  <2>4. /\ payload # 0 /\ l.resume.waitFor = l.wait.waitFor
        /\ ServedBy(stepRuns[id], payload, signals)
        /\ \A j \in Ids : stepRuns[j].waitPayload # payload
    BY <1>b, <2>2 DEF SignalInHand
  <2>5. stepRuns[id].status = "WAITING"
    BY <2>3 DEF Face
  <2>6. stepRuns' = [stepRuns EXCEPT ![id] = new]
    <3>1. Exists(id)
      BY <2>3, <2>5, NullId DEF Exists
    <3> QED BY <1>7, <3>1 DEF SavePayload
  <2>7. /\ Face(new) = Face(stepRuns[id]) /\ SameWait(new, stepRuns[id]) /\ new.waitPayload = payload
        /\ new.waitFor = stepRuns[id].waitFor
    BY <1>0, <2>3 DEF StepRun, Face, SameWait
  <2>8. /\ Face(rec) = Face(stepRuns[id]) /\ SameWait(rec, stepRuns[id]) /\ rec.waitPayload = payload
    <3>1. l.wait \in StepRun
      BY <1>0, LocalFields
    <3>2. /\ rec.stepId = l.wait.stepId /\ rec.visit = l.wait.visit /\ rec.status = l.wait.status
          /\ rec.waitFor = l.wait.waitFor /\ rec.waitSinceSeq = l.wait.waitSinceSeq
          /\ rec.wakeAt = l.wait.wakeAt /\ rec.waitPayload = payload
      BY <3>1 DEF StepRun
    <3> HIDE DEF rec
    <3> QED BY <2>3, <3>2 DEF Face, SameWait
  <2>9. l.history \in [Ids -> StepRun]
    BY <1>0, LocalFields
  <2> HIDE DEF rec, new, id, payload
  <2>10. /\ stepRuns'[id] = new /\ \A i \in Ids : i # id => stepRuns'[i] = stepRuns[i]
         /\ history[id] = rec /\ \A i \in Ids : i # id => history[i] = l.history[i]
    BY <1>0, <2>3, <2>6, <2>9
  <2> HIDE DEF history
  <2>11. RecordOK(stepRuns[id], signals, begun)
    BY <1>a, <2>3 DEF WaitsOK
  <2>12. RecordOK(new, signals, begun) /\ RecordOK(rec, signals, begun)
    BY <2>5, <2>7, <2>8, <2>11, RecordLike
  <2>13. WaitsOK(run, stepRuns', signals, begun)
    <3>1. \A i \in Ids : RecordOK(stepRuns'[i], signals, begun)
      BY <1>a, <2>10, <2>12 DEF WaitsOK
    <3>2. ServedBy(new, payload, signals)
      BY <2>4, <2>7 DEF ServedBy, Face, KeyOf
    <3>3. ASSUME NEW i \in Ids, stepRuns'[i].waitPayload # 0
          PROVE  /\ ServedBy(stepRuns'[i], stepRuns'[i].waitPayload, signals)
                 /\ \A j \in Ids : stepRuns'[j].waitPayload = stepRuns'[i].waitPayload => j = i
      <4>1. CASE i = id
        BY <2>4, <2>7, <2>10, <3>2, <4>1
      <4>2. CASE i # id
        BY <1>a, <2>4, <2>7, <2>10, <3>3, <4>2 DEF WaitsOK
      <4> QED BY <4>1, <4>2
    <3>4. run.status = "WAITING" =>
            /\ run.stepRunId \in Ids
            /\ stepRuns'[run.stepRunId].status = "WAITING"
            /\ stepRuns'[run.stepRunId].wakeAt = "none" <=> run.wakeAt = "none"
      BY <1>a, <2>5, <2>7, <2>10 DEF WaitsOK, Face, SameWait
    <3> QED BY <3>1, <3>3, <3>4 DEF WaitsOK
  <2>14. /\ local'[w].run = l.run /\ local'[w].history = history /\ local'[w].wait = l.wait
         /\ local'[w].id = l.id /\ local'[w].resume = l.resume
    BY <1>0, <2>2 DEF Local
  <2>15. CopiesOK(local'[w], pc'[w], stepRuns', signals, begun)
    <3>1. \A i \in Ids : /\ l.history[i].waitPayload = stepRuns[i].waitPayload
                         /\ RecordOK(l.history[i], signals, begun)
                         /\ SameWait(l.history[i], stepRuns[i])
      BY <1>b, <2>2 DEF CopiesOK
    <3>2. SameWait(rec, new)
      BY <2>7, <2>8 DEF SameWait
    <3>3. \A i \in Ids : /\ history[i].waitPayload = stepRuns'[i].waitPayload
                         /\ RecordOK(history[i], signals, begun)
                         /\ SameWait(history[i], stepRuns'[i])
      BY <2>7, <2>8, <2>10, <2>12, <3>1, <3>2
    <3> QED BY <2>14, <3>3 DEF CopiesOK
  <2>16. WaitInHand(local'[w], pc'[w], stepRuns')
    BY <2>3, <2>7, <2>10, <2>14 DEF WaitInHand, SameWait, id
  <2>17. ResumeInHand(local'[w], pc'[w], stepRuns')
    <3>1. ToldOf(l.resume, new) /\ new.status = "WAITING"
      BY <2>3, <2>4, <2>5, <2>7 DEF ToldOf, SameWait, Face, payload
    <3> QED BY <2>2, <2>3, <2>10, <2>14, <3>1 DEF ResumeInHand, id
  <2> QED BY <2>1, <2>2, <2>13, <2>15, <2>16, <2>17 DEF WaitOK, SignalInHand, AttemptInHand
<1>8. CASE ResumeRun(w)
  <2>1. UNCHANGED <<stepRuns, signals, begun>> /\ run' = Resumed(run)
    BY <1>8 DEF ResumeRun, Store
  <2>2. /\ pc[w] = "resume" /\ pc'[w] = "loop"
        /\ local'[w] = [[l EXCEPT !.run = Resumed(l.run)] EXCEPT !.wait = NoStepRun]
    BY <1>0, <1>8 DEF ResumeRun, Goto
  <2>3. /\ local'[w].history = l.history /\ local'[w].resume = l.resume
        /\ local'[w].run.stepRunId = l.run.stepRunId
    BY <1>0, <2>2, LocalFields DEF Local, Resumed, Run
  <2>4. run'.status # "WAITING"
    BY <1>0, <2>1, Wakings
  <2>5. WaitsOK(run', stepRuns', signals', begun')
    BY <2>1, <2>4, RowsAsleep DEF NoNewWait
  <2>6. CopiesOK(local'[w], pc'[w], stepRuns, signals, begun)
    BY <1>b, <2>2, <2>3 DEF CopiesOK
  <2>7. ResumeInHand(local'[w], pc'[w], stepRuns)
    BY <1>b, <2>2, <2>3 DEF ResumeInHand
  <2> QED BY <2>1, <2>2, <2>4, <2>5, <2>6, <2>7 DEF WaitOK, WaitInHand, SignalInHand, AttemptInHand
<1>9. CASE ParkAgain(w)
  <2>1. /\ UNCHANGED <<stepRuns, signals, begun>> /\ run' = Parked(run, run.stepId, l.wait.wakeAt)
        /\ pc[w] = "park" /\ pc'[w] = "release"
    BY <1>0, <1>9 DEF ParkAgain, Store, Goto
  <2>2. /\ l.run.stepRunId \in Ids /\ l.wait.status = "WAITING"
        /\ Face(l.wait) = Face(stepRuns[l.run.stepRunId])
        /\ SameWait(l.wait, stepRuns[l.run.stepRunId])
    BY <1>b, <2>1 DEF WaitInHand
  <2>3. l.run.stepRunId = run.stepRunId
    BY <2>1 DEF HandOK, Position
  <2> QED BY <1>0, <2>1, <2>2, <2>3, TickParks DEF Face, SameWait
<1>10. CASE LoopExit(w) \/ RenewFails(w) \/ PersistFailureConflict(w) \/ NoMatchingTransition(w)
              \/ TickRelease(w)
  <2>1. UNCHANGED <<run, stepRuns, signals, begun>> /\ pc'[w] \in {"release", "workerRelease"}
    BY <1>0, <1>10 DEF LoopExit, RenewFails, PersistFailureConflict, NoMatchingTransition,
                       TickRelease, Goto
  <2> QED BY <2>1, TickEndsAwake DEF NoNewWait
<1>11. CASE Replay(w)
  <2> DEFINE active == ActiveInHistory(w)
             id == l.run.stepRunId
  <2>1. UNCHANGED <<run, stepRuns, signals, begun>>
    BY <1>11 DEF Replay
  <2>2. /\ pc[w] = "loop" /\ pc'[w] = "advance" /\ active.status = "COMPLETED"
        /\ local'[w] = [l EXCEPT !.id = id, !.visit = active.visit, !.steps = @ + 1]
    BY <1>0, <1>11 DEF Replay, AtLoopHead, AlreadyDone, Goto
  <2>3. local'[w].history = l.history /\ local'[w].resume = l.resume
    BY <1>0, <2>2 DEF Local
  <2>4. l.resume = NoResume
    <3>1. id \in Ids => active = l.history[id] /\ Face(l.history[id]) = Face(stepRuns[id])
      BY <2>2, NullId DEF ActiveInHistory, HandOK
    <3> QED BY <1>b, <2>2, <3>1 DEF ResumeInHand, Face
  <2>5. CopiesOK(local'[w], pc'[w], stepRuns, signals, begun)
    BY <1>b, <2>2, <2>3 DEF CopiesOK
  <2>6. run.status # "WAITING"
    BY <1>b, <2>2
  <2> QED BY <1>a, <2>1, <2>2, <2>3, <2>4, <2>5, <2>6 DEF WaitOK, WaitInHand, SignalInHand, ResumeInHand, AttemptInHand
<1>12. CASE Prepare(w)
  <2> DEFINE active == ActiveInHistory(w)
             pointer == l.run.stepRunId
             told == IF l.resume = NoResume THEN ReconstructResume(active) ELSE l.resume
  <2>1. UNCHANGED <<run, stepRuns, signals, begun>>
    BY <1>12 DEF Prepare
  <2>2. PICK id \in IF pointer = 0 THEN LeastFreshId ELSE {pointer}, visit \in VisitOf(w, active) :
          local' = [local EXCEPT ![w].id = id, ![w].visit = visit,
                      ![w].resume = IF @ = NoResume THEN ReconstructResume(active) ELSE @]
    BY <1>12 DEF Prepare
  <2>3. pc[w] = "loop" /\ pc'[w] = IF pointer = 0 THEN "point" ELSE "handler"
    BY <1>0, <1>12 DEF Prepare, AtLoopHead, Goto
  <2>4. pointer = 0 => id \in Ids /\ stepRuns[id].status = "ABSENT"
    BY <2>2 DEF LeastFreshId, FreshIds, Exists, Ids
  <2>5. pointer # 0 => id = pointer /\ id \in Ids /\ active = l.history[id]
    BY <1>0, <2>2, LocalFields, NullId DEF ActiveInHistory
  <2>6. stepRuns[id].waitFor # None => ToldOf(told, stepRuns[id])
    <3> SUFFICES ASSUME stepRuns[id].waitFor # None PROVE ToldOf(told, stepRuns[id])
      OBVIOUS
    <3>1. pointer # 0
      BY <1>a, <2>4 DEF WaitsOK, RecordOK
    <3>2. id = pointer /\ id \in Ids /\ active = l.history[id]
      BY <2>5, <3>1
    <3>3. /\ l.history[id].waitPayload = stepRuns[id].waitPayload
          /\ l.history[id].waitFor = stepRuns[id].waitFor
      BY <1>b, <2>3, <3>2 DEF CopiesOK, SameWait
    <3>4. CASE l.resume = NoResume
      BY <3>2, <3>3, <3>4 DEF ReconstructResume, ToldOf
    <3>5. CASE l.resume # NoResume
      BY <1>b, <2>3, <3>2, <3>5 DEF ResumeInHand
    <3> QED BY <3>4, <3>5
  <2>7. local'[w] = [l EXCEPT !.id = id, !.visit = visit, !.resume = told]
    BY <1>0, <2>2
  <2> HIDE DEF told
  <2>8. local'[w].history = l.history /\ local'[w].id = id /\ local'[w].resume = told
    BY <1>0, <2>7 DEF Local
  <2>9. CopiesOK(local'[w], pc'[w], stepRuns, signals, begun)
    BY <1>b, <2>3, <2>8 DEF CopiesOK
  <2>10. run.status # "WAITING"
    BY <1>b, <2>3
  <2> QED BY <1>a, <2>1, <2>3, <2>6, <2>8, <2>9, <2>10 DEF WaitOK, WaitInHand, SignalInHand, ResumeInHand, AttemptInHand
<1>13. CASE Point(w)
  <2>1. UNCHANGED <<stepRuns, signals, begun>> /\ run' = Pointed(run, l.id)
    BY <1>13 DEF Point, Store
  <2>2. pc[w] = "point" /\ pc'[w] = "handler" /\ local'[w] = [l EXCEPT !.run = Pointed(l.run, l.id)]
    BY <1>0, <1>13 DEF Point, Goto
  <2>3. /\ local'[w].history = l.history /\ local'[w].id = l.id /\ local'[w].resume = l.resume
    BY <1>0, <2>2 DEF Local
  <2>4. run'.status # "WAITING"
    BY <1>0, <2>1, Wakings
  <2>5. WaitsOK(run', stepRuns', signals', begun')
    BY <2>1, <2>4, RowsAsleep DEF NoNewWait
  <2>6. CopiesOK(local'[w], pc'[w], stepRuns, signals, begun)
    BY <1>b, <2>2, <2>3 DEF CopiesOK
  <2>7. ResumeInHand(local'[w], pc'[w], stepRuns)
    BY <1>b, <2>2, <2>3 DEF ResumeInHand
  <2> QED BY <2>1, <2>2, <2>4, <2>5, <2>6, <2>7 DEF WaitOK, WaitInHand, SignalInHand, AttemptInHand
<1>14. CASE StartHandler(w)
  <2>1. UNCHANGED <<run, stepRuns, signals>> /\ begun' = begun \cup {KeyInHand(w)}
    BY <1>14 DEF StartHandler
  <2>2. PICK n : local' = [local EXCEPT ![w].stale = n]
    BY <1>14 DEF StartHandler
  <2>3. pc[w] = "handler" /\ pc'[w] = "running" /\ local'[w] = [l EXCEPT !.stale = n]
    BY <1>0, <1>14, <2>2 DEF StartHandler, Goto
  <2>4. /\ local'[w].history = l.history
        /\ <<local'[w].run.stepId, local'[w].visit>> = KeyInHand(w)
    BY <1>0, <2>3 DEF Local, KeyInHand
  <2>5. WaitsOK(run', stepRuns', signals', begun')
    BY <2>1, RowsAsleep DEF NoNewWait
  <2>6. CopiesOK(local'[w], pc'[w], stepRuns, signals, begun')
    BY <1>b, <2>1, <2>3, <2>4, GrownSame, RecordGrown DEF CopiesOK
  <2>7. run.status # "WAITING"
    BY <1>b, <2>3
  <2> QED BY <2>1, <2>3, <2>4, <2>5, <2>6, <2>7 DEF WaitOK, WaitInHand, SignalInHand, ResumeInHand, AttemptInHand
<1>15. CASE HandlerReturns(w)
  <2>1. UNCHANGED <<run, stepRuns, signals, begun>>
    BY <1>15 DEF HandlerReturns
  <2>2. PICK result \in Behaviour[<<l.run.stepId, l.resume # NoResume>>] :
           /\ local' = [local EXCEPT ![w].result = result]
           /\ Goto(w, IF result.status = "waiting" THEN "watermark" ELSE "persist")
    BY <1>15 DEF HandlerReturns
  <2>3. /\ pc[w] = "running"
        /\ pc'[w] = IF result.status = "waiting" THEN "watermark" ELSE "persist"
        /\ local'[w] = [l EXCEPT !.result = result]
    BY <1>0, <1>15, <2>2 DEF HandlerReturns, Goto
  <2>4. result.status = "waiting" => result.name # None
    <3> DEFINE resumed == l.resume # NoResume
    <3>1. l.run.stepId \in Steps /\ resumed \in BOOLEAN
      BY <1>0, <2>3 DEF LocalOK
    <3>2. result \in Behaviour[<<l.run.stepId, resumed>>]
      BY <2>2
    <3> HIDE DEF resumed
    <3>3. <<l.run.stepId, resumed>> \in Steps \X BOOLEAN
      BY <3>1
    <3> QED BY <3>2, <3>3, EngineAssumption
  <2>5. /\ local'[w].history = l.history /\ local'[w].result = result
        /\ <<local'[w].run.stepId, local'[w].visit>> = <<l.run.stepId, l.visit>>
    BY <1>0, <2>3 DEF Local
  <2>6. CopiesOK(local'[w], pc'[w], stepRuns, signals, begun)
    BY <1>b, <2>3, <2>5 DEF CopiesOK
  <2>7. run.status # "WAITING" /\ <<l.run.stepId, l.visit>> \in begun
    BY <1>b, <2>3 DEF AttemptInHand
  <2> QED BY <1>a, <2>1, <2>3, <2>4, <2>5, <2>6, <2>7 DEF WaitOK, WaitInHand, SignalInHand, ResumeInHand, AttemptInHand
<1>16. CASE Watermark(w)
  <2>1. UNCHANGED <<run, stepRuns, signals, begun>>
    BY <1>16 DEF Watermark
  <2>2. /\ pc[w] = "watermark" /\ pc'[w] = "persist"
        /\ local'[w] = [l EXCEPT !.mark = Len(signals)]
    BY <1>0, <1>16 DEF Watermark, Goto
  <2>3. /\ local'[w].history = l.history /\ local'[w].result = l.result /\ local'[w].mark = Len(signals)
        /\ <<local'[w].run.stepId, local'[w].visit>> = <<l.run.stepId, l.visit>>
    BY <1>0, <2>2 DEF Local
  <2>4. \A seq \in DOMAIN signals : ~(seq > Len(signals))
    BY DEF TypeInv, TypeOK
  <2>5. CopiesOK(local'[w], pc'[w], stepRuns, signals, begun)
    BY <1>b, <2>2, <2>3 DEF CopiesOK
  <2>6. AttemptInHand(local'[w], pc'[w], signals, begun)
    BY <1>b, <2>2, <2>3, <2>4 DEF AttemptInHand, HeardSince
  <2>7. run.status # "WAITING"
    BY <1>b, <2>2
  <2> QED BY <1>a, <2>1, <2>2, <2>5, <2>6, <2>7 DEF WaitOK, WaitInHand, SignalInHand, ResumeInHand
<1>17. CASE Persist(w)
  <2>1. pc[w] = "persist" /\ RecordAttempt(w, Outcome(w))
    BY <1>17 DEF Persist
  <2> QED BY <2>1, OutcomeKeys, OutcomeWaits, RecordAttemptKeepsWaits
<1>18. CASE PersistConflict(w)
  <2>1. UNCHANGED <<run, stepRuns, signals, begun>>
    BY <1>18 DEF PersistConflict
  <2>2. pc[w] = "persist" /\ pc'[w] = "persistFailure" /\ local'[w] = l
    BY <1>0, <1>18 DEF PersistConflict, Goto
  <2>3. CopiesOK(l, "persistFailure", stepRuns, signals, begun)
    BY <1>b, <2>2 DEF CopiesOK
  <2>4. run.status # "WAITING" /\ <<l.run.stepId, l.visit>> \in begun
    BY <1>b, <2>2 DEF AttemptInHand
  <2> QED BY <1>a, <2>1, <2>2, <2>3, <2>4 DEF WaitOK, WaitInHand, SignalInHand, ResumeInHand, AttemptInHand
<1>19. CASE PersistFailure(w)
  <2>1. pc[w] = "persistFailure" /\ RecordAttempt(w, FailureOutcome(w))
    BY <1>19 DEF PersistFailure
  <2> QED BY <2>1, OutcomeKeys, OutcomeWaits, RecordAttemptKeepsWaits
<1>20. CASE Complete(w) \/ Advance(w)
  <2> DEFINE next == ResolveNextStep(l.run.stepId, Existing(w).output)
  <2>1. pc[w] = "advance" /\ UNCHANGED <<stepRuns, signals, begun>>
    BY <1>20 DEF Complete, Advance
  <2>2. CASE Complete(w)
    <3>1. run' = Finished(run, ContextAfter(w)) /\ pc'[w] = "release"
      BY <1>0, <2>2 DEF Complete, Store, Goto
    <3>2. run'.status # "WAITING"
      BY <1>0, <3>1, Wakings
    <3> QED BY <2>1, <3>1, <3>2, TickEndsAwake DEF NoNewWait
  <2>3. CASE Advance(w)
    <3>1. /\ run' = Moved(run, ContextAfter(w), next) /\ pc'[w] = "loop"
          /\ local'[w] = [l EXCEPT !.run = Moved(l.run, ContextAfter(w), next), !.id = 0, !.visit = 0]
      BY <1>0, <2>3 DEF Advance, Store, Goto
    <3> HIDE DEF next
    <3>2. run'.status # "WAITING"
      BY <1>0, <3>1, Wakings
    <3>3. local'[w].history = l.history /\ local'[w].resume = NoResume
      BY <1>0, <1>b, <2>1, <3>1 DEF Local, ResumeInHand
    <3>4. WaitsOK(run', stepRuns', signals', begun')
      BY <2>1, <3>2, RowsAsleep DEF NoNewWait
    <3>5. CopiesOK(local'[w], pc'[w], stepRuns, signals, begun)
      BY <1>b, <2>1, <3>1, <3>3 DEF CopiesOK
    <3> QED BY <2>1, <3>1, <3>2, <3>3, <3>4, <3>5 DEF WaitOK, WaitInHand, SignalInHand, ResumeInHand, AttemptInHand
  <2> QED BY <1>20, <2>2, <2>3
<1>21. CASE ParkRun(w)
  <2>1. /\ UNCHANGED <<stepRuns, signals, begun>> /\ pc[w] = "parkRun" /\ pc'[w] = "release"
        /\ run' = Parked(run, l.run.stepId, Existing(w).wakeAt)
    BY <1>0, <1>21 DEF ParkRun, Store, Goto
  <2>2. l.id \in Ids /\ l.id = run.stepRunId /\ Existing(w) = l.history[l.id]
    BY <1>0, <2>1 DEF LocalOK, HandOK, Position, Existing
  <2>3. /\ Face(l.history[l.id]) = Face(stepRuns[l.id])
        /\ SameWait(l.history[l.id], stepRuns[l.id])
        /\ l.history[l.id].status = "WAITING"
    BY <1>b, <2>1, <2>2 DEF HandOK, CopiesOK, AttemptInHand
  <2> QED BY <1>0, <2>1, <2>2, <2>3, TickParks DEF Face, SameWait
<1>22. CASE BackOff(w) \/ Fail(w)
  <2>1. /\ UNCHANGED <<stepRuns, signals, begun>> /\ pc'[w] = "release"
        /\ run' \in {BackingOff(run, l.run.stepId), Failed(run, l.run.stepId)}
    BY <1>0, <1>22 DEF BackOff, Fail, Store, Goto
  <2>2. run'.status # "WAITING"
    BY <1>0, <2>1, Wakings
  <2> QED BY <2>1, <2>2, TickEndsAwake DEF NoNewWait
<1>23. CASE WorkerRelease(w)
  <2>1. UNCHANGED <<run, stepRuns, signals, begun>> /\ pc'[w] = "idle"
    BY <1>0, <1>23 DEF WorkerRelease, Goto
  <2> QED BY <1>a, <2>1, WaitFree
<1> QED
  BY <1>1, <1>2, <1>3, <1>4, <1>5, <1>6, <1>7, <1>8, <1>9, <1>10, <1>11, <1>12, <1>13, <1>14, <1>15, <1>16, <1>17, <1>18, <1>19, <1>20, <1>21, <1>22, <1>23 DEF Tick

-----------------------------------------------------------------------------
(* The invariant is inductive, on top of StepsInv *)

\* A step of a tick keeps WaitInv: only that worker is inside a tick.
LEMMA TickKeepsWaits ==
  ASSUME TypeInv, DriverInv, StepsInv, WaitInv, NEW w \in Workers, Tick(w)
  PROVE  WaitInv'
<1> SUFFICES ASSUME Undisturbed', run'.status # "ABSENT"
             PROVE  /\ WaitsOK(run', stepRuns', signals', begun')
                    /\ \A v \in Workers : InTick(v)' =>
                         WaitOK(local'[v], pc'[v], run', stepRuns', signals', begun')
  BY DEF WaitInv
<1>0. /\ pc \in [Workers -> Labels] /\ local \in [Workers -> Local]
      /\ pc' = [pc EXCEPT ![w] = pc'[w]] /\ local' = [local EXCEPT ![w] = local'[w]]
  BY TickIsStaleFramed DEF TypeInv, TypeOK, StaleFrame
<1>1. Undisturbed /\ run.status # "ABSENT" /\ pc[w] # "idle"
      /\ (pc[w] = "workerRelease" => pc'[w] = "idle")
  BY TickIsFramed DEF TickFrame, Undisturbed
<1>2. /\ RowsOK(run, stepRuns, begun) /\ WaitsOK(run, stepRuns, signals, begun)
      /\ \A v \in Workers : InTick(v) =>
           /\ HandOK(local[v], pc[v], run, stepRuns)
           /\ WaitOK(local[v], pc[v], run, stepRuns, signals, begun)
  BY <1>1 DEF StepsInv, WaitInv
<1>3. CASE pc[w] # "workerRelease"
  <2>1. InTick(w)
    BY <1>1, <1>3 DEF InTick
  <2>2. /\ WaitsOK(run', stepRuns', signals', begun')
        /\ WaitOK(local'[w], pc'[w], run', stepRuns', signals', begun')
    BY <1>1, <1>2, <2>1, TickKeepsWaitHand
  <2>3. \A v \in Workers : v # w => ~InTick(v)'
    BY <1>0, <1>1, <2>1 DEF DriverInv, SingleDriver, InTick
  <2> QED BY <2>2, <2>3
<1>4. CASE pc[w] = "workerRelease"
  <2>1. UNCHANGED <<run, stepRuns, signals, begun>>
    BY <1>4 DEF Tick, ReadRun, ListByRun, GetActive, Begin, ConsumeNext, NothingToConsume,
         SavePayload, ResumeRun, ParkAgain, LoopExit, RenewFails, AtLoopHead, Replay, Prepare, Point,
         StartHandler, HandlerReturns, Watermark, Persist, PersistConflict, PersistFailure,
         PersistFailureConflict, Complete, Advance, NoMatchingTransition, ParkRun, BackOff, Fail,
         TickRelease, WorkerRelease
  <2>2. \A v \in Workers : InTick(v)' => v # w
    BY <1>0, <1>1, <1>4 DEF InTick
  <2>3. \A v \in Workers : v # w => local'[v] = local[v] /\ pc'[v] = pc[v] /\ (InTick(v)' <=> InTick(v))
    BY <1>0 DEF InTick
  <2> QED BY <1>2, <2>1, <2>2, <2>3
<1> QED BY <1>3, <1>4

\* A storage error before the record was stored leaves a worker what it knew.
LEMMA ThrownWaitHand ==
  ASSUME NEW l, NEW label \in {"watermark", "persist"}, NEW r, NEW recs, NEW sigs, NEW keys,
         WaitOK(l, label, r, recs, sigs, keys)
  PROVE  WaitOK(l, "persistFailure", r, recs, sigs, keys)
  BY DEF WaitOK, CopiesOK, WaitInHand, SignalInHand, ResumeInHand, AttemptInHand, ListedLabels,
         HandLabels, WaitLabels, RanLabels

\* A step after which every worker knows what it knew, need not know it, or has
\* just claimed the run, and which writes nothing that matters to waits.
LEMMA QuietWaitStep ==
  ASSUME TypeInv, WaitInv, Undisturbed' => Undisturbed, begun' = begun,
         run'.status # "ABSENT" =>
           /\ run.status # "ABSENT"
           /\ NoNewWait(run, run')
           /\ SameWaits(stepRuns, stepRuns')
           /\ Grown(signals, signals', begun),
         \A v \in Workers :
           \/ local'[v] = local[v] /\ pc'[v] = pc[v]
           \/ pc'[v] \in {"idle", "release", "workerRelease"}
           \/ pc'[v] = "read" /\ local'[v] = NoLocal
           \/ pc[v] \in {"watermark", "persist"} /\ pc'[v] = "persistFailure" /\ local'[v] = local[v]
  PROVE  WaitInv'
<1> SUFFICES ASSUME Undisturbed', run'.status # "ABSENT"
             PROVE  /\ WaitsOK(run', stepRuns', signals', begun')
                    /\ \A v \in Workers : InTick(v)' =>
                         WaitOK(local'[v], pc'[v], run', stepRuns', signals', begun')
  BY DEF WaitInv
<1>1. WaitsOK(run', stepRuns', signals', begun')
  BY QuietWaits DEF WaitInv
<1>2. ASSUME NEW v \in Workers, InTick(v)'
      PROVE  WaitOK(local'[v], pc'[v], run', stepRuns', signals', begun')
  <2>1. CASE pc'[v] \in {"idle", "release", "workerRelease"}
    BY <2>1, WaitFree
  <2>2. CASE pc'[v] = "read" /\ local'[v] = NoLocal
    BY <2>2 DEF WaitOK, CopiesOK, WaitInHand, SignalInHand, ResumeInHand, AttemptInHand, ListedLabels,
         HandLabels, WaitLabels, RanLabels, NoLocal
  <2>3. ASSUME InTick(v), local'[v] = local[v]
        PROVE  WaitOK(local[v], pc[v], run', stepRuns', signals', begun')
    <3>1. WaitOK(local[v], pc[v], run, stepRuns, signals, begun)
      BY <2>3 DEF WaitInv
    <3>2. pc[v] \in HandLabels => local[v].id \in Ids
      BY DEF TypeInv, LocalOK
    <3> QED BY <3>1, <3>2, QuietWaitHand
  <2>4. CASE local'[v] = local[v] /\ pc'[v] = pc[v]
    BY <1>2, <2>3, <2>4 DEF InTick
  <2>5. CASE pc[v] \in {"watermark", "persist"} /\ pc'[v] = "persistFailure" /\ local'[v] = local[v]
    BY <2>3, <2>5, ThrownWaitHand DEF InTick
  <2> QED BY <2>1, <2>2, <2>4, <2>5
<1> QED BY <1>1, <1>2

\* The outcome is stored and its reply lost: the step run has the new wait, the
\* worker the old one, and both are correct.
LEMMA ReplyLostKeepsWaits ==
  ASSUME TypeInv, DriverInv, StepsInv, WaitInv, NEW w \in Workers, PersistReplyLost(w)
  PROVE  WaitInv'
<1> SUFFICES ASSUME Undisturbed', run'.status # "ABSENT"
             PROVE  /\ WaitsOK(run', stepRuns', signals', begun')
                    /\ \A v \in Workers : InTick(v)' =>
                         WaitOK(local'[v], pc'[v], run', stepRuns', signals', begun')
  BY DEF WaitInv
<1> DEFINE id == local[w].id
<1>0. pc \in [Workers -> Labels] /\ used \in [Faults -> Nat] /\ id \in Ids
  BY DEF TypeInv, TypeOK, LocalOK, PersistReplyLost, HandLabels
<1>1. /\ pc[w] = "persist" /\ pc' = [pc EXCEPT ![w] = "persistFailure"] /\ Spend("throw")
      /\ UNCHANGED <<run, signals, local, begun>>
      /\ Storable(w, Outcome(w)) /\ stepRuns' = StepRunsAfter(w, Outcome(w))
  BY DEF PersistReplyLost, Goto, AfterThrow
<1>2. Undisturbed
  BY <1>0, <1>1, SpendDisturbs DEF Faults
<1>3. /\ RowsOK(run, stepRuns, begun) /\ HandOK(local[w], pc[w], run, stepRuns)
      /\ WaitsOK(run, stepRuns, signals, begun)
      /\ WaitOK(local[w], pc[w], run, stepRuns, signals, begun)
  BY <1>1, <1>2 DEF StepsInv, WaitInv, InTick
<1>4. Outcome(w).waitPayload = Existing(w).waitPayload /\ RecordOK(Outcome(w), signals, begun)
  BY <1>1, <1>3, OutcomeWaits
<1>5. /\ \A i \in Ids : i # id => stepRuns'[i] = stepRuns[i]
      /\ stepRuns'[id].waitPayload = Outcome(w).waitPayload
      /\ WaitsOK(run, stepRuns', signals, begun)
  BY <1>1, <1>3, <1>4, OutcomeKeys, WaitRecorder
<1>6. WaitOK(local[w], "persistFailure", run, stepRuns', signals, begun)
  <2>1. WaitOK(local[w], "persistFailure", run, stepRuns, signals, begun)
    BY <1>1, <1>3, ThrownWaitHand
  <2>2. CopiesOK(local[w], "persistFailure", stepRuns', signals, begun)
    <3>1. CopiesOK(local[w], "persistFailure", stepRuns, signals, begun)
      BY <2>1 DEF WaitOK
    <3>2. stepRuns'[id].waitPayload = local[w].history[id].waitPayload
      BY <1>4, <1>5 DEF Existing
    <3> QED BY <1>5, <3>1, <3>2 DEF CopiesOK, ListedLabels, HandLabels
  <2> QED BY <2>1, <2>2 DEF WaitOK, WaitInHand, SignalInHand, ResumeInHand, AttemptInHand, WaitLabels
<1>7. \A v \in Workers : InTick(v)' => v = w
  BY <1>0, <1>1, <1>2 DEF DriverInv, SingleDriver, InTick
<1> QED BY <1>0, <1>1, <1>5, <1>6, <1>7

\* The clock wakes nobody by itself: a deadline that passes stays a deadline.
LEMMA TimeKeepsWaits ==
  ASSUME TypeInv, TimePasses
  PROVE  NoNewWait(run, run') /\ SameWaits(stepRuns, stepRuns')
<1>1. run \in Run /\ run' = [run EXCEPT !.wakeAt = Elapsed(run.wakeAt)]
  BY DEF TypeInv, TypeOK, TimePasses
<1>2. \A t : Elapsed(t) = "none" <=> t = "none"
  BY DEF Elapsed
<1>3. NoNewWait(run, run')
  BY <1>1, <1>2 DEF Run, NoNewWait
<1>4. ASSUME NEW i \in Ids
      PROVE  /\ Face(stepRuns'[i]) = Face(stepRuns[i])
             /\ SameWait(stepRuns'[i], stepRuns[i])
             /\ stepRuns'[i].waitPayload = stepRuns[i].waitPayload
  <2>1. stepRuns[i] \in StepRun /\ stepRuns'[i] = [stepRuns[i] EXCEPT !.wakeAt = Elapsed(stepRuns[i].wakeAt)]
    BY DEF TypeInv, TypeOK, TimePasses
  <2>2. /\ stepRuns'[i].wakeAt = Elapsed(stepRuns[i].wakeAt)
        /\ stepRuns'[i].waitFor = stepRuns[i].waitFor
        /\ stepRuns'[i].waitSinceSeq = stepRuns[i].waitSinceSeq
        /\ stepRuns'[i].waitPayload = stepRuns[i].waitPayload
        /\ Face(stepRuns'[i]) = Face(stepRuns[i])
    BY <2>1 DEF StepRun, Face
  <2> QED BY <1>2, <2>2 DEF SameWait
<1> QED BY <1>3, <1>4 DEF SameWaits

\* A reconciliation resets failures only.
LEMMA ResetKeepsWaits ==
  ASSUME TypeInv, NEW c \in Clients, ReconcileReset(c)
  PROVE  SameWaits(stepRuns, stepRuns')
<1> DEFINE id == client[c].stepRunId
<1>1. stepRuns \in [Ids -> StepRun] /\ id \in IdOrNull
  BY DEF TypeInv, TypeOK
<1>2. CASE Exists(id)
  <2> DEFINE rec == [stepRuns[id] EXCEPT !.failures = 0]
  <2>1. id \in Ids /\ stepRuns' = [stepRuns EXCEPT ![id] = rec]
    BY <1>1, <1>2, NullId DEF ReconcileReset, Exists
  <2>2. /\ Face(rec) = Face(stepRuns[id]) /\ SameWait(rec, stepRuns[id])
        /\ rec.waitPayload = stepRuns[id].waitPayload
    BY <1>1, <2>1 DEF StepRun, Face, SameWait
  <2> HIDE DEF rec, id
  <2>3. \A i \in Ids : stepRuns'[i] = IF i = id THEN rec ELSE stepRuns[i]
    BY <1>1, <2>1
  <2> QED BY <2>2, <2>3 DEF SameWaits, SameWait
<1>3. CASE ~Exists(id)
  BY <1>3, SameWaitsSame DEF ReconcileReset
<1> QED BY <1>2, <1>3

\* A client appends a signal after all that were sent before, and every handler
\* started so far had its key when it did.
LEMMA AppendGrows ==
  ASSUME TypeInv, NEW c \in Clients, SignalAppend(c)
  PROVE  Grown(signals, signals', begun)
<1>1. CASE run.status = "ABSENT"
  BY <1>1, GrownSame DEF SignalAppend
<1>2. CASE run.status # "ABSENT"
  <2>1. PICK signal : signal.begun = begun /\ signals' = Append(signals, signal)
    BY <1>2 DEF SignalAppend
  <2>2. signals \in Seq(Signal)
    BY DEF TypeInv, TypeOK
  <2>3. /\ DOMAIN signals = 1..Len(signals) /\ DOMAIN signals' = 1..(Len(signals) + 1)
        /\ Len(signals) \in Nat
        /\ \A seq \in 1..Len(signals) : signals'[seq] = signals[seq]
        /\ signals'[Len(signals) + 1] = signal
    BY <2>1, <2>2
  <2> QED BY <2>1, <2>3 DEF Grown
<1> QED BY <1>1, <1>2

\* Every step of a client keeps WaitInv.
LEMMA ClientKeepsWaits ==
  ASSUME TypeInv, WaitInv, NEW c \in Clients, ClientStep(c)
  PROVE  WaitInv'
<1>0. run \in Run /\ used \in [Faults -> Nat]
  BY DEF TypeInv, TypeOK
<1>1. CASE SignalRead(c) \/ CancelRead(c) \/ ReconcileRead(c)
  <2>1. /\ \E f \in Faults : Spend(f)
        /\ UNCHANGED <<run, stepRuns, signals, pc, local, begun>>
    BY <1>1 DEF SignalRead, CancelRead, ReconcileRead, Faults
  <2>2. Undisturbed' => Undisturbed
    BY <1>0, <2>1, SpendDisturbs
  <2> QED BY <2>1, <2>2, QuietWaitStep, SameWaitsSame, GrownSame DEF NoNewWait
<1>2. CASE SignalAppend(c)
  <2>1. UNCHANGED <<run, stepRuns, pc, local, begun, used>>
    BY <1>2 DEF SignalAppend
  <2> QED BY <1>2, <2>1, AppendGrows, QuietWaitStep, SameWaitsSame DEF NoNewWait, Undisturbed
<1>3. CASE CancelRelease(c)
  BY <1>3, QuietWaitStep, SameWaitsSame, GrownSame DEF CancelRelease, Undisturbed, NoNewWait
<1>4. CASE CancelSet(c) \/ ReconcileReopen(c) \/ ReconcileAbandon(c)
  <2>1. /\ UNCHANGED <<stepRuns, signals, pc, local, begun, used>>
        /\ run' \in {run, Cancelled(run), Reopened(run)}
        /\ run.status = "ABSENT" => run' = run
    BY <1>4 DEF CancelSet, ReconcileReopen, ReconcileAbandon, Store
  <2>2. NoNewWait(run, run')
    BY <1>0, <2>1, Wakings DEF NoNewWait
  <2> QED BY <2>1, <2>2, QuietWaitStep, SameWaitsSame, GrownSame DEF Undisturbed
<1>5. CASE ReconcileReset(c)
  <2>1. UNCHANGED <<run, signals, pc, local, begun, used>>
    BY <1>5 DEF ReconcileReset
  <2> QED BY <1>5, <2>1, ResetKeepsWaits, QuietWaitStep, GrownSame DEF Undisturbed, NoNewWait
<1> QED BY <1>1, <1>2, <1>3, <1>4, <1>5 DEF ClientStep

\* WaitInv is inductive relative to the invariants below it.
LEMMA WaitInvInductive ==
  TypeInv /\ DriverInv /\ StepsInv /\ WaitInv /\ [Next]_vars => WaitInv'
<1> SUFFICES ASSUME TypeInv, DriverInv, StepsInv, WaitInv, [Next]_vars PROVE WaitInv'
  OBVIOUS
<1>0. /\ pc \in [Workers -> Labels] /\ local \in [Workers -> Local]
      /\ used \in [Faults -> Nat]
  BY DEF TypeInv, TypeOK
<1>q. SameWaits(stepRuns, stepRuns) /\ Grown(signals, signals, begun) /\ NoNewWait(run, run)
  BY SameWaitsSame, GrownSame DEF NoNewWait
<1>1. ASSUME NEW w \in Workers, Tick(w) PROVE WaitInv'
  BY <1>1, TickKeepsWaits
<1>2. ASSUME NEW w \in Workers, ClaimDue(w) PROVE WaitInv'
  <2>1. /\ UNCHANGED <<run, stepRuns, signals, begun, used>>
        /\ pc' = [pc EXCEPT ![w] = "read"] /\ local' = [local EXCEPT ![w] = NoLocal]
    BY <1>2 DEF ClaimDue, Goto
  <2> QED BY <1>0, <1>q, <2>1, QuietWaitStep DEF Undisturbed
<1>3. ASSUME NEW w \in Workers, StorageThrows(w) PROVE WaitInv'
  <2>1. /\ UNCHANGED <<run, stepRuns, signals, begun>> /\ Spend("throw")
        /\ pc' = [pc EXCEPT ![w] = AfterThrow(pc[w])]
        /\ local' = IF pc[w] = "workerRelease" THEN [local EXCEPT ![w] = NoLocal] ELSE local
    BY <1>3 DEF StorageThrows, Goto
  <2>2. Undisturbed' => Undisturbed
    BY <1>0, <2>1, SpendDisturbs DEF Faults
  <2>3. \/ pc'[w] \in {"idle", "release", "workerRelease"}
        \/ pc[w] \in {"watermark", "persist"} /\ pc'[w] = "persistFailure" /\ local'[w] = local[w]
    BY <1>0, <2>1 DEF AfterThrow
  <2> QED BY <1>0, <1>q, <2>1, <2>2, <2>3, QuietWaitStep
<1>4. ASSUME NEW w \in Workers, PersistReplyLost(w) PROVE WaitInv'
  BY <1>4, ReplyLostKeepsWaits
<1>5. ASSUME NEW w \in Workers, Heartbeat(w) PROVE WaitInv'
  BY <1>5, <1>q, QuietWaitStep DEF Heartbeat, Undisturbed
<1>6. ASSUME NEW w \in Workers, Crash(w) PROVE WaitInv'
  <2>1. /\ UNCHANGED <<run, stepRuns, signals, begun>> /\ Spend("crash")
        /\ pc' = [pc EXCEPT ![w] = "idle"] /\ local' = [local EXCEPT ![w] = NoLocal]
    BY <1>6 DEF Crash, Goto
  <2>2. Undisturbed' => Undisturbed
    BY <1>0, <2>1, SpendDisturbs DEF Faults
  <2> QED BY <1>0, <1>q, <2>1, <2>2, QuietWaitStep
<1>7. ASSUME NEW c \in Clients, ClientStep(c) PROVE WaitInv'
  BY <1>7, ClientKeepsWaits
<1>8. CASE LeaseExpires
  <2>1. UNCHANGED <<run, stepRuns, signals, pc, local, begun>> /\ (used' = used \/ Spend("leaseLoss"))
    BY <1>8 DEF LeaseExpires
  <2>2. Undisturbed' => Undisturbed
    BY <1>0, <2>1, SpendDisturbs DEF Faults, Undisturbed
  <2> QED BY <1>q, <2>1, <2>2, QuietWaitStep
<1>9. CASE TimePasses
  <2>1. UNCHANGED <<signals, pc, local, begun, used>>
    BY <1>9 DEF TimePasses
  <2>2. run'.status = run.status
    BY <1>9, TimeKeepsFaces
  <2> QED BY <1>9, <1>q, <2>1, <2>2, TimeKeepsWaits, QuietWaitStep DEF Undisturbed
<1>10. CASE Prune
  <2>1. run'.status = "ABSENT"
    BY <1>10 DEF Prune, NoRun
  <2> QED BY <2>1 DEF WaitInv
<1>11. CASE UNCHANGED vars
  BY <1>11, <1>q, QuietWaitStep DEF vars, Undisturbed
<1> QED
  BY <1>1, <1>2, <1>3, <1>4, <1>5, <1>6, <1>7, <1>8, <1>9, <1>10, <1>11 DEF Next

\* WaitInv holds initially: nothing waits.
LEMMA InitWaits == Init => WaitInv
<1> SUFFICES ASSUME Init PROVE WaitInv
  OBVIOUS
<1>1. /\ \A i \in Ids : /\ stepRuns[i].status = "ABSENT" /\ stepRuns[i].waitFor = None
                        /\ stepRuns[i].waitPayload = 0
      /\ run.status = "CREATED"
      /\ \A w \in Workers : ~InTick(w)
  BY DEF Init, NoStepRuns, NoStepRun, NoRun, InTick
<1>2. WaitsOK(run, stepRuns, signals, begun)
  BY <1>1 DEF WaitsOK, RecordOK
<1> QED BY <1>1, <1>2 DEF WaitInv

\* Every reachable state satisfies WaitInv.
LEMMA WaitInvHolds == Spec => []WaitInv
  BY InitWaits, WaitInvInductive, TypeInvHolds, DriverInvHolds, StepsInvHolds, PTL DEF Spec

-----------------------------------------------------------------------------
(* What follows from it *)

\* A signal reaches the wait it was meant for: a directed one its step, an
\* undirected one only a step run whose handler was started before it was sent,
\* and one signal never serves two step runs, whatever crashes, storage errors
\* and reconciliations come in between.
THEOREM SignalsServeTheirWait == Spec => []SignalsReachTheirWait
<1>1. TypeInv /\ NoOrphans /\ WaitInv => SignalsReachTheirWait
  <2> SUFFICES ASSUME TypeInv, NoOrphans, WaitInv, Undisturbed, NEW id \in Ids,
                      stepRuns[id].status # "ABSENT", stepRuns[id].waitPayload # 0
               PROVE  /\ ServedBy(stepRuns[id], stepRuns[id].waitPayload, signals)
                      /\ \A other \in Ids :
                           stepRuns[other].waitPayload = stepRuns[id].waitPayload => other = id
    BY DEF SignalsReachTheirWait, ServedBy, KeyOf
  <2>1. run.status # "ABSENT"
    BY DEF NoOrphans, NoStepRuns, NoStepRun
  <2> QED BY <2>1 DEF WaitInv, WaitsOK
<1> QED BY <1>1, TypeInvHolds, PrunedRunLeavesNothing, WaitInvHolds, PTL

\* A run that is left WAITING really waits: its pointer names a step run of its
\* current step that waits for a name, and the row has a deadline exactly when
\* the wait has one, so that a signal or the clock can wake it.
THEOREM ParkedRunsWait == Spec => []ParkedRunWaits
<1>1. StepsInv /\ WaitInv => ParkedRunWaits
  <2> SUFFICES ASSUME StepsInv, WaitInv, Undisturbed, run.status = "WAITING"
               PROVE  /\ Exists(run.stepRunId)
                      /\ stepRuns[run.stepRunId].status = "WAITING"
                      /\ stepRuns[run.stepRunId].waitFor # None
                      /\ stepRuns[run.stepRunId].stepId = run.stepId
                      /\ (stepRuns[run.stepRunId].wakeAt = "none") <=> (run.wakeAt = "none")
    BY DEF ParkedRunWaits
  <2>1. RowsOK(run, stepRuns, begun) /\ WaitsOK(run, stepRuns, signals, begun)
    BY DEF StepsInv, WaitInv
  <2>2. run.stepRunId \in Ids /\ stepRuns[run.stepRunId].status = "WAITING"
    BY <2>1 DEF WaitsOK
  <2> QED BY <2>1, <2>2, NullId DEF WaitsOK, RecordOK, RowsOK, There, Exists
<1> QED BY <1>1, StepsInvHolds, WaitInvHolds, PTL

\* Every attempt at a step that has waited is told the name it waits for and the
\* signal the step run keeps, or that it was its deadline; neither a failed
\* attempt nor a crash loses them.
THEOREM ResumeIsKept == Spec => ResumeKept
<1>1. TypeInv /\ StepsInv /\ WaitInv /\ [Next]_vars =>
        [\A w \in Workers :
           LET rec == stepRuns[local[w].id]
               resume == local[w].resume
           IN StartsHandler(w) /\ Undisturbed /\ rec.waitFor # None =>
                /\ resume.waitFor = rec.waitFor
                /\ \/ resume.payload = rec.waitPayload
                   \/ rec.status = "WAITING" /\ resume.wakeAt /\ resume.payload = 0]_vars
  <2> SUFFICES ASSUME TypeInv, StepsInv, WaitInv, Next, NEW w \in Workers, StartsHandler(w), Undisturbed,
                      stepRuns[local[w].id].waitFor # None
               PROVE  ToldOf(local[w].resume, stepRuns[local[w].id])
    BY DEF ToldOf
  <2>1. StartHandler(w) /\ pc[w] = "handler"
    BY OnlyStartHandlerStarts, AtHandlerStart
  <2>2. run.status # "ABSENT"
    BY <2>1 DEF StartHandler, StartsHandler, Goto, TypeInv, TypeOK
  <2>3. WaitOK(local[w], pc[w], run, stepRuns, signals, begun)
    BY <2>1, <2>2 DEF WaitInv, InTick
  <2> QED BY <2>1, <2>3 DEF WaitOK, ResumeInHand
<1> QED BY <1>1, TypeInvHolds, StepsInvHolds, WaitInvHolds, PTL DEF Spec, ResumeKept

=============================================================================
