---------------------------- MODULE MemoryStorage ----------------------------
(***************************************************************************)
(* src/src/storage/memory.ts: the Maps and index lists that stand in for   *)
(* the tables of Postgres.  A method has no await in it, so one call is    *)
(* one action.  A Map from ids is a function that is None where the Map    *)
(* has no entry; #state.runs, whose insertion order is read, is a sequence.*)
(* The rows, the calls and their parameters are those of module Tables.    *)
(***************************************************************************)
EXTENDS Runtime, Sublists, SequencesExt

CONSTANTS
  RunIds, StepRunIds, SignalIds, EventIds, Keys, Owners, Times, LeaseMs, Limits,
  StepNames, SignalNames,
  NewRuns, RunPatches, NewStepRuns, StepRunPatches, NewSignals, NewEvents,
  MaxSeq,          \* bound: signals ever appended
  None

\* The columns WorkflowRunPatch and StepRunPatch may set, and the rows.  The columns of a
\* lease are written by claimDue, renewLease and releaseLease only.
RunColumns ==
  [status |-> RunStatus \ {"ABSENT"}, wakeAt |-> Nat \cup {None},
   currentStepRunId |-> StepRunIds \cup {None}, completedAt |-> Nat \cup {None}]

StepColumns ==
  [key |-> Keys, visit |-> Nat, waitFor |-> SignalNames \cup {None},
   waitSinceSeq |-> Nat \cup {None}, waitPayload |-> {None, "object", "text"}]

RunRow ==
  [id : RunIds, createdAt : Nat, status : RunColumns.status, wakeAt : RunColumns.wakeAt,
   currentStepRunId : RunColumns.currentStepRunId, completedAt : RunColumns.completedAt,
   leaseOwner : Owners \cup {None}, leaseExpiresAt : Nat \cup {None}]

StepRow ==
  [id : StepRunIds, runId : RunIds, stepId : StepNames, key : StepColumns.key,
   visit : StepColumns.visit, waitFor : StepColumns.waitFor,
   waitSinceSeq : StepColumns.waitSinceSeq, waitPayload : StepColumns.waitPayload]

NewSignal == [id : SignalIds, runId : RunIds, name : SignalNames,
              stepId : StepNames \cup {None}, createdAt : Nat]

SignalRow == [id : SignalIds, runId : RunIds, name : SignalNames,
              stepId : StepNames \cup {None}, createdAt : Nat, seq : Nat, consumed : BOOLEAN]

EventRow == [id : EventIds, runId : RunIds]

IsPatch(patch, columns) ==
  DOMAIN patch \subseteq DOMAIN columns /\ \A f \in DOMAIN patch : patch[f] \in columns[f]

\* The idempotency keys a step run is created with or patched to.
KeysOf(x) == {new.key : new \in {n \in NewStepRuns : n.id = x}}
             \cup {patch.key : patch \in {p \in StepRunPatches[x] : "key" \in DOMAIN p}}

\* What callers pass: rows and patches of these types, a run without a lease (start in
\* engine.ts), and no patch to a key that another step run may have: a key names the run,
\* the step and the visit of its step run, and the engine patches none.
ASSUME StorageAssumption ==
  /\ LeaseMs \in Nat /\ Times \subseteq Nat /\ Limits \subseteq Nat /\ MaxSeq \in Nat
  /\ \A run \in NewRuns : run \in RunRow /\ run.leaseOwner = None /\ run.leaseExpiresAt = None
  /\ NewStepRuns \subseteq StepRow
  /\ NewSignals \subseteq NewSignal
  /\ NewEvents \subseteq EventRow
  /\ \A id \in RunIds : \A patch \in RunPatches[id] : IsPatch(patch, RunColumns)
  /\ \A x \in StepRunIds : \A patch \in StepRunPatches[x] :
       /\ IsPatch(patch, StepColumns)
       /\ "key" \in DOMAIN patch => \A y \in StepRunIds \ {x} : patch.key \notin KeysOf(y)
  /\ None \notin Nat \cup Owners \cup StepRunIds \cup EventIds \cup StepRow \cup SignalRow \cup EventRow

\* The visits a step run created as `new` may have.
VisitsOf(new) ==
  {new.visit} \cup {patch.visit : patch \in {p \in StepRunPatches[new.id] : "visit" \in DOMAIN p}}

\* buildIdempotencyKey: two step runs of one visit of a step have one key.
ASSUME VisitAssumption ==
  \A new, other \in NewStepRuns :
    /\ new.id # other.id
    /\ new.runId = other.runId /\ new.stepId = other.stepId
    /\ VisitsOf(new) \cap VisitsOf(other) # {}
    => \A k \in KeysOf(new.id), l \in KeysOf(other.id) : k = l

VARIABLES
  runs,               \* the rows in the order they were set
  stepRuns, signals, events,                 \* id -> row
  stepRunByKey,       \* idempotency key -> step run id
  stepRunsByRun, signalsByRun, eventsByRun,  \* run id -> ids in insertion order
  signalWatermark,    \* run id -> seq of the signal appended last
  signalSeq,
  reply               \* what the last call told its caller

stepVars == <<stepRuns, stepRunByKey, stepRunsByRun>>
signalVars == <<signals, signalsByRun, signalWatermark, signalSeq>>
eventVars == <<events, eventsByRun>>
vars == <<runs, stepVars, signalVars, eventVars, reply>>

Init ==
  /\ runs = << >>
  /\ stepRuns = [x \in StepRunIds |-> None]
  /\ signals = [s \in SignalIds |-> None]
  /\ events = [e \in EventIds |-> None]
  /\ stepRunByKey = [k \in Keys |-> None]
  /\ stepRunsByRun = [r \in RunIds |-> << >>]
  /\ signalsByRun = [r \in RunIds |-> << >>]
  /\ eventsByRun = [r \in RunIds |-> << >>]
  /\ signalWatermark = [r \in RunIds |-> 0]
  /\ signalSeq = 0
  /\ reply = "ok"

HasRun(r) == \E i \in DOMAIN runs : runs[i].id = r

\* The rows of a list of ids, without the ids that have none.
Get(map, ids) ==
  Keep([i \in DOMAIN ids |-> map[ids[i]]], {i \in DOMAIN ids : map[ids[i]] # None})

\* { ...current, ...patch }
Merge(row, patch) == [f \in DOMAIN row |-> IF f \in DOMAIN patch THEN patch[f] ELSE row[f]]

SetRow(id, patch) ==
  runs' = [i \in DOMAIN runs |-> IF runs[i].id = id THEN Merge(runs[i], patch) ELSE runs[i]]

Answer(what) == reply' = what /\ UNCHANGED <<runs, stepVars, signalVars, eventVars>>

\* .sort(byCreatedAt): the sort keeps the insertion order of equals.
ByCreatedAt(i, j) ==
  \/ runs[i].createdAt < runs[j].createdAt
  \/ runs[i].createdAt = runs[j].createdAt /\ i < j

Sorted(where) ==
  CHOOSE s \in [1..Cardinality(where) -> where] :
    \A m, n \in DOMAIN s : m < n => ByCreatedAt(s[m], s[n])

\* .sort(byCreatedAt).slice(0, limit)
Sliced(where, limit) ==
  LET sorted == Sorted(where)
  IN  {runs[sorted[k]].id : k \in {n \in DOMAIN sorted : n <= limit}}

-----------------------------------------------------------------------------
\* MemoryRunStore
CreateRun(run) ==
  IF HasRun(run.id)
    THEN Answer("conflict")
    ELSE /\ runs' = Append(runs, run)
         /\ reply' = "ok"
         /\ UNCHANGED <<stepVars, signalVars, eventVars>>

UpdateRun(id, patch) ==
  /\ SetRow(id, patch)
  /\ reply' = "ok"
  /\ UNCHANGED <<stepVars, signalVars, eventVars>>

Eligible(signal, wait) ==
  ~signal.consumed /\ IsSignalEligible(signal, signal.seq, wait, None)

HasPendingSignal(run) ==
  /\ run.status = "WAITING"
  /\ run.currentStepRunId # None
  /\ LET active == stepRuns[run.currentStepRunId]
     IN  /\ active # None /\ active.waitFor # None
         /\ \E s \in Range(Get(signals, signalsByRun[run.id])) : Eligible(s, active)

WakeAtOf(run, at) ==
  CASE run.wakeAt = None -> "none" [] run.wakeAt # None -> IF run.wakeAt <= at THEN "due" ELSE "pending"

\* MutExpired hands out a lease at the moment it still holds.
MutExpired(run, at) == run.leaseExpiresAt = None \/ run.leaseExpiresAt <= at

Expired(run, at) == run.leaseExpiresAt = None \/ run.leaseExpiresAt < at

Due(run, at) ==
  /\ run.status \in CLAIMABLE_RUN_STATUSES
  /\ Expired(run, at)
  /\ \/ IsRunDue([status |-> run.status, wakeAt |-> WakeAtOf(run, at)])
     \/ HasPendingSignal(run)

ClaimDue(owner, at, limit) ==
  LET due == Sliced({i \in DOMAIN runs : Due(runs[i], at)}, limit)
  IN  /\ runs' = [i \in DOMAIN runs |->
                    IF runs[i].id \in due
                      THEN Merge(runs[i], [leaseOwner |-> owner, leaseExpiresAt |-> at + LeaseMs])
                      ELSE runs[i]]
      /\ reply' = IF due = {} THEN "no" ELSE "ok"
      /\ UNCHANGED <<stepVars, signalVars, eventVars>>

\* MutHolds renews for anybody.
MutHolds(id, owner) == HasRun(id)

Holds(id, owner) == \E i \in DOMAIN runs : runs[i].id = id /\ runs[i].leaseOwner = owner

RenewLease(id, owner, at) ==
  IF ~Holds(id, owner)
    THEN Answer("no")
    ELSE /\ SetRow(id, [leaseExpiresAt |-> at + LeaseMs])
         /\ reply' = "ok"
         /\ UNCHANGED <<stepVars, signalVars, eventVars>>

ReleaseLease(id, owner) ==
  IF ~Holds(id, owner)
    THEN Answer("ok")
    ELSE /\ SetRow(id, [leaseOwner |-> None, leaseExpiresAt |-> None])
         /\ reply' = "ok"
         /\ UNCHANGED <<stepVars, signalVars, eventVars>>

\* #deleteRun for every victim: the rows its lists name, their keys, the lists.
Emptied(lists, victims) == [r \in RunIds |-> IF r \in victims THEN << >> ELSE lists[r]]

Named(lists, victims) == UNION {Range(lists[r]) : r \in RunIds \cap victims}

\* Deleting from a Map keeps the order of the rest.
RunsWithout(victims) == Keep(runs, {i \in DOMAIN runs : runs[i].id \notin victims})

\* MutKeysWithout leaves the keys of the deleted step runs in the index.
MutKeysWithout(gone) == stepRunByKey

KeysWithout(gone) ==
  [k \in Keys |-> IF \E x \in gone : stepRuns[x] # None /\ stepRuns[x].key = k
                    THEN None ELSE stepRunByKey[k]]

DeleteTerminalBefore(before, limit) ==
  LET victims == Sliced({i \in DOMAIN runs : /\ IsTerminalRunStatus(runs[i].status)
                                             /\ runs[i].completedAt # None
                                             /\ runs[i].completedAt < before}, limit)
      steps == Named(stepRunsByRun, victims)
      sent  == Named(signalsByRun, victims)
      log   == Named(eventsByRun, victims)
  IN  /\ runs' = RunsWithout(victims)
      /\ stepRunByKey' = KeysWithout(steps)
      /\ stepRuns' = [x \in StepRunIds |-> IF x \in steps THEN None ELSE stepRuns[x]]
      /\ signals' = [s \in SignalIds |-> IF s \in sent THEN None ELSE signals[s]]
      /\ events' = [e \in EventIds |-> IF e \in log THEN None ELSE events[e]]
      /\ stepRunsByRun' = Emptied(stepRunsByRun, victims)
      /\ signalsByRun' = Emptied(signalsByRun, victims)
      /\ eventsByRun' = Emptied(eventsByRun, victims)
      /\ signalWatermark' = [r \in RunIds |-> IF r \in victims THEN 0 ELSE signalWatermark[r]]
      /\ reply' = IF victims = {} THEN "no" ELSE "ok"
      /\ UNCHANGED signalSeq

-----------------------------------------------------------------------------
\* MemoryStepRunStore
CreateStepRun(new) ==
  IF ~HasRun(new.runId) \/ stepRuns[new.id] # None \/ stepRunByKey[new.key] # None
    THEN Answer("conflict")
    ELSE /\ stepRuns' = [stepRuns EXCEPT ![new.id] = new]
         /\ stepRunByKey' = [stepRunByKey EXCEPT ![new.key] = new.id]
         /\ stepRunsByRun' = [stepRunsByRun EXCEPT ![new.runId] = Append(@, new.id)]
         /\ reply' = "ok"
         /\ UNCHANGED <<runs, signalVars, eventVars>>

\* A key that changes moves its entry of the index; no caller patches it to a key in use.
UpdateStepRun(id, patch) ==
  IF stepRuns[id] = None
    THEN Answer("ok")
    ELSE /\ stepRuns' = [stepRuns EXCEPT ![id] = Merge(@, patch)]
         /\ stepRunByKey' = IF "key" \in DOMAIN patch /\ patch.key # stepRuns[id].key
                              THEN [stepRunByKey EXCEPT ![stepRuns[id].key] = None,
                                                        ![patch.key] = id]
                              ELSE stepRunByKey
         /\ reply' = "ok"
         /\ UNCHANGED <<runs, stepRunsByRun, signalVars, eventVars>>

GetByIdempotencyKey(k) ==
  IF stepRunByKey[k] = None THEN None ELSE stepRuns[stepRunByKey[k]]

\* The latest so far gives way to a higher visit only: the first of the highest.
FindLatest(r, stepId) ==
  LET rows    == Get(stepRuns, stepRunsByRun[r])
      ofStep  == {i \in DOMAIN rows : rows[i].stepId = stepId}
      highest == {i \in ofStep : \A j \in ofStep : rows[j].visit <= rows[i].visit}
  IN  IF ofStep = {} THEN None ELSE rows[Min(highest)]

-----------------------------------------------------------------------------
\* MemorySignalStore.

AppendSignal(new) ==
  IF ~HasRun(new.runId) \/ signals[new.id] # None
    THEN Answer("conflict")
    ELSE /\ signalSeq < MaxSeq
         /\ signalSeq' = signalSeq + 1
         /\ signals' = [signals EXCEPT ![new.id] =
              [id |-> new.id, runId |-> new.runId, name |-> new.name, stepId |-> new.stepId,
               createdAt |-> new.createdAt, seq |-> signalSeq + 1, consumed |-> FALSE]]
         /\ signalsByRun' = [signalsByRun EXCEPT ![new.runId] = Append(@, new.id)]
         /\ signalWatermark' = [signalWatermark EXCEPT ![new.runId] = signalSeq + 1]
         /\ reply' = "ok"
         /\ UNCHANGED <<runs, stepVars, eventVars>>

Watermark(r) == signalWatermark[r]

ConsumeNext(wait) ==
  LET ids     == signalsByRun[wait.runId]
      matches == {i \in DOMAIN ids : signals[ids[i]] # None /\ Eligible(signals[ids[i]], wait)}
  IN  IF matches = {}
        THEN Answer("no")
        ELSE /\ signals' = [signals EXCEPT ![ids[Min(matches)]].consumed = TRUE]
             /\ reply' = "ok"
             /\ UNCHANGED <<runs, stepVars, signalsByRun, signalWatermark, signalSeq, eventVars>>

CountPending(r) ==
  Cardinality({i \in DOMAIN signalsByRun[r] :
                 signals[signalsByRun[r][i]] # None /\ ~signals[signalsByRun[r][i]].consumed})

-----------------------------------------------------------------------------
\* MemoryEventStore
AppendEvent(new) ==
  IF ~HasRun(new.runId) \/ events[new.id] # None
    THEN Answer("conflict")
    ELSE /\ events' = [events EXCEPT ![new.id] = new]
         /\ eventsByRun' = [eventsByRun EXCEPT ![new.runId] = Append(@, new.id)]
         /\ reply' = "ok"
         /\ UNCHANGED <<runs, stepVars, signalVars>>

\* One page of a run's events: the rows after the cursor, at most limit of them; a cursor
\* that no event of the run has is refused.  MutPage starts again with the cursor itself.
Cursor(all, after) == {i \in DOMAIN all : all[i].id = after}

PageRefused(r, after) == after # None /\ Cursor(Get(events, eventsByRun[r]), after) = {}

MutPage(r, after, limit) ==
  LET all  == Get(events, eventsByRun[r])
      from == IF after = None THEN 1 ELSE Min(Cursor(all, after))
  IN  SubSeq(all, from, Min({Len(all), from + limit - 1}))

Page(r, after, limit) ==
  LET all  == Get(events, eventsByRun[r])
      from == IF after = None THEN 1 ELSE Min(Cursor(all, after)) + 1
  IN  SubSeq(all, from, Min({Len(all), from + limit - 1}))

-----------------------------------------------------------------------------
\* An assumption about callers, of whose clocks the code asks nothing: Postgres consumes
\* by created_at, so the two adapters agree only as long as the stamps of one run's
\* signals grow in the order of arrival.
InClockOrder(new) ==
  signals[new.id] = None =>
    \A s \in Range(Get(signals, signalsByRun[new.runId])) : s.createdAt <= new.createdAt

Next ==
  \/ \E run \in NewRuns : CreateRun(run)
  \/ \E id \in RunIds : \E patch \in RunPatches[id] : UpdateRun(id, patch)
  \/ \E owner \in Owners, at \in Times, limit \in Limits : ClaimDue(owner, at, limit)
  \/ \E id \in RunIds, owner \in Owners, at \in Times : RenewLease(id, owner, at)
  \/ \E id \in RunIds, owner \in Owners : ReleaseLease(id, owner)
  \/ \E before \in Times, limit \in Limits : DeleteTerminalBefore(before, limit)
  \/ \E new \in NewStepRuns : CreateStepRun(new)
  \/ \E id \in StepRunIds : \E patch \in StepRunPatches[id] : UpdateStepRun(id, patch)
  \/ \E new \in NewSignals : InClockOrder(new) /\ AppendSignal(new)
  \/ \E x \in StepRunIds : /\ stepRuns[x] # None /\ stepRuns[x].waitFor # None
                           /\ ConsumeNext(stepRuns[x])
  \/ \E new \in NewEvents : AppendEvent(new)

Spec == Init /\ [][Next]_vars

-----------------------------------------------------------------------------
\* The rows, counters and ids are what they are taken for, and a lease has an owner
\* exactly as long as it has an end.
TypeOK ==
  /\ runs \in Seq(RunRow)
  /\ \A i \in DOMAIN runs : runs[i].leaseOwner = None <=> runs[i].leaseExpiresAt = None
  /\ stepRuns \in [StepRunIds -> StepRow \cup {None}]
  /\ signals \in [SignalIds -> SignalRow \cup {None}]
  /\ events \in [EventIds -> EventRow \cup {None}]
  /\ stepRunByKey \in [Keys -> StepRunIds \cup {None}]
  /\ stepRunsByRun \in [RunIds -> Seq(StepRunIds)]
  /\ signalsByRun \in [RunIds -> Seq(SignalIds)]
  /\ eventsByRun \in [RunIds -> Seq(EventIds)]
  /\ signalSeq \in Nat /\ signalWatermark \in [RunIds -> 0..signalSeq]
  /\ reply \in {"ok", "no", "conflict"}

\* map holds a row exactly for the ids the lists name, under its own id and run, no id is
\* named twice, and the run of a list that names something exists.
ListsAgree(map, lists) ==
  /\ \A r \in RunIds : /\ IsInjective(lists[r])
                       /\ lists[r] # << >> => HasRun(r)
                       /\ \A x \in Range(lists[r]) : map[x] # None /\ map[x].runId = r
  /\ \A x \in DOMAIN map : map[x] # None =>
       map[x].id = x /\ map[x].runId \in RunIds /\ x \in Range(lists[map[x].runId])

KeyIndexAgrees ==
  /\ \A k \in Keys : stepRunByKey[k] # None =>
       stepRuns[stepRunByKey[k]] # None /\ stepRuns[stepRunByKey[k]].key = k
  /\ \A x \in StepRunIds : stepRuns[x] # None => stepRunByKey[stepRuns[x].key] = x

SignalsInOrder ==
  \A r \in RunIds : LET ids == signalsByRun[r] IN
    /\ \A i, j \in DOMAIN ids : i < j => signals[ids[i]].seq < signals[ids[j]].seq
    /\ signalWatermark[r] = IF ids = << >> THEN 0 ELSE signals[Last(ids)].seq

\* The Maps and index lists that stand in for foreign keys, UNIQUE and ORDER BY never
\* contradict each other: no dangling id, no row outside its list, no key that is taken
\* by a row that is gone or that names another row, no row without its run; and a
\* run's watermark is the highest seq of its signals, which are listed by seq.
IndexesAgree ==
  /\ \A i, j \in DOMAIN runs : runs[i].id = runs[j].id => i = j
  /\ ListsAgree(stepRuns, stepRunsByRun)
  /\ ListsAgree(signals, signalsByRun)
  /\ ListsAgree(events, eventsByRun)
  /\ KeyIndexAgrees
  /\ SignalsInOrder

-----------------------------------------------------------------------------
\* The tables these Maps stand in for.
TableOf(map, lists) == [r \in RunIds |-> Get(map, lists[r])]

Postgres ==
  INSTANCE Tables WITH
    stepRuns <- TableOf(stepRuns, stepRunsByRun),
    signals  <- TableOf(signals, signalsByRun),
    events   <- TableOf(events, eventsByRun),
    lastSeq  <- signalSeq

\* Every call leaves the rows, and gives the answer, that the SQL statement of the
\* Postgres adapter would: memory.ts:63 says the two must not differ, or else the tests
\* that run on memory deceive themselves.
SameAsPostgres == Postgres!Spec

AsSet(row) == IF row = None THEN {} ELSE {row}

\* Whatever was created, updated, consumed and deleted before, the reads agree as well:
\* the row of a key, the latest visit of a step, the watermark a wait starts from, the
\* signals not consumed yet, and every page of the audit log.
ReadsAgree ==
  /\ \A k \in Keys : AsSet(GetByIdempotencyKey(k)) = Postgres!GetByIdempotencyKey(k)
  /\ \A r \in RunIds :
       /\ \A step \in StepNames : AsSet(FindLatest(r, step)) = Postgres!FindLatest(r, step)
       /\ Watermark(r) = Postgres!Watermark(r)
       /\ CountPending(r) = Postgres!CountPending(r)
       /\ \A after \in EventIds \cup {None} :
            /\ PageRefused(r, after) <=> Postgres!PageRefused(r, after)
            /\ ~PageRefused(r, after) => \A limit \in Limits :
                 Range(Page(r, after, limit)) = Postgres!Page(r, after, limit)
=============================================================================
