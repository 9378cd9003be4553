------------------------------ MODULE MCStorage ------------------------------
(***************************************************************************)
(* Small instances of MemoryStorage for TLC: two runs created in either    *)
(* order of their timestamps, two step runs that may collide on a key, a   *)
(* directed and an undirected signal, two audit events.                    *)
(***************************************************************************)
EXTENDS MemoryStorage

CONSTANT MaxRows  \* bound: step runs and signals at one time

CONSTANTS r1, r2, x, y, s1, s2, e1, e2, k1, k2, k3, w1, w2

NewRun(id, createdAt) ==
  [id |-> id, createdAt |-> createdAt, status |-> "CREATED", wakeAt |-> None,
   leaseOwner |-> None, leaseExpiresAt |-> None, currentStepRunId |-> None,
   completedAt |-> None]

TwoRuns == {NewRun(r1, 2), NewRun(r2, 1)}

\* r1 parks with x until 3, both complete at 1.
Patches ==
  [id \in {r1, r2} |->
     {[status |-> "COMPLETED", wakeAt |-> None, currentStepRunId |-> None, completedAt |-> 1]}
       \cup IF id = r1 THEN {[status |-> "WAITING", wakeAt |-> 3, currentStepRunId |-> x]}
                       ELSE {}]

GateRow(id, run, key, visit, sinceSeq) ==
  [id |-> id, runId |-> run, stepId |-> "gate", key |-> key, visit |-> visit,
   waitFor |-> "go", waitSinceSeq |-> sinceSeq, waitPayload |-> None]

\* y is the next visit of the gate, under the key of x, or belongs to the other run.
StepRows == {GateRow(x, r1, k1, 1, 0), GateRow(y, r1, k1, 2, 1), GateRow(y, r2, k2, 1, 0)}

\* x stops waiting with the payload of a signal, under another key.
ObjectPatches ==
  [id \in {x, y} |->
     IF id = x THEN {[visit |-> 1, waitFor |-> None, waitPayload |-> "object", key |-> k3]} ELSE {}]

TextPatches == [id \in {x, y} |-> {[waitPayload |-> "object"], [waitPayload |-> "text"]}]

GoRow(id, run, stepId, createdAt) ==
  [id |-> id, runId |-> run, name |-> "go", stepId |-> stepId, createdAt |-> createdAt]

SignalRows == {GoRow(s1, r1, None, 2), GoRow(s2, r1, "gate", 2)}

\* The audit log shares nothing with step runs and signals but their run.
Present(map) == Cardinality({i \in DOMAIN map : map[i] # None})

AtMostMaxRows ==
  /\ Present(stepRuns) + Present(signals) <= MaxRows
  /\ Present(events) > 0 => Present(stepRuns) + Present(signals) = 0

Symmetry == Permutations({w1, w2}) \cup Permutations({e1, e2})

EventRows == {[id |-> e1, runId |-> r1], [id |-> e2, runId |-> r1]}
=============================================================================
