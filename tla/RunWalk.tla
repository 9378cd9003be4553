------------------------------- MODULE RunWalk -------------------------------
(***************************************************************************)
(* What the engine promises about a run, with no workers, leases, crashes  *)
(* or storage in sight: the run walks the graph of its definition one step *)
(* visit at a time, merges the patch of a visit into its context exactly   *)
(* when it leaves the step, and changes status only along the edges of the *)
(* run state machine.  MCEngine checks that module Engine implements it.   *)
(***************************************************************************)
EXTENDS Naturals

CONSTANTS Steps, Start, Edges, None

VARIABLES status,   \* the status of the run
          stepId,   \* the step it stands on, None once it has completed
          context   \* the step visits merged into the context so far

walkVars == <<status, stepId, context>>

Moving == {"RUNNING", "RETRYING"}

WalkInit == status = "CREATED" /\ stepId = Start /\ context = {}

\* The patch of the visit in hand is merged: a visit never merged before, and
\* the next one of its step.
Merges ==
  \E key \in context' \ context :
    /\ context' = context \cup {key}
    /\ key[1] = stepId
    /\ key[2] = 1 \/ <<stepId, key[2] - 1>> \in context

Stays == UNCHANGED <<stepId, context>>

WalkBegin == status = "CREATED" /\ status' = "RUNNING" /\ Stays

\* A wait is over; it may have begun while the row still said RETRYING, when a
\* crash fell between recording the wait and parking the run.
WalkWake == status \in {"WAITING", "RETRYING"} /\ status' = "RUNNING" /\ Stays

WalkSuspend == status \in Moving /\ status' \in {"WAITING", "RETRYING"} /\ Stays

WalkFail == status \in Moving /\ status' = "FAILED" /\ Stays

WalkAdvance ==
  /\ status \in Moving
  /\ status' = "RUNNING"
  /\ stepId' \in Edges[stepId]
  /\ Merges

WalkFinish ==
  /\ status \in Moving
  /\ Edges[stepId] = {}
  /\ status' = "COMPLETED"
  /\ stepId' = None
  /\ Merges

\* A failed run is reopened or abandoned by a reconciliation, and only then.
WalkReconcile == status = "FAILED" /\ status' \in {"RUNNING", "CANCELLED"} /\ Stays

\* A run that has ended for good may be pruned.
WalkPrune ==
  /\ status \in {"COMPLETED", "CANCELLED"}
  /\ status' = "ABSENT"
  /\ stepId' = None
  /\ context' = {}

WalkNext ==
  \/ WalkBegin \/ WalkWake \/ WalkSuspend \/ WalkFail
  \/ WalkAdvance \/ WalkFinish \/ WalkReconcile \/ WalkPrune

WalkSpec == WalkInit /\ [][WalkNext]_walkVars
=============================================================================
