------------------------------- MODULE Runtime -------------------------------
(***************************************************************************)
(* The constant-level vocabulary of src/src/runtime: the statuses of runs  *)
(* and step runs, and the pure rules that decide whether a run is due,     *)
(* whether a signal may wake a wait and whether a failed step is retried.  *)
(* A timestamp that says when to wake up is abstracted to three values:    *)
(* "none" (null), "pending" (still ahead of the clock) and "due".          *)
(***************************************************************************)
EXTENDS Naturals

TERMINAL_RUN_STATUSES == {"COMPLETED", "FAILED", "CANCELLED"}

CLAIMABLE_RUN_STATUSES == {"CREATED", "RUNNING", "RETRYING", "WAITING"}

\* "ABSENT" is a row that does not exist: never created, or already pruned.
RunStatus == TERMINAL_RUN_STATUSES \cup CLAIMABLE_RUN_STATUSES \cup {"ABSENT"}

\* The statuses the runner writes; PENDING, RUNNING and RETRYING of the type
\* StepStatus are never stored, a step run is created when its first attempt ends.
StepStatus == {"ABSENT", "COMPLETED", "WAITING", "FAILED", "UNKNOWN"}

WakeAt == {"none", "pending", "due"}

IsTerminalRunStatus(status) == status \in TERMINAL_RUN_STATUSES

\* An active run is due unless its back-off is still running; a waiting run is
\* due only when it has a deadline and the deadline has passed.
\* MutDueWithoutDeadline forgets the deadline of a back-off that has passed.
MutDueWithoutDeadline(run) ==
  IF run.status = "WAITING" THEN run.wakeAt = "due" ELSE run.wakeAt = "none"

IsRunDue(run) ==
  IF run.status = "WAITING" THEN run.wakeAt = "due" ELSE run.wakeAt # "pending"

\* A directed signal goes to the step it names, whenever it came; an undirected
\* one only to a wait registered before it was enqueued.
\* MutEligibleAnyTime lets an undirected signal wake a wait registered after it.
MutEligibleAnyTime(signal, seq, wait, none) ==
  signal.name = wait.waitFor /\ signal.stepId \in {none, wait.stepId}

IsSignalEligible(signal, seq, wait, none) ==
  /\ signal.name = wait.waitFor
  /\ IF signal.stepId # none
       THEN signal.stepId = wait.stepId
       ELSE seq > wait.waitSinceSeq

ShouldRetry(maxAttempts, failures) == failures < maxAttempts
=============================================================================
