------------------------------ MODULE MCEngine ------------------------------
(***************************************************************************)
(* Small instances of Engine for TLC: the definitions, the handlers and    *)
(* the fault budgets the .cfg files give to its constants.                 *)
(***************************************************************************)
EXTENDS Engine, TLC

CONSTANTS a, b, approval

completed(to) == [NoResult EXCEPT !.to = to]
waiting(name, wakes) == [NoResult EXCEPT !.status = "waiting", !.name = name, !.wakes = wakes]
failed(retryable) == [NoResult EXCEPT !.status = "failed", !.retryable = retryable]
unknown == [NoResult EXCEPT !.status = "unknown"]
invalid == [NoResult EXCEPT !.status = "invalid"]

\* Workers are interchangeable; used where no liveness is checked.
WorkerSymmetry == Permutations(Workers)

\* Budgets: every fault is off unless the named record switches it on.
Budget(b1) == [f \in Faults |-> IF f \in DOMAIN b1 THEN b1[f] ELSE 0]

\* a -> b, b is the end.
LineSteps == {a, b}
LineEdges == (a :> {b}) @@ (b :> {})
LineFallback == (a :> b) @@ (b :> None)
TwoAttempts == (a :> 2) @@ (b :> 1)

\* crash: a may be repeated or go to the end step b, and no transition matches
\* when its output selects neither; every way an attempt can fail occurs.
LoopEdges == (a :> {a, b}) @@ (b :> {})
LoopFallback == (a :> None) @@ (b :> None)
CrashBehaviour ==
  [sr \in {a, b} \X BOOLEAN |->
     IF sr[1] = a THEN {completed(a), completed(b), completed(None), failed(TRUE), failed(FALSE)}
     ELSE {completed(None), unknown, invalid}]
CrashBudgets == {Budget([crash |-> 1, throw |-> 1, reconcile |-> 1])}

\* doc_signal: two gates that wait for the same signal, the second with a
\* deadline; the first may fail once after it was woken.
GateBehaviour ==
  [sr \in {a, b} \X BOOLEAN |->
     IF ~sr[2] THEN {waiting(approval, sr[1] = b)}
     ELSE IF sr[1] = a THEN {completed(b), failed(TRUE)} ELSE {completed(None)}]
GateSendable == {<<approval, None>>, <<approval, b>>}

\* doc_cancel: every step completes at once.
LineBehaviour ==
  [sr \in {a, b} \X BOOLEAN |-> IF sr[1] = a THEN {completed(b)} ELSE {completed(None)}]

\* live: as above, but the first step may also complete without waiting, so
\* that a run ends when nobody sends anything.
LiveBehaviour ==
  [sr \in {a, b} \X BOOLEAN |->
     GateBehaviour[sr] \cup IF sr = <<a, FALSE>> THEN {completed(b)} ELSE {}]
LiveBudgets == {Budget([signal |-> 2, crash |-> 1]), Budget([leaseLoss |-> 1, crash |-> 1]),
                Budget([leaseLoss |-> 1, prune |-> 1]), Budget([cancel |-> 1, prune |-> 1])}

\* doc_resume: the first step waits with a deadline and may fail once woken.
ResumeBehaviour ==
  [sr \in {a, b} \X BOOLEAN |->
     IF sr[1] = b THEN {completed(None)}
     ELSE IF sr[2] THEN {completed(b), failed(TRUE)} ELSE {waiting(approval, TRUE)}]

\* Budgets of the runs that refute a sentence of the documentation.
CancelBudgets == {Budget([cancel |-> 1])}
OneCrashBudgets == {Budget([crash |-> 1])}
OneSignalBudgets == {Budget([signal |-> 1])}
LostSignalBudgets == {Budget([signal |-> 1, crash |-> 1])}
=============================================================================
