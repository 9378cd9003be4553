----------------------------- MODULE WorkerLoop -----------------------------
(***************************************************************************)
(* WorkflowWorker and its Scheduler: a chain of timers polls the database, *)
(* every poll claims a batch of runs and processes them side by side, and  *)
(* stop() and drain() are how a process takes leave.                       *)
(*                                                                         *)
(* What processing does to a run is module Engine; here a run is claimable *)
(* or not, leased to this worker or not.  A chain is one setTimeout after  *)
(* the other, each armed when the tick of the one before has ended.        *)
(***************************************************************************)
EXTENDS Naturals, FiniteSets

CONSTANTS
  Runs,         \* the runs in the database
  Concurrency,  \* how many runs a tick claims at most
  MaxChains,    \* bound: chains of timers at one time
  MaxErrors     \* bound: claims and releases that throw

ASSUME LoopAssumption ==
  /\ IsFiniteSet(Runs)
  /\ Concurrency \in Nat \ {0}
  /\ MaxChains \in Nat \ {0}
  /\ MaxErrors \in Nat

VARIABLES
  running,    \* #running of the scheduler
  timer,      \* the chain whose timer #timer is, 0 when null
  chain,      \* where each chain is in its tick
  batch,      \* the runs the tick of each chain waits for
  due,        \* the runs claimDue would return
  leased,     \* the runs leased to this worker
  inFlight,   \* #inFlight: the runs being processed
  ended,      \* those of them whose engine.tick has ended, and release is under way
  drain,      \* is a call of drain() waiting, and has one returned since the start?
  errors,     \* how many claims and releases threw
  restarted,  \* history: start() was called while a tick was under way
  late        \* history: drain() returned while a claim was under way

vars == <<running, timer, chain, batch, due, leased, inFlight, ended, drain, errors,
          restarted, late>>

Chains == 1..MaxChains

TypeOK ==
  /\ running \in BOOLEAN
  /\ timer \in 0..MaxChains
  /\ chain \in [Chains -> {"none", "armed", "claiming", "processing"}]
  /\ batch \in [Chains -> SUBSET Runs]
  /\ due \in SUBSET Runs
  /\ leased \in SUBSET Runs
  /\ inFlight \in SUBSET Runs
  /\ ended \in SUBSET Runs
  /\ drain \in {"no", "waiting", "returned"}
  /\ errors \in Nat
  /\ restarted \in BOOLEAN
  /\ late \in BOOLEAN

Ticking(ch) == chain[ch] \in {"claiming", "processing"}

-----------------------------------------------------------------------------
(* The scheduler *)

\* #schedule, at the end of a tick: arm the next timer unless stop() was called.
\* MutScheduleAlways does not look at #running, MutScheduleIdle has a state of
\* its own for a chain that ended.
MutScheduleIdle(ch) ==
  /\ chain' = [chain EXCEPT ![ch] = IF running THEN "armed" ELSE "idle"]
  /\ timer' = IF running THEN ch ELSE timer

MutScheduleAlways(ch) ==
  /\ chain' = [chain EXCEPT ![ch] = "armed"]
  /\ timer' = ch

Schedule(ch) ==
  /\ chain' = [chain EXCEPT ![ch] = IF running THEN "armed" ELSE "none"]
  /\ timer' = IF running THEN ch ELSE timer

\* MutCanStart forgets that the scheduler is running.
MutCanStart == TRUE

CanStart == ~running

Start ==
  /\ CanStart
  /\ running' = TRUE
  /\ \E ch \in Chains :
       /\ chain[ch] = "none"
       /\ \A other \in 1..(ch - 1) : chain[other] # "none"
       /\ chain' = [chain EXCEPT ![ch] = "armed"]
       /\ timer' = ch
  /\ restarted' = (restarted \/ \E ch \in Chains : Ticking(ch))
  /\ drain' = IF drain = "returned" THEN "no" ELSE drain
  /\ UNCHANGED <<batch, due, leased, inFlight, ended, errors, late>>

Stop ==
  /\ running
  /\ running' = FALSE
  /\ chain' = [ch \in Chains |-> IF ch = timer /\ chain[ch] = "armed" THEN "none" ELSE chain[ch]]
  /\ timer' = 0
  /\ UNCHANGED <<batch, due, leased, inFlight, ended, drain, errors, restarted, late>>

\* The timer fires: WorkflowWorker.tick asks for runs.
Fire(ch) ==
  /\ chain[ch] = "armed"
  /\ chain' = [chain EXCEPT ![ch] = "claiming"]
  /\ UNCHANGED <<running, timer, batch, due, leased, inFlight, ended, drain, errors, restarted, late>>

-----------------------------------------------------------------------------
(* The tick of the worker *)

\* claimDue returns as many runs as are due, up to the concurrency.
Batches ==
  {S \in SUBSET due : /\ Cardinality(S) <= Concurrency
                      /\ S # due => Cardinality(S) = Concurrency}

\* Every claimed run is processed; a tick without any ends at once.
Claim(ch) ==
  /\ chain[ch] = "claiming"
  /\ \E S \in Batches :
       /\ due' = due \ S
       /\ leased' = leased \cup S
       /\ inFlight' = inFlight \cup S
       /\ batch' = [batch EXCEPT ![ch] = S]
       /\ IF S = {} THEN Schedule(ch)
          ELSE /\ chain' = [chain EXCEPT ![ch] = "processing"]
               /\ UNCHANGED timer
  /\ UNCHANGED <<running, ended, drain, errors, restarted, late>>

\* What follows a tick that threw; MutErrorEndsChain lets it end the chain.
MutErrorEndsChain(ch) ==
  /\ chain' = [chain EXCEPT ![ch] = "none"]
  /\ UNCHANGED timer

AfterError(ch) == Schedule(ch)

ClaimThrows(ch) ==
  /\ chain[ch] = "claiming"
  /\ errors < MaxErrors
  /\ errors' = errors + 1
  /\ AfterError(ch)
  /\ UNCHANGED <<running, batch, due, leased, inFlight, ended, drain, restarted, late>>

\* engine.tick returns or throws (failure isolation: the batch goes on either way).
TickEnds(r) ==
  /\ r \in inFlight \ ended
  /\ ended' = ended \cup {r}
  /\ UNCHANGED <<running, timer, chain, batch, due, leased, inFlight, drain, errors, restarted, late>>

\* The end of #process: the run leaves #inFlight, and with the last of its batch
\* the tick ends.
Leave(r) ==
  LET ch == CHOOSE c \in Chains : r \in batch[c]
  IN /\ inFlight' = inFlight \ {r}
     /\ ended' = ended \ {r}
     /\ batch' = [batch EXCEPT ![ch] = @ \ {r}]
     /\ IF batch[ch] = {r} THEN Schedule(ch) ELSE UNCHANGED <<chain, timer>>

Release(r) ==
  /\ r \in ended
  /\ leased' = leased \ {r}
  /\ Leave(r)
  /\ \E again \in BOOLEAN : due' = IF again THEN due \cup {r} ELSE due
  /\ UNCHANGED <<running, drain, errors, restarted, late>>

\* A release that throws is swallowed; the lease stays until it runs out.
ReleaseThrows(r) ==
  /\ r \in ended
  /\ errors < MaxErrors
  /\ errors' = errors + 1
  /\ Leave(r)
  /\ UNCHANGED <<running, due, leased, drain, restarted, late>>

-----------------------------------------------------------------------------
(* drain(), and the database *)

DrainCalled ==
  /\ drain # "waiting"
  /\ drain' = "waiting"
  /\ UNCHANGED <<running, timer, chain, batch, due, leased, inFlight, ended, errors, restarted, late>>

\* MutDrained waits for some of the runs only.
MutDrained == inFlight = {} \/ ended # {}

\* Everything in flight has settled, however often the loop had to look again.
Drained == inFlight = {}

DrainReturns ==
  /\ drain = "waiting"
  /\ Drained
  /\ drain' = "returned"
  /\ late' = (running \/ \E ch \in Chains : chain[ch] = "claiming")
  /\ UNCHANGED <<running, timer, chain, batch, due, leased, inFlight, ended, errors, restarted>>

\* A run falls due, or another worker takes it.
BecomesDue(r) ==
  /\ r \notin due \cup leased
  /\ due' = due \cup {r}
  /\ UNCHANGED <<running, timer, chain, batch, leased, inFlight, ended, drain, errors, restarted, late>>

TakenElsewhere(r) ==
  /\ r \in due
  /\ due' = due \ {r}
  /\ UNCHANGED <<running, timer, chain, batch, leased, inFlight, ended, drain, errors, restarted, late>>

\* The heartbeat renews the lease of a run that is in flight, and of no other;
\* MutRenewed never stops a heartbeat.
MutRenewed == leased

Renewed == inFlight

LeaseRunsOut(r) ==
  /\ r \in leased \ Renewed
  /\ leased' = leased \ {r}
  /\ due' = due \cup {r}
  /\ UNCHANGED <<running, timer, chain, batch, inFlight, ended, drain, errors, restarted, late>>

-----------------------------------------------------------------------------
(* The specification *)

Init ==
  /\ running = FALSE
  /\ timer = 0
  /\ chain = [ch \in Chains |-> "none"]
  /\ batch = [ch \in Chains |-> {}]
  /\ due = Runs
  /\ leased = {}
  /\ inFlight = {}
  /\ ended = {}
  /\ drain = "no"
  /\ errors = 0
  /\ restarted = FALSE
  /\ late = FALSE

Process(r) == TickEnds(r) \/ Release(r)

Next ==
  \/ Start \/ Stop \/ DrainCalled \/ DrainReturns
  \/ \E ch \in Chains : Fire(ch) \/ Claim(ch) \/ ClaimThrows(ch)
  \/ \E r \in Runs : \/ Process(r) \/ ReleaseThrows(r)
                     \/ BecomesDue(r) \/ TakenElsewhere(r) \/ LeaseRunsOut(r)

Spec == Init /\ [][Next]_vars

\* Timers fire, storage calls return, engine.tick ends (RunEnds of module Engine
\* rests on the timeouts of the handlers), leases run out.
Fairness ==
  /\ \A ch \in Chains : WF_vars(Fire(ch)) /\ WF_vars(Claim(ch))
  /\ \A r \in Runs : WF_vars(Process(r)) /\ WF_vars(LeaseRunsOut(r))
  /\ WF_vars(DrainReturns)

FairSpec == Spec /\ Fairness

-----------------------------------------------------------------------------
(* Properties *)

\* A poll does not overlap the one before, so a worker never processes more runs
\* than its concurrency: as long as nobody stopped and started it in the middle
\* of a tick, there is one chain, whatever throws.
NoOverlap ==
  ~restarted =>
    /\ \A c, d \in Chains : chain[c] # "none" /\ chain[d] # "none" => c = d
    /\ Cardinality(inFlight) <= Concurrency

\* After stop() no timer is left to fire: the tick under way is the last one.
StopIsQuiet ==
  ~running /\ ~restarted => \A ch \in Chains : chain[ch] # "armed"

\* stop() and then drain(): when drain() has returned nothing is in flight, and
\* nothing will be before the next start, unless a claim was still under way.
DrainIsGraceful ==
  drain = "returned" /\ ~running /\ ~late /\ ~restarted => inFlight = {}

\* A worker that is not stopped polls again, whatever was thrown at it.
KeepsPolling == running ~> (~running \/ \E ch \in Chains : chain[ch] = "claiming")

\* A claimed run is let go of again: no error strands its lease.
LeaseIsLetGo == \A r \in Runs : r \in leased ~> r \notin leased
=============================================================================
