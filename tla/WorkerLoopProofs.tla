-------------------------- MODULE WorkerLoopProofs --------------------------
(***************************************************************************)
(* Theorems about module WorkerLoop, for every set of runs, concurrency,   *)
(* number of chains and number of errors.                                  *)
(***************************************************************************)
EXTENDS WorkerLoop, FiniteSetTheorems, TLAPS

-----------------------------------------------------------------------------
(* The inductive invariant *)

\* A run in flight belongs to the batch of one chain, and a chain that has a
\* batch is processing it.
Batched ==
  /\ \A r \in Runs : r \in inFlight <=> \E ch \in Chains : r \in batch[ch]
  /\ \A ch \in Chains : batch[ch] # {} <=> chain[ch] = "processing"
  /\ \A c, d \in Chains : c # d => batch[c] \cap batch[d] = {}
  /\ ended \subseteq inFlight

\* A run in flight is leased, and a leased run is not due: no claim returns a run
\* that is in flight.
Exclusive ==
  /\ inFlight \subseteq leased
  /\ due \cap leased = {}

\* No batch is larger than the concurrency.
Bounded == \A ch \in Chains : Cardinality(batch[ch]) <= Concurrency

\* Without a restart in the middle of a tick there is one chain, and the timer it
\* waits for is the one that stop() clears.
OneChain ==
  ~restarted =>
    /\ \A c, d \in Chains : chain[c] # "none" /\ chain[d] # "none" => c = d
    /\ \A c \in Chains : chain[c] = "armed" => running /\ timer = c

\* After a graceful drain there is no chain at all.
Gone ==
  drain = "returned" /\ ~late /\ ~restarted =>
    ~running /\ \A c \in Chains : chain[c] = "none"

LoopInv == TypeOK /\ Batched /\ Exclusive /\ Bounded /\ OneChain /\ Gone

-----------------------------------------------------------------------------
(* Lemmas *)

\* A set of runs has a size, and a subset of it none larger.
LEMMA BatchSize ==
  ASSUME NEW S \in SUBSET Runs, NEW T \in SUBSET S
  PROVE  /\ Cardinality(S) \in Nat
         /\ Cardinality(T) \in Nat
         /\ Cardinality(T) <= Cardinality(S)
<1>1. IsFiniteSet(S) /\ IsFiniteSet(T)
  BY LoopAssumption, FS_Subset
<1> QED BY <1>1, FS_Subset, FS_CardinalityType

\* An empty batch is within every bound.
LEMMA NoBatch == Cardinality({}) = 0 /\ 0 <= Concurrency
  BY FS_EmptySet, LoopAssumption

\* 0 stands for a timer that is null.
LEMMA NoTimer == 0 \in 0..MaxChains
  BY LoopAssumption

\* A chain at the end of its tick goes on or ends; there is no more of them for it,
\* and none was waiting for a graceful drain to be over.
LEMMA ScheduleKeepsOneChain ==
  ASSUME TypeOK, OneChain, Gone, NEW ch \in Chains, Ticking(ch), Schedule(ch),
         UNCHANGED <<running, restarted, drain, late>>
  PROVE  /\ chain' \in [Chains -> {"none", "armed", "claiming", "processing"}]
         /\ timer' \in 0..MaxChains
         /\ OneChain'
         /\ Gone'
         /\ chain'[ch] # "processing"
         /\ \A other \in Chains : other # ch => chain'[other] = chain[other]
<1> USE DEF Schedule, Ticking, TypeOK
<1>1. chain' \in [Chains -> {"none", "armed", "claiming", "processing"}]
  OBVIOUS
<1>2. timer' \in 0..MaxChains
  BY DEF Chains
<1>3. OneChain'
  BY <1>1 DEF OneChain
<1>4. Gone'
  BY DEF Gone
<1> QED BY <1>1, <1>2, <1>3, <1>4

-----------------------------------------------------------------------------
(* The scheduler *)

\* The initial states satisfy the invariant: nothing runs.
LEMMA LoopInit == Init => LoopInv
<1> SUFFICES ASSUME Init PROVE LoopInv
  OBVIOUS
<1> USE DEF Init
<1>1. TypeOK
  BY NoTimer DEF TypeOK
<1>2. Batched /\ Exclusive /\ OneChain /\ Gone
  BY DEF Batched, Exclusive, OneChain, Gone
<1>3. Bounded
  BY NoBatch DEF Bounded
<1> QED BY <1>1, <1>2, <1>3 DEF LoopInv

\* start() arms a chain only where there is none, or remembers that it did not.
LEMMA StartKeepsLoopInv == LoopInv /\ Start => LoopInv'
<1> SUFFICES ASSUME LoopInv, Start PROVE LoopInv'
  OBVIOUS
<1> USE DEF LoopInv, Start, CanStart
<1>1. PICK ch \in Chains : /\ chain[ch] = "none"
                           /\ chain' = [chain EXCEPT ![ch] = "armed"]
                           /\ timer' = ch
  OBVIOUS
<1>2. TypeOK'
  BY <1>1 DEF TypeOK, Chains
<1>3. Batched'
  BY <1>1 DEF Batched, TypeOK
<1>4. Exclusive' /\ Bounded'
  BY DEF Exclusive, Bounded
<1>5. OneChain'
  <2> SUFFICES ASSUME ~restarted' PROVE OneChain'
    BY DEF OneChain
  <2>1. \A c \in Chains : chain[c] = "none"
    BY DEF OneChain, Ticking, TypeOK
  <2> QED BY <1>1, <2>1 DEF OneChain, TypeOK
<1>6. Gone'
  BY DEF Gone, TypeOK
<1> QED BY <1>2, <1>3, <1>4, <1>5, <1>6

\* stop() clears the one timer that is armed.
LEMMA StopKeepsLoopInv == LoopInv /\ Stop => LoopInv'
<1> SUFFICES ASSUME LoopInv, Stop PROVE LoopInv'
  OBVIOUS
<1> USE DEF LoopInv, Stop
<1>1. TypeOK'
  BY NoTimer DEF TypeOK
<1>2. Batched'
  BY DEF Batched, TypeOK
<1>3. Exclusive' /\ Bounded'
  BY DEF Exclusive, Bounded
<1>4. OneChain'
  BY DEF OneChain, TypeOK
<1>5. Gone'
  BY DEF Gone, TypeOK
<1> QED BY <1>1, <1>2, <1>3, <1>4, <1>5

\* A timer that fires makes no chain, and takes none back.
LEMMA FireKeepsLoopInv ==
  ASSUME LoopInv, NEW ch \in Chains, Fire(ch)
  PROVE  LoopInv'
<1> USE DEF LoopInv, Fire
<1>1. TypeOK'
  BY DEF TypeOK
<1>2. Batched'
  BY DEF Batched, TypeOK
<1>3. Exclusive' /\ Bounded'
  BY DEF Exclusive, Bounded
<1>4. OneChain'
  BY DEF OneChain, TypeOK
<1>5. Gone'
  BY DEF Gone, TypeOK
<1> QED BY <1>1, <1>2, <1>3, <1>4, <1>5
-----------------------------------------------------------------------------
(* The tick of the worker *)

\* A claim fills the batch of a chain that had none with runs that were due, and
\* so not in flight; a claim of none ends the tick.
LEMMA ClaimKeepsLoopInv ==
  ASSUME LoopInv, NEW ch \in Chains, Claim(ch)
  PROVE  LoopInv'
<1> USE DEF LoopInv
<1>1. PICK S \in Batches :
        /\ due' = due \ S
        /\ leased' = leased \cup S
        /\ inFlight' = inFlight \cup S
        /\ batch' = [batch EXCEPT ![ch] = S]
        /\ IF S = {} THEN Schedule(ch)
           ELSE /\ chain' = [chain EXCEPT ![ch] = "processing"]
                /\ UNCHANGED timer
  BY DEF Claim
<1>2. /\ chain[ch] = "claiming"
      /\ UNCHANGED <<running, ended, drain, errors, restarted, late>>
  BY DEF Claim
<1>3. S \subseteq due /\ Cardinality(S) <= Concurrency
  <2>1. S \in SUBSET due /\ (S # due => Cardinality(S) = Concurrency)
        /\ Cardinality(S) <= Concurrency
    BY <1>1 DEF Batches
  <2> QED BY <2>1
<1>4. batch[ch] = {} /\ S \cap inFlight = {}
  BY <1>2, <1>3 DEF Batched, Exclusive
<1>5. /\ chain' \in [Chains -> {"none", "armed", "claiming", "processing"}]
      /\ timer' \in 0..MaxChains
      /\ OneChain'
      /\ Gone'
      /\ chain'[ch] = "processing" <=> S # {}
      /\ \A other \in Chains : other # ch => chain'[other] = chain[other]
  <2>1. CASE S = {}
    <3>1. Schedule(ch) /\ Ticking(ch)
      BY <1>1, <1>2, <2>1 DEF Ticking
    <3> QED BY <1>2, <2>1, <3>1, ScheduleKeepsOneChain
  <2>2. CASE S # {}
    <3>1. chain' = [chain EXCEPT ![ch] = "processing"] /\ timer' = timer
      BY <1>1, <2>2
    <3>2. OneChain' /\ Gone'
      BY <1>2, <3>1 DEF OneChain, Gone, TypeOK
    <3> QED BY <2>2, <3>1, <3>2 DEF TypeOK
  <2> QED BY <2>1, <2>2
<1>6. TypeOK'
  BY <1>1, <1>2, <1>3, <1>5 DEF TypeOK
<1>7. Batched'
  <2>1. batch'[ch] = S /\ \A other \in Chains : other # ch => batch'[other] = batch[other]
    BY <1>1 DEF TypeOK
  <2>2. \A r \in Runs : r \in inFlight' <=> \E c \in Chains : r \in batch'[c]
    BY <1>1, <1>4, <2>1 DEF Batched
  <2>3. \A c \in Chains : batch'[c] # {} <=> chain'[c] = "processing"
    BY <1>5, <2>1 DEF Batched
  <2>4. \A c, d \in Chains : c # d => batch'[c] \cap batch'[d] = {}
    <3>1. \A c \in Chains : S \cap batch[c] = {}
      BY <1>4 DEF Batched, TypeOK
    <3> QED BY <2>1, <3>1 DEF Batched
  <2>5. ended' \subseteq inFlight'
    BY <1>1, <1>2 DEF Batched
  <2> QED BY <2>2, <2>3, <2>4, <2>5 DEF Batched
<1>8. Exclusive'
  BY <1>1, <1>3 DEF Exclusive
<1>9. Bounded'
  BY <1>1, <1>3 DEF Bounded, TypeOK
<1> QED BY <1>5, <1>6, <1>7, <1>8, <1>9

\* A claim that throws ends the tick of a chain without a batch.
LEMMA ClaimThrowsKeepsLoopInv ==
  ASSUME LoopInv, NEW ch \in Chains, ClaimThrows(ch)
  PROVE  LoopInv'
<1> USE DEF LoopInv
<1>1. /\ chain[ch] = "claiming"
      /\ errors' = errors + 1
      /\ Schedule(ch)
      /\ UNCHANGED <<running, batch, due, leased, inFlight, ended, drain, restarted, late>>
  BY DEF ClaimThrows, AfterError
<1>2. /\ chain' \in [Chains -> {"none", "armed", "claiming", "processing"}]
      /\ timer' \in 0..MaxChains
      /\ OneChain'
      /\ Gone'
      /\ chain'[ch] # "processing"
      /\ \A other \in Chains : other # ch => chain'[other] = chain[other]
  <2>1. Ticking(ch)
    BY <1>1 DEF Ticking
  <2> QED BY <1>1, <2>1, ScheduleKeepsOneChain
<1>3. TypeOK'
  BY <1>1, <1>2 DEF TypeOK
<1>4. Batched'
  BY <1>1, <1>2 DEF Batched
<1>5. Exclusive' /\ Bounded'
  BY <1>1 DEF Exclusive, Bounded
<1> QED BY <1>2, <1>3, <1>4, <1>5
\* The end of engine.tick leaves the run in its batch until release is through.
LEMMA TickEndsKeepsLoopInv ==
  ASSUME LoopInv, NEW r \in Runs, TickEnds(r)
  PROVE  LoopInv'
  BY DEF LoopInv, TickEnds, TypeOK, Batched, Exclusive, Bounded, OneChain, Gone

\* A run that leaves takes nothing but itself out of its batch, and the last of a
\* batch ends the tick of the chain.
LEMMA LeaveKeepsBatches ==
  ASSUME LoopInv, NEW r \in Runs, r \in inFlight, Leave(r),
         UNCHANGED <<running, drain, restarted, late>>
  PROVE  /\ chain' \in [Chains -> {"none", "armed", "claiming", "processing"}]
         /\ timer' \in 0..MaxChains
         /\ batch' \in [Chains -> SUBSET Runs]
         /\ inFlight' = inFlight \ {r}
         /\ ended' = ended \ {r}
         /\ Batched' /\ Bounded' /\ OneChain' /\ Gone'
<1> USE DEF LoopInv
<1> DEFINE ch == CHOOSE c \in Chains : r \in batch[c]
<1>1. ch \in Chains /\ r \in batch[ch]
  <2>1. \E c \in Chains : r \in batch[c]
    BY DEF Batched
  <2> QED BY <2>1
<1>2. /\ inFlight' = inFlight \ {r}
      /\ ended' = ended \ {r}
      /\ batch' = [batch EXCEPT ![ch] = @ \ {r}]
      /\ IF batch[ch] = {r} THEN Schedule(ch) ELSE UNCHANGED <<chain, timer>>
  BY DEF Leave
<1> HIDE DEF ch
<1>3. chain[ch] = "processing"
  BY <1>1 DEF Batched
<1>4. /\ batch' \in [Chains -> SUBSET Runs]
      /\ batch'[ch] = batch[ch] \ {r}
      /\ \A other \in Chains : other # ch => batch'[other] = batch[other]
  BY <1>1, <1>2 DEF TypeOK
<1>5. /\ chain' \in [Chains -> {"none", "armed", "claiming", "processing"}]
      /\ timer' \in 0..MaxChains
      /\ OneChain'
      /\ Gone'
      /\ chain'[ch] = "processing" <=> batch'[ch] # {}
      /\ \A other \in Chains : other # ch => chain'[other] = chain[other]
  <2>1. CASE batch[ch] = {r}
    <3>1. Schedule(ch) /\ Ticking(ch)
      BY <1>2, <1>3, <2>1 DEF Ticking
    <3>2. batch'[ch] = {}
      BY <1>4, <2>1
    <3> QED BY <1>1, <3>1, <3>2, ScheduleKeepsOneChain
  <2>2. CASE batch[ch] # {r}
    <3>1. UNCHANGED <<chain, timer>>
      BY <1>2, <2>2
    <3>2. batch'[ch] # {}
      BY <1>1, <1>4, <2>2
    <3> QED BY <1>3, <3>1, <3>2 DEF OneChain, Gone, TypeOK
  <2> QED BY <2>1, <2>2
<1>6. Batched'
  <2>1. \A q \in Runs : q \in inFlight' <=> \E c \in Chains : q \in batch'[c]
    BY <1>1, <1>2, <1>4 DEF Batched
  <2>2. \A c \in Chains : batch'[c] # {} <=> chain'[c] = "processing"
    BY <1>4, <1>5 DEF Batched
  <2>3. \A c, d \in Chains : c # d => batch'[c] \cap batch'[d] = {}
    BY <1>1, <1>4 DEF Batched
  <2>4. ended' \subseteq inFlight'
    BY <1>2 DEF Batched
  <2> QED BY <2>1, <2>2, <2>3, <2>4 DEF Batched
<1>7. Bounded'
  <2> SUFFICES ASSUME NEW c \in Chains PROVE Cardinality(batch'[c]) <= Concurrency
    BY DEF Bounded
  <2>1. batch[c] \in SUBSET Runs /\ batch'[c] \in SUBSET batch[c]
    BY <1>4 DEF TypeOK
  <2>2. /\ Cardinality(batch[c]) \in Nat
        /\ Cardinality(batch'[c]) \in Nat
        /\ Cardinality(batch'[c]) <= Cardinality(batch[c])
    BY <2>1, BatchSize
  <2>3. Cardinality(batch[c]) <= Concurrency
    BY DEF Bounded
  <2> QED BY <2>2, <2>3, LoopAssumption
<1> QED BY <1>2, <1>4, <1>5, <1>6, <1>7

\* The lease is given up with the run that leaves, so what may be due again is not
\* leased.
LEMMA ReleaseKeepsLoopInv ==
  ASSUME LoopInv, NEW r \in Runs, Release(r)
  PROVE  LoopInv'
<1> USE DEF LoopInv
<1>1. /\ r \in inFlight
      /\ leased' = leased \ {r}
      /\ due' = due \cup {r} \/ due' = due
      /\ UNCHANGED <<running, drain, errors, restarted, late>>
  BY DEF Release, Batched
<1>2. /\ chain' \in [Chains -> {"none", "armed", "claiming", "processing"}]
      /\ timer' \in 0..MaxChains
      /\ batch' \in [Chains -> SUBSET Runs]
      /\ inFlight' = inFlight \ {r}
      /\ ended' = ended \ {r}
      /\ Batched' /\ Bounded' /\ OneChain' /\ Gone'
  <2>1. Leave(r)
    BY DEF Release
  <2> QED BY <1>1, <2>1, LeaveKeepsBatches
<1>3. TypeOK'
  BY <1>1, <1>2 DEF TypeOK
<1>4. Exclusive'
  BY <1>1, <1>2 DEF Exclusive
<1> QED BY <1>2, <1>3, <1>4

\* A release that throws keeps the lease of a run that leaves.
LEMMA ReleaseThrowsKeepsLoopInv ==
  ASSUME LoopInv, NEW r \in Runs, ReleaseThrows(r)
  PROVE  LoopInv'
<1> USE DEF LoopInv
<1>1. /\ r \in inFlight
      /\ errors' = errors + 1
      /\ UNCHANGED <<running, due, leased, drain, restarted, late>>
  BY DEF ReleaseThrows, Batched
<1>2. /\ chain' \in [Chains -> {"none", "armed", "claiming", "processing"}]
      /\ timer' \in 0..MaxChains
      /\ batch' \in [Chains -> SUBSET Runs]
      /\ inFlight' = inFlight \ {r}
      /\ ended' = ended \ {r}
      /\ Batched' /\ Bounded' /\ OneChain' /\ Gone'
  <2>1. Leave(r)
    BY DEF ReleaseThrows
  <2> QED BY <1>1, <2>1, LeaveKeepsBatches
<1>3. TypeOK'
  BY <1>1, <1>2 DEF TypeOK
<1>4. Exclusive'
  BY <1>1, <1>2 DEF Exclusive
<1> QED BY <1>2, <1>3, <1>4

-----------------------------------------------------------------------------
(* drain(), and the database *)

\* drain() that is called promises nothing yet.
LEMMA DrainCalledKeepsLoopInv == LoopInv /\ DrainCalled => LoopInv'
  BY DEF LoopInv, DrainCalled, TypeOK, Batched, Exclusive, Bounded, OneChain, Gone

\* drain() of a stopped worker that returns with no claim under way leaves no
\* chain: none is armed, none claims, and none has a batch.
LEMMA DrainReturnsKeepsLoopInv == LoopInv /\ DrainReturns => LoopInv'
<1> SUFFICES ASSUME LoopInv, DrainReturns PROVE LoopInv'
  OBVIOUS
<1> USE DEF LoopInv, DrainReturns, Drained
<1>1. TypeOK'
  BY DEF TypeOK
<1>2. Batched' /\ Exclusive' /\ Bounded' /\ OneChain'
  BY DEF Batched, Exclusive, Bounded, OneChain
<1>3. Gone'
  <2> SUFFICES ASSUME ~late', ~restarted' PROVE ~running' /\ \A c \in Chains : chain'[c] = "none"
    BY DEF Gone
  <2>1. ~running /\ \A c \in Chains : chain[c] # "claiming"
    OBVIOUS
  <2>2. \A c \in Chains : chain[c] # "armed"
    BY <2>1 DEF OneChain
  <2>3. \A c \in Chains : chain[c] # "processing"
    BY DEF Batched, TypeOK
  <2> QED BY <2>1, <2>2, <2>3 DEF TypeOK
<1> QED BY <1>1, <1>2, <1>3

\* What falls due was not leased, what is taken was, and a lease that runs out is
\* not of a run in flight.
LEMMA DatabaseKeepsLoopInv ==
  ASSUME LoopInv, NEW r \in Runs, BecomesDue(r) \/ TakenElsewhere(r) \/ LeaseRunsOut(r)
  PROVE  LoopInv'
<1> USE DEF LoopInv, BecomesDue, TakenElsewhere, LeaseRunsOut, Renewed
<1>1. TypeOK'
  BY DEF TypeOK
<1>2. Batched' /\ Bounded' /\ OneChain' /\ Gone'
  BY DEF Batched, Bounded, OneChain, Gone
<1>3. Exclusive'
  BY DEF Exclusive
<1> QED BY <1>1, <1>2, <1>3
-----------------------------------------------------------------------------
(* The theorems *)

\* Every step of the worker and of the database keeps the invariant.
LEMMA LoopInvInductive == LoopInv /\ [Next]_vars => LoopInv'
<1> SUFFICES ASSUME LoopInv, [Next]_vars PROVE LoopInv'
  OBVIOUS
<1>1. CASE Start
  BY <1>1, StartKeepsLoopInv
<1>2. CASE Stop
  BY <1>2, StopKeepsLoopInv
<1>3. CASE DrainCalled
  BY <1>3, DrainCalledKeepsLoopInv
<1>4. CASE DrainReturns
  BY <1>4, DrainReturnsKeepsLoopInv
<1>5. ASSUME NEW ch \in Chains, Fire(ch) PROVE LoopInv'
  BY <1>5, FireKeepsLoopInv
<1>6. ASSUME NEW ch \in Chains, Claim(ch) PROVE LoopInv'
  BY <1>6, ClaimKeepsLoopInv
<1>7. ASSUME NEW ch \in Chains, ClaimThrows(ch) PROVE LoopInv'
  BY <1>7, ClaimThrowsKeepsLoopInv
<1>8. ASSUME NEW r \in Runs, TickEnds(r) PROVE LoopInv'
  BY <1>8, TickEndsKeepsLoopInv
<1>9. ASSUME NEW r \in Runs, Release(r) PROVE LoopInv'
  BY <1>9, ReleaseKeepsLoopInv
<1>10. ASSUME NEW r \in Runs, ReleaseThrows(r) PROVE LoopInv'
  BY <1>10, ReleaseThrowsKeepsLoopInv
<1>11. ASSUME NEW r \in Runs, BecomesDue(r) \/ TakenElsewhere(r) \/ LeaseRunsOut(r)
       PROVE  LoopInv'
  BY <1>11, DatabaseKeepsLoopInv
<1>12. CASE UNCHANGED vars
  BY <1>12 DEF vars, LoopInv, TypeOK, Batched, Exclusive, Bounded, OneChain, Gone
<1> QED
  BY <1>1, <1>2, <1>3, <1>4, <1>5, <1>6, <1>7, <1>8, <1>9, <1>10, <1>11, <1>12
  DEF Next, Process

\* The invariant holds in every reachable state.
LEMMA LoopInvHolds == Spec => []LoopInv
<1>1. Init => LoopInv
  BY LoopInit
<1>2. LoopInv /\ [Next]_vars => LoopInv'
  BY LoopInvInductive
<1> QED BY <1>1, <1>2, PTL DEF Spec

\* One chain of timers holds at most one batch, and a batch is no larger than the
\* concurrency: Scheduler never overlaps two ticks of WorkflowWorker.
LEMMA LoopInvNoOverlap == LoopInv => NoOverlap
<1> SUFFICES ASSUME LoopInv, ~restarted
             PROVE  /\ \A c, d \in Chains : chain[c] # "none" /\ chain[d] # "none" => c = d
                    /\ Cardinality(inFlight) <= Concurrency
  BY DEF NoOverlap
<1> USE DEF LoopInv
<1>1. \A c, d \in Chains : chain[c] # "none" /\ chain[d] # "none" => c = d
  BY DEF OneChain
<1>2. CASE inFlight = {}
  BY <1>1, <1>2, NoBatch
<1>3. CASE inFlight # {}
  <2>1. PICK r \in inFlight : TRUE
    BY <1>3
  <2>2. PICK ch \in Chains : r \in batch[ch]
    BY <2>1 DEF Batched, TypeOK
  <2>3. \A c \in Chains : batch[c] # {} => c = ch
    BY <1>1, <2>2 DEF Batched
  <2>4. inFlight = batch[ch]
    BY <2>2, <2>3 DEF Batched, TypeOK
  <2> QED BY <1>1, <2>4 DEF Bounded
<1> QED BY <1>2, <1>3

\* The state of the worker stays well typed.
THEOREM LoopTypesCorrect == Spec => []TypeOK
<1>1. LoopInv => TypeOK
  BY DEF LoopInv
<1> QED BY <1>1, LoopInvHolds, PTL

\* Ticks do not overlap and the concurrency bounds what is in flight, whatever
\* throws, unless the worker was started again in the middle of a tick.
THEOREM TicksDoNotOverlap == Spec => []NoOverlap
  BY LoopInvNoOverlap, LoopInvHolds, PTL

\* After stop() no timer is left to fire.
THEOREM StopLeavesNoTimer == Spec => []StopIsQuiet
<1>1. LoopInv => StopIsQuiet
  BY DEF LoopInv, OneChain, StopIsQuiet
<1> QED BY <1>1, LoopInvHolds, PTL

\* stop() and then drain() leaves nothing in flight until the next start, unless
\* drain() returned while a claim was under way.
THEOREM GracefulDrain == Spec => []DrainIsGraceful
<1>1. LoopInv => DrainIsGraceful
  <2> SUFFICES ASSUME LoopInv, drain = "returned", ~running, ~late, ~restarted
               PROVE  inFlight = {}
    BY DEF DrainIsGraceful
  <2>1. \A ch \in Chains : batch[ch] = {}
    BY DEF LoopInv, Gone, Batched
  <2> QED BY <2>1 DEF LoopInv, Batched, TypeOK
<1> QED BY <1>1, LoopInvHolds, PTL
=============================================================================
