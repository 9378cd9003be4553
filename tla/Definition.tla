----------------------------- MODULE Definition -----------------------------
(***************************************************************************)
(* What src/src/definition and the registry compute about one workflow     *)
(* definition: normalisation, validation, the coverage of its handlers and *)
(* guards, and the two pure rules the engine later applies to it, the      *)
(* choice of the next step and the back-off between two attempts.          *)
(*                                                                         *)
(* An optional value that is absent (undefined or null) is None; a value   *)
(* of a wrong type that a check refuses is represented by None as well.    *)
(* The delays and the multiplier of a retry policy are doubles and are     *)
(* represented by whole multiples of 1/Unit: a finite double is one when   *)
(* Unit is a large enough power of 2.  Arithmetic overflows as it does     *)
(* there, but the rounding to 53 bits is left out.                         *)
(* Descriptions and the configuration of handlers are left out but for     *)
(* whether they are JSON.                                                  *)
(***************************************************************************)
EXTENDS Integers, Sequences, FiniteSetsExt

CONSTANTS
  StepIds,   \* step ids that occur in inputs
  LegalIds,  \* those of the form STEP_ID_PATTERN asks for
  None,      \* undefined, null
  Unit,      \* a number x of a policy is represented by x * Unit
  Huge,      \* the largest finite number
  Infinity,  \* the two values arithmetic may also give
  NaN

\* None and "throws" stand for what is no step, see ResolveNextStep.
ASSUME DefinitionAssumption == LegalIds \subseteq StepIds /\ {None, "throws"} \cap StepIds = {}

ASSUME NumberAssumption ==
  /\ Unit \in Nat \ {0}
  /\ Huge \in Nat /\ Huge >= 60000
  /\ {Infinity, NaN} \cap Nat = {} /\ Infinity # NaN

-----------------------------------------------------------------------------
\* Normalisation.

\* A transition is written as a step id, or as an object with an optional
\* guard; anything else is malformed.
NormalizeTransition(item) ==
  [to |-> item.to, when |-> IF item.form = "object" THEN item.when ELSE None]

\* next is absent, one bare transition, or a list of them.
NormalizeTransitions(next) ==
  IF next.kind = "absent"
    THEN << >>
    ELSE [i \in DOMAIN next.items |-> NormalizeTransition(next.items[i])]

NormalizeStepDefinition(step) ==
  [uses |-> step.uses, next |-> NormalizeTransitions(step.next),
   retry |-> step.retry, timeoutMs |-> step.timeoutMs, json |-> step.json]

\* The checks normalizeDefinition makes while it builds the definition.
WellFormed(input) ==
  /\ input.version >= 1
  /\ input.start # None
  /\ DOMAIN input.steps # {}
  /\ DOMAIN input.steps \subseteq LegalIds
  /\ \A s \in DOMAIN input.steps :
       /\ input.steps[s].uses # None
       /\ \A i \in DOMAIN input.steps[s].next.items :
            input.steps[s].next.items[i].form # "malformed"

NormalizeDefinition(input) ==
  [version |-> input.version, start |-> input.start,
   steps |-> [s \in DOMAIN input.steps |-> NormalizeStepDefinition(input.steps[s])]]

-----------------------------------------------------------------------------
\* Validation.

ValidateTransitions(definition, step) ==
  \A i \in DOMAIN step.next :
    /\ step.next[i].to \in DOMAIN definition.steps
    /\ step.next[i].when = None => i = Len(step.next)

ValidateRetry(retry) ==
  retry # None =>
    /\ retry.maxAttempts >= 1
    /\ retry.backoff \in {None, "fixed", "exponential"}
    /\ retry.initialDelayMs # None => retry.initialDelayMs >= 0
    /\ retry.maxDelayMs # None => retry.maxDelayMs >= 0
    /\ retry.multiplier # None => retry.multiplier >= Unit

Targets(step) == {step.next[i].to : i \in DOMAIN step.next}

\* The breadth-first search from start.  The order of the queue is left out:
\* it decides when a step is seen and not whether.
\* MutFindUnreachable looks at the neighbours of start only.
MutFindUnreachable(definition) ==
  DOMAIN definition.steps \ ({definition.start} \cup Targets(definition.steps[definition.start]))

FindUnreachableSteps(definition) ==
  LET steps == DOMAIN definition.steps
      search[at \in [queue : SUBSET steps, seen : SUBSET steps]] ==
        IF at.queue = {}
          THEN at.seen
          ELSE LET current == CHOOSE s \in at.queue : TRUE
                   found   == Targets(definition.steps[current]) \ at.seen
               IN  search[[queue |-> (at.queue \ {current}) \cup found, seen |-> at.seen \cup found]]
  IN  steps \ search[[queue |-> {definition.start}, seen |-> {definition.start}]]

ValidateDefinition(definition) ==
  /\ \A s \in DOMAIN definition.steps : definition.steps[s].json
  /\ definition.start \in DOMAIN definition.steps
  /\ \A s \in DOMAIN definition.steps :
       LET step == definition.steps[s]
       IN  /\ ValidateTransitions(definition, step)
           /\ step.timeoutMs # None => step.timeoutMs > 0
           /\ ValidateRetry(step.retry)
  /\ FindUnreachableSteps(definition) = {}

\* defineWorkflow returns NormalizeDefinition(input) if this holds, else it throws.
Accepts(input) == WellFormed(input) /\ ValidateDefinition(NormalizeDefinition(input))

\* The sha256 of the canonical form: injective as far as anybody can tell.
\* MutHashDefinition hashes the graph and forgets what the steps use.
MutHashDefinition(definition) ==
  [start |-> definition.start, next |-> [s \in DOMAIN definition.steps |-> definition.steps[s].next]]

HashDefinition(definition) == definition

-----------------------------------------------------------------------------
\* The registry: the names of handlers and guards one process knows.

RESERVED_HANDLERS == {"workflow.delay", "workflow.complete"}

MissingHandlers(definition, registry) ==
  {definition.steps[s].uses : s \in DOMAIN definition.steps} \ registry.handlers

GuardsOf(step) == {step.next[i].when : i \in DOMAIN step.next} \ {None}

\* MutMissingGuards looks at the steps that branch only.
MutMissingGuards(definition, registry) ==
  (UNION {GuardsOf(definition.steps[s]) :
            s \in {r \in DOMAIN definition.steps : Len(definition.steps[r].next) > 1}})
    \ registry.guards

MissingGuards(definition, registry) ==
  (UNION {GuardsOf(definition.steps[s]) : s \in DOMAIN definition.steps}) \ registry.guards

Covers(registry, definition) ==
  MissingHandlers(definition, registry) = {} /\ MissingGuards(definition, registry) = {}

-----------------------------------------------------------------------------
\* What the engine does with a definition.

\* The transitions that are unconditional or whose guard is in `matched`.
Hits(step, matched) ==
  {i \in DOMAIN step.next : step.next[i].when = None \/ step.next[i].when \in matched}

\* The first of them; None at an end step, "throws" when there is none.
ResolveNextStep(step, matched) ==
  IF step.next = << >> THEN None
  ELSE IF Hits(step, matched) = {} THEN "throws"
  ELSE step.next[Min(Hits(step, matched))].to

Default(value, default) == IF value = None THEN default ELSE value

NormalizeRetryPolicy(policy) ==
  [backoff        |-> Default(policy.backoff, "exponential"),
   initialDelayMs |-> Default(policy.initialDelayMs, 1000 * Unit),
   maxDelayMs     |-> Default(policy.maxDelayMs, 60000 * Unit),
   multiplier     |-> Default(policy.multiplier, 2 * Unit)]

\* number ** n, of natural numbers and without a bound.
Power(number, n) ==
  LET power[k \in Nat] == IF k = 0 THEN 1 ELSE number * power[k - 1]
  IN  power[n]

\* The double multiplier ** n is Infinity.
Overflows(multiplier, n) == Power(multiplier, n) > Huge * Power(Unit, n)

\* initialDelayMs, or initialDelayMs * multiplier ** n, in 1/Power(Unit, n + 1) ms.
RawDelay(normalized, n) ==
  IF normalized.backoff = "fixed" THEN normalized.initialDelayMs * Power(Unit, n)
  ELSE IF ~Overflows(normalized.multiplier, n)
    THEN normalized.initialDelayMs * Power(normalized.multiplier, n)
  ELSE IF normalized.initialDelayMs = 0 THEN NaN ELSE Infinity

\* Math.min of a delay and a finite number.
MathMin(delay, limit) ==
  IF delay = NaN THEN NaN
  ELSE IF delay = Infinity \/ delay > limit THEN limit ELSE delay

\* Math.round of the double number / unit: to the nearest whole number, halves up.
MathRound(number, unit) ==
  IF number = NaN THEN NaN
  ELSE IF number > Huge * unit THEN Infinity
  ELSE (2 * number + unit) \div (2 * unit)

\* The wait in ms after `attempt` failures.  jitter is None, or the random number
\* between 0 and 1 in 1/Unit: the two move the delay by 20% down and up.
\* MutComputeBackoff caps the delays that grow and no others.
MutComputeBackoff(policy, attempt, jitter) ==
  LET normalized == NormalizeRetryPolicy(policy)
      unit       == Unit * Power(Unit, attempt - 1)
      raw        == RawDelay(normalized, attempt - 1)
      capped     == IF normalized.backoff = "fixed"
                      THEN raw
                      ELSE MathMin(raw, normalized.maxDelayMs * Power(Unit, attempt - 1))
  IN  IF capped = NaN \/ jitter = None
        THEN MathRound(capped, unit)
        ELSE MathRound(capped * (4 * Unit + 2 * jitter), 5 * Unit * unit)

ComputeBackoffMs(policy, attempt, jitter) ==
  LET normalized == NormalizeRetryPolicy(policy)
      unit       == Unit * Power(Unit, attempt - 1)
      capped     == MathMin(RawDelay(normalized, attempt - 1),
                            normalized.maxDelayMs * Power(Unit, attempt - 1))
  IN  IF capped = NaN \/ jitter = None
        THEN MathRound(capped, unit)
        ELSE MathRound(capped * (4 * Unit + 2 * jitter), 5 * Unit * unit)
=============================================================================
