----------------------------- MODULE Publishing -----------------------------
(***************************************************************************)
(* The versions of one workflow, published, started, signalled and driven  *)
(* by several processes that run different builds of the program.          *)
(*                                                                         *)
(* `published` is the table workflow_definitions and `runs` holds the      *)
(* columns of workflow_runs that bind a run to its version.  Each process  *)
(* has an engine with a registry and two caches, #publishedHashes and      *)
(* #definitions, and several calls of the engine may be under way in it: a *)
(* call is suspended at each SQL statement, so one action is one statement *)
(* with the synchronous code after it.  What a tick does to its run is     *)
(* module Engine; here it needs a definition and a handler.                *)
(***************************************************************************)
EXTENDS Definition

CONSTANTS
  Processes,
  Calls,       \* calls of the engine that may be under way at once
  Runs,        \* run ids
  Names,       \* names of handlers and guards
  Inputs,      \* what authors publish
  Versions,    \* the versions of Inputs
  Builds,      \* the registries a process may be started with
  Additions,   \* handlers that may be registered while it runs
  Drafts       \* inputs on which validation is checked against its meaning

\* What one process has registered.
Registry == [handlers : SUBSET Names, guards : SUBSET Names]

Definitions == {NormalizeDefinition(input) : input \in {i \in Inputs : Accepts(i)}}

Hashes == {HashDefinition(definition) : definition \in Definitions}

\* content is what the run was started with, starter the process that did, as
\* long as that process has not been restarted.
Run == [version : Versions, content : Definitions, starter : Processes \cup {None}]

ASSUME PublishingAssumption ==
  /\ Builds \subseteq Registry
  /\ Additions \cup RESERVED_HANDLERS \subseteq Names
  /\ Versions \subseteq Nat \ {0}
  /\ None \notin Processes \cup Definitions \cup Run
  /\ \A input \in Inputs : WellFormed(input) => input.version \in Versions

\* What stands in a draft: one item per transition, which names a step unless it is
\* malformed, and finite numbers, or nothing, in a retry policy.
Items ==
  {item \in [form : {"id", "object", "malformed"},
             to : StepIds \cup {None}, when : Names \cup {None}] :
     item.form # "malformed" => item.to # None}

Numbers == {x \in Int : -Huge * Unit <= x /\ x <= Huge * Unit}

TypedPolicy(policy) ==
  /\ policy.initialDelayMs \in Numbers \cup {None}
  /\ policy.maxDelayMs \in Numbers \cup {None}
  /\ policy.multiplier \in Numbers \cup {None}

Policies(definition) == {definition.steps[s].retry : s \in DOMAIN definition.steps} \ {None}

ASSUME DraftAssumption ==
  \A draft \in Drafts :
    /\ IsFiniteSet(DOMAIN draft.steps)
    /\ \A s \in DOMAIN draft.steps : draft.steps[s].next.items \in Seq(Items)
    /\ \A policy \in Policies(draft) : TypedPolicy(policy)

VARIABLES
  published,    \* version -> definition, or None
  runs,         \* run -> [version, content, starter], or None; the last two are ghosts
  registry,     \* process -> [handlers, guards]
  hashes,       \* process -> version -> #publishedHashes
  definitions,  \* process -> version -> #definitions
  call          \* call -> where it is suspended, or what it answered

vars == <<published, runs, registry, hashes, definitions, call>>

\* at: the statement the call is suspended at, or how it ended when it says what
\* became of a definition ("done", "conflict"); by: the process it is made in;
\* op: what was called; about: the definition in hand; run: the run of a tick or a
\* signal.
Call == [at : {"idle", "insert", "select", "latest", "create", "load", "drive", "append",
               "done", "conflict"},
         by : Processes \cup {None}, op : {"none", "publish", "start", "tick", "signal"},
         about : Definitions \cup {None}, run : Runs \cup {None}]

Request(at, p, op, about, r) == [at |-> at, by |-> p, op |-> op, about |-> about, run |-> r]

NoCall == Request("idle", None, "none", None, None)

\* The constructor of the engine registers the built-in handlers.
Boot(build) == [build EXCEPT !.handlers = @ \cup RESERVED_HANDLERS]

NoVersions == [v \in Versions |-> None]

Init ==
  /\ published = NoVersions
  /\ runs = [r \in Runs |-> None]
  /\ registry \in [Processes -> {Boot(build) : build \in Builds}]
  /\ hashes = [p \in Processes |-> NoVersions]
  /\ definitions = [p \in Processes |-> NoVersions]
  /\ call = [c \in Calls |-> NoCall]

-----------------------------------------------------------------------------
At(c, label) == call[c].at = label

Goto(c, label) == call' = [call EXCEPT ![c].at = label]

\* The call answers or throws, and nobody waits for it any more.
End(c) == call' = [call EXCEPT ![c] = NoCall]

\* publish returns: start goes on to insert the run, for a definition its
\* process covers.
AfterPublish(op) == IF op = "start" THEN "create" ELSE "done"

\* The cached hash answers for the content published under that version.
\* MutKnownHash remembers the version and not its hash.
MutKnownHash(p, definition) == hashes[p][definition.version] # None

KnownHash(p, definition) == hashes[p][definition.version] = HashDefinition(definition)

\* What publish checks before anything is stored.
\* MutCanPublish forgets to validate what was not made by defineWorkflow.
MutCanPublish(p, input) == WellFormed(input) /\ Covers(registry[p], NormalizeDefinition(input))

CanPublish(p, input) == Accepts(input) /\ Covers(registry[p], NormalizeDefinition(input))

\* publish(input) and start(definition), up to the first statement.  A call that is
\* refused before that leaves no trace.
Publish(c) ==
  \E p \in Processes, input \in Inputs, op \in {"publish", "start"} :
    LET definition == NormalizeDefinition(input)
    IN  /\ At(c, "idle")
        /\ CanPublish(p, input)
        /\ call' = [call EXCEPT ![c] =
                     Request(IF KnownHash(p, definition) THEN AfterPublish(op) ELSE "insert",
                             p, op, definition, None)]
        /\ UNCHANGED <<published, runs, registry, hashes, definitions>>

Cache(p, definition) ==
  /\ hashes' = [hashes EXCEPT ![p][definition.version] = HashDefinition(definition)]
  /\ definitions' = [definitions EXCEPT ![p][definition.version] = definition]

\* publish caches what it saved.
Saved(c) == Cache(call[c].by, call[c].about) /\ Goto(c, AfterPublish(call[c].op))

\* INSERT ... ON CONFLICT (workflow_id, version) DO NOTHING RETURNING *.
\* MutVacant lets a later INSERT overwrite the row.
MutVacant(version) == version \in Versions

Vacant(version) == published[version] = None

Insert(c) ==
  /\ At(c, "insert")
  /\ Vacant(call[c].about.version)
  /\ published' = [published EXCEPT ![call[c].about.version] = call[c].about]
  /\ Saved(c)
  /\ UNCHANGED <<runs, registry>>

InsertNothing(c) ==
  /\ At(c, "insert")
  /\ ~Vacant(call[c].about.version)
  /\ Goto(c, "select")
  /\ UNCHANGED <<published, runs, registry, hashes, definitions>>

\* SELECT ... WHERE workflow_id = $1 AND version = $2, after an INSERT without effect.
SameHash(version, definition) ==
  HashDefinition(published[version]) = HashDefinition(definition)

SelectSame(c) ==
  /\ At(c, "select")
  /\ SameHash(call[c].about.version, call[c].about)
  /\ Saved(c)
  /\ UNCHANGED <<published, runs, registry>>

SelectConflict(c) ==
  /\ At(c, "select")
  /\ ~SameHash(call[c].about.version, call[c].about)
  /\ Goto(c, "conflict")
  /\ UNCHANGED <<published, runs, registry, hashes, definitions>>

-----------------------------------------------------------------------------
\* start("id"): SELECT ... ORDER BY version DESC LIMIT 1, the coverage, the run.
StartByName(c) ==
  /\ At(c, "idle")
  /\ \E p \in Processes :
       call' = [call EXCEPT ![c] = Request("latest", p, "start", None, None)]
  /\ UNCHANGED <<published, runs, registry, hashes, definitions>>

PublishedVersions == {v \in Versions : published[v] # None}

GetLatest(c) ==
  /\ At(c, "latest")
  /\ \E latest \in PublishedVersions :
       /\ \A v \in PublishedVersions : v <= latest
       /\ IF Covers(registry[call[c].by], published[latest])
            THEN call' = [call EXCEPT ![c].at = "create", ![c].about = published[latest]]
            ELSE End(c)
  /\ UNCHANGED <<published, runs, registry, hashes, definitions>>

NothingPublished(c) ==
  /\ At(c, "latest")
  /\ PublishedVersions = {}
  /\ End(c)
  /\ UNCHANGED <<published, runs, registry, hashes, definitions>>

\* The run is bound to the version, not to the definition.
CreateRun(c) ==
  /\ At(c, "create")
  /\ \E r \in Runs :
       /\ runs[r] = None
       /\ runs' = [runs EXCEPT ![r] = [version |-> call[c].about.version,
                                       content |-> call[c].about, starter |-> call[c].by]]
  /\ Goto(c, "done")
  /\ UNCHANGED <<published, registry, hashes, definitions>>

-----------------------------------------------------------------------------
\* tick and a signal that names a step: #requireDefinitionVersion.

\* MutVersionFor drives every run with the newest definition the process knows.
MutVersionFor(p, r) ==
  LET known == {v \in Versions : definitions[p][v] # None}
  IN  IF known = {} THEN runs[r].version ELSE Max(known)

VersionFor(p, r) == runs[r].version

RequireDefinition(c, p, r, op, goal) ==
  LET cached == definitions[p][VersionFor(p, r)]
  IN  call' = [call EXCEPT ![c] =
                Request(IF cached = None THEN "load" ELSE goal, p, op, cached, r)]

Tick(c) ==
  /\ At(c, "idle")
  /\ \E p \in Processes, r \in Runs :
       /\ runs[r] # None
       /\ RequireDefinition(c, p, r, "tick", "drive")
  /\ UNCHANGED <<published, runs, registry, hashes, definitions>>

Signal(c) ==
  /\ At(c, "idle")
  /\ \E p \in Processes, r \in Runs :
       /\ runs[r] # None
       /\ RequireDefinition(c, p, r, "signal", "append")
  /\ UNCHANGED <<published, runs, registry, hashes, definitions>>

Loaded(c) == published[runs[call[c].run].version]

Load(c) ==
  /\ At(c, "load")
  /\ Loaded(c) # None
  /\ definitions' = [definitions EXCEPT ![call[c].by][Loaded(c).version] = Loaded(c)]
  /\ call' = [call EXCEPT ![c].about = Loaded(c),
                          ![c].at = IF call[c].op = "tick" THEN "drive" ELSE "append"]
  /\ UNCHANGED <<published, runs, registry, hashes>>

\* The tick drives the run, or throws because the process lacks a handler.
Drive(c) == At(c, "drive") /\ End(c) /\ UNCHANGED <<published, runs, registry, hashes, definitions>>

\* A signal that names no step of the definition is refused, any other is stored.
AppendSignal(c) ==
  At(c, "append") /\ End(c) /\ UNCHANGED <<published, runs, registry, hashes, definitions>>

-----------------------------------------------------------------------------
Return(c) ==
  /\ call[c].at \in {"done", "conflict"}
  /\ End(c)
  /\ UNCHANGED <<published, runs, registry, hashes, definitions>>

\* register() while the engine runs; a name that is taken throws.
Register(p) ==
  /\ \E name \in Additions \ registry[p].handlers :
       registry' = [registry EXCEPT ![p].handlers = @ \cup {name}]
  /\ UNCHANGED <<published, runs, hashes, definitions, call>>

\* A process ends and starts again, perhaps with another build: its calls and
\* its caches are gone.
Restart(p) ==
  /\ \E build \in Builds : registry' = [registry EXCEPT ![p] = Boot(build)]
  /\ hashes' = [hashes EXCEPT ![p] = NoVersions]
  /\ definitions' = [definitions EXCEPT ![p] = NoVersions]
  /\ call' = [c \in Calls |-> IF call[c].by = p THEN NoCall ELSE call[c]]
  /\ runs' = [r \in Runs |-> IF runs[r] # None /\ runs[r].starter = p
                               THEN [runs[r] EXCEPT !.starter = None] ELSE runs[r]]
  /\ UNCHANGED published

Next ==
  \/ \E c \in Calls :
       \/ Publish(c)
       \/ Insert(c) \/ InsertNothing(c) \/ SelectSame(c) \/ SelectConflict(c)
       \/ StartByName(c) \/ GetLatest(c) \/ NothingPublished(c) \/ CreateRun(c)
       \/ Tick(c) \/ Signal(c) \/ Load(c) \/ Drive(c) \/ AppendSignal(c) \/ Return(c)
  \/ \E p \in Processes : Register(p) \/ Restart(p)

Spec == Init /\ [][Next]_vars

-----------------------------------------------------------------------------
(* Properties *)

\* Every variable keeps its type: a table and a cache hold definitions that
\* validation accepted, and every call knows what it is about.
TypeOK ==
  /\ published \in [Versions -> Definitions \cup {None}]
  /\ runs \in [Runs -> Run \cup {None}]
  /\ registry \in [Processes -> Registry]
  /\ hashes \in [Processes -> [Versions -> Hashes \cup {None}]]
  /\ definitions \in [Processes -> [Versions -> Definitions \cup {None}]]
  /\ call \in [Calls -> Call]

\* A published version never changes and never disappears, however many
\* processes publish under it at once ("definition 一旦发布就不可变"): an action property.
VersionsAreFinal ==
  [][\A v \in Versions : published[v] # None => published'[v] = published[v]]_vars

\* What a cache of a process says about a version is what the table says, so a
\* publish or a tick that spares itself the statement decides as it would have.
CachesAgree ==
  \A p \in Processes, v \in Versions :
    /\ definitions[p][v] \in {None, published[v]}
    /\ hashes[p][v] # None =>
         published[v] # None /\ hashes[p][v] = HashDefinition(published[v])

\* The answers of publish and start are true: a definition that was published,
\* or that a run is about to be created for, is stored as it is under its
\* version; one that was refused as a conflict is not; and a run whose version
\* cannot be found does not exist.
AnswersAreTrue ==
  \A c \in Calls :
    /\ At(c, "create") \/ At(c, "done")
         => published[call[c].about.version] = call[c].about
    /\ At(c, "conflict")
         => published[call[c].about.version] \notin {None, call[c].about}
    /\ At(c, "load") => Loaded(c) # None

\* A run is driven, and its signals are checked, with the definition it was
\* started with, whatever was published since and whichever process does it.
DrivenAsStarted ==
  \A c \in Calls :
    At(c, "drive") \/ At(c, "append") => call[c].about = runs[call[c].run].content

\* As long as a process is not restarted it can drive every run it has started to
\* its end: no handler and no guard turns out to be missing on the way, which
\* is what the coverage check at publish and start is for.
StarterCanDrive ==
  \A r \in Runs :
    runs[r] # None /\ runs[r].starter # None
      => \A s \in DOMAIN runs[r].content.steps :
           LET step == runs[r].content.steps[s]
           IN  /\ step.uses \in registry[runs[r].starter].handlers
               /\ GuardsOf(step) \subseteq registry[runs[r].starter].guards

\* Whether a walk that chooses transitions by resolveNextStep can leave S.
Leaves(definition, S) ==
  \E s \in S, matched \in SUBSET UNION {GuardsOf(definition.steps[r]) : r \in DOMAIN definition.steps} :
    ResolveNextStep(definition.steps[s], matched) \notin S \cup {None, "throws"}

\* The reference: a walk from start never leaves the steps, can visit each of
\* them, and every transition is the one chosen for some answers of the guards.
GraphIsSound(definition) ==
  LET steps == DOMAIN definition.steps
  IN  /\ definition.start \in steps
      /\ ~Leaves(definition, steps)
      /\ \A S \in SUBSET steps : definition.start \in S /\ ~Leaves(definition, S) => S = steps
      /\ \A s \in steps : \A i \in DOMAIN definition.steps[s].next :
           \E matched \in SUBSET GuardsOf(definition.steps[s]) :
             /\ i \in Hits(definition.steps[s], matched)
             /\ i = Min(Hits(definition.steps[s], matched))

\* What the rules of validation say depends on the registry alone, so they are
\* checked on the drafts while nothing has been called yet.
Fresh == published = NoVersions /\ \A c \in Calls : At(c, "idle")

\* The drafts in which only the graph is in question.  They name no guard twice in
\* one step: the second would be dead, and validation does not look for that.
OnlyGraph(input) ==
  /\ WellFormed(input)
  /\ \A s \in DOMAIN input.steps :
       LET step == NormalizeStepDefinition(input.steps[s])
       IN  /\ step.retry = None /\ step.timeoutMs = None /\ step.json
           /\ \A i, j \in DOMAIN step.next :
                step.next[i].when = step.next[j].when => i = j \/ step.next[i].when = None

\* A process accepts exactly the graphs that are covered and sound in the way the
\* engine walks them: it refuses nothing that works and lets nothing through
\* that does not.
ValidationIsExact ==
  Fresh =>
    \A p \in Processes : \A input \in {d \in Drafts : OnlyGraph(d)} :
      CanPublish(p, input) <=>
        LET definition == NormalizeDefinition(input)
        IN  GraphIsSound(definition) /\ Covers(registry[p], definition)

\* The bounds of one wait.  It is not a number exactly where an initialDelayMs of 0
\* is multiplied by a power that has overflown.  Elsewhere it is within the cap and
\* not shortened by one failure more, and with jitter within 20% of the cap, all
\* rounded to a whole millisecond; only a cap that huge is moved beyond all numbers.
BoundedWait(policy, attempt, randoms) ==
  LET normalized == NormalizeRetryPolicy(policy)
      cap        == normalized.maxDelayMs
      wait       == ComputeBackoffMs(policy, attempt, None)
      next       == ComputeBackoffMs(policy, attempt + 1, None)
  IN  /\ wait = NaN <=> /\ normalized.backoff # "fixed" /\ normalized.initialDelayMs = 0
                        /\ Overflows(normalized.multiplier, attempt - 1)
      /\ wait # NaN => /\ wait \in Nat /\ 2 * Unit * wait <= 2 * cap + Unit
                       /\ next # NaN => wait <= next
      /\ \A random \in randoms :
           LET moved == ComputeBackoffMs(policy, attempt, random)
           IN  /\ moved \in Nat \cup {Infinity, NaN} /\ (moved = NaN <=> wait = NaN)
               /\ moved \in Nat => 10 * Unit * moved <= 12 * cap + 5 * Unit
               /\ moved = Infinity => 12 * cap > 10 * Huge * Unit

\* What a process lets through as a retry policy, fractions, zeros and multipliers
\* whose powers overflow among it, gives waits within these bounds.
BackoffsAreSane ==
  Fresh =>
    \A p \in Processes : \A input \in {d \in Drafts : Policies(d) # {} /\ CanPublish(p, d)} :
      \A policy \in Policies(input), attempt \in 1..4 : BoundedWait(policy, attempt, 0..Unit)
=============================================================================
