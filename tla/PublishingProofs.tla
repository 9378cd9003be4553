-------------------------- MODULE PublishingProofs --------------------------
(***************************************************************************)
(* Theorems about Publishing, for any number of processes, calls, runs,    *)
(* versions and builds, and for any inputs.                                *)
(*                                                                         *)
(* The invariant PublishingInv says what the rows, the caches and the      *)
(* calls under way know of each other: a row holds its own version, a      *)
(* cache copies the row, a run is bound to a row, and every call that goes *)
(* on after a statement still holds what the rows say.  The last parts are *)
(* about the pure rules of validation and back-off.                        *)
(***************************************************************************)
EXTENDS Publishing, TLAPS, WellFoundedInduction, FiniteSetTheorems

\* The rows and the caches.
RowsAgree ==
  /\ \A v \in Versions : published[v] # None => published[v].version = v
  /\ CachesAgree
  /\ \A r \in Runs : runs[r] # None => published[runs[r].version] = runs[r].content
  /\ \A r \in Runs : runs[r] # None /\ runs[r].starter # None =>
       Covers(registry[runs[r].starter], runs[r].content)

\* What a call that is suspended may rely on when it goes on.
CallAgrees(c) ==
  /\ call[c].at \in {"insert", "select", "create", "done", "conflict"} =>
       call[c].about \in Definitions
  /\ call[c].at \in {"insert", "select", "create", "latest", "load"} => call[c].by \in Processes
  /\ call[c].at \in {"insert", "select", "create"} => Covers(registry[call[c].by], call[c].about)
  /\ call[c].at = "select" => published[call[c].about.version] # None
  /\ call[c].at \in {"create", "done"} => published[call[c].about.version] = call[c].about
  /\ call[c].at = "conflict" => published[call[c].about.version] \notin {None, call[c].about}
  /\ call[c].at \in {"load", "drive", "append"} =>
       call[c].run \in Runs /\ runs[call[c].run] # None
  /\ call[c].at \in {"drive", "append"} => call[c].about = runs[call[c].run].content

PublishingInv == TypeOK /\ RowsAgree /\ \A c \in Calls : CallAgrees(c)

-----------------------------------------------------------------------------
\* A definition that validation accepted has a version, and is not None.
LEMMA DefinitionVersions ==
  ASSUME NEW d \in Definitions
  PROVE  d.version \in Versions /\ d # None
<1>1. PICK input \in Inputs : Accepts(input) /\ d = NormalizeDefinition(input)
  BY DEF Definitions
<1>2. d.version = input.version
  BY <1>1 DEF NormalizeDefinition
<1> QED
  BY <1>1, <1>2, PublishingAssumption DEF Accepts

\* A process that registers one handler more covers what it covered.
LEMMA CoverageGrows ==
  ASSUME NEW reg \in Registry, NEW name, NEW d, Covers(reg, d)
  PROVE  Covers([reg EXCEPT !.handlers = @ \cup {name}], d)
<1> DEFINE more == [reg EXCEPT !.handlers = @ \cup {name}]
<1>1. more.guards = reg.guards /\ reg.handlers \subseteq more.handlers
  BY DEF Registry
<1>2. MissingHandlers(d, more) \subseteq MissingHandlers(d, reg)
  BY <1>1 DEF MissingHandlers
<1>3. MissingGuards(d, more) = MissingGuards(d, reg)
  BY <1>1 DEF MissingGuards
<1> QED
  BY <1>2, <1>3 DEF Covers

\* What a process starts with is a registry.
LEMMA BootIsRegistry ==
  ASSUME NEW build \in Builds
  PROVE  Boot(build) \in Registry
BY PublishingAssumption DEF Boot, Registry

LEMMA InitHolds == Init => PublishingInv
<1> SUFFICES ASSUME Init PROVE PublishingInv
  OBVIOUS
<1>1. TypeOK
  <2>1. \A b \in Builds : Boot(b) \in Registry
    BY BootIsRegistry
  <2> QED
    BY <2>1 DEF Init, TypeOK, NoVersions, NoCall, Request, Call
<1>2. RowsAgree
  BY DEF Init, RowsAgree, CachesAgree, NoVersions
<1>3. \A c \in Calls : CallAgrees(c)
  BY DEF Init, CallAgrees, NoCall, Request
<1> QED
  BY <1>1, <1>2, <1>3 DEF PublishingInv

-----------------------------------------------------------------------------
(* One lemma per action.  An action of call c leaves the other calls alone,  *)
(* so what they rely on is disturbed only by what it does to the rows.       *)

\* The other calls keep what they rely on when no row changes.
LEMMA OthersAgree ==
  ASSUME PublishingInv, NEW c \in Calls, UNCHANGED <<published, runs, registry>>,
         NEW new, call' = [call EXCEPT ![c] = new]
  PROVE  \A d \in Calls \ {c} : CallAgrees(d)'
<1> TAKE d \in Calls \ {c}
<1>1. call'[d] = call[d]
  BY DEF PublishingInv, TypeOK
<1>2. CallAgrees(d)
  BY DEF PublishingInv
<1> QED
  BY <1>1, <1>2 DEF CallAgrees

\* A step that changes nothing but one call keeps the invariant if that call does.
LEMMA OnlyCallMoves ==
  ASSUME PublishingInv, NEW c \in Calls,
         UNCHANGED <<published, runs, registry, hashes, definitions>>,
         NEW new \in Call, call' = [call EXCEPT ![c] = new], CallAgrees(c)'
  PROVE  PublishingInv'
<1>1. \A d \in Calls \ {c} : CallAgrees(d)'
  BY OthersAgree
<1>2. TypeOK'
  BY DEF PublishingInv, TypeOK
<1>3. RowsAgree'
  BY DEF PublishingInv, RowsAgree, CachesAgree
<1> QED
  BY <1>1, <1>2, <1>3 DEF PublishingInv

LEMMA EndHolds ==
  ASSUME PublishingInv, NEW c \in Calls, End(c),
         UNCHANGED <<published, runs, registry, hashes, definitions>>
  PROVE  PublishingInv'
<1>1. NoCall \in Call
  BY DEF NoCall, Request, Call
<1>2. CallAgrees(c)'
  BY DEF End, PublishingInv, TypeOK, CallAgrees, NoCall, Request
<1> QED
  BY <1>1, <1>2, OnlyCallMoves DEF End

LEMMA PublishHolds ==
  ASSUME PublishingInv, NEW c \in Calls, Publish(c)
  PROVE  PublishingInv'
<1>1. PICK p \in Processes, input \in Inputs, op \in {"publish", "start"} :
        LET definition == NormalizeDefinition(input)
        IN  /\ CanPublish(p, input)
            /\ call' = [call EXCEPT ![c] =
                 Request(IF KnownHash(p, definition) THEN AfterPublish(op) ELSE "insert",
                         p, op, definition, None)]
  BY DEF Publish
<1> DEFINE d   == NormalizeDefinition(input)
           new == Request(IF KnownHash(p, d) THEN AfterPublish(op) ELSE "insert", p, op, d, None)
<1>2. call' = [call EXCEPT ![c] = new]
  BY <1>1
<1>3. d \in Definitions /\ Covers(registry[p], d)
  BY <1>1 DEF CanPublish, Definitions
<1>4. new.at \in {"insert", "create", "done"} /\ new.by = p /\ new.about = d
  BY DEF AfterPublish, Request
<1>5. new.at # "insert" => published[d.version] = d
  <2>1. d.version \in Versions /\ d # None
    BY <1>3, DefinitionVersions
  <2> QED
    BY <1>3, <2>1 DEF PublishingInv, TypeOK, RowsAgree, CachesAgree, KnownHash, HashDefinition,
                      Request
<1>6. new \in Call
  BY <1>3, <1>4 DEF Call, Request
<1>7. UNCHANGED <<published, runs, registry, hashes, definitions>>
  BY DEF Publish
<1>8. call'[c] = new
  BY <1>2 DEF PublishingInv, TypeOK
<1>9. CallAgrees(c)'
  BY <1>3, <1>4, <1>5, <1>7, <1>8 DEF CallAgrees
<1> QED
  BY <1>2, <1>6, <1>7, <1>9, OnlyCallMoves

\* publish remembers what is stored: the row it wrote, or the row it found.
LEMMA SavedHolds ==
  ASSUME PublishingInv, NEW c \in Calls, call[c].at \in {"insert", "select"}, Saved(c),
         UNCHANGED <<runs, registry>>,
         published' = [published EXCEPT ![call[c].about.version] = call[c].about],
         published[call[c].about.version] \in {None, call[c].about}
  PROVE  PublishingInv'
<1> DEFINE d   == call[c].about
           v   == d.version
           p   == call[c].by
           new == [call[c] EXCEPT !.at = AfterPublish(call[c].op)]
<1>1. d \in Definitions /\ p \in Processes /\ Covers(registry[p], d)
  BY DEF PublishingInv, CallAgrees
<1>2. v \in Versions /\ d # None
  BY <1>1, DefinitionVersions
<1>3. call' = [call EXCEPT ![c] = new]
  BY DEF Saved, Goto
<1>4. call[c] \in Call
  BY DEF PublishingInv, TypeOK
<1>5. /\ new \in Call /\ new.at \in {"create", "done"}
      /\ new.about = d /\ new.by = p
  BY <1>4 DEF Call, AfterPublish
<1>6. published' \in [Versions -> Definitions \cup {None}]
  BY <1>1 DEF PublishingInv, TypeOK
<1>7. /\ published'[v] = d
      /\ \A w \in Versions : published[w] # None => published'[w] = published[w]
      /\ \A w \in Versions : w # v => published'[w] = published[w]
  BY <1>2 DEF PublishingInv, TypeOK
<1>8. /\ hashes' = [hashes EXCEPT ![p][v] = d]
      /\ definitions' = [definitions EXCEPT ![p][v] = d]
  BY DEF Saved, Cache, HashDefinition
<1>9. TypeOK'
  <2>1. d \in Hashes
    BY <1>1 DEF Hashes, HashDefinition
  <2> QED
    BY <1>1, <1>2, <1>3, <1>5, <1>6, <1>8, <2>1 DEF PublishingInv, TypeOK
<1>10. RowsAgree'
  <2>1. \A w \in Versions : published'[w] # None => published'[w].version = w
    BY <1>7 DEF PublishingInv, RowsAgree
  <2>2. ASSUME NEW q \in Processes, NEW w \in Versions
        PROVE  /\ definitions'[q][w] \in {None, published'[w]}
               /\ hashes'[q][w] # None => published'[w] # None /\ hashes'[q][w] = published'[w]
    <3>1. CASE q = p /\ w = v
      BY <3>1, <1>1, <1>2, <1>7, <1>8 DEF PublishingInv, TypeOK
    <3>2. CASE ~(q = p /\ w = v)
      <4>1. definitions'[q][w] = definitions[q][w] /\ hashes'[q][w] = hashes[q][w]
        BY <3>2, <1>8 DEF PublishingInv, TypeOK
      <4>2. definitions[q][w] \in {None, published[w]}
        BY DEF PublishingInv, RowsAgree, CachesAgree
      <4>3. hashes[q][w] # None => published[w] # None /\ hashes[q][w] = published[w]
        BY DEF PublishingInv, RowsAgree, CachesAgree, HashDefinition
      <4> QED
        BY <4>1, <4>2, <4>3, <1>7
    <3> QED
      BY <3>1, <3>2
  <2>3. CachesAgree'
    BY <2>2 DEF CachesAgree, HashDefinition
  <2>4. ASSUME NEW r \in Runs, runs'[r] # None
        PROVE  published'[runs'[r].version] = runs'[r].content
    <3>1. runs[r] \in Run /\ published[runs[r].version] = runs[r].content
      BY <2>4 DEF PublishingInv, TypeOK, RowsAgree
    <3>2. runs[r].version \in Versions /\ runs[r].content # None
      BY <3>1, DefinitionVersions DEF Run
    <3> QED
      BY <3>1, <3>2, <1>7
  <2>5. \A r \in Runs : runs'[r] # None /\ runs'[r].starter # None =>
          Covers(registry'[runs'[r].starter], runs'[r].content)
    BY DEF PublishingInv, RowsAgree
  <2> QED
    BY <2>1, <2>3, <2>4, <2>5 DEF RowsAgree
<1>11. ASSUME NEW e \in Calls PROVE CallAgrees(e)'
  <2>1. CASE e = c
    <3>1. call'[e] = new
      BY <2>1, <1>3 DEF PublishingInv, TypeOK
    <3> QED
      BY <3>1, <1>1, <1>5, <1>7 DEF CallAgrees
  <2>2. CASE e # c
    <3>1. call'[e] = call[e] /\ CallAgrees(e)
      BY <2>2, <1>3 DEF PublishingInv, TypeOK
    <3>2. call[e].at \in {"insert", "select", "create", "done", "conflict"} =>
            call[e].about.version \in Versions /\ call[e].about # None
      BY <3>1, DefinitionVersions DEF CallAgrees
    <3> QED
      BY <3>1, <3>2, <1>7 DEF CallAgrees
  <2> QED
    BY <2>1, <2>2
<1> QED
  BY <1>9, <1>10, <1>11 DEF PublishingInv

LEMMA InsertHolds ==
  ASSUME PublishingInv, NEW c \in Calls, Insert(c)
  PROVE  PublishingInv'
<1>1. call[c].at = "insert" /\ published[call[c].about.version] = None
  BY DEF Insert, Vacant, At
<1>2. /\ published' = [published EXCEPT ![call[c].about.version] = call[c].about]
      /\ Saved(c) /\ UNCHANGED <<runs, registry>>
  BY DEF Insert
<1> QED
  BY <1>1, <1>2, SavedHolds

LEMMA InsertNothingHolds ==
  ASSUME PublishingInv, NEW c \in Calls, InsertNothing(c)
  PROVE  PublishingInv'
<1> DEFINE new == [call[c] EXCEPT !.at = "select"]
<1>1. call[c] \in Call /\ CallAgrees(c) /\ call[c].at = "insert"
  BY DEF PublishingInv, TypeOK, InsertNothing, At
<1>2. new \in Call /\ new.at = "select" /\ new.about = call[c].about /\ new.by = call[c].by
  BY <1>1 DEF Call
<1>3. call' = [call EXCEPT ![c] = new] /\ call'[c] = new
  BY DEF InsertNothing, Goto, PublishingInv, TypeOK
<1>4. CallAgrees(c)'
  BY <1>1, <1>2, <1>3 DEF CallAgrees, InsertNothing, Vacant
<1> QED
  BY <1>2, <1>3, <1>4, OnlyCallMoves DEF InsertNothing

LEMMA SelectSameHolds ==
  ASSUME PublishingInv, NEW c \in Calls, SelectSame(c)
  PROVE  PublishingInv'
<1> DEFINE d == call[c].about
<1>1. call[c].at = "select" /\ published[d.version] = d
  BY DEF SelectSame, SameHash, HashDefinition, At
<1>2. published' = [published EXCEPT ![d.version] = d]
  BY <1>1 DEF SelectSame, PublishingInv, TypeOK
<1>3. call[c].at \in {"insert", "select"} /\ published[d.version] \in {None, d} /\ Saved(c)
  BY <1>1 DEF SelectSame
<1>4. UNCHANGED <<runs, registry>>
  BY DEF SelectSame
<1> QED
  BY <1>2, <1>3, <1>4, SavedHolds

LEMMA SelectConflictHolds ==
  ASSUME PublishingInv, NEW c \in Calls, SelectConflict(c)
  PROVE  PublishingInv'
<1> DEFINE new == [call[c] EXCEPT !.at = "conflict"]
<1>1. call[c] \in Call /\ CallAgrees(c) /\ call[c].at = "select"
  BY DEF PublishingInv, TypeOK, SelectConflict, At
<1>2. new \in Call /\ new.at = "conflict" /\ new.about = call[c].about
  BY <1>1 DEF Call
<1>3. call' = [call EXCEPT ![c] = new] /\ call'[c] = new
  BY DEF SelectConflict, Goto, PublishingInv, TypeOK
<1>4. CallAgrees(c)'
  BY <1>1, <1>2, <1>3 DEF CallAgrees, SelectConflict, SameHash, HashDefinition
<1> QED
  BY <1>2, <1>3, <1>4, OnlyCallMoves DEF SelectConflict

LEMMA StartByNameHolds ==
  ASSUME PublishingInv, NEW c \in Calls, StartByName(c)
  PROVE  PublishingInv'
<1>1. PICK p \in Processes : call' = [call EXCEPT ![c] = Request("latest", p, "start", None, None)]
  BY DEF StartByName
<1> DEFINE new == Request("latest", p, "start", None, None)
<1>2. new \in Call /\ new.at = "latest" /\ new.by = p
  BY DEF Request, Call
<1>3. call'[c] = new
  BY <1>1 DEF PublishingInv, TypeOK
<1>4. CallAgrees(c)'
  BY <1>2, <1>3 DEF CallAgrees
<1> QED
  BY <1>1, <1>2, <1>4, OnlyCallMoves DEF StartByName

LEMMA GetLatestHolds ==
  ASSUME PublishingInv, NEW c \in Calls, GetLatest(c)
  PROVE  PublishingInv'
<1>1. PICK latest \in PublishedVersions :
        IF Covers(registry[call[c].by], published[latest])
          THEN call' = [call EXCEPT ![c].at = "create", ![c].about = published[latest]]
          ELSE End(c)
  BY DEF GetLatest
<1>2. CASE Covers(registry[call[c].by], published[latest])
  <2> DEFINE d   == published[latest]
             new == [call[c] EXCEPT !.at = "create", !.about = d]
  <2>1. d \in Definitions /\ d.version = latest
    BY DEF PublishedVersions, PublishingInv, TypeOK, RowsAgree
  <2>2. call[c] \in Call /\ call[c].by \in Processes
    BY DEF PublishingInv, TypeOK, CallAgrees, GetLatest, At
  <2>3. new \in Call /\ new.at = "create" /\ new.about = d /\ new.by = call[c].by
    BY <2>1, <2>2 DEF Call
  <2>4. call' = [call EXCEPT ![c] = new] /\ call'[c] = new
    BY <1>1, <1>2 DEF PublishingInv, TypeOK
  <2>5. CallAgrees(c)'
    BY <1>2, <2>1, <2>2, <2>3, <2>4 DEF CallAgrees, GetLatest
  <2> QED
    BY <2>3, <2>4, <2>5, OnlyCallMoves DEF GetLatest
<1>3. CASE ~Covers(registry[call[c].by], published[latest])
  BY <1>1, <1>3, EndHolds DEF GetLatest
<1> QED
  BY <1>2, <1>3

LEMMA CreateRunHolds ==
  ASSUME PublishingInv, NEW c \in Calls, CreateRun(c)
  PROVE  PublishingInv'
<1> DEFINE d   == call[c].about
           p   == call[c].by
           new == [version |-> d.version, content |-> d, starter |-> p]
<1>1. PICK r \in Runs : runs[r] = None /\ runs' = [runs EXCEPT ![r] = new]
  BY DEF CreateRun
<1>2. call[c] \in Call /\ CallAgrees(c) /\ call[c].at = "create"
  BY DEF PublishingInv, TypeOK, CreateRun, At
<1>3. /\ d \in Definitions /\ p \in Processes /\ Covers(registry[p], d)
      /\ published[d.version] = d
  BY <1>2 DEF CallAgrees
<1>4. d.version \in Versions
  BY <1>3, DefinitionVersions
<1> DEFINE answer == [call[c] EXCEPT !.at = "done"]
<1>5. answer \in Call /\ answer.at = "done" /\ answer.about = d
  BY <1>2 DEF Call
<1>6. call' = [call EXCEPT ![c] = answer]
  BY DEF CreateRun, Goto
<1>7. new \in Run /\ new.version = d.version /\ new.content = d /\ new.starter = p
  BY <1>3, <1>4 DEF Run
<1>8. /\ runs'[r] = new
      /\ \A q \in Runs : q # r => runs'[q] = runs[q]
  BY <1>1 DEF PublishingInv, TypeOK
<1>9. UNCHANGED <<published, registry, hashes, definitions>>
  BY DEF CreateRun
<1>10. TypeOK'
  BY <1>1, <1>5, <1>6, <1>7, <1>9 DEF PublishingInv, TypeOK
<1>11. RowsAgree'
  BY <1>3, <1>7, <1>8, <1>9 DEF PublishingInv, RowsAgree, CachesAgree
<1>12. ASSUME NEW e \in Calls PROVE CallAgrees(e)'
  <2>1. CASE e = c
    <3>1. call'[e] = answer
      BY <2>1, <1>6 DEF PublishingInv, TypeOK
    <3> QED
      BY <3>1, <1>3, <1>5, <1>9 DEF CallAgrees
  <2>2. CASE e # c
    <3>1. call'[e] = call[e] /\ CallAgrees(e)
      BY <2>2, <1>6 DEF PublishingInv, TypeOK
    <3>2. call[e].at \in {"load", "drive", "append"} => call[e].run # r
      BY <3>1, <1>1 DEF CallAgrees
    <3> QED
      BY <3>1, <3>2, <1>8, <1>9 DEF CallAgrees
  <2> QED
    BY <2>1, <2>2
<1> QED
  BY <1>10, <1>11, <1>12 DEF PublishingInv

\* What a tick or a signal finds in the cache is what the run was started with.
LEMMA RequireDefinitionHolds ==
  ASSUME PublishingInv, NEW c \in Calls, NEW p \in Processes, NEW r \in Runs, runs[r] # None,
         NEW op \in {"tick", "signal"}, NEW goal \in {"drive", "append"},
         RequireDefinition(c, p, r, op, goal),
         UNCHANGED <<published, runs, registry, hashes, definitions>>
  PROVE  PublishingInv'
<1> DEFINE cached == definitions[p][runs[r].version]
           new    == Request(IF cached = None THEN "load" ELSE goal, p, op, cached, r)
<1>1. call' = [call EXCEPT ![c] = new]
  BY DEF RequireDefinition, VersionFor
<1>2. runs[r] \in Run /\ runs[r].version \in Versions
  BY DEF PublishingInv, TypeOK, Run
<1>3. cached \in Definitions \cup {None}
  BY <1>2 DEF PublishingInv, TypeOK
<1>4. cached # None => cached = runs[r].content
  BY <1>2 DEF PublishingInv, RowsAgree, CachesAgree
<1>5. /\ new.at = (IF cached = None THEN "load" ELSE goal)
      /\ new.by = p /\ new.about = cached /\ new.run = r
  BY DEF Request
<1>6. new \in Call
  BY <1>3 DEF Request, Call
<1>7. call'[c] = new
  BY <1>1 DEF PublishingInv, TypeOK
<1>8. CallAgrees(c)'
  BY <1>4, <1>5, <1>7 DEF CallAgrees
<1> QED
  BY <1>1, <1>6, <1>8, OnlyCallMoves

LEMMA LoadHolds ==
  ASSUME PublishingInv, NEW c \in Calls, Load(c)
  PROVE  PublishingInv'
<1> DEFINE d    == Loaded(c)
           r    == call[c].run
           p    == call[c].by
           goal == IF call[c].op = "tick" THEN "drive" ELSE "append"
           new  == [call[c] EXCEPT !.about = d, !.at = goal]
<1>1. call[c] \in Call /\ p \in Processes /\ r \in Runs /\ runs[r] # None
  BY DEF PublishingInv, TypeOK, CallAgrees, Load, At
<1>2. runs[r].version \in Versions /\ d = runs[r].content /\ d \in Definitions
  BY <1>1 DEF PublishingInv, TypeOK, RowsAgree, Run, Loaded
<1>3. d.version = runs[r].version /\ d = published[d.version] /\ d # None
  BY <1>1, <1>2, DefinitionVersions DEF PublishingInv, RowsAgree, Loaded
<1>4. new \in Call /\ new.at = goal /\ new.about = d /\ new.run = r /\ new.by = p
  BY <1>1, <1>2 DEF Call
<1>5. call' = [call EXCEPT ![c] = new] /\ definitions' = [definitions EXCEPT ![p][d.version] = d]
  BY DEF Load
<1>6. UNCHANGED <<published, runs, registry, hashes>>
  BY DEF Load
<1>7. TypeOK'
  BY <1>1, <1>2, <1>3, <1>4, <1>5, <1>6 DEF PublishingInv, TypeOK
<1>8. RowsAgree'
  <2>1. ASSUME NEW q \in Processes, NEW w \in Versions
        PROVE  definitions'[q][w] \in {None, published[w]}
    BY <1>1, <1>2, <1>3, <1>5 DEF PublishingInv, TypeOK, RowsAgree, CachesAgree
  <2> QED
    BY <2>1, <1>6 DEF PublishingInv, RowsAgree, CachesAgree
<1>9. CallAgrees(c)'
  <2>1. call'[c] = new
    BY <1>5 DEF PublishingInv, TypeOK
  <2> QED
    BY <2>1, <1>1, <1>2, <1>4, <1>6 DEF CallAgrees
<1>10. \A e \in Calls \ {c} : CallAgrees(e)'
  BY <1>5, <1>6, OthersAgree
<1> QED
  BY <1>7, <1>8, <1>9, <1>10 DEF PublishingInv

LEMMA RegisterHolds ==
  ASSUME PublishingInv, NEW p \in Processes, Register(p)
  PROVE  PublishingInv'
<1>1. PICK name \in Additions :
        registry' = [registry EXCEPT ![p] = [registry[p] EXCEPT !.handlers = @ \cup {name}]]
  BY DEF Register
<1>2. UNCHANGED <<published, runs, hashes, definitions, call>>
  BY DEF Register
<1>3. registry[p] \in Registry /\ name \in Names
  BY PublishingAssumption DEF PublishingInv, TypeOK
<1>4. [registry[p] EXCEPT !.handlers = @ \cup {name}] \in Registry
  BY <1>3 DEF Registry
<1>5. ASSUME NEW q \in Processes, NEW d, Covers(registry[q], d) PROVE Covers(registry'[q], d)
  <2>1. CASE q = p
    <3>1. registry'[q] = [registry[p] EXCEPT !.handlers = @ \cup {name}]
      BY <2>1, <1>1 DEF PublishingInv, TypeOK
    <3> QED
      BY <3>1, <2>1, <1>3, <1>5, CoverageGrows
  <2>2. CASE q # p
    BY <2>2, <1>1, <1>5 DEF PublishingInv, TypeOK
  <2> QED
    BY <2>1, <2>2
<1>6. TypeOK'
  BY <1>1, <1>2, <1>4 DEF PublishingInv, TypeOK
<1>7. RowsAgree'
  <2>1. \A r \in Runs : runs[r] # None => runs[r] \in Run
    BY DEF PublishingInv, TypeOK
  <2>2. \A r \in Runs : runs[r] # None /\ runs[r].starter # None =>
          Covers(registry'[runs[r].starter], runs[r].content)
    BY <2>1, <1>5 DEF PublishingInv, RowsAgree, Run
  <2> QED
    BY <2>2, <1>2 DEF PublishingInv, RowsAgree, CachesAgree
<1>8. \A c \in Calls : CallAgrees(c)'
  BY <1>2, <1>5 DEF PublishingInv, CallAgrees
<1> QED
  BY <1>6, <1>7, <1>8 DEF PublishingInv

\* The runs stay bound to their versions; what the process had in hand is gone.
LEMMA RestartHolds ==
  ASSUME PublishingInv, NEW p \in Processes, Restart(p)
  PROVE  PublishingInv'
<1>1. PICK build \in Builds : registry' = [registry EXCEPT ![p] = Boot(build)]
  BY DEF Restart
<1>2. /\ published' = published
      /\ hashes' = [hashes EXCEPT ![p] = NoVersions]
      /\ definitions' = [definitions EXCEPT ![p] = NoVersions]
      /\ call' = [c \in Calls |-> IF call[c].by = p THEN NoCall ELSE call[c]]
  BY DEF Restart
<1>3. runs' = [r \in Runs |-> IF runs[r] # None /\ runs[r].starter = p
                                THEN [runs[r] EXCEPT !.starter = None] ELSE runs[r]]
  BY DEF Restart
<1>4. /\ \A q \in Processes : q # p => /\ hashes'[q] = hashes[q]
                                       /\ definitions'[q] = definitions[q]
                                       /\ registry'[q] = registry[q]
      /\ hashes'[p] = NoVersions /\ definitions'[p] = NoVersions
  BY <1>1, <1>2 DEF PublishingInv, TypeOK
<1>5. ASSUME NEW r \in Runs, runs'[r] # None
      PROVE  /\ runs[r] # None /\ runs[r] \in Run /\ runs'[r] \in Run
             /\ runs'[r].version = runs[r].version /\ runs'[r].content = runs[r].content
             /\ runs'[r].starter # None => /\ runs'[r].starter = runs[r].starter
                                           /\ runs'[r].starter # p
  <2>1. runs[r] # None /\ runs[r] \in Run
    BY <1>5, <1>3 DEF PublishingInv, TypeOK
  <2>2. CASE runs[r].starter = p
    <3>1. runs'[r] = [runs[r] EXCEPT !.starter = None]
      BY <2>1, <2>2, <1>3
    <3> QED
      BY <3>1, <2>1 DEF Run
  <2>3. CASE runs[r].starter # p
    BY <2>1, <2>3, <1>3
  <2> QED
    BY <2>1, <2>2, <2>3
<1>6. ASSUME NEW r \in Runs, runs[r] # None
      PROVE  runs'[r] # None /\ runs'[r].content = runs[r].content
  <2>1. runs[r] \in Run /\ runs[r].content # None
    BY <1>6, DefinitionVersions DEF PublishingInv, TypeOK, Run
  <2>2. CASE runs[r].starter = p
    <3>1. runs'[r] = [runs[r] EXCEPT !.starter = None]
      BY <1>6, <2>2, <1>3
    <3>2. runs'[r].content = runs[r].content
      BY <3>1, <2>1 DEF Run
    <3>3. runs'[r] \in Run
      BY <3>1, <2>1 DEF Run
    <3> QED
      BY <3>2, <3>3, PublishingAssumption
  <2>3. CASE runs[r].starter # p
    BY <1>6, <2>3, <1>3
  <2> QED
    BY <2>2, <2>3
<1>7. TypeOK'
  <2>1. NoCall \in Call /\ Boot(build) \in Registry
    BY BootIsRegistry DEF NoCall, Request, Call
  <2>2. hashes' \in [Processes -> [Versions -> Hashes \cup {None}]]
    BY <1>2 DEF PublishingInv, TypeOK, NoVersions
  <2>3. definitions' \in [Processes -> [Versions -> Definitions \cup {None}]]
    BY <1>2 DEF PublishingInv, TypeOK, NoVersions
  <2>4. call' \in [Calls -> Call] /\ registry' \in [Processes -> Registry]
    BY <1>1, <1>2, <2>1 DEF PublishingInv, TypeOK
  <2>5. runs' \in [Runs -> Run \cup {None}]
    BY <1>3, <1>5
  <2> QED
    BY <1>2, <2>2, <2>3, <2>4, <2>5 DEF PublishingInv, TypeOK
<1>8. RowsAgree'
  <2>1. CachesAgree'
    BY <1>2, <1>4 DEF PublishingInv, RowsAgree, CachesAgree, NoVersions
  <2>2. \A r \in Runs : runs'[r] # None => published'[runs'[r].version] = runs'[r].content
    BY <1>2, <1>5 DEF PublishingInv, RowsAgree
  <2>3. ASSUME NEW r \in Runs, runs'[r] # None, runs'[r].starter # None
        PROVE  Covers(registry'[runs'[r].starter], runs'[r].content)
    <3>1. runs'[r].starter \in Processes \ {p} /\ runs'[r].starter = runs[r].starter
      BY <2>3, <1>5 DEF Run
    <3> QED
      BY <3>1, <2>3, <1>4, <1>5 DEF PublishingInv, RowsAgree
  <2> QED
    BY <2>1, <2>2, <2>3, <1>2 DEF PublishingInv, RowsAgree
<1>9. ASSUME NEW c \in Calls PROVE CallAgrees(c)'
  <2>1. CASE call[c].by = p
    <3>1. call'[c] = NoCall
      BY <2>1, <1>2
    <3> QED
      BY <3>1 DEF CallAgrees, NoCall, Request
  <2>2. CASE call[c].by # p
    <3>1. call'[c] = call[c] /\ CallAgrees(c)
      BY <2>2, <1>2 DEF PublishingInv
    <3> QED
      BY <3>1, <2>2, <1>2, <1>4, <1>6 DEF CallAgrees
  <2> QED
    BY <2>1, <2>2
<1> QED
  BY <1>7, <1>8, <1>9 DEF PublishingInv

-----------------------------------------------------------------------------
LEMMA StepHolds == PublishingInv /\ [Next]_vars => PublishingInv'
<1> SUFFICES ASSUME PublishingInv, [Next]_vars PROVE PublishingInv'
  OBVIOUS
<1>1. ASSUME NEW c \in Calls, Publish(c) PROVE PublishingInv'
  BY <1>1, PublishHolds
<1>2. ASSUME NEW c \in Calls, Insert(c) \/ InsertNothing(c) PROVE PublishingInv'
  BY <1>2, InsertHolds, InsertNothingHolds
<1>3. ASSUME NEW c \in Calls, SelectSame(c) \/ SelectConflict(c) PROVE PublishingInv'
  BY <1>3, SelectSameHolds, SelectConflictHolds
<1>4. ASSUME NEW c \in Calls, StartByName(c) \/ GetLatest(c) \/ CreateRun(c) PROVE PublishingInv'
  BY <1>4, StartByNameHolds, GetLatestHolds, CreateRunHolds
<1>5. ASSUME NEW c \in Calls, Tick(c) \/ Signal(c) PROVE PublishingInv'
  BY <1>5, RequireDefinitionHolds DEF Tick, Signal
<1>6. ASSUME NEW c \in Calls, Load(c) PROVE PublishingInv'
  BY <1>6, LoadHolds
<1>7. ASSUME NEW c \in Calls, NothingPublished(c) \/ Drive(c) \/ AppendSignal(c) \/ Return(c)
      PROVE  PublishingInv'
  BY <1>7, EndHolds DEF NothingPublished, Drive, AppendSignal, Return
<1>8. ASSUME NEW p \in Processes, Register(p) \/ Restart(p) PROVE PublishingInv'
  BY <1>8, RegisterHolds, RestartHolds
<1>9. CASE UNCHANGED vars
  BY <1>9 DEF vars, PublishingInv, TypeOK, RowsAgree, CachesAgree, CallAgrees
<1> QED
  BY <1>1, <1>2, <1>3, <1>4, <1>5, <1>6, <1>7, <1>8, <1>9 DEF Next

THEOREM InvariantHolds == Spec => []PublishingInv
BY InitHolds, StepHolds, PTL DEF Spec

\* Every variable keeps its type, and only definitions that validation accepted
\* are ever stored or cached.
THEOREM PublishingTypesCorrect == Spec => []TypeOK
<1>1. PublishingInv => TypeOK
  BY DEF PublishingInv
<1> QED
  BY <1>1, InvariantHolds, PTL

\* A cache never disagrees with the table.
THEOREM CachesAlwaysAgree == Spec => []CachesAgree
<1>1. PublishingInv => CachesAgree
  BY DEF PublishingInv, RowsAgree
<1> QED
  BY <1>1, InvariantHolds, PTL

\* publish and start tell the truth about what is stored.
THEOREM AnswersAlwaysTrue == Spec => []AnswersAreTrue
<1>1. PublishingInv => AnswersAreTrue
  <2> SUFFICES ASSUME PublishingInv, NEW c \in Calls
               PROVE  /\ At(c, "create") \/ At(c, "done")
                           => published[call[c].about.version] = call[c].about
                      /\ At(c, "conflict")
                           => published[call[c].about.version] \notin {None, call[c].about}
                      /\ At(c, "load") => Loaded(c) # None
    BY DEF AnswersAreTrue
  <2>1. CallAgrees(c)
    BY DEF PublishingInv
  <2>2. ASSUME At(c, "load") PROVE Loaded(c) # None
    <3>1. call[c].run \in Runs /\ runs[call[c].run] # None
      BY <2>1, <2>2 DEF CallAgrees, At
    <3>2. runs[call[c].run].content \in Definitions /\ Loaded(c) = runs[call[c].run].content
      BY <3>1 DEF PublishingInv, TypeOK, RowsAgree, Run, Loaded
    <3> QED
      BY <3>2, PublishingAssumption
  <2> QED
    BY <2>1, <2>2 DEF CallAgrees, At
<1> QED
  BY <1>1, InvariantHolds, PTL

\* A run is driven with what it was started with, by whatever process.
THEOREM AlwaysDrivenAsStarted == Spec => []DrivenAsStarted
<1>1. PublishingInv => DrivenAsStarted
  BY DEF PublishingInv, CallAgrees, DrivenAsStarted, At
<1> QED
  BY <1>1, InvariantHolds, PTL

\* Nothing that a process started turns out to lack a handler or a guard there.
THEOREM StarterAlwaysCanDrive == Spec => []StarterCanDrive
<1>1. PublishingInv => StarterCanDrive
  <2> SUFFICES ASSUME PublishingInv, NEW r \in Runs, runs[r] # None, runs[r].starter # None,
                      NEW s \in DOMAIN runs[r].content.steps
               PROVE  LET step == runs[r].content.steps[s]
                      IN  /\ step.uses \in registry[runs[r].starter].handlers
                          /\ GuardsOf(step) \subseteq registry[runs[r].starter].guards
    BY DEF StarterCanDrive
  <2>1. Covers(registry[runs[r].starter], runs[r].content)
    BY DEF PublishingInv, RowsAgree
  <2> QED
    BY <2>1 DEF Covers, MissingHandlers, MissingGuards
<1> QED
  BY <1>1, InvariantHolds, PTL

\* A published version is final.
THEOREM VersionsStayFinal == Spec => VersionsAreFinal
<1>1. PublishingInv /\ [Next]_vars =>
        [\A v \in Versions : published[v] # None => published'[v] = published[v]]_vars
  <2> SUFFICES ASSUME PublishingInv, Next, NEW v \in Versions, published[v] # None
               PROVE  published'[v] = published[v]
    OBVIOUS
  <2>1. ASSUME NEW c \in Calls, Insert(c) PROVE published'[v] = published[v]
    BY <2>1 DEF Insert, Vacant, PublishingInv, TypeOK
  <2>2. (\A c \in Calls : ~Insert(c)) => published' = published
    BY DEF Next, Publish, InsertNothing, SelectSame, SelectConflict, StartByName, GetLatest,
           NothingPublished, CreateRun, Tick, Signal, Load, Drive, AppendSignal, Return, Register,
           Restart
  <2> QED
    BY <2>1, <2>2
<1> QED
  BY <1>1, InvariantHolds, PTL DEF Spec, VersionsAreFinal

-----------------------------------------------------------------------------
(* Back-off.  Power is a recursive function, so what it computes rests on the *)
(* existence of a solution of its equation.                                   *)

Less == {pair \in Nat \X Nat : pair[1] < pair[2]}

\* A set of numbers has a least member.
LEMMA LeastNumber ==
  ASSUME NEW S \in SUBSET Nat, S # {}
  PROVE  \E m \in S : \A y \in S : m <= y
<1>1. IsWellFoundedOn(Less, Nat)
  BY NatLessThanWellFounded DEF OpToRel, Less
<1>2. PICK m \in S : \A y \in S : ~ (<<y, m>> \in Less)
  BY <1>1, WFMin, Zenon
<1>3. ASSUME NEW y \in S PROVE m <= y
  <2>1. m \in Nat /\ y \in Nat /\ ~ (<<y, m>> \in Less)
    BY <1>2
  <2> QED
    BY <2>1 DEF Less
<1> QED
  BY <1>3

\* p lists the powers of b up to n.
IsPowerList(p, b, n) ==
  /\ p \in [0..n -> Nat]
  /\ p[0] = 1
  /\ \A k \in 1..n : p[k] = b * p[k - 1]

\* There is such a list for every n, or a least n without one.
LEMMA PowerListExists ==
  ASSUME NEW b \in Nat
  PROVE  \A n \in Nat : \E p : IsPowerList(p, b, n)
<1> DEFINE Bad == {n \in Nat : ~ \E p : IsPowerList(p, b, n)}
<1> SUFFICES ASSUME Bad # {} PROVE FALSE
  OBVIOUS
<1>1. PICK n \in Bad : \A y \in Bad : n <= y
  BY LeastNumber
<1>2. CASE n = 0
  <2>1. IsPowerList([k \in 0..0 |-> 1], b, 0)
    BY DEF IsPowerList
  <2> QED
    BY <2>1, <1>2
<1>3. CASE n # 0
  <2>1. n - 1 \in Nat /\ n - 1 \notin Bad
    BY <1>1, <1>3
  <2>2. PICK p : IsPowerList(p, b, n - 1)
    BY <2>1
  <2> DEFINE q == [k \in 0..n |-> IF k = n THEN b * p[n - 1] ELSE p[k]]
  <2>3. q \in [0..n -> Nat]
    BY <2>1, <2>2 DEF IsPowerList
  <2>4. q[0] = 1
    BY <2>1, <2>2, <1>3 DEF IsPowerList
  <2>5. ASSUME NEW k \in 1..n PROVE q[k] = b * q[k - 1]
    <3>1. n \in Nat /\ k \in 0..n /\ k - 1 \in 0..n /\ k - 1 # n
      OBVIOUS
    <3>2. CASE k = n
      BY <3>1, <3>2
    <3>3. CASE k # n
      <4>1. k \in 1..(n - 1)
        BY <3>1, <3>3
      <4>2. p[k] = b * p[k - 1]
        BY <4>1, <2>2 DEF IsPowerList
      <4> QED
        BY <3>1, <3>3, <4>2
    <3> QED
      BY <3>2, <3>3
  <2> HIDE DEF q
  <2>6. IsPowerList(q, b, n)
    BY <2>3, <2>4, <2>5 DEF IsPowerList
  <2> QED
    BY <2>6
<1> QED
  BY <1>2, <1>3

\* Two of them agree as far as both go.
LEMMA PowerListsAgree ==
  ASSUME NEW b \in Nat, NEW n \in Nat, NEW m \in Nat, NEW p, NEW q,
         IsPowerList(p, b, n), IsPowerList(q, b, m), NEW k \in Nat, k <= n, k <= m
  PROVE  p[k] = q[k]
<1> DEFINE Bad == {j \in Nat : j <= n /\ j <= m /\ p[j] # q[j]}
<1> SUFFICES ASSUME Bad # {} PROVE FALSE
  OBVIOUS
<1>1. PICK j \in Bad : \A y \in Bad : j <= y
  BY LeastNumber
<1>2. j # 0
  BY <1>1 DEF IsPowerList
<1>3. j - 1 \in Nat /\ j - 1 \notin Bad
  BY <1>1, <1>2
<1>4. p[j - 1] = q[j - 1]
  BY <1>1, <1>3
<1>5. j \in 1..n /\ j \in 1..m
  BY <1>1, <1>2
<1>6. p[j] = b * p[j - 1] /\ q[j] = b * q[j - 1]
  BY <1>5 DEF IsPowerList
<1> QED
  BY <1>1, <1>4, <1>6

\* The equation of Power, and that it has a solution.
Powers(b, p) == p = [k \in Nat |-> IF k = 0 THEN 1 ELSE b * p[k - 1]]

LEMMA PowersExist ==
  ASSUME NEW b \in Nat
  PROVE  \E p : Powers(b, p)
<1> DEFINE list(n) == CHOOSE p : IsPowerList(p, b, n)
           p       == [n \in Nat |-> list(n)[n]]
<1>1. ASSUME NEW n \in Nat PROVE IsPowerList(list(n), b, n)
  BY PowerListExists
<1> HIDE DEF list
<1>2. ASSUME NEW n \in Nat PROVE p[n] = IF n = 0 THEN 1 ELSE b * p[n - 1]
  <2>1. CASE n = 0
    BY <2>1, <1>1 DEF IsPowerList
  <2>2. CASE n # 0
    <3>1. n - 1 \in Nat /\ n \in 1..n
      BY <2>2
    <3>2. IsPowerList(list(n), b, n) /\ IsPowerList(list(n - 1), b, n - 1)
      BY <3>1, <1>1
    <3>3. list(n)[n] = b * list(n)[n - 1]
      BY <3>1, <3>2 DEF IsPowerList
    <3>4. list(n)[n - 1] = list(n - 1)[n - 1]
      BY <3>1, <3>2, PowerListsAgree
    <3> QED
      BY <2>2, <3>1, <3>3, <3>4
  <2> QED
    BY <2>1, <2>2
<1>3. p = [n \in Nat |-> IF n = 0 THEN 1 ELSE b * p[n - 1]]
  BY <1>2
<1> HIDE DEF p
<1>4. Powers(b, p)
  BY <1>3 DEF Powers
<1> QED
  BY <1>4

\* What ** computes.
LEMMA PowerStep ==
  ASSUME NEW b \in Nat, NEW n \in Nat
  PROVE  Power(b, 0) = 1 /\ Power(b, n + 1) = b * Power(b, n)
<1> DEFINE f == CHOOSE p : Powers(b, p)
<1>1. Powers(b, f)
  BY PowersExist
<1>2. f = CHOOSE p : p = [k \in Nat |-> IF k = 0 THEN 1 ELSE b * p[k - 1]]
  BY DEF Powers
<1>3. \A k : Power(b, k) = (CHOOSE p : p = [j \in Nat |-> IF j = 0 THEN 1 ELSE b * p[j - 1]])[k]
  BY Zenon DEF Power
<1>4. \A k : Power(b, k) = f[k]
  BY <1>2, <1>3, Zenon
<1> HIDE DEF f
<1>5. f = [k \in Nat |-> IF k = 0 THEN 1 ELSE b * f[k - 1]]
  BY <1>1 DEF Powers
<1>6. f[0] = 1 /\ f[n + 1] = b * f[n]
  BY <1>5
<1> QED
  BY <1>4, <1>6

\* A power is a positive number.
LEMMA PowerIsPositive ==
  ASSUME NEW b \in Nat, b >= 1
  PROVE  \A n \in Nat : Power(b, n) \in Nat /\ Power(b, n) >= 1
<1> DEFINE Bad == {n \in Nat : ~ (Power(b, n) \in Nat /\ Power(b, n) >= 1)}
<1> SUFFICES ASSUME Bad # {} PROVE FALSE
  OBVIOUS
<1>1. PICK n \in Bad : \A y \in Bad : n <= y
  BY LeastNumber
<1>2. n # 0
  BY <1>1, PowerStep
<1>3. n - 1 \in Nat /\ n - 1 \notin Bad
  BY <1>1, <1>2
<1> DEFINE x == Power(b, n - 1)
<1>4. x \in Nat /\ x >= 1
  BY <1>3
<1>5. Power(b, n) = b * x
  <2>1. (n - 1) + 1 = n
    OBVIOUS
  <2> QED
    BY <2>1, <1>3, PowerStep
<1> HIDE DEF x
<1>6. b * x \in Nat /\ b * x >= 1
  BY <1>4
<1> QED
  BY <1>1, <1>5, <1>6

\* What validation lets through of a policy, with the defaults filled in.
SanePolicy(policy) ==
  LET normalized == NormalizeRetryPolicy(policy)
  IN  /\ normalized.initialDelayMs \in Nat
      /\ normalized.maxDelayMs \in Nat /\ normalized.maxDelayMs <= Huge * Unit
      /\ normalized.multiplier \in Nat /\ normalized.multiplier >= Unit

LEMMA ValidPolicyIsSane ==
  ASSUME NEW policy, policy # None, ValidateRetry(policy), TypedPolicy(policy)
  PROVE  SanePolicy(policy)
<1> DEFINE normalized == NormalizeRetryPolicy(policy)
<1>1. Unit \in Nat /\ Huge \in Nat /\ 60000 * Unit <= Huge * Unit
  BY NumberAssumption
<1>2. /\ normalized.initialDelayMs = Default(policy.initialDelayMs, 1000 * Unit)
      /\ normalized.maxDelayMs = Default(policy.maxDelayMs, 60000 * Unit)
      /\ normalized.multiplier = Default(policy.multiplier, 2 * Unit)
  BY DEF NormalizeRetryPolicy
<1> HIDE DEF normalized
<1>3. normalized.initialDelayMs \in Nat
  BY <1>1, <1>2 DEF ValidateRetry, TypedPolicy, Numbers, Default
<1>4. normalized.maxDelayMs \in Nat /\ normalized.maxDelayMs <= Huge * Unit
  BY <1>1, <1>2 DEF ValidateRetry, TypedPolicy, Numbers, Default
<1>5. normalized.multiplier \in Nat /\ normalized.multiplier >= Unit
  BY <1>1, <1>2 DEF ValidateRetry, TypedPolicy, Numbers, Default
<1> QED
  BY <1>3, <1>4, <1>5 DEF SanePolicy, normalized

\* Every policy of a draft that a process would publish.
LEMMA AcceptedPolicies ==
  ASSUME NEW p, NEW d \in Drafts, CanPublish(p, d), NEW policy \in Policies(d)
  PROVE  SanePolicy(policy)
<1>1. PICK s \in DOMAIN d.steps : policy = d.steps[s].retry /\ policy # None
  BY DEF Policies
<1> DEFINE definition == NormalizeDefinition(d)
<1>2. ValidateDefinition(definition)
  BY DEF CanPublish, Accepts
<1>3. /\ definition.steps = [t \in DOMAIN d.steps |-> NormalizeStepDefinition(d.steps[t])]
      /\ DOMAIN definition.steps = DOMAIN d.steps
  BY DEF NormalizeDefinition
<1>4. definition.steps[s].retry = policy
  BY <1>1, <1>3 DEF NormalizeStepDefinition
<1> HIDE DEF definition
<1>5. ValidateRetry(policy)
  BY <1>2, <1>3, <1>4 DEF ValidateDefinition
<1> QED
  BY <1>1, <1>5, ValidPolicyIsSane, DraftAssumption

\* Both sides of a comparison may be multiplied by a natural number, and divided
\* by a positive one.
LEMMA TimesKeepsOrder ==
  ASSUME NEW x \in Nat, NEW y \in Nat, x <= y, NEW c \in Nat
  PROVE  x * c <= y * c /\ x * c \in Nat /\ y * c \in Nat
OBVIOUS

LEMMA TimesReflectsOrder ==
  ASSUME NEW x \in Nat, NEW y \in Nat, NEW c \in Nat \ {0}, x * c <= y * c
  PROVE  x <= y
<1> SUFFICES ASSUME x >= y + 1 PROVE FALSE
  OBVIOUS
<1>1. (y + 1) * c <= x * c /\ (y + 1) * c = y * c + c
  OBVIOUS
<1>2. x * c \in Nat /\ y * c \in Nat
  OBVIOUS
<1> QED
  BY <1>1, <1>2

\* Multiplication by a positive number does not make smaller.
LEMMA TimesGrows ==
  ASSUME NEW x \in Nat, NEW b \in Nat, b >= 1
  PROVE  x <= b * x /\ b * x \in Nat
OBVIOUS

\* Math.round gives the nearest whole number, the upper one of two.
LEMMA RoundIsNearest ==
  ASSUME NEW number \in Nat, NEW unit \in Nat \ {0}, number <= Huge * unit
  PROVE  LET r == MathRound(number, unit)
         IN  /\ r \in Nat
             /\ 2 * unit * r <= 2 * number + unit
             /\ 2 * number + unit < 2 * unit * (r + 1)
<1> DEFINE n == 2 * number + unit
           d == 2 * unit
           r == n \div d
<1>1. n \in Nat /\ d \in Nat \ {0}
  OBVIOUS
<1>2. MathRound(number, unit) = r
  <2>1. number # NaN /\ Huge * unit \in Nat /\ ~ (number > Huge * unit)
    BY NumberAssumption
  <2> QED
    BY <2>1 DEF MathRound
<1> HIDE DEF n, d
<1>3. r \in Nat /\ d * r <= n /\ n < d * (r + 1)
  BY <1>1
<1> QED
  BY <1>2, <1>3 DEF n, d

\* It keeps the order of the numbers, in whatever units they are counted.
LEMMA RoundKeepsOrder ==
  ASSUME NEW x \in Nat, NEW d \in Nat \ {0}, x <= Huge * d,
         NEW y \in Nat, NEW e \in Nat \ {0}, y <= Huge * e,
         x * e <= y * d
  PROVE  MathRound(x, d) <= MathRound(y, e)
<1> DEFINE a == MathRound(x, d)
           b == MathRound(y, e)
<1>1. a \in Nat /\ 2 * d * a <= 2 * x + d
  BY RoundIsNearest
<1>2. b \in Nat /\ 2 * y + e < 2 * e * (b + 1)
  BY RoundIsNearest
<1> HIDE DEF a, b
<1> SUFFICES ASSUME a >= b + 1 PROVE FALSE
  BY <1>1, <1>2 DEF a, b
<1>3. 2 * y + e < 2 * e * a
  <2>1. 2 * e \in Nat /\ (b + 1) * (2 * e) <= a * (2 * e)
    BY <1>1, <1>2
  <2>2. (b + 1) * (2 * e) = 2 * e * (b + 1) /\ a * (2 * e) = 2 * e * a
    BY <1>1, <1>2
  <2>3. 2 * e * (b + 1) \in Nat /\ 2 * e * a \in Nat
    BY <1>1, <1>2
  <2> QED
    BY <2>1, <2>2, <2>3, <1>2
<1>4. (2 * d * a) * e <= (2 * x + d) * e
  <2>1. 2 * d * a \in Nat /\ 2 * x + d \in Nat
    BY <1>1
  <2> QED
    BY <2>1, <1>1, TimesKeepsOrder
<1>5. (2 * y + e + 1) * d <= (2 * e * a) * d
  <2>1. 2 * e * a \in Nat /\ 2 * y + e + 1 \in Nat /\ 2 * y + e + 1 <= 2 * e * a
    BY <1>1, <1>3
  <2> QED
    BY <2>1, TimesKeepsOrder
<1>6. /\ (2 * d * a) * e = (2 * e * a) * d
      /\ (2 * x + d) * e = 2 * (x * e) + d * e
      /\ (2 * y + e + 1) * d = 2 * (y * d) + d * e + d
  BY <1>1
<1>7. x * e \in Nat /\ y * d \in Nat /\ d * e \in Nat /\ (2 * d * a) * e \in Nat
  BY <1>1
<1> QED
  BY <1>4, <1>5, <1>6, <1>7

\* The delay after n + 1 failures, capped, and the unit it is counted in.
Capped(policy, n) ==
  LET normalized == NormalizeRetryPolicy(policy)
  IN  MathMin(RawDelay(normalized, n), normalized.maxDelayMs * Power(Unit, n))

\* initialDelayMs is 0 and the power has overflown.
Lost(policy, n) ==
  LET normalized == NormalizeRetryPolicy(policy)
  IN  /\ normalized.backoff # "fixed" /\ normalized.initialDelayMs = 0
      /\ Overflows(normalized.multiplier, n)

\* A power that has overflown stays so, and the others grow by the multiplier.
LEMMA PowersGrow ==
  ASSUME NEW b \in Nat, b >= Unit, NEW n \in Nat
  PROVE  /\ Power(Unit, n) \in Nat \ {0} /\ Power(Unit, n + 1) = Unit * Power(Unit, n)
         /\ Power(b, n) \in Nat /\ Power(b, n + 1) = b * Power(b, n)
         /\ Overflows(b, n) => Overflows(b, n + 1)
<1> DEFINE p == Power(Unit, n)
           q == Power(b, n)
<1>1. Unit \in Nat /\ Unit >= 1 /\ Huge \in Nat
  BY NumberAssumption
<1>2. p \in Nat \ {0} /\ Power(Unit, n + 1) = Unit * p
  BY <1>1, PowerIsPositive, PowerStep
<1>3. q \in Nat /\ Power(b, n + 1) = b * q
  <2>1. b >= 1
    BY <1>1
  <2> QED
    BY <2>1, PowerIsPositive, PowerStep
<1>4. Overflows(b, n) <=> q > Huge * p
  BY DEF Overflows
<1>5. Overflows(b, n + 1) <=> b * q > Huge * (Unit * p)
  BY <1>2, <1>3 DEF Overflows
<1> HIDE DEF p, q
<1>6. ASSUME q > Huge * p PROVE b * q > Huge * (Unit * p)
  <2>1. Huge * p \in Nat /\ Huge * p + 1 <= q
    BY <1>1, <1>2, <1>3, <1>6
  <2>2. (Huge * p + 1) * Unit <= q * Unit
    BY <2>1, <1>1, <1>3, TimesKeepsOrder
  <2>3. Unit * q <= b * q
    BY <1>1, <1>3, TimesKeepsOrder
  <2>4. (Huge * p + 1) * Unit = Huge * (Unit * p) + Unit /\ q * Unit = Unit * q
    BY <1>1, <1>2, <1>3
  <2>5. Huge * (Unit * p) \in Nat /\ b * q \in Nat /\ Unit * q \in Nat
    BY <1>1, <1>2, <1>3
  <2> QED
    BY <2>2, <2>3, <2>4, <2>5, <1>1
<1> QED
  BY <1>2, <1>3, <1>4, <1>5, <1>6 DEF p, q

\* The capped delay is a number unless it is lost, within the cap, and not smaller
\* after one failure more, when it is counted in a unit Unit times as small.
LEMMA CappedGrows ==
  ASSUME NEW policy, SanePolicy(policy), NEW n \in Nat
  PROVE  LET cap == NormalizeRetryPolicy(policy).maxDelayMs
         IN  /\ Capped(policy, n) = NaN <=> Lost(policy, n)
             /\ ~Lost(policy, n) => Capped(policy, n) \in Nat
                                    /\ Capped(policy, n) <= cap * Power(Unit, n)
             /\ ~Lost(policy, n) /\ ~Lost(policy, n + 1)
                  => Capped(policy, n) * Unit <= Capped(policy, n + 1)
<1> DEFINE normalized == NormalizeRetryPolicy(policy)
           first == normalized.initialDelayMs
           cap   == normalized.maxDelayMs
           b     == normalized.multiplier
           fixed == normalized.backoff = "fixed"
           p     == Power(Unit, n)
           q     == Power(b, n)
           over  == Overflows(b, n)
           more  == Overflows(b, n + 1)
           x     == IF fixed THEN first * p ELSE first * q
           y     == IF fixed THEN first * (Unit * p) ELSE first * (b * q)
<1>1. first \in Nat /\ cap \in Nat /\ b \in Nat /\ b >= Unit /\ Unit \in Nat /\ Unit >= 1
  BY NumberAssumption DEF SanePolicy
<1>2. /\ p \in Nat \ {0} /\ Power(Unit, n + 1) = Unit * p
      /\ q \in Nat /\ Power(b, n + 1) = b * q
      /\ over => more
  BY <1>1, PowersGrow
<1>3. /\ RawDelay(normalized, n) =
           IF fixed \/ ~over THEN x ELSE IF first = 0 THEN NaN ELSE Infinity
      /\ RawDelay(normalized, n + 1) =
           IF fixed \/ ~more THEN y ELSE IF first = 0 THEN NaN ELSE Infinity
  BY <1>2 DEF RawDelay
<1>4. /\ Lost(policy, n) <=> ~fixed /\ first = 0 /\ over
      /\ Lost(policy, n + 1) <=> ~fixed /\ first = 0 /\ more
  BY DEF Lost
<1>5. /\ Capped(policy, n) = MathMin(RawDelay(normalized, n), cap * p)
      /\ Capped(policy, n + 1) = MathMin(RawDelay(normalized, n + 1), cap * (Unit * p))
  BY <1>2 DEF Capped
<1>6. x \in Nat /\ y \in Nat /\ x * Unit <= y
  <2>1. CASE fixed
    <3> HIDE DEF first, p
    <3> QED
      BY <2>1, <1>1, <1>2
  <2>2. CASE ~fixed
    <3>1. x = first * q /\ y = first * (b * q)
      BY <2>2
    <3> HIDE DEF first, q, b
    <3>2. first * q \in Nat /\ Unit * (first * q) <= b * (first * q)
      BY <1>1, <1>2
    <3>3. Unit * (first * q) = (first * q) * Unit /\ b * (first * q) = first * (b * q)
      BY <1>1, <1>2
    <3>4. first * (b * q) \in Nat
      BY <1>1, <1>2
    <3> QED
      BY <3>1, <3>2, <3>3, <3>4
  <2> QED
    BY <2>1, <2>2
<1>7. cap * p \in Nat /\ cap * (Unit * p) \in Nat /\ cap * (Unit * p) = (cap * p) * Unit
  <2> HIDE DEF cap, p
  <2> QED
    BY <1>1, <1>2
<1> HIDE DEF normalized, first, cap, b, fixed, p, q, over, more, x, y
<1> DEFINE u == cap * p
           v == cap * (Unit * p)
           m == IF x > u THEN u ELSE x
<1>8. NaN \notin Nat /\ Infinity \notin Nat /\ Infinity # NaN
  BY NumberAssumption
<1> HIDE DEF u, v
<1>9. u \in Nat /\ v \in Nat /\ v = u * Unit
  BY <1>7 DEF u, v
<1>10. Capped(policy, n) = IF fixed \/ ~over THEN m ELSE IF first = 0 THEN NaN ELSE u
  BY <1>3, <1>5, <1>6, <1>8, <1>9 DEF MathMin, u
<1>11. Capped(policy, n + 1) =
         IF fixed \/ ~more THEN IF y > v THEN v ELSE y ELSE IF first = 0 THEN NaN ELSE v
  BY <1>3, <1>5, <1>6, <1>8, <1>9 DEF MathMin, v
<1>12. m \in Nat /\ m <= u /\ m <= x
  BY <1>6, <1>9
<1>13. m * Unit <= u * Unit /\ m * Unit <= x * Unit /\ m * Unit \in Nat /\ x * Unit \in Nat
  BY <1>1, <1>6, <1>9, <1>12, TimesKeepsOrder
<1>14. m * Unit <= v /\ m * Unit <= y
  BY <1>6, <1>9, <1>13
<1> HIDE DEF m
<1>15. Capped(policy, n) = NaN <=> Lost(policy, n)
  BY <1>4, <1>8, <1>9, <1>10, <1>12
<1>16. ~Lost(policy, n) => Capped(policy, n) \in Nat /\ Capped(policy, n) <= u
  BY <1>4, <1>9, <1>10, <1>12
<1>17. ASSUME ~Lost(policy, n), ~Lost(policy, n + 1)
       PROVE  Capped(policy, n) * Unit <= Capped(policy, n + 1)
  <2>1. CASE fixed \/ ~over
    <3>1. Capped(policy, n) = m
      BY <2>1, <1>10
    <3>2. Capped(policy, n + 1) \in {v, y}
      BY <1>4, <1>11, <1>17
    <3> QED
      BY <3>1, <3>2, <1>14
  <2>2. CASE ~ (fixed \/ ~over)
    <3>1. Capped(policy, n) = u /\ Capped(policy, n + 1) = v
      BY <2>2, <1>2, <1>4, <1>10, <1>11, <1>17
    <3>2. u * Unit <= v
      BY <1>1, <1>9
    <3> QED
      BY <3>1, <3>2
  <2> QED
    BY <2>1, <2>2
<1> QED
  BY <1>15, <1>16, <1>17 DEF u, cap, p, normalized

\* What is rounded is finite: the cap is.
LEMMA CapIsFinite ==
  ASSUME NEW cap \in Nat, cap <= Huge * Unit, NEW p \in Nat \ {0}, NEW x \in Nat, x <= cap * p
  PROVE  x <= Huge * (Unit * p) /\ Unit * p \in Nat \ {0}
<1>1. Unit \in Nat /\ Unit >= 1 /\ Huge \in Nat /\ Huge * Unit \in Nat
  BY NumberAssumption
<1>2. cap * p <= (Huge * Unit) * p /\ cap * p \in Nat /\ (Huge * Unit) * p \in Nat
  BY <1>1, TimesKeepsOrder
<1>3. (Huge * Unit) * p = Huge * (Unit * p)
  BY <1>1
<1>4. p <= Unit * p /\ Unit * p \in Nat
  BY <1>1, TimesGrows
<1> QED
  BY <1>2, <1>3, <1>4

\* A capped delay rounded without jitter.
LEMMA RoundedWait ==
  ASSUME NEW cap \in Nat, cap <= Huge * Unit, NEW p \in Nat \ {0}, NEW x \in Nat, x <= cap * p
  PROVE  LET wait == MathRound(x, Unit * p)
         IN  wait \in Nat /\ 2 * Unit * wait <= 2 * cap + Unit
<1> DEFINE wait == MathRound(x, Unit * p)
<1>1. Unit \in Nat /\ Unit >= 1
  BY NumberAssumption
<1>2. Unit * p \in Nat \ {0} /\ x <= Huge * (Unit * p)
  BY CapIsFinite
<1>3. wait \in Nat /\ 2 * (Unit * p) * wait <= 2 * x + Unit * p
  BY <1>2, RoundIsNearest
<1> HIDE DEF wait
<1>4. cap * p \in Nat
  OBVIOUS
<1>5. /\ 2 * (Unit * p) * wait = (2 * Unit * wait) * p
      /\ 2 * (cap * p) + Unit * p = (2 * cap + Unit) * p
  BY <1>1, <1>3
<1>6. (2 * Unit * wait) * p <= (2 * cap + Unit) * p
  BY <1>1, <1>2, <1>3, <1>4, <1>5
<1>7. 2 * Unit * wait \in Nat /\ 2 * cap + Unit \in Nat
  BY <1>1, <1>3
<1>8. 2 * Unit * wait <= 2 * cap + Unit
  BY <1>6, <1>7, TimesReflectsOrder
<1> QED
  BY <1>3, <1>8 DEF wait

\* With jitter.
LEMMA JitterIsBounded ==
  ASSUME NEW cap \in Nat, cap <= Huge * Unit, NEW p \in Nat \ {0}, NEW x \in Nat, x <= cap * p,
         NEW random \in 0..Unit
  PROVE  LET moved == MathRound(x * (4 * Unit + 2 * random), 5 * Unit * (Unit * p))
         IN  /\ moved \in Nat \cup {Infinity}
             /\ moved \in Nat => 10 * Unit * moved <= 12 * cap + 5 * Unit
             /\ moved = Infinity => 12 * cap > 10 * Huge * Unit
<1> DEFINE number == x * (4 * Unit + 2 * random)
           c      == Unit * p
           unit   == 5 * Unit * c
           moved  == MathRound(number, unit)
           bounded == /\ moved \in Nat \cup {Infinity}
                      /\ moved \in Nat => 10 * Unit * moved <= 12 * cap + 5 * Unit
                      /\ moved = Infinity => 12 * cap > 10 * Huge * Unit
<1>1. Unit \in Nat /\ Unit >= 1 /\ Huge \in Nat /\ Infinity \notin Nat /\ NaN \notin Nat
  BY NumberAssumption
<1>2. c \in Nat \ {0}
  BY CapIsFinite
<1>3. unit \in Nat \ {0}
  <2> HIDE DEF c
  <2>1. c <= Unit * c /\ Unit * c \in Nat
    BY <1>1, <1>2, TimesGrows
  <2>2. unit = 5 * (Unit * c)
    BY <1>1, <1>2
  <2> HIDE DEF unit
  <2> QED
    BY <2>1, <2>2, <1>2
<1>4. number \in Nat /\ number <= (6 * cap) * c
  <2> DEFINE f == 4 * Unit + 2 * random
  <2>1. f \in Nat /\ f <= 6 * Unit
    BY <1>1
  <2> HIDE DEF f
  <2>2. f * x <= (6 * Unit) * x /\ f * x \in Nat /\ (6 * Unit) * x \in Nat
    BY <2>1, <1>1, TimesKeepsOrder
  <2>3. x * (6 * Unit) <= (cap * p) * (6 * Unit)
    BY <1>1, TimesKeepsOrder
  <2>4. f * x = x * f /\ (6 * Unit) * x = x * (6 * Unit)
    BY <2>1, <1>1
  <2>5. (cap * p) * (6 * Unit) = (6 * cap) * (Unit * p) /\ (6 * cap) * (Unit * p) \in Nat
    BY <1>1
  <2> QED
    BY <2>2, <2>3, <2>4, <2>5 DEF f
<1> HIDE DEF c, number
<1>5. /\ Huge * unit = (5 * Huge * Unit) * c
      /\ unit = (5 * Unit) * c
      /\ (6 * cap) * c \in Nat
  BY <1>1, <1>2
<1> HIDE DEF unit
<1>6. ASSUME number > Huge * unit PROVE bounded
  <2>1. moved = Infinity
    BY <1>1, <1>4, <1>6 DEF MathRound
  <2>2. 5 * Huge * Unit \in Nat /\ 6 * cap \in Nat /\ (5 * Huge * Unit) * c \in Nat
    BY <1>1, <1>2
  <2>3. ~ (6 * cap <= 5 * Huge * Unit)
    <3> SUFFICES ASSUME 6 * cap <= 5 * Huge * Unit PROVE FALSE
      OBVIOUS
    <3>1. (6 * cap) * c <= (5 * Huge * Unit) * c
      BY <2>2, <1>2, TimesKeepsOrder
    <3> QED
      BY <3>1, <2>2, <1>4, <1>5, <1>6
  <2>4. 12 * cap > 10 * Huge * Unit
    <3>1. 10 * Huge * Unit = 2 * (5 * Huge * Unit)
      BY <1>1
    <3> QED
      BY <3>1, <2>2, <2>3
  <2> QED
    BY <2>1, <2>4, <1>1
<1>7. ASSUME ~ (number > Huge * unit) PROVE bounded
  <2>1. number <= Huge * unit
    BY <1>1, <1>3, <1>4, <1>7
  <2>2. moved \in Nat /\ 2 * unit * moved <= 2 * number + unit
    BY <2>1, <1>3, <1>4, RoundIsNearest
  <2> HIDE DEF moved
  <2>3. 2 * unit * moved = (10 * Unit * moved) * c
    BY <2>2, <1>1, <1>2, <1>5
  <2>4. 2 * ((6 * cap) * c) + unit = (12 * cap + 5 * Unit) * c
    BY <1>1, <1>2, <1>5
  <2>5. (10 * Unit * moved) * c <= (12 * cap + 5 * Unit) * c
    BY <2>2, <2>3, <2>4, <1>3, <1>4, <1>5
  <2>6. 10 * Unit * moved \in Nat /\ 12 * cap + 5 * Unit \in Nat
    BY <2>2, <1>1
  <2>7. 10 * Unit * moved <= 12 * cap + 5 * Unit
    BY <2>5, <2>6, <1>2, TimesReflectsOrder
  <2> QED
    BY <2>2, <2>7, <1>1
<1> QED
  BY <1>6, <1>7 DEF moved, number, unit, c

\* The bounds hold with every random number.
LEMMA WaitsAreSane ==
  ASSUME NEW policy, SanePolicy(policy), NEW attempt \in Nat \ {0}
  PROVE  BoundedWait(policy, attempt, 0..Unit)
<1> DEFINE normalized == NormalizeRetryPolicy(policy)
           cap   == normalized.maxDelayMs
           n     == attempt - 1
           p     == Power(Unit, n)
           x     == Capped(policy, n)
           y     == Capped(policy, n + 1)
           wait  == ComputeBackoffMs(policy, attempt, None)
           next  == ComputeBackoffMs(policy, attempt + 1, None)
<1>1. /\ Unit \in Nat /\ Unit >= 1 /\ Huge \in Nat
      /\ NaN \notin Nat /\ Infinity \notin Nat /\ Infinity # NaN
  BY NumberAssumption
<1>2. /\ cap \in Nat /\ cap <= Huge * Unit
      /\ normalized.multiplier \in Nat /\ normalized.multiplier >= Unit
  BY DEF SanePolicy
<1>3. n \in Nat /\ n + 1 \in Nat /\ (attempt + 1) - 1 = n + 1
  OBVIOUS
<1>4. p \in Nat \ {0} /\ Power(Unit, n + 1) = Unit * p
  BY <1>2, <1>3, PowersGrow
<1>5. /\ x = NaN <=> Lost(policy, n)
      /\ y = NaN <=> Lost(policy, n + 1)
      /\ x # NaN => x \in Nat /\ x <= cap * p
      /\ y # NaN => y \in Nat /\ y <= cap * (Unit * p)
      /\ x # NaN /\ y # NaN => x * Unit <= y
  BY <1>3, <1>4, CappedGrows, Zenon
<1>6. Lost(policy, n) <=> /\ normalized.backoff # "fixed" /\ normalized.initialDelayMs = 0
                          /\ Overflows(normalized.multiplier, attempt - 1)
  BY DEF Lost
<1>7. /\ wait = MathRound(x, Unit * p)
      /\ next = MathRound(y, Unit * (Unit * p))
      /\ \A random : ComputeBackoffMs(policy, attempt, random) =
           IF x = NaN \/ random = None
             THEN wait
             ELSE MathRound(x * (4 * Unit + 2 * random), 5 * Unit * (Unit * p))
  <2>1. \A random : ComputeBackoffMs(policy, attempt, random) =
          IF x = NaN \/ random = None
            THEN MathRound(x, Unit * p)
            ELSE MathRound(x * (4 * Unit + 2 * random), 5 * Unit * (Unit * p))
    BY DEF ComputeBackoffMs, Capped
  <2>2. next = MathRound(y, Unit * Power(Unit, n + 1))
    BY <1>3 DEF ComputeBackoffMs, Capped
  <2> HIDE DEF x, y, p, n
  <2>3. wait = MathRound(x, Unit * p)
    BY <2>1
  <2> QED
    BY <2>1, <2>2, <2>3, <1>4
<1> HIDE DEF normalized, cap, n, p, x, y, wait, next
<1>8. x = NaN => wait = NaN
  BY <1>7 DEF MathRound
<1>9. y = NaN => next = NaN
  BY <1>7 DEF MathRound
<1>10. x # NaN => wait \in Nat /\ 2 * Unit * wait <= 2 * cap + Unit
  BY <1>2, <1>4, <1>5, <1>7, RoundedWait
<1>11. ASSUME x # NaN, next # NaN PROVE wait <= next
  <2>1. x \in Nat /\ x <= cap * p /\ y \in Nat /\ y <= cap * (Unit * p) /\ x * Unit <= y
    BY <1>5, <1>9, <1>11
  <2>2. Unit * p \in Nat \ {0} /\ x <= Huge * (Unit * p)
    BY <2>1, <1>2, <1>4, CapIsFinite
  <2>3. Unit * (Unit * p) \in Nat \ {0} /\ y <= Huge * (Unit * (Unit * p))
    BY <2>1, <2>2, <1>2, CapIsFinite
  <2> DEFINE c == Unit * p
  <2>4. x * (Unit * c) <= y * c
    <3> HIDE DEF c
    <3>1. c \in Nat
      BY <2>2 DEF c
    <3>2. x * Unit \in Nat
      BY <2>1, <1>1
    <3>3. (x * Unit) * c <= y * c
      BY <3>1, <3>2, <2>1, TimesKeepsOrder
    <3>4. (x * Unit) * c = x * (Unit * c)
      BY <3>1, <2>1, <1>1
    <3> QED
      BY <3>3, <3>4
  <2> QED
    BY <2>1, <2>2, <2>3, <2>4, <1>7, RoundKeepsOrder
<1>12. ASSUME NEW random \in 0..Unit
       PROVE  LET moved == ComputeBackoffMs(policy, attempt, random)
              IN  /\ moved \in Nat \cup {Infinity, NaN} /\ (moved = NaN <=> wait = NaN)
                  /\ moved \in Nat => 10 * Unit * moved <= 12 * cap + 5 * Unit
                  /\ moved = Infinity => 12 * cap > 10 * Huge * Unit
  <2> DEFINE moved == ComputeBackoffMs(policy, attempt, random)
  <2>1. CASE x = NaN
    <3>1. moved = wait /\ wait = NaN
      BY <2>1, <1>7, <1>8
    <3> QED
      BY <3>1, <1>1
  <2>2. CASE x # NaN /\ random = None
    <3>1. moved = wait
      BY <2>2, <1>7
    <3> HIDE DEF moved
    <3>2. wait \in Nat /\ 2 * Unit * wait <= 2 * cap + Unit
      BY <2>2, <1>10
    <3>3. 10 * Unit * wait = 5 * (2 * Unit * wait) /\ 2 * Unit * wait \in Nat
      BY <3>2, <1>1
    <3> QED
      BY <3>1, <3>2, <3>3, <1>1, <1>2 DEF moved
  <2>3. CASE x # NaN /\ random # None
    <3>1. moved = MathRound(x * (4 * Unit + 2 * random), 5 * Unit * (Unit * p))
      BY <2>3, <1>7
    <3>2. /\ moved \in Nat \cup {Infinity}
          /\ moved \in Nat => 10 * Unit * moved <= 12 * cap + 5 * Unit
          /\ moved = Infinity => 12 * cap > 10 * Huge * Unit
      BY <3>1, <2>3, <1>2, <1>4, <1>5, JitterIsBounded
    <3>3. wait # NaN
      BY <2>3, <1>1, <1>10
    <3> HIDE DEF moved
    <3> QED
      BY <3>2, <3>3, <1>1 DEF moved
  <2> QED
    BY <2>1, <2>2, <2>3
<1>13. wait = NaN <=> Lost(policy, n)
  BY <1>1, <1>5, <1>8, <1>10
<1>14. wait # NaN => /\ wait \in Nat /\ 2 * Unit * wait <= 2 * cap + Unit
                     /\ next # NaN => wait <= next
  BY <1>8, <1>10, <1>11
<1> QED
  BY <1>6, <1>12, <1>13, <1>14 DEF BoundedWait, wait, next, cap, normalized

\* computeBackoffMs keeps these bounds for every policy a process publishes, after
\* any number of failures and for any random number.
THEOREM EveryWaitIsSane ==
  ASSUME NEW p \in Processes, NEW d \in Drafts, CanPublish(p, d), NEW policy \in Policies(d),
         NEW attempt \in Nat \ {0}
  PROVE  BoundedWait(policy, attempt, 0..Unit)
BY AcceptedPolicies, WaitsAreSane

\* The waits are within their bounds for the policies of every draft that would be
\* published.
THEOREM BackoffsAlwaysSane == Spec => []BackoffsAreSane
<1>1. BackoffsAreSane
  BY EveryWaitIsSane DEF BackoffsAreSane
<1> QED
  BY <1>1, PTL

-----------------------------------------------------------------------------
(* The search of validation.                                                 *)

\* T is not left by a step that is neither in `seen` nor still queued.
Closes(definition, T, queue, seen) ==
  /\ T \in SUBSET DOMAIN definition.steps
  /\ seen \subseteq T
  /\ \A x \in queue \cup (T \ seen) : Targets(definition.steps[x]) \subseteq T

\* What the search returns from a stage on: the least of these sets.
Closure(definition, queue, seen) ==
  {x \in DOMAIN definition.steps : \A T : Closes(definition, T, queue, seen) => x \in T}

\* The equation of the search of FindUnreachableSteps.
Visited(definition, search, at) ==
  IF at.queue = {}
    THEN at.seen
    ELSE LET current == CHOOSE s \in at.queue : TRUE
             found   == Targets(definition.steps[current]) \ at.seen
         IN  search[[queue |-> (at.queue \ {current}) \cup found, seen |-> at.seen \cup found]]

Searches(definition, search) ==
  search = [at \in [queue : SUBSET DOMAIN definition.steps,
                    seen : SUBSET DOMAIN definition.steps] |-> Visited(definition, search, at)]

\* The recursive function is a solution of its equation, if it has one.
LEMMA SearchIsChosen ==
  ASSUME NEW definition
  PROVE  FindUnreachableSteps(definition) =
           DOMAIN definition.steps \
             (CHOOSE search : Searches(definition, search))
               [[queue |-> {definition.start}, seen |-> {definition.start}]]
BY Zenon DEF FindUnreachableSteps, Searches, Visited

\* Where the search may stand.
Stages(definition) ==
  [queue : SUBSET DOMAIN definition.steps, seen : SUBSET DOMAIN definition.steps]

Stage(queue, seen) == [queue |-> queue, seen |-> seen]

\* No transition leads out of the steps.
InGraph(definition) ==
  \A x \in DOMAIN definition.steps : Targets(definition.steps[x]) \subseteq DOMAIN definition.steps

\* The closure obeys the equation: to take a step from the queue, add what it
\* leads to and go on does not change which sets are closed.
LEMMA ClosureSearches ==
  ASSUME NEW definition, InGraph(definition),
         NEW queue \in SUBSET DOMAIN definition.steps, NEW seen \in SUBSET DOMAIN definition.steps,
         NEW search,
         \A q, s \in SUBSET DOMAIN definition.steps : search[Stage(q, s)] = Closure(definition, q, s)
  PROVE  Closure(definition, queue, seen) = Visited(definition, search, Stage(queue, seen))
<1> DEFINE D == DOMAIN definition.steps
           targets(x) == Targets(definition.steps[x])
<1>1. CASE queue = {}
  <2>1. Closes(definition, seen, queue, seen)
    BY <1>1 DEF Closes
  <2>2. Closure(definition, queue, seen) = seen
    BY <2>1 DEF Closure, Closes
  <2> QED
    BY <2>2, <1>1 DEF Visited, Stage
<1>2. CASE queue # {}
  <2> DEFINE current == CHOOSE s \in queue : TRUE
             found   == targets(current) \ seen
             q       == (queue \ {current}) \cup found
             s       == seen \cup found
  <2>1. current \in queue
    BY <1>2
  <2>2. Visited(definition, search, Stage(queue, seen)) = search[Stage(q, s)]
    BY <1>2 DEF Visited, Stage
  <2> HIDE DEF current
  <2>3. q \in SUBSET D /\ s \in SUBSET D
    BY <2>1 DEF InGraph
  <2>4. ASSUME NEW T PROVE Closes(definition, T, queue, seen) <=> Closes(definition, T, q, s)
    <3>1. ASSUME Closes(definition, T, queue, seen) PROVE Closes(definition, T, q, s)
      <4>1. targets(current) \subseteq T
        BY <3>1, <2>1 DEF Closes
      <4>2. q \cup (T \ s) \subseteq queue \cup (T \ seen)
        BY <4>1
      <4> QED
        BY <3>1, <4>1, <4>2 DEF Closes
    <3>2. ASSUME Closes(definition, T, q, s) PROVE Closes(definition, T, queue, seen)
      <4>1. targets(current) \subseteq T
        BY <3>2 DEF Closes
      <4>2. queue \cup (T \ seen) \subseteq {current} \cup q \cup (T \ s)
        OBVIOUS
      <4> QED
        BY <3>2, <4>1, <4>2 DEF Closes
    <3> QED
      BY <3>1, <3>2
  <2>5. Closure(definition, queue, seen) = Closure(definition, q, s)
    BY <2>4 DEF Closure
  <2> QED
    BY <2>2, <2>3, <2>5
<1> QED
  BY <1>1, <1>2

\* So the equation has a solution.
LEMMA SearchExists ==
  ASSUME NEW definition, InGraph(definition)
  PROVE  \E search : Searches(definition, search)
<1> DEFINE D == DOMAIN definition.steps
           search == [at \in Stages(definition) |-> Closure(definition, at.queue, at.seen)]
<1>1. \A q, s \in SUBSET D : search[Stage(q, s)] = Closure(definition, q, s)
  BY DEF Stage, Stages
<1> HIDE DEF search
<1>2. \A q, s \in SUBSET D : Closure(definition, q, s) = Visited(definition, search, Stage(q, s))
  BY <1>1, ClosureSearches
<1>3. search = [at \in Stages(definition) |-> Visited(definition, search, at)]
  <2>1. search = [at \in Stages(definition) |-> Closure(definition, at.queue, at.seen)]
    BY DEF search
  <2>2. ASSUME NEW at \in Stages(definition)
        PROVE  Closure(definition, at.queue, at.seen) = Visited(definition, search, at)
    <3>1. at = Stage(at.queue, at.seen) /\ at.queue \in SUBSET D /\ at.seen \in SUBSET D
      BY DEF Stage, Stages
    <3> QED
      BY <3>1, <1>2
  <2> QED
    BY <2>1, <2>2
<1> QED
  BY <1>3 DEF Searches, Stages

\* How much is left to do; it decreases from one stage to the next.
Size(definition, at) == Cardinality(at.queue) + 2 * Cardinality(DOMAIN definition.steps \ at.seen)

LEMMA SizeDecreases ==
  ASSUME NEW definition, InGraph(definition), IsFiniteSet(DOMAIN definition.steps),
         NEW at \in Stages(definition), NEW current \in at.queue
  PROVE  LET found == Targets(definition.steps[current]) \ at.seen
             next  == [queue |-> (at.queue \ {current}) \cup found, seen |-> at.seen \cup found]
         IN  /\ next \in Stages(definition)
             /\ Size(definition, at) \in Nat /\ Size(definition, next) \in Nat
             /\ Size(definition, next) < Size(definition, at)
<1> DEFINE D     == DOMAIN definition.steps
           found == Targets(definition.steps[current]) \ at.seen
           rest  == at.queue \ {current}
           next  == [queue |-> rest \cup found, seen |-> at.seen \cup found]
           left  == D \ at.seen
<1>1. at.queue \subseteq D /\ at.seen \subseteq D /\ current \in D
  BY DEF Stages
<1>2. found \subseteq left
  BY <1>1 DEF InGraph
<1>3. next \in Stages(definition) /\ next.queue = rest \cup found /\ D \ next.seen = left \ found
  BY <1>1, <1>2 DEF Stages
<1>4. IsFiniteSet(at.queue) /\ IsFiniteSet(left)
  BY <1>1, FS_Subset
<1>5. IsFiniteSet(rest) /\ IsFiniteSet(found)
  BY <1>2, <1>4, FS_Subset
<1>6. Cardinality(rest) = Cardinality(at.queue) - 1
  BY <1>4, FS_RemoveElement
<1> HIDE DEF rest, found, left
<1>7. /\ IsFiniteSet(rest \cup found)
      /\ Cardinality(rest \cup found) =
           Cardinality(rest) + Cardinality(found) - Cardinality(rest \cap found)
  BY <1>5, FS_Union
<1>8. IsFiniteSet(left \ found) /\ Cardinality(left \ found) = Cardinality(left) - Cardinality(found)
  <2>1. left \cap found = found
    BY <1>2
  <2>2. /\ IsFiniteSet(left \ found)
        /\ Cardinality(left \ found) = Cardinality(left) - Cardinality(left \cap found)
    BY <1>4, FS_Difference
  <2> QED
    BY <2>1, <2>2
<1>9. /\ Cardinality(at.queue) \in Nat /\ Cardinality(left) \in Nat /\ Cardinality(found) \in Nat
      /\ Cardinality(rest \cap found) \in Nat /\ Cardinality(rest) \in Nat
      /\ Cardinality(rest \cup found) \in Nat /\ Cardinality(left \ found) \in Nat
  <2>1. IsFiniteSet(rest \cap found)
    BY <1>5, FS_Subset
  <2> QED
    BY <2>1, <1>4, <1>5, <1>7, <1>8, FS_CardinalityType
<1>10. /\ Size(definition, at) = Cardinality(at.queue) + 2 * Cardinality(left)
       /\ Size(definition, next) = Cardinality(rest \cup found) + 2 * Cardinality(left \ found)
  BY <1>3 DEF Size, left
<1> HIDE DEF next
<1>11. /\ Size(definition, at) \in Nat /\ Size(definition, next) \in Nat
       /\ Size(definition, next) < Size(definition, at)
  BY <1>6, <1>7, <1>8, <1>9, <1>10
<1> QED
  BY <1>3, <1>11 DEF next, rest, found

\* The search ends with the closure: a stage where they differ and that has least
\* left to do would lead to one with less.
LEMMA SearchIsClosure ==
  ASSUME NEW definition, InGraph(definition), IsFiniteSet(DOMAIN definition.steps),
         definition.start \in DOMAIN definition.steps
  PROVE  FindUnreachableSteps(definition) =
           DOMAIN definition.steps \ Closure(definition, {definition.start}, {definition.start})
<1> DEFINE D      == DOMAIN definition.steps
           search == CHOOSE f : Searches(definition, f)
           start  == Stage({definition.start}, {definition.start})
<1>1. Searches(definition, search)
  BY SearchExists
<1>2. FindUnreachableSteps(definition) = D \ search[start]
  BY SearchIsChosen DEF Stage
<1> HIDE DEF search
<1>3. \A at \in Stages(definition) : search[at] = Visited(definition, search, at)
  BY <1>1 DEF Searches, Stages
<1> DEFINE closed == [at \in Stages(definition) |-> Closure(definition, at.queue, at.seen)]
<1>4. \A q, s \in SUBSET D : closed[Stage(q, s)] = Closure(definition, q, s)
  BY DEF Stage, Stages
<1>5. \A at \in Stages(definition) : closed[at] = Closure(definition, at.queue, at.seen)
  OBVIOUS
<1> HIDE DEF closed
<1>6. \A at \in Stages(definition) : closed[at] = Visited(definition, closed, at)
  <2> TAKE at \in Stages(definition)
  <2>1. at = Stage(at.queue, at.seen) /\ at.queue \in SUBSET D /\ at.seen \in SUBSET D
    BY DEF Stage, Stages
  <2> QED
    BY <2>1, <1>4, <1>5, ClosureSearches
<1>7. \A at \in Stages(definition) : search[at] = closed[at]
  <2> DEFINE Bad == {Size(definition, at) :
                       at \in {b \in Stages(definition) : search[b] # closed[b]}}
  <2> SUFFICES ASSUME NEW b \in Stages(definition), search[b] # closed[b] PROVE FALSE
    OBVIOUS
  <2>1. Bad \in SUBSET Nat
    <3> SUFFICES ASSUME NEW at \in Stages(definition) PROVE Size(definition, at) \in Nat
      OBVIOUS
    <3>1. at.queue \subseteq D /\ D \ at.seen \subseteq D
      BY DEF Stages
    <3>2. IsFiniteSet(at.queue) /\ IsFiniteSet(D \ at.seen)
      BY <3>1, FS_Subset
    <3>3. Cardinality(at.queue) \in Nat /\ Cardinality(D \ at.seen) \in Nat
      BY <3>2, FS_CardinalityType
    <3> QED
      BY <3>3 DEF Size
  <2>2. PICK m \in Bad : \A y \in Bad : m <= y
    <3>1. Size(definition, b) \in Bad
      OBVIOUS
    <3> QED
      BY <2>1, <3>1, LeastNumber
  <2>3. PICK at \in Stages(definition) : m = Size(definition, at) /\ search[at] # closed[at]
    OBVIOUS
  <2>4. CASE at.queue = {}
    BY <2>3, <2>4, <1>3, <1>6 DEF Visited
  <2>5. CASE at.queue # {}
    <3> DEFINE current == CHOOSE s \in at.queue : TRUE
               found   == Targets(definition.steps[current]) \ at.seen
               next    == [queue |-> (at.queue \ {current}) \cup found, seen |-> at.seen \cup found]
    <3>1. current \in at.queue
      BY <2>5
    <3>2. search[at] = search[next] /\ closed[at] = closed[next]
      BY <2>5, <1>3, <1>6 DEF Visited
    <3> HIDE DEF current
    <3>3. /\ next \in Stages(definition)
          /\ Size(definition, at) \in Nat /\ Size(definition, next) \in Nat
          /\ Size(definition, next) < Size(definition, at)
      BY <3>1, SizeDecreases
    <3> HIDE DEF next
    <3>4. Size(definition, next) \in Bad
      BY <3>2, <3>3, <2>3
    <3> HIDE DEF Bad
    <3> QED
      BY <2>2, <2>3, <3>3, <3>4
  <2> QED
    BY <2>4, <2>5
<1>8. /\ start \in Stages(definition)
      /\ start.queue = {definition.start} /\ start.seen = {definition.start}
  BY DEF Stage, Stages
<1> QED
  BY <1>2, <1>5, <1>7, <1>8

-----------------------------------------------------------------------------
(* Validation and the walk of the engine.                                    *)

\* What the arguments below use of a normalised draft in which only the graph is in question.
PlainStep(step) ==
  /\ Len(step.next) \in Nat
  /\ DOMAIN step.next = 1..Len(step.next)
  /\ \A i \in DOMAIN step.next : step.next[i].to \in StepIds
  /\ \A i, j \in DOMAIN step.next :
       step.next[i].when = step.next[j].when => i = j \/ step.next[i].when = None
  /\ step.retry = None /\ step.timeoutMs = None /\ step.json

PlainGraph(definition) ==
  /\ IsFiniteSet(DOMAIN definition.steps)
  /\ DOMAIN definition.steps \subseteq StepIds
  /\ \A s \in DOMAIN definition.steps : PlainStep(definition.steps[s])

\* Normalisation keeps targets, guards and their order.
LEMMA DraftIsPlain ==
  ASSUME NEW d \in Drafts, OnlyGraph(d)
  PROVE  PlainGraph(NormalizeDefinition(d))
<1> DEFINE definition == NormalizeDefinition(d)
<1>1. /\ DOMAIN definition.steps = DOMAIN d.steps
      /\ \A s \in DOMAIN d.steps : definition.steps[s] = NormalizeStepDefinition(d.steps[s])
  BY DEF NormalizeDefinition
<1>2. IsFiniteSet(DOMAIN d.steps) /\ DOMAIN d.steps \subseteq StepIds
  BY DraftAssumption, DefinitionAssumption DEF OnlyGraph, WellFormed
<1>3. ASSUME NEW s \in DOMAIN d.steps PROVE PlainStep(NormalizeStepDefinition(d.steps[s]))
  <2> DEFINE step  == NormalizeStepDefinition(d.steps[s])
             items == d.steps[s].next.items
  <2>1. items \in Seq(Items)
    BY DraftAssumption
  <2>2. \A i \in DOMAIN items : items[i].form # "malformed"
    BY DEF OnlyGraph, WellFormed
  <2>3. step.next = NormalizeTransitions(d.steps[s].next)
    BY DEF NormalizeStepDefinition
  <2>4. /\ Len(step.next) \in Nat /\ DOMAIN step.next = 1..Len(step.next)
        /\ \A i \in DOMAIN step.next : step.next[i].to \in StepIds
    <3>1. CASE d.steps[s].next.kind = "absent"
      BY <3>1, <2>3 DEF NormalizeTransitions
    <3>2. CASE d.steps[s].next.kind # "absent"
      <4>1. step.next = [i \in DOMAIN items |-> NormalizeTransition(items[i])]
        BY <3>2, <2>3 DEF NormalizeTransitions
      <4>2. /\ Len(items) \in Nat /\ DOMAIN items = 1..Len(items)
            /\ \A i \in DOMAIN items : items[i] \in Items
        BY <2>1
      <4>3. ASSUME NEW i \in DOMAIN items PROVE step.next[i].to \in StepIds
        <5>1. items[i].to \in StepIds
          BY <4>2, <2>2 DEF Items
        <5>2. step.next[i] = NormalizeTransition(items[i])
          BY <4>1
        <5>3. NormalizeTransition(items[i]).to = items[i].to
          BY DEF NormalizeTransition
        <5> QED
          BY <5>1, <5>2, <5>3
      <4>4. DOMAIN step.next = DOMAIN items
        BY <4>1
      <4>5. Len(step.next) = Len(items)
        BY <4>1, <4>2
      <4> QED
        BY <4>2, <4>3, <4>4, <4>5
    <3> QED
      BY <3>1, <3>2
  <2>5. /\ step.retry = None /\ step.timeoutMs = None /\ step.json
        /\ \A i, j \in DOMAIN step.next :
             step.next[i].when = step.next[j].when => i = j \/ step.next[i].when = None
    BY DEF OnlyGraph
  <2> QED
    BY <2>4, <2>5 DEF PlainStep
<1> QED
  BY <1>1, <1>2, <1>3 DEF PlainGraph

\* The first of the transitions that hit.
LEMMA FirstHit ==
  ASSUME NEW step, PlainStep(step), NEW matched, Hits(step, matched) # {}
  PROVE  LET i == Min(Hits(step, matched))
         IN  /\ i \in Hits(step, matched) /\ i \in DOMAIN step.next
             /\ \A j \in Hits(step, matched) : i <= j
             /\ ResolveNextStep(step, matched) = step.next[i].to
<1> DEFINE hits == Hits(step, matched)
<1>1. hits \subseteq DOMAIN step.next /\ hits \subseteq Nat
  BY DEF Hits, PlainStep
<1>2. \E m \in hits : \A y \in hits : m <= y
  BY <1>1, LeastNumber
<1>3. Min(hits) \in hits /\ \A y \in hits : Min(hits) <= y
  BY <1>2 DEF Min
<1>4. step.next # << >>
  BY <1>1
<1> QED
  BY <1>1, <1>3, <1>4 DEF ResolveNextStep

\* resolveNextStep chooses a transition of the step or none.
LEMMA NextIsTarget ==
  ASSUME NEW step, PlainStep(step), NEW matched
  PROVE  ResolveNextStep(step, matched) \in Targets(step) \cup {None, "throws"}
<1>1. CASE Hits(step, matched) = {}
  BY <1>1 DEF ResolveNextStep
<1>2. CASE Hits(step, matched) # {}
  BY <1>2, FirstHit DEF Targets
<1> QED
  BY <1>1, <1>2

\* Every transition of a step is the one chosen for some answers of the guards.
AllChosen(step) ==
  \A i \in DOMAIN step.next :
    \E matched \in SUBSET GuardsOf(step) :
      i \in Hits(step, matched) /\ i = Min(Hits(step, matched))

\* Only the last transition is unconditional.
LEMMA OnlyLastUnguarded ==
  ASSUME NEW step, PlainStep(step)
  PROVE  AllChosen(step) <=>
           \A i \in DOMAIN step.next : step.next[i].when = None => i = Len(step.next)
<1>1. ASSUME AllChosen(step), NEW i \in DOMAIN step.next, step.next[i].when = None
      PROVE  i = Len(step.next)
  <2> DEFINE n == Len(step.next)
  <2>1. n \in DOMAIN step.next /\ i \in Nat /\ n \in Nat /\ i <= n
    BY DEF PlainStep
  <2>2. PICK matched \in SUBSET GuardsOf(step) :
          n \in Hits(step, matched) /\ n = Min(Hits(step, matched))
    BY <1>1, <2>1 DEF AllChosen
  <2>3. i \in Hits(step, matched)
    BY <1>1 DEF Hits
  <2>4. n <= i
    BY <2>2, <2>3, FirstHit
  <2> QED
    BY <2>1, <2>4
<1>2. ASSUME \A i \in DOMAIN step.next : step.next[i].when = None => i = Len(step.next),
             NEW i \in DOMAIN step.next
      PROVE  \E matched \in SUBSET GuardsOf(step) :
               i \in Hits(step, matched) /\ i = Min(Hits(step, matched))
  <2> DEFINE matched == {step.next[i].when} \ {None}
  <2>1. matched \in SUBSET GuardsOf(step)
    BY DEF GuardsOf
  <2>2. i \in Hits(step, matched)
    BY DEF Hits
  <2>3. \A j \in Hits(step, matched) : j \in DOMAIN step.next /\ i <= j
    <3> SUFFICES ASSUME NEW j \in DOMAIN step.next,
                        step.next[j].when = None \/ step.next[j].when \in matched
                 PROVE  i <= j
      BY DEF Hits
    <3>1. i \in Nat /\ j \in Nat /\ i <= Len(step.next) /\ Len(step.next) \in Nat
      BY DEF PlainStep
    <3>2. CASE step.next[j].when = None
      BY <3>1, <3>2, <1>2
    <3>3. CASE step.next[j].when # None /\ step.next[j].when = step.next[i].when
      <4>1. i = j
        BY <3>3 DEF PlainStep
      <4> QED
        BY <4>1, <3>1
    <3> QED
      BY <3>2, <3>3
  <2> HIDE DEF matched
  <2>4. LET m == Min(Hits(step, matched))
        IN  m \in DOMAIN step.next /\ m <= i /\ i <= m
    BY <2>2, <2>3, FirstHit
  <2>5. i = Min(Hits(step, matched))
    BY <2>4 DEF PlainStep
  <2> QED
    BY <2>1, <2>2, <2>5
<1> QED
  BY <1>1, <1>2 DEF AllChosen

\* A set that the choices do not leave is one the targets do not leave.
LEMMA LeavesIsTargets ==
  ASSUME NEW definition, PlainGraph(definition),
         \A s \in DOMAIN definition.steps : AllChosen(definition.steps[s]),
         NEW S \in SUBSET DOMAIN definition.steps
  PROVE  ~Leaves(definition, S) <=> \A s \in S : Targets(definition.steps[s]) \subseteq S
<1> DEFINE guards == UNION {GuardsOf(definition.steps[r]) : r \in DOMAIN definition.steps}
<1>1. \A s \in DOMAIN definition.steps : PlainStep(definition.steps[s])
  BY DEF PlainGraph
<1>2. ASSUME \A s \in S : Targets(definition.steps[s]) \subseteq S,
             NEW s \in S, NEW matched \in SUBSET guards
      PROVE  ResolveNextStep(definition.steps[s], matched) \in S \cup {None, "throws"}
  <2>1. ResolveNextStep(definition.steps[s], matched) \in
          Targets(definition.steps[s]) \cup {None, "throws"}
    BY <1>1, NextIsTarget
  <2> QED
    BY <2>1, <1>2
<1>3. ASSUME ~Leaves(definition, S), NEW s \in S, NEW target \in Targets(definition.steps[s])
      PROVE  target \in S
  <2> DEFINE step == definition.steps[s]
  <2>1. PICK i \in DOMAIN step.next : target = step.next[i].to
    BY DEF Targets
  <2>2. PlainStep(step) /\ AllChosen(step)
    BY <1>1
  <2>3. PICK matched \in SUBSET GuardsOf(step) :
          i \in Hits(step, matched) /\ i = Min(Hits(step, matched))
    BY <2>2 DEF AllChosen
  <2>4. ResolveNextStep(step, matched) = target
    BY <2>1, <2>2, <2>3, FirstHit
  <2>5. matched \in SUBSET guards
    BY <2>3
  <2>6. target \in S \cup {None, "throws"}
    BY <1>3, <2>4, <2>5 DEF Leaves
  <2>7. target \in StepIds
    BY <2>1, <2>2 DEF PlainStep
  <2> QED
    BY <2>6, <2>7, DefinitionAssumption
<1> QED
  BY <1>2, <1>3 DEF Leaves

\* A search that finds everything is one no smaller set closes.
LEMMA AllReachable ==
  ASSUME NEW definition, PlainGraph(definition), InGraph(definition),
         definition.start \in DOMAIN definition.steps
  PROVE  FindUnreachableSteps(definition) = {} <=>
           \A S \in SUBSET DOMAIN definition.steps :
             /\ definition.start \in S
             /\ \A s \in S : Targets(definition.steps[s]) \subseteq S
             => S = DOMAIN definition.steps
<1> DEFINE D     == DOMAIN definition.steps
           start == {definition.start}
           reach == Closure(definition, start, start)
<1>1. FindUnreachableSteps(definition) = D \ reach
  BY SearchIsClosure DEF PlainGraph
<1>2. \A S \in SUBSET D : Closes(definition, S, start, start) <=>
        definition.start \in S /\ \A s \in S : Targets(definition.steps[s]) \subseteq S
  BY DEF Closes
<1>3. Closes(definition, reach, start, start)
  <2>1. reach \subseteq D /\ definition.start \in reach
    BY DEF Closure, Closes
  <2>2. ASSUME NEW x \in reach PROVE Targets(definition.steps[x]) \subseteq reach
    <3>1. Targets(definition.steps[x]) \subseteq D
      BY <2>1 DEF InGraph
    <3>2. ASSUME NEW T, Closes(definition, T, start, start)
          PROVE  Targets(definition.steps[x]) \subseteq T
      BY <3>2 DEF Closure, Closes
    <3> QED
      BY <3>1, <3>2 DEF Closure
  <2> HIDE DEF reach
  <2> QED
    BY <2>1, <2>2, <1>2
<1>4. ASSUME NEW S \in SUBSET D, Closes(definition, S, start, start) PROVE reach \subseteq S
  BY <1>4 DEF Closure
<1>5. reach \in SUBSET D
  BY DEF Closure
<1> HIDE DEF reach, start
<1>6. D \ reach = {} <=> \A S \in SUBSET D : Closes(definition, S, start, start) => S = D
  BY <1>3, <1>4, <1>5
<1> QED
  BY <1>1, <1>2, <1>6

\* Validation asks for exactly what the walk of the engine needs.
LEMMA GraphSoundness ==
  ASSUME NEW definition, PlainGraph(definition)
  PROVE  ValidateDefinition(definition) <=> GraphIsSound(definition)
<1> DEFINE D == DOMAIN definition.steps
           chosen    == \A s \in D : AllChosen(definition.steps[s])
           inGraph   == \A s \in D : Targets(definition.steps[s]) \subseteq D
           reachable == \A S \in SUBSET D :
                          /\ definition.start \in S
                          /\ \A s \in S : Targets(definition.steps[s]) \subseteq S
                          => S = D
<1>1. \A s \in D : PlainStep(definition.steps[s])
  BY DEF PlainGraph
<1>2. GraphIsSound(definition) <=> definition.start \in D /\ chosen /\ inGraph /\ reachable
  <2>1. GraphIsSound(definition) <=>
          /\ definition.start \in D
          /\ ~Leaves(definition, D)
          /\ \A S \in SUBSET D : definition.start \in S /\ ~Leaves(definition, S) => S = D
          /\ chosen
    BY DEF GraphIsSound, AllChosen
  <2>2. ASSUME chosen PROVE \A S \in SUBSET D : ~Leaves(definition, S) <=>
                              \A s \in S : Targets(definition.steps[s]) \subseteq S
    BY <2>2, LeavesIsTargets
  <2>3. CASE chosen
    <3>1. ~Leaves(definition, D) <=> inGraph
      BY <2>2, <2>3
    <3>2. reachable <=>
            \A S \in SUBSET D : definition.start \in S /\ ~Leaves(definition, S) => S = D
      BY <2>2, <2>3
    <3> QED
      BY <2>1, <2>3, <3>1, <3>2
  <2>4. CASE ~chosen
    BY <2>1, <2>4
  <2> QED
    BY <2>3, <2>4
<1>3. ValidateDefinition(definition) <=>
        definition.start \in D /\ chosen /\ inGraph /\ FindUnreachableSteps(definition) = {}
  <2>1. ASSUME NEW s \in D
        PROVE  LET step == definition.steps[s]
               IN  /\ step.json /\ ValidateRetry(step.retry)
                   /\ step.timeoutMs # None => step.timeoutMs > 0
                   /\ ValidateTransitions(definition, step) <=>
                        AllChosen(step) /\ Targets(step) \subseteq D
    <3> DEFINE step == definition.steps[s]
    <3>1. PlainStep(step)
      BY <1>1
    <3>2. step.json /\ ValidateRetry(step.retry) /\ step.timeoutMs = None
      BY <3>1 DEF PlainStep, ValidateRetry
    <3>3. Targets(step) \subseteq D <=> \A i \in DOMAIN step.next : step.next[i].to \in D
      BY DEF Targets
    <3>4. AllChosen(step) <=>
            \A i \in DOMAIN step.next : step.next[i].when = None => i = Len(step.next)
      BY <3>1, OnlyLastUnguarded
    <3>5. ValidateTransitions(definition, step) <=>
            /\ \A i \in DOMAIN step.next : step.next[i].to \in D
            /\ \A i \in DOMAIN step.next : step.next[i].when = None => i = Len(step.next)
      BY DEF ValidateTransitions
    <3> HIDE DEF step
    <3>6. ValidateTransitions(definition, step) <=> AllChosen(step) /\ Targets(step) \subseteq D
      BY <3>3, <3>4, <3>5
    <3> QED
      BY <3>2, <3>6 DEF step
  <2> QED
    BY <2>1 DEF ValidateDefinition
<1>4. ASSUME definition.start \in D, inGraph
      PROVE  FindUnreachableSteps(definition) = {} <=> reachable
  <2>1. InGraph(definition)
    BY <1>4 DEF InGraph
  <2> QED
    BY <1>4, <2>1, AllReachable
<1> HIDE DEF chosen, inGraph, reachable
<1> QED
  BY <1>2, <1>3, <1>4

\* Where only the graph is in question, a process accepts exactly what is sound
\* and covered.
THEOREM ValidationAlwaysExact == Spec => []ValidationIsExact
<1>1. ValidationIsExact
  <2> SUFFICES ASSUME NEW p \in Processes, NEW d \in Drafts, OnlyGraph(d)
               PROVE  CanPublish(p, d) <=>
                        LET definition == NormalizeDefinition(d)
                        IN  GraphIsSound(definition) /\ Covers(registry[p], definition)
    BY DEF ValidationIsExact
  <2>1. WellFormed(d)
    BY DEF OnlyGraph
  <2>2. ValidateDefinition(NormalizeDefinition(d)) <=> GraphIsSound(NormalizeDefinition(d))
    BY DraftIsPlain, GraphSoundness
  <2> QED
    BY <2>1, <2>2 DEF CanPublish, Accepts
<1> QED
  BY <1>1, PTL
=============================================================================
