---------------------------- MODULE MCPublishing ----------------------------
(***************************************************************************)
(* Small instances of Publishing for TLC: two builds of one program, two   *)
(* contents of version 1, a version 2, and inputs validation refuses.      *)
(***************************************************************************)
EXTENDS Publishing, TLC

CONSTANTS a, b, c, g, h, p1, p2, c1, c2, r1

To(step) == [form |-> "id", to |-> step, when |-> None]

If(step, guard) == [form |-> "object", to |-> step, when |-> guard]

Malformed == [form |-> "malformed", to |-> None, when |-> None]

NoNext == [kind |-> "absent", items |-> << >>]

Bare(item) == [kind |-> "bare", items |-> <<item>>]

List(items) == [kind |-> "list", items |-> items]

Step(handler, next) ==
  [uses |-> handler, next |-> next, retry |-> None, timeoutMs |-> None, json |-> TRUE]

Workflow(version, steps) == [version |-> version, start |-> a, steps |-> steps]

\* The same content as First, written in the long form.
First     == Workflow(1, a :> Step("ask", Bare(If(b, g))) @@ b :> Step("workflow.complete", NoNext))
FirstLong == Workflow(1, a :> Step("ask", List(<<If(b, g)>>))
                         @@ b :> Step("workflow.complete", List(<< >>)))
\* Version 1 with another handler, and a version 2 that only the new build runs.
Edited    == Workflow(1, a :> Step("tell", Bare(If(b, g))) @@ b :> Step("workflow.complete", NoNext))
Second    == Workflow(2, a :> Step("tell", Bare(To(c))) @@ c :> Step("ask", NoNext))

Refused ==
  { Workflow(0, First.steps),
    Workflow(1, [First.steps EXCEPT ![a].next = Bare(Malformed)]),
    Workflow(1, [First.steps EXCEPT ![b].timeoutMs = 0]),
    Workflow(1, [First.steps EXCEPT ![b].json = FALSE]) }

AllInputs == {First, FirstLong, Edited, Second} \cup Refused

TwoBuilds == { [handlers |-> {"ask"}, guards |-> {g}],
               [handlers |-> {"ask", "tell"}, guards |-> {}] }

\* Every way to write the transitions of a step with at most two of them.
Nexts ==
  {NoNext} \cup {Bare(To(s)) : s \in {a, b, c}} \cup {Bare(If(s, g)) : s \in {b, c}}
    \cup {List(<<If(s, g), To(t)>>) : s \in {b, c}, t \in {a, b, c}}
    \cup {List(<<To(s), If(t, g)>>) : s \in {b}, t \in {a, c}}
    \cup {List(<<If(s, g), If(t, h)>>) : s \in {b, c}, t \in {a, c}}

Graphs ==
  { [version |-> 1, start |-> start, steps |-> [s \in steps |-> Step("ask", next[s])]] :
      start \in {a, c}, steps \in {{a, b}, {a, b, c}}, next \in [{a, b, c} -> Nexts] }

\* Numbers count in halves: 1 is 0.5, and 80 is 40, whose third power overflows.
Policed ==
  { Workflow(1, a :> [Step("ask", NoNext) EXCEPT !.retry = policy]) : policy \in
      [maxAttempts : {0, 3}, backoff : {None, "fixed", "exponential", "linear"},
       initialDelayMs : {None, -1, 0, 1, 1000}, maxDelayMs : {None, -1, 0, 1, 7, 4000},
       multiplier : {None, 1, 2, 3, 80}] }

AllNames == {"ask", "tell", g, h} \cup RESERVED_HANDLERS

GraphsAndPolicies == Graphs \cup Policed

Symmetry == Permutations({c1, c2}) \cup Permutations({p1, p2})
=============================================================================
