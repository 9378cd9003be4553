------------------------------ MODULE WasmHost ------------------------------
(***************************************************************************)
(* WasmWorkerHost: module calls, one after the other, on a thread that is  *)
(* started on demand and terminated when a call takes too long.            *)
(*                                                                         *)
(* The host runs on one event loop, so an action of the host is one        *)
(* callback (an event of a thread, a timer, an abort, a call of invoke or  *)
(* dispose).  What it leaves in the microtask queue is Begin and Post, and *)
(* no further event is handled before they are done (Quiet); user code may *)
(* run in between.  The threads run beside the host; what a thread sends   *)
(* arrives in the order it was sent, and its exit last.                    *)
(***************************************************************************)
EXTENDS Naturals, Sequences, FiniteSets

CONSTANTS
  Calls,       \* calls of invoke
  Abortable,   \* the calls that come with an abort signal
  MaxThreads,  \* bound: threads the host may start
  MaxDeaths,   \* bound: threads that die of an uncaught error
  Budgeted,    \* is timeoutMs or maxDurationMs set?
  None         \* null

ASSUME HostAssumption ==
  /\ None \notin Calls
  /\ Abortable \subseteq Calls
  /\ MaxThreads \in Nat \ {0}
  /\ MaxDeaths \in Nat
  /\ Budgeted \in BOOLEAN

VARIABLES
  worker,    \* #worker, 0 when null
  starting,  \* the thread #start waits for, 0 when #starting is null
  disposal,  \* how far dispose() is (#disposed unless "no")
  victim,    \* the thread whose exit dispose() waits for
  queue,     \* the calls on #chain that have not begun
  active,    \* the call whose #invokeOnce has begun and not settled, or None
  call,      \* where each call is, and on which thread
  aborted,   \* the calls whose signal was aborted
  thread,    \* the threads: what they do and what they have yet to do
  outbox,    \* what each thread sent and the host has not handled
  dying,     \* the threads terminate() was called on
  deaths,    \* how many threads died
  overtaken  \* history: an exit event found a successor in #worker

vars == <<worker, starting, disposal, victim, queue, active, call, aborted, thread,
          outbox, dying, deaths, overtaken>>

Threads == 1..MaxThreads

ThreadOrNull == 0..MaxThreads

Message == [type: {"ready", "answer", "error", "exit"}, call: Calls \cup {None}]

Event(type) == [type |-> type, call |-> None]

\* MutAnswer is a message the host does not expect.
MutAnswer(c) == [type |-> "result", call |-> c]

Answer(c) == [type |-> "answer", call |-> c]

TypeOK ==
  /\ worker \in ThreadOrNull
  /\ starting \in ThreadOrNull
  /\ disposal \in {"no", "waiting", "killing", "done"}
  /\ victim \in ThreadOrNull
  /\ queue \in Seq(Calls)
  /\ active \in Calls \cup {None}
  /\ call \in [Calls -> [at: {"idle", "queued", "ensuring", "ensured", "pending", "settled"},
                         on: ThreadOrNull]]
  /\ aborted \in SUBSET Calls
  /\ thread \in [Threads -> [state: {"unborn", "loading", "ready", "gone"}, inbox: Seq(Calls)]]
  /\ outbox \in [Threads -> Seq(Message)]
  /\ dying \in SUBSET Threads
  /\ deaths \in Nat
  /\ overtaken \in BOOLEAN

Disposed == disposal # "no"

Pending == {c \in Calls : call[c].at = "pending"}

\* No microtask is left: no call is about to begin or about to be posted.
Quiet ==
  /\ active = None => queue = <<>>
  /\ active # None => call[active].at # "ensured"

-----------------------------------------------------------------------------
(* Settling and killing *)

\* The calls in S settle.  The settlement of the active one ends its turn, also
\* when it failed; MutSettleKeepsTurn lets a failure block the chain.
MutSettleKeepsTurn(S) ==
  /\ call' = [c \in Calls |-> IF c \in S THEN [call[c] EXCEPT !.at = "settled"] ELSE call[c]]
  /\ UNCHANGED active

Settle(S) ==
  /\ call' = [c \in Calls |-> IF c \in S THEN [call[c] EXCEPT !.at = "settled"] ELSE call[c]]
  /\ active' = IF active \in S THEN None ELSE active

\* #kill: forget the thread and terminate it; its exit will fail what is
\* pending.  MutForgetWithoutTerminate forgets it only.
MutForgetWithoutTerminate ==
  /\ worker' = 0
  /\ UNCHANGED dying

Kill ==
  /\ worker' = 0
  /\ dying' = IF worker = 0 THEN dying ELSE dying \cup {worker}

\* What #kill does to the pending calls before it waits: nothing when there is a
\* thread to terminate, failAll when there is none.
FailedByKill == IF worker = 0 THEN Pending ELSE {}

-----------------------------------------------------------------------------
(* The users of the host *)

Invoke(c) ==
  /\ call[c].at = "idle"
  /\ call' = [call EXCEPT ![c].at = "queued"]
  /\ queue' = Append(queue, c)
  /\ UNCHANGED <<worker, starting, disposal, victim, active, aborted, thread, outbox, dying, deaths, overtaken>>

\* The listener is added when the call is posted; an abort before that is seen
\* only if #invokeOnce has not begun.  Whoever holds the signal may abort it at any
\* moment, also between two microtasks of the host.
Abort(c) ==
  /\ c \in Abortable \ aborted
  /\ call[c].at # "settled"
  /\ aborted' = aborted \cup {c}
  /\ IF call[c].at = "pending"
       THEN Kill /\ Settle({c} \cup FailedByKill)
       ELSE UNCHANGED <<worker, dying, call, active>>
  /\ UNCHANGED <<starting, disposal, victim, queue, thread, outbox, deaths, overtaken>>

\* dispose waits for a start in flight, then kills; MutDisposeAtOnce does not wait.
DisposeNow ==
  /\ Kill
  /\ Settle(FailedByKill)
  /\ disposal' = IF worker = 0 THEN "done" ELSE "killing"
  /\ victim' = worker

MutDisposeAtOnce ==
  /\ disposal = "no"
  /\ DisposeNow
  /\ UNCHANGED <<starting, queue, aborted, thread, outbox, deaths, overtaken>>

Dispose ==
  /\ disposal = "no"
  /\ IF starting # 0
       THEN /\ disposal' = "waiting"
            /\ UNCHANGED <<worker, victim, dying, call, active>>
       ELSE DisposeNow
  /\ UNCHANGED <<starting, queue, aborted, thread, outbox, deaths, overtaken>>

-----------------------------------------------------------------------------
(* A call takes its turn *)

\* #invokeOnce up to its await: refuse, or #ensureWorker.
Begin ==
  LET c == Head(queue)
  IN /\ active = None
     /\ queue # <<>>
     /\ queue' = Tail(queue)
     /\ \/ /\ Disposed \/ c \in aborted
           /\ call' = [call EXCEPT ![c].at = "settled"]
           /\ UNCHANGED <<active, starting, thread>>
        \/ /\ ~Disposed /\ c \notin aborted
           /\ worker # 0
           /\ call' = [call EXCEPT ![c] = [at |-> "ensured", on |-> worker]]
           /\ active' = c
           /\ UNCHANGED <<starting, thread>>
        \/ /\ ~Disposed /\ c \notin aborted
           /\ worker = 0
           /\ \E t \in Threads :
                /\ thread[t].state = "unborn"
                /\ \A u \in 1..(t - 1) : thread[u].state # "unborn"
                /\ starting' = t
                /\ thread' = [thread EXCEPT ![t].state = "loading"]
           /\ call' = [call EXCEPT ![c].at = "ensuring"]
           /\ active' = c
     /\ UNCHANGED <<worker, disposal, victim, aborted, outbox, dying, deaths, overtaken>>

\* The rest of #invokeOnce: register the call and post it.
Post ==
  LET t == call[active].on
  IN /\ active # None
     /\ call[active].at = "ensured"
     /\ call' = [call EXCEPT ![active].at = "pending"]
     /\ thread' = [thread EXCEPT ![t].inbox = Append(@, active)]
     /\ UNCHANGED <<worker, starting, disposal, victim, queue, active, aborted, outbox, dying,
                    deaths, overtaken>>

\* The timer of the pending call, when there is a budget.
TimeOut ==
  /\ Quiet
  /\ Budgeted
  /\ active \in Pending
  /\ Kill
  /\ Settle({active} \cup FailedByKill)
  /\ UNCHANGED <<starting, disposal, victim, queue, aborted, thread, outbox, deaths, overtaken>>

-----------------------------------------------------------------------------
(* Events of a thread *)

Receive(t, type) ==
  /\ Quiet
  /\ outbox[t] # <<>>
  /\ Head(outbox[t]).type = type
  /\ outbox' = [outbox EXCEPT ![t] = Tail(@)]

\* The first message settles #start: the call that waits for it goes on with the
\* thread, and a dispose that waits for it kills the thread.
OnReady(t) ==
  /\ Receive(t, "ready")
  /\ starting' = 0
  /\ IF disposal = "waiting"
       THEN /\ worker' = 0
            /\ dying' = dying \cup {t}
            /\ disposal' = "killing"
            /\ victim' = t
       ELSE /\ worker' = t
            /\ UNCHANGED <<dying, disposal, victim>>
  /\ call' = [c \in Calls |-> IF call[c].at = "ensuring" THEN [at |-> "ensured", on |-> t]
                              ELSE call[c]]
  /\ UNCHANGED <<queue, active, aborted, thread, deaths, overtaken>>

\* An answer settles the call it is for, if that call is still pending.
OnAnswer(t) ==
  /\ Receive(t, "answer")
  /\ Settle({Head(outbox[t]).call} \cap Pending)
  /\ UNCHANGED <<worker, starting, disposal, victim, queue, aborted, thread, dying, deaths, overtaken>>

\* MutFailedStartHidden lets the failure of #start escape from dispose().
MutFailedStartHidden == disposal

DisposalAfterFailedStart == IF disposal = "waiting" THEN "done" ELSE disposal

\* failAll; and when the thread was starting, #start and the call fail, and a
\* dispose that waits for them finds nothing to kill.
OnError(t) ==
  /\ Receive(t, "error")
  /\ IF starting = t
       THEN /\ starting' = 0
            /\ Settle(Pending \cup {c \in Calls : call[c].at = "ensuring"})
            /\ disposal' = DisposalAfterFailedStart
       ELSE /\ Settle(Pending)
            /\ UNCHANGED <<starting, disposal>>
  /\ UNCHANGED <<worker, victim, queue, aborted, thread, dying, deaths, overtaken>>

\* MutExitKeepsWorker does not forget the thread that is gone.
MutExitKeepsWorker(t) == worker

WorkerAfterExit(t) == 0

\* The exit handler forgets #worker, whichever thread that is by now, and fails
\* all; then #kill, if it waits for this exit, finds nothing left to fail.
OnExit(t) ==
  /\ Receive(t, "exit")
  /\ worker' = WorkerAfterExit(t)
  /\ Settle(Pending)
  /\ disposal' = IF disposal = "killing" /\ t = victim THEN "done" ELSE disposal
  /\ overtaken' = (overtaken \/ worker \notin {0, t})
  /\ UNCHANGED <<starting, victim, queue, aborted, thread, dying, deaths>>

-----------------------------------------------------------------------------
(* The threads *)

Send(t, messages) == outbox' = [outbox EXCEPT ![t] = @ \o messages]

\* load: the thread reports the module, or why it could not be loaded; the host
\* takes either for ready.
Load(t) ==
  /\ thread[t].state = "loading"
  /\ thread' = [thread EXCEPT ![t].state = "ready"]
  /\ Send(t, <<Event("ready")>>)
  /\ UNCHANGED <<worker, starting, disposal, victim, queue, active, call, aborted, dying, deaths, overtaken>>

\* invoke: the module returns or traps; it may also run for ever.
Execute(t) ==
  /\ thread[t].state = "ready"
  /\ thread[t].inbox # <<>>
  /\ thread' = [thread EXCEPT ![t].inbox = Tail(@)]
  /\ Send(t, <<Answer(Head(thread[t].inbox))>>)
  /\ UNCHANGED <<worker, starting, disposal, victim, queue, active, call, aborted, dying, deaths, overtaken>>

\* An uncaught error: out of memory, or an entry file that does not load.
Die(t) ==
  /\ thread[t].state \in {"loading", "ready"}
  /\ deaths < MaxDeaths
  /\ deaths' = deaths + 1
  /\ thread' = [thread EXCEPT ![t] = [state |-> "gone", inbox |-> <<>>]]
  /\ Send(t, <<Event("error"), Event("exit")>>)
  /\ UNCHANGED <<worker, starting, disposal, victim, queue, active, call, aborted, dying, overtaken>>

\* terminate() takes effect some time after it was called.
Terminated(t) ==
  /\ t \in dying
  /\ thread[t].state # "gone"
  /\ thread' = [thread EXCEPT ![t] = [state |-> "gone", inbox |-> <<>>]]
  /\ Send(t, <<Event("exit")>>)
  /\ UNCHANGED <<worker, starting, disposal, victim, queue, active, call, aborted, dying, deaths, overtaken>>

-----------------------------------------------------------------------------
(* The specification *)

Init ==
  /\ worker = 0
  /\ starting = 0
  /\ disposal = "no"
  /\ victim = 0
  /\ queue = <<>>
  /\ active = None
  /\ call = [c \in Calls |-> [at |-> "idle", on |-> 0]]
  /\ aborted = {}
  /\ thread = [t \in Threads |-> [state |-> "unborn", inbox |-> <<>>]]
  /\ outbox = [t \in Threads |-> <<>>]
  /\ dying = {}
  /\ deaths = 0
  /\ overtaken = FALSE

Deliver(t) == OnReady(t) \/ OnAnswer(t) \/ OnError(t) \/ OnExit(t)

Next ==
  \/ Begin \/ Post \/ TimeOut \/ Dispose
  \/ \E c \in Calls : Invoke(c) \/ Abort(c)
  \/ \E t \in Threads : Deliver(t) \/ Load(t) \/ Execute(t) \/ Die(t) \/ Terminated(t)

Spec == Init /\ [][Next]_vars

\* The event loop handles microtasks, timers and messages; a thread reports that
\* it has loaded, and terminate() takes effect.  A module owes no answer, users
\* owe nothing.
Fairness ==
  /\ WF_vars(Begin) /\ WF_vars(Post) /\ WF_vars(TimeOut)
  /\ \A t \in Threads : WF_vars(Deliver(t)) /\ WF_vars(Load(t)) /\ WF_vars(Terminated(t))

FairSpec == Spec /\ Fairness

-----------------------------------------------------------------------------
(* Properties *)

\* A thread is reaped when the host has handled its exit.
Reaped(t) == thread[t].state = "gone" /\ outbox[t] = <<>>

Alive(t) == thread[t].state \in {"loading", "ready"} /\ t \notin dying

\* No call waits for a thread whose last event was handled, and none can be
\* posted to one: a call would never settle.  (A thread may die at any moment,
\* and the exit of one thread may be handled while another one works.)
NobodyWaitsForTheDead ==
  /\ worker # 0 => ~Reaped(worker)
  /\ starting # 0 => ~Reaped(starting)
  /\ \A c \in Calls : call[c].at \in {"ensured", "pending"} => ~Reaped(call[c].on)

\* When dispose() has returned, no thread is referenced or being started and no
\* call is under way, nor will be, however dispose() met a start in flight.
DisposeIsFinal ==
  disposal = "done" =>
    /\ worker = 0
    /\ starting = 0
    /\ \A c \in Calls : call[c].at \in {"idle", "queued", "settled"}

\* One live thread at a time: as long as every exit event was handled before the
\* successor of the thread was in place, all other threads are gone or dying.
OneLiveThread == ~overtaken => Cardinality({t \in Threads : Alive(t)}) <= 1

\* With a time limit every call settles, whatever the module does, and dispose()
\* returns (as long as threads do load).
CallsSettle ==
  \A c \in Calls :
    call[c].at = "queued" ~> (call[c].at = "settled"
                              \/ \A t \in Threads : thread[t].state # "unborn")

DisposeReturns == disposal # "no" ~> disposal = "done"

\* extensions/wasm/worker-host.ts:88-89: dispose() takes care not to leak a
\* thread.  When it has returned, every thread is gone or dying.
NoThreadLeaks == disposal = "done" => \A t \in Threads : ~Alive(t)
=============================================================================
