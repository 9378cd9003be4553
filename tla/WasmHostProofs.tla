--------------------------- MODULE WasmHostProofs ---------------------------
(***************************************************************************)
(* Theorems about module WasmHost, for every number of calls, threads and  *)
(* deaths, with or without a time limit.                                   *)
(***************************************************************************)
EXTENDS WasmHost, SequenceTheorems, FiniteSetTheorems, TLAPS

-----------------------------------------------------------------------------
(* The invariant *)

InFlight == {"ensuring", "ensured", "pending"}

\* A thread that has reported that it has loaded, or died.
Up(t) == thread[t].state \in {"ready", "gone"}

\* What a thread has sent and the host has not handled: nothing before it loads;
\* ready comes first and only while #start waits for it; exit comes last, after
\* the thread is gone, and until it is handled it is there.
MailOK(state, awaited, mail) ==
  /\ state \in {"unborn", "loading"} => mail = <<>>
  /\ \A i \in DOMAIN mail :
       /\ mail[i].type = "ready" => i = 1 /\ awaited
       /\ mail[i].type = "error" => state = "gone"
       /\ mail[i].type = "exit" => state = "gone" /\ i = Len(mail)
  /\ state = "gone" /\ mail # <<>> => mail[Len(mail)].type = "exit"

\* A thread that is loading, or whose first message will say how that went.
Starts(t) ==
  \/ thread[t].state = "loading"
  \/ outbox[t] # <<>> /\ Head(outbox[t]).type \in {"ready", "error"}

\* The thread #start waits for: no other is loading, and the first thing heard of
\* it is that it has loaded or that it died.
StartOK ==
  /\ \A t \in Threads : thread[t].state = "loading" => starting = t
  /\ starting # 0 =>
       /\ worker = 0
       /\ active # None
       /\ call[active].at = "ensuring"
       /\ Starts(starting)

\* How far dispose() is: it waits for a start in flight, or for an exit to come.
DisposalOK ==
  /\ disposal = "waiting" => starting # 0
  /\ disposal \in {"killing", "done"} => starting = 0
  /\ worker # 0 => disposal = "no"
  /\ disposal = "killing" => victim # 0 /\ Up(victim) /\ ~Reaped(victim)

\* At most one call is in flight: it waits for the thread that is starting, or is
\* on #worker, or on the thread whose exit dispose() waits for.
CallOK(c) ==
  /\ call[c].at \in InFlight => c = active
  /\ call[c].at = "ensuring" => starting # 0
  /\ call[c].at \in {"ensured", "pending"} =>
       \/ worker # 0 /\ call[c].on = worker
       \/ disposal = "killing" /\ call[c].on = victim

HostInv ==
  /\ TypeOK
  /\ \A t \in Threads : MailOK(thread[t].state, starting = t, outbox[t])
  /\ StartOK
  /\ DisposalOK
  /\ \A c \in Calls : CallOK(c)
  /\ worker # 0 => Up(worker) /\ ~Reaped(worker)
  /\ \A t \in dying : Up(t)
  /\ ~overtaken => \A t \in Threads : Alive(t) => t \in {worker, starting}

-----------------------------------------------------------------------------
(* Lemmas about the helpers *)

CallState == [at: {"idle", "queued", "ensuring", "ensured", "pending", "settled"}, on: ThreadOrNull]

ThreadState == [state: {"unborn", "loading", "ready", "gone"}, inbox: Seq(Calls)]

\* Threads are numbered from 1, so that 0 can be null.
LEMMA NullThread == ThreadOrNull = Threads \cup {0} /\ 0 \notin Threads
  BY HostAssumption DEF ThreadOrNull, Threads

\* The messages are messages.
LEMMA MessageTypes ==
  /\ Event("ready") \in Message /\ Event("ready").type = "ready"
  /\ Event("error") \in Message /\ Event("error").type = "error"
  /\ Event("exit") \in Message /\ Event("exit").type = "exit"
  /\ \A c \in Calls : Answer(c) \in Message /\ Answer(c).type = "answer"
  BY DEF Event, Answer, Message

\* Settled calls are not in flight; the others are as they were, and the active
\* call keeps its turn unless it settles.
LEMMA SettleEffect ==
  ASSUME call \in [Calls -> CallState], active \in Calls \cup {None}, NEW S, Settle(S)
  PROVE  /\ call' \in [Calls -> CallState] /\ active' \in Calls \cup {None}
         /\ \A c \in Calls : IF c \in S THEN call'[c].at = "settled" ELSE call'[c] = call[c]
         /\ active' = IF active \in S THEN None ELSE active
<1>1. /\ call' = [c \in Calls |-> IF c \in S THEN [call[c] EXCEPT !.at = "settled"] ELSE call[c]]
      /\ active' = IF active \in S THEN None ELSE active
  BY DEF Settle
<1>2. \A c \in Calls : /\ [call[c] EXCEPT !.at = "settled"] \in CallState
                       /\ [call[c] EXCEPT !.at = "settled"].at = "settled"
  BY DEF CallState
<1> QED BY <1>1, <1>2

\* A thread that was killed is up and is not alive.
LEMMA KillEffect ==
  ASSUME worker \in ThreadOrNull, dying \subseteq Threads, worker # 0 => Up(worker),
         \A t \in dying : Up(t), Kill, thread' = thread
  PROVE  /\ worker' = 0 /\ dying' \subseteq Threads
         /\ \A t \in dying' : Up(t)'
         /\ \A t \in Threads : Alive(t)' => Alive(t) /\ t # worker
  BY NullThread DEF Kill, Up, Alive

\* Handling the first message of a thread keeps its mail in order; the exit is
\* the last one, and as long as it has not been handled the thread has mail.
LEMMA MailReceived ==
  ASSUME NEW state \in {"unborn", "loading", "ready", "gone"}, NEW awaited, NEW after,
         NEW mail \in Seq(Message), mail # <<>>, MailOK(state, awaited, mail)
  PROVE  /\ Tail(mail) \in Seq(Message) /\ MailOK(state, after, Tail(mail))
         /\ state \in {"ready", "gone"}
         /\ Head(mail).type = "error" => state = "gone"
         /\ Head(mail).type = "exit" => state = "gone" /\ Tail(mail) = <<>>
         /\ state = "gone" /\ Head(mail).type # "exit" => Tail(mail) # <<>>
<1>1. /\ Tail(mail) \in Seq(Message) /\ Len(mail) \in Nat /\ Len(mail) > 0
      /\ Len(Tail(mail)) = Len(mail) - 1 /\ Head(mail) = mail[1]
      /\ \A i \in DOMAIN Tail(mail) : Tail(mail)[i] = mail[i + 1]
      /\ DOMAIN mail = 1..Len(mail) /\ DOMAIN Tail(mail) = 1..(Len(mail) - 1)
      /\ (Tail(mail) = <<>>) <=> Len(mail) = 1
  <2>1. Len(mail) \in Nat /\ Len(mail) > 0 /\ DOMAIN mail = 1..Len(mail) /\ Head(mail) = mail[1]
    OBVIOUS
  <2>2. Tail(mail) \in Seq(Message) /\ Len(Tail(mail)) = Len(mail) - 1
    OBVIOUS
  <2>3. DOMAIN Tail(mail) = 1..(Len(mail) - 1)
    BY <2>2
  <2>4. \A i \in DOMAIN Tail(mail) : Tail(mail)[i] = mail[i + 1]
    BY <2>1, <2>2, <2>3
  <2>5. (Tail(mail) = <<>>) <=> Len(mail) = 1
    <3> DEFINE rest == Tail(mail)
    <3>1. rest \in Seq(Message) /\ Len(rest) = Len(mail) - 1
      BY <2>2
    <3> HIDE DEF rest
    <3>2. rest # <<>> => Len(rest) # 0
      BY <3>1, EmptySeq
    <3>3. rest = <<>> => Len(rest) = 0
      BY EmptySeq
    <3> QED BY <2>1, <3>1, <3>2, <3>3 DEF rest
  <2> QED BY <2>1, <2>2, <2>3, <2>4, <2>5
<1>2. \A i \in DOMAIN Tail(mail) :
        /\ Tail(mail)[i].type # "ready"
        /\ Tail(mail)[i].type = "error" => state = "gone"
        /\ Tail(mail)[i].type = "exit" => state = "gone" /\ i = Len(Tail(mail))
  <2> SUFFICES ASSUME NEW i \in 1..(Len(mail) - 1)
               PROVE  /\ mail[i + 1].type # "ready"
                      /\ mail[i + 1].type = "error" => state = "gone"
                      /\ mail[i + 1].type = "exit" => state = "gone" /\ i = Len(mail) - 1
    BY <1>1, Zenon
  <2>1. i + 1 \in DOMAIN mail /\ i + 1 # 1 /\ i \in Nat
    BY <1>1
  <2>2. /\ mail[i + 1].type = "ready" => i + 1 = 1
        /\ mail[i + 1].type = "error" => state = "gone"
        /\ mail[i + 1].type = "exit" => state = "gone" /\ i + 1 = Len(mail)
    BY <2>1, Zenon DEF MailOK
  <2>3. i + 1 = Len(mail) => i = Len(mail) - 1
    <3>1. \A n, k \in Int : k + 1 = n => k = n - 1
      OBVIOUS
    <3>2. Len(mail) \in Int /\ i \in Int
      BY <1>1, <2>1
    <3> QED BY <3>1, <3>2, Zenon
  <2> QED BY <2>1, <2>2, <2>3, Zenon
<1>3. state = "gone" /\ Tail(mail) # <<>> => Tail(mail)[Len(Tail(mail))].type = "exit"
  BY <1>1 DEF MailOK
<1>4. state \notin {"unborn", "loading"}
  BY DEF MailOK
<1>5. /\ Head(mail).type = "error" => state = "gone"
      /\ Head(mail).type = "exit" => state = "gone" /\ Len(mail) = 1
      /\ state = "gone" /\ Len(mail) = 1 => Head(mail).type = "exit"
  BY <1>1 DEF MailOK
<1> QED BY <1>1, <1>2, <1>3, <1>4, <1>5 DEF MailOK

\* What a thread sends keeps its mail in order: that it is ready when it has
\* loaded, answers while it is ready, and its exit when it goes.
LEMMA MailSent ==
  ASSUME NEW state, NEW awaited \in BOOLEAN, NEW mail \in Seq(Message), MailOK(state, awaited, mail)
  PROVE  /\ state = "loading" /\ awaited => MailOK("ready", awaited, mail \o <<Event("ready")>>)
         /\ \A c \in Calls : state = "ready" => MailOK("ready", awaited, mail \o <<Answer(c)>>)
         /\ state \in {"loading", "ready"} =>
              MailOK("gone", awaited, mail \o <<Event("error"), Event("exit")>>)
         /\ state = "ready" => MailOK("gone", awaited, mail \o <<Event("exit")>>)
<1>1. ASSUME state = "loading", awaited PROVE MailOK("ready", awaited, mail \o <<Event("ready")>>)
  <2>1. mail \o <<Event("ready")>> = <<Event("ready")>>
    BY <1>1 DEF MailOK
  <2> QED BY <1>1, <2>1, MessageTypes DEF MailOK
<1>2. ASSUME NEW m \in Message, state = "ready", m.type \in {"answer", "exit"},
             NEW new \in {"ready", "gone"}, m.type = "exit" <=> new = "gone"
      PROVE  MailOK(new, awaited, mail \o <<m>>)
  <2> DEFINE all == mail \o <<m>>
  <2>1. /\ Len(all) = Len(mail) + 1 /\ Len(mail) \in Nat
        /\ DOMAIN all = 1..(Len(mail) + 1) /\ DOMAIN mail = 1..Len(mail)
        /\ \A i \in DOMAIN mail : all[i] = mail[i]
        /\ all[Len(mail) + 1] = m
    OBVIOUS
  <2> HIDE DEF all
  <2>2. \A i \in DOMAIN mail : mail[i].type \notin {"error", "exit"}
    BY <1>2 DEF MailOK
  <2> QED BY <1>2, <2>1, <2>2 DEF MailOK, all
<1>3. ASSUME state \in {"loading", "ready"}
      PROVE  MailOK("gone", awaited, mail \o <<Event("error"), Event("exit")>>)
  <2> DEFINE e == Event("error")
             x == Event("exit")
             all == mail \o <<e, x>>
  <2>0. e \in Message /\ x \in Message /\ e.type = "error" /\ x.type = "exit"
    BY MessageTypes
  <2> HIDE DEF e, x
  <2>1. /\ Len(all) = Len(mail) + 2 /\ Len(mail) \in Nat
        /\ DOMAIN all = 1..(Len(mail) + 2) /\ DOMAIN mail = 1..Len(mail)
        /\ \A i \in DOMAIN mail : all[i] = mail[i]
        /\ all[Len(mail) + 1] = e /\ all[Len(mail) + 2] = x
    BY <2>0
  <2> HIDE DEF all
  <2>2. \A i \in DOMAIN mail : mail[i].type \notin {"error", "exit"}
    BY <1>3 DEF MailOK
  <2>3. MailOK("gone", awaited, all)
    BY <2>0, <2>1, <2>2 DEF MailOK
  <2> QED BY <2>3 DEF all, e, x
<1> QED BY <1>1, <1>2, <1>3, MessageTypes

-----------------------------------------------------------------------------
(* The host: users, turns and timers *)

\* The types, and what the invariant says of a call in flight.
LEMMA HostFacts ==
  ASSUME HostInv
  PROVE  /\ worker \in ThreadOrNull /\ starting \in ThreadOrNull /\ victim \in ThreadOrNull
         /\ disposal \in {"no", "waiting", "killing", "done"}
         /\ queue \in Seq(Calls) /\ active \in Calls \cup {None} /\ None \notin Calls
         /\ call \in [Calls -> CallState]
         /\ thread \in [Threads -> ThreadState]
         /\ outbox \in [Threads -> Seq(Message)]
         /\ dying \subseteq Threads /\ aborted \subseteq Calls
         /\ deaths \in Nat /\ overtaken \in BOOLEAN
         /\ (starting = 0) <=> \A c \in Calls : call[c].at # "ensuring"
         /\ Quiet => \A c \in Calls : call[c].at # "ensured"
  BY HostAssumption DEF HostInv, TypeOK, CallState, ThreadState, StartOK, CallOK, InFlight, Quiet

\* A step of the host that leaves the threads alone keeps what is said of them.
LEMMA ThreadsKept ==
  ASSUME HostInv, UNCHANGED <<thread, outbox, starting>>
  PROVE  /\ \A t \in Threads : MailOK(thread[t].state, starting = t, outbox[t])'
         /\ \A t \in Threads : thread'[t].state = "loading" => starting' = t
         /\ starting' # 0 => Starts(starting)'
         /\ \A t \in Threads : (Up(t)' <=> Up(t)) /\ (Reaped(t)' <=> Reaped(t))
<1>1. \A t \in Threads : MailOK(thread[t].state, starting = t, outbox[t])'
  BY DEF HostInv
<1>2. /\ \A t \in Threads : thread'[t].state = "loading" => starting' = t
      /\ starting' # 0 => Starts(starting)'
  BY DEF HostInv, StartOK, Starts
<1>3. \A t \in Threads : (Up(t)' <=> Up(t)) /\ (Reaped(t)' <=> Reaped(t))
  BY DEF Up, Reaped
<1> QED BY <1>1, <1>2, <1>3

\* A call of invoke joins the chain.
LEMMA InvokeKeeps ==
  ASSUME HostInv, NEW c \in Calls, Invoke(c)
  PROVE  HostInv'
<1>0. /\ call \in [Calls -> CallState] /\ call' = [call EXCEPT ![c].at = "queued"]
      /\ call[c].at = "idle" /\ queue' = Append(queue, c) /\ queue \in Seq(Calls)
      /\ UNCHANGED <<worker, starting, disposal, victim, active, aborted, thread, outbox, dying, deaths, overtaken>>
  BY HostFacts DEF Invoke
<1>1. call' \in [Calls -> CallState] /\ queue' \in Seq(Calls)
  BY <1>0 DEF CallState
<1>2. call'[c].at = "queued" /\ \A d \in Calls : d # c => call'[d] = call[d]
  BY <1>0 DEF CallState
<1>3. TypeOK'
  BY <1>0, <1>1 DEF HostInv, TypeOK, CallState
<1>4. StartOK'
  BY <1>0, <1>2, ThreadsKept, HostFacts DEF HostInv, StartOK
<1>5. \A d \in Calls : CallOK(d)'
  BY <1>0, <1>2 DEF HostInv, CallOK, InFlight
<1> QED BY <1>0, <1>3, <1>4, <1>5, ThreadsKept DEF HostInv, DisposalOK, Up, Reaped, Alive

\* Settling calls, and killing the thread or not, leaves the host in order, when
\* either no call is left on a thread or dispose() is killing it.
LEMMA KillKeeps ==
  ASSUME HostInv, UNCHANGED <<thread, outbox, starting>>, NEW S \in SUBSET Calls, Settle(S),
         \/ UNCHANGED <<worker, dying, disposal, victim>>
         \/ /\ Kill
            /\ \/ UNCHANGED <<disposal, victim>> /\ \A c \in Calls : call[c].at \in {"ensured", "pending"} => c \in S
               \/ /\ disposal = "no" /\ starting = 0 /\ victim' = worker
                  /\ disposal' = IF worker = 0 THEN "done" ELSE "killing"
                  /\ worker = 0 => \A c \in Calls : call[c].at \in {"ensured", "pending"} => c \in S,
         \A c \in S : call[c].at # "ensuring",
         aborted' \subseteq Calls, UNCHANGED <<queue, deaths>>,
         overtaken' \in BOOLEAN, overtaken => overtaken'
  PROVE  HostInv'
<1>0. /\ call' \in [Calls -> CallState] /\ active' \in Calls \cup {None}
      /\ \A c \in Calls : IF c \in S THEN call'[c].at = "settled" ELSE call'[c] = call[c]
      /\ active' = IF active \in S THEN None ELSE active
  BY SettleEffect, HostFacts
<1>1. /\ worker' \in {0, worker} /\ dying' \subseteq Threads
      /\ \A t \in dying' : Up(t)'
      /\ \A t \in Threads : Alive(t)' => Alive(t) /\ (t = worker => worker' = worker)
  <2>1. CASE Kill
    BY <2>1, KillEffect, HostFacts DEF HostInv
  <2>2. CASE UNCHANGED <<worker, dying>>
    BY <2>2, HostFacts DEF HostInv, Up, Alive
  <2> QED BY <2>1, <2>2
<1>2. TypeOK'
  BY <1>0, <1>1, HostFacts, NullThread DEF TypeOK, CallState, ThreadState
<1>3. StartOK'
  BY <1>0, <1>1, ThreadsKept, HostFacts DEF HostInv, StartOK
<1>4. DisposalOK'
  BY <1>1, ThreadsKept, HostFacts, NullThread DEF HostInv, DisposalOK, Kill
<1>5. \A c \in Calls : CallOK(c)'
  BY <1>0, <1>1, HostFacts DEF HostInv, CallOK, InFlight, Kill, DisposalOK
<1>6. worker' # 0 => Up(worker)' /\ ~Reaped(worker)'
  BY <1>1, ThreadsKept, HostFacts, NullThread DEF HostInv
<1>7. ~overtaken' => \A t \in Threads : Alive(t)' => t \in {worker', starting'}
  BY <1>1 DEF HostInv
<1> QED BY <1>1, <1>2, <1>3, <1>4, <1>5, <1>6, <1>7, ThreadsKept DEF HostInv

\* An abort is heard when the call is pending, and then it ends call and thread.
LEMMA AbortKeeps ==
  ASSUME HostInv, NEW c \in Calls, Abort(c)
  PROVE  HostInv'
<1>1. /\ UNCHANGED <<thread, outbox, starting, disposal, victim, queue, deaths, overtaken>>
      /\ aborted' \subseteq Calls
  BY HostFacts DEF Abort
<1>2. CASE call[c].at = "pending"
  <2>1. Kill /\ Settle({c} \cup FailedByKill)
    BY <1>2 DEF Abort
  <2>2. {c} \cup FailedByKill \in SUBSET Calls
    BY DEF FailedByKill, Pending
  <2>3. \A d \in Calls : call[d].at \in {"ensured", "pending"} => d \in {c} \cup FailedByKill
    BY <1>1, <1>2, HostFacts DEF HostInv, CallOK, InFlight
  <2>4. \A d \in {c} \cup FailedByKill : call[d].at # "ensuring"
    BY <1>2 DEF FailedByKill, Pending
  <2> QED BY <1>1, <2>1, <2>2, <2>3, <2>4, KillKeeps, HostFacts
<1>3. CASE call[c].at # "pending"
  <2>1. UNCHANGED <<worker, dying, call, active>>
    BY <1>3 DEF Abort
  <2>2. Settle({})
    BY <2>1, HostFacts DEF Settle
  <2> QED BY <1>1, <2>1, <2>2, KillKeeps, HostFacts
<1> QED BY <1>2, <1>3

\* The timer ends the pending call and its thread.
LEMMA TimeOutKeeps ==
  ASSUME HostInv, TimeOut
  PROVE  HostInv'
<1>1. /\ UNCHANGED <<thread, outbox, starting, disposal, victim, queue, deaths, overtaken, aborted>>
      /\ Quiet /\ Kill /\ Settle({active} \cup FailedByKill) /\ active \in Pending
  BY DEF TimeOut
<1>2. {active} \cup FailedByKill \in SUBSET Calls
  BY <1>1 DEF FailedByKill, Pending
<1>3. \A d \in Calls : call[d].at \in {"ensured", "pending"} => d \in {active} \cup FailedByKill
  BY HostFacts DEF HostInv, CallOK, InFlight
<1>4. \A d \in {active} \cup FailedByKill : call[d].at # "ensuring"
  BY <1>1 DEF FailedByKill, Pending
<1> QED BY <1>1, <1>2, <1>3, <1>4, KillKeeps, HostFacts

\* dispose waits for a start in flight, or kills.
LEMMA DisposeKeeps ==
  ASSUME HostInv, Dispose
  PROVE  HostInv'
<1>1. UNCHANGED <<starting, queue, aborted, thread, outbox, deaths, overtaken>> /\ disposal = "no"
  BY DEF Dispose
<1>2. CASE starting # 0
  <2>1. disposal' = "waiting" /\ UNCHANGED <<worker, victim, dying, call, active>>
    BY <1>2 DEF Dispose
  <2>2. \A c \in Calls : CallOK(c)'
    BY <1>1, <2>1 DEF HostInv, CallOK
  <2> QED BY <1>1, <1>2, <2>1, <2>2, ThreadsKept
          DEF HostInv, TypeOK, StartOK, DisposalOK, Up, Reaped, Alive
<1>3. CASE starting = 0
  <2>1. /\ Kill /\ Settle(FailedByKill) /\ victim' = worker
        /\ disposal' = IF worker = 0 THEN "done" ELSE "killing"
    BY <1>3 DEF Dispose, DisposeNow
  <2>2. FailedByKill \in SUBSET Calls /\ \A c \in FailedByKill : call[c].at # "ensuring"
    BY DEF FailedByKill, Pending
  <2>3. worker = 0 => \A c \in Calls : call[c].at \in {"ensured", "pending"} => c \in FailedByKill
    BY <1>1 DEF HostInv, CallOK
  <2> QED BY <1>1, <1>3, <2>1, <2>2, <2>3, KillKeeps, HostFacts
<1> QED BY <1>2, <1>3

-----------------------------------------------------------------------------
(* The host: a call takes its turn *)

\* A call is refused, finds the thread, or has one started.
LEMMA BeginKeeps ==
  ASSUME HostInv, Begin
  PROVE  HostInv'
<1> DEFINE c == Head(queue)
<1>0. /\ active = None /\ c \in Calls /\ queue' \in Seq(Calls) /\ starting = 0
      /\ \A d \in Calls : call[d].at \notin InFlight
      /\ UNCHANGED <<worker, disposal, victim, aborted, outbox, dying, deaths, overtaken>>
  <2>1. queue \in Seq(Calls) /\ queue # <<>> /\ queue' = Tail(queue) /\ active = None
    BY HostFacts DEF Begin
  <2>2. c \in Calls /\ queue' \in Seq(Calls)
    BY <2>1
  <2>3. \A d \in Calls : call[d].at \notin InFlight
    BY <2>1, HostFacts DEF HostInv, CallOK
  <2> QED BY <2>1, <2>2, <2>3 DEF Begin, HostInv, StartOK
<1> HIDE DEF c
<1>1. CASE Disposed \/ c \in aborted
  <2>1. call' = [call EXCEPT ![c].at = "settled"] /\ UNCHANGED <<active, starting, thread>>
    BY <1>1 DEF Begin, c
  <2>2. call' \in [Calls -> CallState] /\ \A d \in Calls : call'[d].at \notin InFlight
    BY <1>0, <2>1, HostFacts DEF CallState, InFlight
  <2>3. TypeOK'
    BY <1>0, <2>1, <2>2, HostFacts DEF TypeOK, CallState, ThreadState
  <2>4. StartOK'
    BY <1>0, <2>1, ThreadsKept DEF StartOK
  <2>5. \A d \in Calls : CallOK(d)'
    BY <2>2 DEF CallOK, InFlight
  <2> QED BY <1>0, <2>1, <2>3, <2>4, <2>5, ThreadsKept DEF HostInv, DisposalOK, Up, Reaped, Alive
<1>2. CASE worker # 0 /\ ~Disposed /\ c \notin aborted
  <2>1. /\ call' = [call EXCEPT ![c] = [at |-> "ensured", on |-> worker]] /\ active' = c
        /\ UNCHANGED <<starting, thread>>
    BY <1>2 DEF Begin, c
  <2>2. /\ call' \in [Calls -> CallState] /\ call'[c] = [at |-> "ensured", on |-> worker]
        /\ \A d \in Calls : d # c => call'[d].at \notin InFlight
    BY <1>0, <2>1, HostFacts DEF CallState
  <2>3. TypeOK'
    BY <1>0, <2>1, <2>2, HostFacts DEF TypeOK, CallState, ThreadState
  <2>4. StartOK'
    BY <1>0, <2>1, ThreadsKept DEF StartOK
  <2>5. \A d \in Calls : CallOK(d)'
    BY <1>0, <1>2, <2>1, <2>2 DEF CallOK, InFlight
  <2> QED BY <1>0, <2>1, <2>3, <2>4, <2>5, ThreadsKept DEF HostInv, DisposalOK, Up, Reaped, Alive
<1>3. CASE worker = 0 /\ ~Disposed /\ c \notin aborted
  <2>1. PICK t \in Threads : /\ thread[t].state = "unborn" /\ starting' = t
                             /\ thread' = [thread EXCEPT ![t].state = "loading"]
    BY <1>3 DEF Begin, c
  <2>2. call' = [call EXCEPT ![c].at = "ensuring"] /\ active' = c
    BY <1>3 DEF Begin, c
  <2>3. /\ call' \in [Calls -> CallState] /\ call'[c].at = "ensuring"
        /\ \A d \in Calls : d # c => call'[d].at \notin InFlight
    BY <1>0, <2>2, HostFacts DEF CallState
  <2>4. /\ thread' \in [Threads -> ThreadState] /\ thread'[t].state = "loading"
        /\ \A u \in Threads : u # t => thread'[u] = thread[u]
    BY <2>1, HostFacts DEF ThreadState
  <2>5. TypeOK'
    BY <1>0, <2>1, <2>2, <2>3, <2>4, HostFacts, NullThread DEF TypeOK, CallState, ThreadState
  <2>6. ASSUME NEW u \in Threads PROVE MailOK(thread[u].state, starting = u, outbox[u])'
    <3>0. starting # u /\ outbox' = outbox
      BY <1>0, NullThread
    <3>1. CASE u = t
      BY <2>1, <2>4, <3>0, <3>1 DEF HostInv, MailOK
    <3>2. CASE u # t
      <4>1. thread'[u] = thread[u] /\ (starting' = u) = (starting = u)
        BY <2>1, <2>4, <3>0, <3>2
      <4> QED BY <3>0, <4>1 DEF HostInv
    <3> QED BY <3>1, <3>2
  <2>7. StartOK'
    BY <1>0, <1>3, <2>1, <2>2, <2>3, <2>4, NullThread, HostFacts DEF HostInv, StartOK, Starts
  <2>8. DisposalOK'
    BY <1>0, <1>3 DEF DisposalOK, Disposed
  <2>9. \A d \in Calls : CallOK(d)'
    BY <2>1, <2>2, <2>3, NullThread DEF CallOK, InFlight
  <2>10. \A u \in dying' : Up(u)'
    BY <1>0, <2>1, <2>4, HostFacts DEF HostInv, Up
  <2>11. ~overtaken' => \A u \in Threads : Alive(u)' => u \in {worker', starting'}
    BY <1>0, <1>3, <2>1, <2>4, NullThread DEF HostInv, Alive
  <2> QED BY <1>0, <1>3, <2>5, <2>6, <2>7, <2>8, <2>9, <2>10, <2>11 DEF HostInv
<1>4. (Disposed \/ c \in aborted) \/ (~Disposed /\ c \notin aborted)
  OBVIOUS
<1> QED BY <1>1, <1>2, <1>3, <1>4

\* The call is registered and posted.
LEMMA PostKeeps ==
  ASSUME HostInv, Post
  PROVE  HostInv'
<1> DEFINE t == call[active].on
<1>0. /\ active \in Calls /\ call[active].at = "ensured" /\ t \in Threads /\ Up(t) /\ starting = 0
      /\ call' = [call EXCEPT ![active].at = "pending"]
      /\ thread' = [thread EXCEPT ![t].inbox = Append(@, active)]
      /\ UNCHANGED <<worker, starting, disposal, victim, queue, active, aborted, outbox, dying,
                     deaths, overtaken>>
  <2>1. active \in Calls /\ call[active].at = "ensured"
    BY HostFacts DEF Post
  <2>2. t \in Threads /\ Up(t)
    BY <2>1, HostFacts, NullThread DEF HostInv, CallOK, DisposalOK
  <2>3. starting = 0
    BY <2>1 DEF HostInv, StartOK
  <2> QED BY <2>1, <2>2, <2>3 DEF Post
<1> HIDE DEF t
<1>1. /\ call' \in [Calls -> CallState]
      /\ call'[active] = [at |-> "pending", on |-> call[active].on]
      /\ \A d \in Calls : d # active => call'[d] = call[d]
  BY <1>0, HostFacts DEF CallState
<1>2. /\ thread' \in [Threads -> ThreadState]
      /\ \A u \in Threads : thread'[u].state = thread[u].state
  <2> DEFINE inbox == Append(thread[t].inbox, active)
             new == [thread[t] EXCEPT !.inbox = inbox]
  <2>1. thread[t] \in ThreadState /\ thread \in [Threads -> ThreadState] /\ inbox \in Seq(Calls)
    <3>1. thread[t] \in ThreadState /\ thread \in [Threads -> ThreadState]
      BY <1>0, HostFacts
    <3>2. thread[t].inbox \in Seq(Calls)
      BY <3>1 DEF ThreadState
    <3> QED BY <1>0, <3>1, <3>2
  <2>4. thread' = [thread EXCEPT ![t] = new]
    BY <1>0
  <2> HIDE DEF inbox
  <2>2. new \in ThreadState /\ new.state = thread[t].state
    BY <1>0, <2>1 DEF ThreadState
  <2> HIDE DEF new
  <2> QED BY <1>0, <2>1, <2>2, <2>4
<1>3. TypeOK'
  BY <1>0, <1>1, <1>2, HostFacts DEF TypeOK, CallState, ThreadState
<1>4. ASSUME NEW u \in Threads PROVE MailOK(thread[u].state, starting = u, outbox[u])'
  BY <1>0, <1>2 DEF HostInv
<1>5. StartOK'
  BY <1>0, <1>2 DEF HostInv, StartOK
<1>6. \A u \in Threads : (Up(u)' <=> Up(u)) /\ (Reaped(u)' <=> Reaped(u)) /\ (Alive(u)' <=> Alive(u))
  BY <1>0, <1>2 DEF Up, Reaped, Alive
<1>7. DisposalOK'
  BY <1>0, <1>6, HostFacts, NullThread DEF HostInv, DisposalOK
<1>8. ASSUME NEW d \in Calls PROVE CallOK(d)'
  <2>1. CASE d = active
    <3>1. \/ worker # 0 /\ call[active].on = worker
          \/ disposal = "killing" /\ call[active].on = victim
      BY <1>0 DEF HostInv, CallOK
    <3>2. call'[active].at = "pending" /\ call'[active].on = call[active].on
      BY <1>1
    <3> QED BY <1>0, <2>1, <3>1, <3>2 DEF CallOK
  <2>2. CASE d # active
    BY <1>0, <1>1, <2>2 DEF HostInv, CallOK
  <2> QED BY <2>1, <2>2
<1> QED BY <1>0, <1>3, <1>4, <1>5, <1>6, <1>7, <1>8, HostFacts, NullThread DEF HostInv

-----------------------------------------------------------------------------
(* The threads *)

\* A thread that goes on or goes away, and sends its mail in order.
LEMMA ThreadKeeps ==
  ASSUME HostInv, NEW t \in Threads, NEW new \in ThreadState, NEW mail \in Seq(Message),
         mail # <<>>, thread[t].state \in {"loading", "ready"}, new.state \in {"ready", "gone"},
         thread' = [thread EXCEPT ![t] = new],
         outbox' = [outbox EXCEPT ![t] = mail],
         MailOK(new.state, starting = t, mail),
         starting = t => Head(mail).type \in {"ready", "error"},
         UNCHANGED <<worker, starting, disposal, victim, queue, active, call, aborted, dying, overtaken>>,
         deaths' \in Nat
  PROVE  HostInv'
<1>1. /\ thread' \in [Threads -> ThreadState] /\ outbox' \in [Threads -> Seq(Message)]
      /\ thread'[t] = new /\ outbox'[t] = mail
      /\ \A u \in Threads : u # t => thread'[u] = thread[u] /\ outbox'[u] = outbox[u]
  BY HostFacts
<1>2. TypeOK'
  BY <1>1, HostFacts DEF TypeOK, CallState, ThreadState
<1>3. ASSUME NEW u \in Threads PROVE MailOK(thread[u].state, starting = u, outbox[u])'
  <2>1. CASE u = t
    BY <1>1, <2>1
  <2>2. CASE u # t
    BY <1>1, <2>2 DEF HostInv
  <2> QED BY <2>1, <2>2
<1>4. \A u \in Threads : (Up(u) => Up(u)') /\ (~Reaped(u) => ~Reaped(u)') /\ (Alive(u)' => Alive(u))
  <2>1. ASSUME NEW u \in Threads, u # t
        PROVE (Up(u) => Up(u)') /\ (~Reaped(u) => ~Reaped(u)') /\ (Alive(u)' => Alive(u))
    BY <1>1, <2>1 DEF Up, Reaped, Alive
  <2>2. (Up(t) => Up(t)') /\ (~Reaped(t) => ~Reaped(t)') /\ (Alive(t)' => Alive(t))
    BY <1>1 DEF Up, Reaped, Alive
  <2> QED BY <2>1, <2>2
<1>5. StartOK'
  BY <1>1, HostFacts, NullThread DEF HostInv, StartOK, Starts
<1>6. DisposalOK'
  BY <1>4, HostFacts, NullThread DEF HostInv, DisposalOK
<1>7. \A c \in Calls : CallOK(c)'
  BY DEF HostInv, CallOK
<1> QED BY <1>2, <1>3, <1>4, <1>5, <1>6, <1>7, HostFacts, NullThread DEF HostInv

\* The first message of longer mail.
LEMMA HeadStays ==
  ASSUME NEW mail \in Seq(Message), NEW more \in Seq(Message), more # <<>>
  PROVE  /\ mail \o more \in Seq(Message) /\ mail \o more # <<>>
         /\ Head(mail \o more) = IF mail = <<>> THEN Head(more) ELSE Head(mail)
<1>1. /\ mail \o more \in Seq(Message) /\ Len(mail \o more) = Len(mail) + Len(more)
      /\ Len(mail) \in Nat /\ Len(more) \in Nat
      /\ \A i \in 1..Len(mail) + Len(more) :
           (mail \o more)[i] = IF i <= Len(mail) THEN mail[i] ELSE more[i - Len(mail)]
  OBVIOUS
<1>2. Len(more) # 0 /\ (mail # <<>> => Len(mail) # 0) /\ (mail = <<>> => Len(mail) = 0)
  BY EmptySeq
<1> DEFINE all == mail \o more
<1>3. Len(all) # 0 /\ all[1] = IF mail = <<>> THEN more[1] ELSE mail[1]
  BY <1>1, <1>2
<1>4. Head(all) = all[1] /\ Head(more) = more[1] /\ Head(mail) = mail[1]
  BY <1>1, <1>3
<1> QED BY <1>1, <1>3, <1>4, EmptySeq

\* Every step of a thread keeps HostInv.
LEMMA ThreadStepKeeps ==
  ASSUME HostInv, NEW t \in Threads, Load(t) \/ Execute(t) \/ Die(t) \/ Terminated(t)
  PROVE  HostInv'
<1> DEFINE mail == outbox[t]
           gone == [state |-> "gone", inbox |-> <<>>]
<1>0. /\ mail \in Seq(Message) /\ MailOK(thread[t].state, starting = t, mail)
      /\ thread[t] \in ThreadState /\ thread \in [Threads -> ThreadState]
      /\ gone \in ThreadState /\ gone.state = "gone" /\ (starting = t) \in BOOLEAN
      /\ starting = t => Starts(t)
  BY HostFacts, NullThread, EmptySeq DEF HostInv, ThreadState, StartOK
<1>e. /\ <<Event("ready")>> \in Seq(Message) /\ <<Event("exit")>> \in Seq(Message)
      /\ <<Event("error"), Event("exit")>> \in Seq(Message)
      /\ \A c \in Calls : <<Answer(c)>> \in Seq(Message)
  BY MessageTypes
<1> HIDE DEF mail, gone
<1>1. CASE Load(t)
  <2> DEFINE more == <<Event("ready")>>
             new == [thread[t] EXCEPT !.state = "ready"]
  <2>1. /\ thread[t].state = "loading" /\ thread' = [thread EXCEPT ![t] = new]
        /\ outbox' = [outbox EXCEPT ![t] = mail \o more] /\ starting = t /\ deaths' = deaths
        /\ UNCHANGED <<worker, starting, disposal, victim, queue, active, call, aborted, dying, overtaken>>
    BY <1>1 DEF Load, Send, mail, HostInv, StartOK
  <2>2. new \in ThreadState /\ new.state = "ready"
    BY <1>0 DEF ThreadState
  <2>3. mail = <<>> /\ more # <<>> /\ Head(more) = Event("ready")
    BY <1>0, <2>1 DEF MailOK
  <2>4. MailOK("ready", starting = t, mail \o more)
    BY <1>0, <2>1, MailSent
  <2> HIDE DEF new, more
  <2>5. mail \o more \in Seq(Message) /\ mail \o more # <<>> /\ Head(mail \o more) = Head(more)
    BY <1>0, <1>e, <2>3, HeadStays DEF more
  <2>6. Head(mail \o more).type \in {"ready", "error"}
    BY <2>3, <2>5, MessageTypes
  <2>7. deaths' \in Nat
    BY <2>1, HostFacts
  <2> QED BY <2>1, <2>2, <2>4, <2>5, <2>6, <2>7, ThreadKeeps
<1>2. CASE Execute(t)
  <2> DEFINE more == <<Answer(Head(thread[t].inbox))>>
             new == [thread[t] EXCEPT !.inbox = Tail(@)]
  <2>1. /\ thread[t].state = "ready" /\ thread' = [thread EXCEPT ![t] = new]
        /\ outbox' = [outbox EXCEPT ![t] = mail \o more] /\ deaths' = deaths
        /\ UNCHANGED <<worker, starting, disposal, victim, queue, active, call, aborted, dying, overtaken>>
        /\ thread[t].inbox \in Seq(Calls) /\ thread[t].inbox # <<>>
    BY <1>0, <1>2 DEF Execute, Send, mail, ThreadState
  <2>2. Head(thread[t].inbox) \in Calls /\ Tail(thread[t].inbox) \in Seq(Calls)
    BY <2>1
  <2>3. new \in ThreadState /\ new.state = "ready"
    BY <1>0, <2>1, <2>2 DEF ThreadState
  <2>4. MailOK("ready", starting = t, mail \o more)
    BY <1>0, <2>1, <2>2, MailSent
  <2>5. more # <<>> /\ more \in Seq(Message)
    BY <1>e, <2>2
  <2> HIDE DEF new, more
  <2>6. /\ mail \o more \in Seq(Message) /\ mail \o more # <<>>
        /\ mail # <<>> => Head(mail \o more) = Head(mail)
    BY <1>0, <2>5, HeadStays
  <2>7. starting = t => Head(mail \o more).type \in {"ready", "error"}
    BY <1>0, <2>1, <2>6 DEF Starts, mail
  <2> QED BY <2>1, <2>3, <2>4, <2>6, <2>7, ThreadKeeps, HostFacts
<1>3. CASE Die(t)
  <2> DEFINE more == <<Event("error"), Event("exit")>>
  <2>1. /\ thread[t].state \in {"loading", "ready"} /\ thread' = [thread EXCEPT ![t] = gone]
        /\ outbox' = [outbox EXCEPT ![t] = mail \o more] /\ deaths' \in Nat
        /\ UNCHANGED <<worker, starting, disposal, victim, queue, active, call, aborted, dying, overtaken>>
    BY <1>3, HostFacts DEF Die, Send, mail, gone
  <2>2. MailOK("gone", starting = t, mail \o more)
    BY <1>0, <2>1, MailSent
  <2>3. more # <<>> /\ more \in Seq(Message) /\ Head(more) = Event("error")
    BY <1>e
  <2> HIDE DEF more
  <2>4. /\ mail \o more \in Seq(Message) /\ mail \o more # <<>>
        /\ Head(mail \o more) = IF mail = <<>> THEN Head(more) ELSE Head(mail)
    BY <1>0, <2>3, HeadStays
  <2>5. starting = t => Head(mail \o more).type \in {"ready", "error"}
    BY <1>0, <2>1, <2>3, <2>4, MessageTypes DEF Starts, mail, MailOK
  <2> QED BY <1>0, <2>1, <2>2, <2>4, <2>5, ThreadKeeps
<1>4. CASE Terminated(t)
  <2> DEFINE more == <<Event("exit")>>
  <2>1. /\ thread[t].state = "ready" /\ thread' = [thread EXCEPT ![t] = gone]
        /\ outbox' = [outbox EXCEPT ![t] = mail \o more] /\ deaths' = deaths
        /\ UNCHANGED <<worker, starting, disposal, victim, queue, active, call, aborted, dying, overtaken>>
    BY <1>4 DEF Terminated, Send, mail, gone, HostInv, Up
  <2>2. MailOK("gone", starting = t, mail \o more)
    BY <1>0, <2>1, MailSent
  <2>3. more # <<>> /\ more \in Seq(Message)
    BY <1>e
  <2> HIDE DEF more
  <2>4. /\ mail \o more \in Seq(Message) /\ mail \o more # <<>>
        /\ mail # <<>> => Head(mail \o more) = Head(mail)
    BY <1>0, <2>3, HeadStays
  <2>5. starting = t => Head(mail \o more).type \in {"ready", "error"}
    BY <1>0, <2>1, <2>4 DEF Starts, mail
  <2> QED BY <1>0, <2>1, <2>2, <2>4, <2>5, ThreadKeeps, HostFacts
<1> QED BY <1>1, <1>2, <1>3, <1>4

-----------------------------------------------------------------------------
(* The host: events of a thread *)

\* What the first message of a thread tells, and what is left when it is handled.
LEMMA ReceiveEffect ==
  ASSUME HostInv, NEW t \in Threads, NEW type \in {"ready", "answer", "error", "exit"},
         Receive(t, type), thread' = thread
  PROVE  /\ Quiet /\ Up(t) /\ outbox' \in [Threads -> Seq(Message)] /\ Head(outbox[t]) \in Message
         /\ \A u \in Threads : u # t => outbox'[u] = outbox[u]
         /\ \A after : MailOK(thread[t].state, after, outbox'[t])
         /\ type = "ready" => starting = t
         /\ type \in {"error", "exit"} => thread[t].state = "gone"
         /\ starting = t => type \in {"ready", "error"}
         /\ \A u \in Threads : Up(u)' <=> Up(u)
         /\ \A u \in Threads : (u # t \/ type # "exit") /\ ~Reaped(u) => ~Reaped(u)'
<1>0. /\ thread[t].state \in {"unborn", "loading", "ready", "gone"}
      /\ outbox[t] \in Seq(Message) /\ outbox[t] # <<>> /\ Head(outbox[t]).type = type
      /\ MailOK(thread[t].state, starting = t, outbox[t]) /\ Quiet
      /\ outbox \in [Threads -> Seq(Message)] /\ outbox' = [outbox EXCEPT ![t] = Tail(outbox[t])]
  BY HostFacts DEF HostInv, Receive, ThreadState
<1>1. /\ Tail(outbox[t]) \in Seq(Message) /\ Head(outbox[t]) \in Message
      /\ \A after : MailOK(thread[t].state, after, Tail(outbox[t]))
      /\ thread[t].state \in {"ready", "gone"}
      /\ type = "ready" => starting = t
      /\ type = "error" => thread[t].state = "gone"
      /\ type = "exit" => thread[t].state = "gone"
      /\ thread[t].state = "gone" /\ type # "exit" => Tail(outbox[t]) # <<>>
  <2>1. Head(outbox[t]) \in Message
    BY <1>0
  <2>2. ASSUME NEW after PROVE MailOK(thread[t].state, after, Tail(outbox[t]))
    BY <1>0, MailReceived
  <2>3. /\ Tail(outbox[t]) \in Seq(Message) /\ thread[t].state \in {"ready", "gone"}
        /\ type = "error" => thread[t].state = "gone"
        /\ type = "exit" => thread[t].state = "gone"
        /\ thread[t].state = "gone" /\ type # "exit" => Tail(outbox[t]) # <<>>
    <3> DEFINE awaited == starting = t
               mail == outbox[t]
               state == thread[t].state
    <3>1. MailOK(state, awaited, mail) /\ mail \in Seq(Message) /\ mail # <<>>
          /\ state \in {"unborn", "loading", "ready", "gone"} /\ Head(mail).type = type
      BY <1>0
    <3> HIDE DEF awaited, mail, state
    <3>2. /\ Tail(mail) \in Seq(Message) /\ state \in {"ready", "gone"}
          /\ Head(mail).type = "error" => state = "gone"
          /\ Head(mail).type = "exit" => state = "gone"
          /\ state = "gone" /\ Head(mail).type # "exit" => Tail(mail) # <<>>
      BY <3>1, MailReceived
    <3> QED BY <3>1, <3>2 DEF mail, state
  <2>4. type = "ready" => starting = t
    <3>1. 1 \in DOMAIN outbox[t] /\ Head(outbox[t]) = outbox[t][1]
      BY <1>0
    <3> QED BY <1>0, <3>1 DEF MailOK
  <2> QED BY <2>1, <2>2, <2>3, <2>4
<1>2. /\ outbox' \in [Threads -> Seq(Message)] /\ outbox'[t] = Tail(outbox[t])
      /\ \A u \in Threads : u # t => outbox'[u] = outbox[u]
  BY <1>0, <1>1
<1>3. starting = t => type \in {"ready", "error"}
  BY <1>0, <1>1, NullThread DEF HostInv, StartOK, Starts
<1>4. \A u \in Threads : (u # t \/ type # "exit") /\ ~Reaped(u) => ~Reaped(u)'
  BY <1>1, <1>2 DEF Reaped
<1> QED BY <1>0, <1>1, <1>2, <1>3, <1>4 DEF Up

\* The mail of every thread is in order after the first message of one of them was
\* handled, also when that message ends the start of this thread.
LEMMA MailKept ==
  ASSUME HostInv, NEW t \in Threads, NEW type \in {"ready", "answer", "error", "exit"},
         Receive(t, type), thread' = thread, starting' = starting \/ (starting = t /\ starting' = 0)
  PROVE  \A u \in Threads : MailOK(thread[u].state, starting = u, outbox[u])'
<1>1. ASSUME NEW u \in Threads, u # t PROVE MailOK(thread[u].state, starting = u, outbox[u])'
  <2>1. outbox'[u] = outbox[u] /\ (starting' = u) = (starting = u)
    BY <1>1, ReceiveEffect, NullThread
  <2> QED BY <2>1 DEF HostInv
<1>2. MailOK(thread[t].state, starting = t, outbox[t])'
  BY ReceiveEffect
<1> QED BY <1>1, <1>2

\* A started thread is handed to the call that waits for it, or to dispose().
LEMMA ReadyKeeps ==
  ASSUME HostInv, NEW t \in Threads, OnReady(t)
  PROVE  HostInv'
<1>0. /\ Receive(t, "ready") /\ thread' = thread /\ starting' = 0
      /\ UNCHANGED <<queue, active, aborted, deaths, overtaken>>
  BY DEF OnReady
<1>1. /\ starting = t /\ worker = 0 /\ active \in Calls /\ call[active].at = "ensuring"
      /\ disposal \in {"no", "waiting"} /\ t \notin {0} /\ Up(t) /\ ~Reaped(t)'
      /\ outbox' \in [Threads -> Seq(Message)]
      /\ \A u \in Threads : Up(u)' <=> Up(u)
      /\ \A c \in Calls : c # active => call[c].at \notin InFlight
  <2>1. starting = t /\ Up(t) /\ outbox' \in [Threads -> Seq(Message)] /\ \A u \in Threads : Up(u)' <=> Up(u)
    BY <1>0, ReceiveEffect
  <2>2. outbox[t] # <<>>
    BY <1>0 DEF Receive
  <2>3. ~Reaped(t)'
    BY <1>0, <2>2, ReceiveEffect DEF Reaped
  <2> QED BY <2>1, <2>3, HostFacts, NullThread DEF HostInv, StartOK, DisposalOK, CallOK
<1>2. /\ call' \in [Calls -> CallState] /\ call'[active] = [at |-> "ensured", on |-> t]
      /\ \A c \in Calls : c # active => call'[c].at \notin InFlight
  <2>1. call' = [c \in Calls |-> IF call[c].at = "ensuring" THEN [at |-> "ensured", on |-> t] ELSE call[c]]
    BY DEF OnReady
  <2>2. [at |-> "ensured", on |-> t] \in CallState
    BY NullThread DEF CallState
  <2> QED BY <1>1, <2>1, <2>2, HostFacts DEF InFlight
<1>3. \/ /\ worker' = 0 /\ dying' = dying \cup {t} /\ disposal' = "killing" /\ victim' = t
      \/ /\ disposal = "no" /\ worker' = t /\ UNCHANGED <<dying, disposal, victim>>
  BY <1>1 DEF OnReady
<1>4. TypeOK'
  BY <1>0, <1>1, <1>2, <1>3, HostFacts, NullThread DEF TypeOK, CallState, ThreadState
<1>5. \A u \in Threads : MailOK(thread[u].state, starting = u, outbox[u])'
  BY <1>0, <1>1, MailKept
<1>6. StartOK'
  BY <1>0, <1>1 DEF HostInv, StartOK, Up
<1>7. DisposalOK'
  BY <1>0, <1>1, <1>3 DEF HostInv, DisposalOK
<1>8. \A c \in Calls : CallOK(c)'
  BY <1>0, <1>1, <1>2, <1>3 DEF CallOK, InFlight
<1>9. /\ worker' # 0 => Up(worker)' /\ ~Reaped(worker)'
      /\ \A u \in dying' : Up(u)'
  BY <1>1, <1>3, HostFacts DEF HostInv
<1>10. ~overtaken' => \A u \in Threads : Alive(u)' => u \in {worker', starting'}
  BY <1>0, <1>1, <1>3, NullThread DEF HostInv, Alive
<1> QED BY <1>4, <1>5, <1>6, <1>7, <1>8, <1>9, <1>10 DEF HostInv

\* An answer settles a pending call or nothing.
LEMMA AnswerKeeps ==
  ASSUME HostInv, NEW t \in Threads, OnAnswer(t)
  PROVE  HostInv'
<1> DEFINE S == {Head(outbox[t]).call} \cap Pending
<1>0. /\ Receive(t, "answer") /\ thread' = thread /\ Settle(S)
      /\ UNCHANGED <<worker, starting, disposal, victim, queue, aborted, thread, dying, deaths, overtaken>>
  BY DEF OnAnswer
<1>1. \A c \in S : c \in Calls /\ call[c].at = "pending"
  BY DEF Pending
<1> HIDE DEF S
<1>2. /\ call' \in [Calls -> CallState] /\ active' \in Calls \cup {None}
      /\ \A c \in Calls : IF c \in S THEN call'[c].at = "settled" ELSE call'[c] = call[c]
      /\ active' = IF active \in S THEN None ELSE active
  BY <1>0, SettleEffect, HostFacts
<1>3. /\ starting # t /\ outbox' \in [Threads -> Seq(Message)]
      /\ \A u \in Threads : u # t => outbox'[u] = outbox[u]
      /\ \A u \in Threads : (Up(u)' <=> Up(u)) /\ (~Reaped(u) => ~Reaped(u)')
  BY <1>0, ReceiveEffect
<1>4. TypeOK'
  BY <1>0, <1>2, <1>3, HostFacts DEF TypeOK, CallState, ThreadState
<1>5. \A u \in Threads : MailOK(thread[u].state, starting = u, outbox[u])'
  BY <1>0, MailKept
<1>6. StartOK'
  BY <1>0, <1>1, <1>2, <1>3, HostFacts, NullThread DEF HostInv, StartOK, Starts
<1>7. DisposalOK'
  BY <1>0, <1>3, HostFacts, NullThread DEF HostInv, DisposalOK
<1>8. \A c \in Calls : CallOK(c)'
  BY <1>0, <1>2 DEF HostInv, CallOK, InFlight
<1>9. /\ worker' # 0 => Up(worker)' /\ ~Reaped(worker)'
      /\ \A u \in dying' : Up(u)'
      /\ ~overtaken' => \A u \in Threads : Alive(u)' => u \in {worker', starting'}
  BY <1>0, <1>3, HostFacts, NullThread DEF HostInv, Alive
<1> QED BY <1>4, <1>5, <1>6, <1>7, <1>8, <1>9 DEF HostInv

\* An error fails every pending call, and the start if it is of that thread; a
\* dispose() that waits for the start is done.
LEMMA ErrorKeeps ==
  ASSUME HostInv, NEW t \in Threads, OnError(t)
  PROVE  HostInv'
<1> DEFINE S == IF starting = t THEN Pending \cup {c \in Calls : call[c].at = "ensuring"} ELSE Pending
<1>0. /\ Receive(t, "error") /\ thread' = thread /\ Settle(S)
      /\ UNCHANGED <<worker, victim, queue, aborted, dying, deaths, overtaken>>
      /\ starting' = IF starting = t THEN 0 ELSE starting
      /\ disposal' = IF starting = t /\ disposal = "waiting" THEN "done" ELSE disposal
  BY DEF OnError, DisposalAfterFailedStart
<1>1. /\ \A c \in Calls : c \in S <=> call[c].at = "pending" \/ (starting = t /\ call[c].at = "ensuring")
      /\ \A c \in S : c \in Calls
  BY DEF Pending
<1> HIDE DEF S
<1>2. /\ call' \in [Calls -> CallState] /\ active' \in Calls \cup {None}
      /\ \A c \in Calls : IF c \in S THEN call'[c].at = "settled" ELSE call'[c] = call[c]
      /\ active' = IF active \in S THEN None ELSE active
  BY <1>0, SettleEffect, HostFacts
<1>3. /\ thread[t].state = "gone" /\ outbox' \in [Threads -> Seq(Message)] /\ Quiet
      /\ \A u \in Threads : u # t => outbox'[u] = outbox[u]
      /\ \A u \in Threads : (Up(u)' <=> Up(u)) /\ (~Reaped(u) => ~Reaped(u)')
  BY <1>0, ReceiveEffect
<1>4. TypeOK'
  BY <1>0, <1>2, <1>3, HostFacts, NullThread DEF TypeOK, CallState, ThreadState
<1>5. \A u \in Threads : MailOK(thread[u].state, starting = u, outbox[u])'
  BY <1>0, MailKept
<1>6. StartOK'
  <2>1. CASE starting = t
    BY <1>0, <1>3, <2>1 DEF HostInv, StartOK
  <2>2. CASE starting # t
    BY <1>0, <1>1, <1>2, <1>3, <2>2, HostFacts, NullThread DEF HostInv, StartOK, Starts
  <2> QED BY <2>1, <2>2
<1>7. DisposalOK'
  BY <1>0, <1>3, HostFacts, NullThread DEF HostInv, DisposalOK, StartOK
<1>8. \A c \in Calls : CallOK(c)'
  BY <1>0, <1>1, <1>2, <1>3, HostFacts DEF HostInv, CallOK, InFlight
<1>9. /\ worker' # 0 => Up(worker)' /\ ~Reaped(worker)'
      /\ \A u \in dying' : Up(u)'
      /\ ~overtaken' => \A u \in Threads : Alive(u)' => u \in {worker', starting'}
  BY <1>0, <1>3, HostFacts, NullThread DEF HostInv, Alive
<1> QED BY <1>4, <1>5, <1>6, <1>7, <1>8, <1>9 DEF HostInv

\* An exit fails every pending call and forgets #worker, whichever thread it is of.
LEMMA ExitKeeps ==
  ASSUME HostInv, NEW t \in Threads, OnExit(t)
  PROVE  HostInv'
<1>0. /\ Receive(t, "exit") /\ thread' = thread /\ Settle(Pending) /\ worker' = 0
      /\ UNCHANGED <<starting, victim, queue, aborted, dying, deaths>>
      /\ disposal' = IF disposal = "killing" /\ t = victim THEN "done" ELSE disposal
      /\ overtaken' = (overtaken \/ worker \notin {0, t})
  BY DEF OnExit, WorkerAfterExit
<1>1. \A c \in Calls : c \in Pending <=> call[c].at = "pending"
  BY DEF Pending
<1>2. /\ call' \in [Calls -> CallState] /\ active' \in Calls \cup {None}
      /\ \A c \in Calls : IF c \in Pending THEN call'[c].at = "settled" ELSE call'[c] = call[c]
      /\ active' = IF active \in Pending THEN None ELSE active
  BY <1>0, SettleEffect, HostFacts
<1>3. /\ thread[t].state = "gone" /\ outbox' \in [Threads -> Seq(Message)] /\ starting # t /\ Quiet
      /\ \A u \in Threads : u # t => outbox'[u] = outbox[u]
      /\ \A u \in Threads : (Up(u)' <=> Up(u)) /\ (u # t /\ ~Reaped(u) => ~Reaped(u)')
  BY <1>0, ReceiveEffect
<1>4. TypeOK'
  BY <1>0, <1>2, <1>3, HostFacts, NullThread DEF TypeOK, CallState, ThreadState
<1>5. \A u \in Threads : MailOK(thread[u].state, starting = u, outbox[u])'
  BY <1>0, MailKept
<1>6. StartOK'
  BY <1>0, <1>1, <1>2, <1>3, HostFacts, NullThread DEF HostInv, StartOK, Starts
<1>7. DisposalOK'
  BY <1>0, <1>3, HostFacts, NullThread DEF HostInv, DisposalOK
<1>8. \A c \in Calls : CallOK(c)'
  BY <1>0, <1>1, <1>2, <1>3, HostFacts DEF HostInv, CallOK, InFlight
<1>9. /\ \A u \in dying' : Up(u)'
      /\ ~overtaken' => \A u \in Threads : Alive(u)' => u \in {worker', starting'}
  BY <1>0, <1>3, HostFacts, NullThread DEF HostInv, Alive
<1> QED BY <1>0, <1>4, <1>5, <1>6, <1>7, <1>8, <1>9 DEF HostInv

-----------------------------------------------------------------------------
(* The invariant is inductive, and the theorems *)

LEMMA HostInvInductive == HostInv /\ [Next]_vars => HostInv'
<1> SUFFICES ASSUME HostInv, [Next]_vars PROVE HostInv'
  OBVIOUS
<1>1. CASE UNCHANGED vars
  BY <1>1, ThreadsKept DEF vars, HostInv, TypeOK, StartOK, DisposalOK, CallOK, Up, Reaped, Alive
<1>2. CASE Next
  BY <1>2, BeginKeeps, PostKeeps, TimeOutKeeps, DisposeKeeps, InvokeKeeps, AbortKeeps, ReadyKeeps,
     AnswerKeeps, ErrorKeeps, ExitKeeps, ThreadStepKeeps DEF Next, Deliver
<1> QED BY <1>1, <1>2

LEMMA InitHost == Init => HostInv
<1> SUFFICES ASSUME Init PROVE HostInv
  OBVIOUS
<1>1. TypeOK
  BY HostAssumption, NullThread, EmptySeq DEF Init, TypeOK
<1>2. \A t \in Threads : MailOK(thread[t].state, starting = t, outbox[t])
  BY NullThread DEF Init, MailOK
<1>3. \A t \in Threads : ~Alive(t)
  BY DEF Init, Alive
<1> QED BY <1>1, <1>2, <1>3 DEF Init, HostInv, StartOK, DisposalOK, CallOK, InFlight

LEMMA HostInvHolds == Spec => []HostInv
  BY InitHost, HostInvInductive, PTL DEF Spec

\* Every variable of the host keeps its type.
THEOREM HostTypesCorrect == Spec => []TypeOK
<1>1. HostInv => TypeOK
  BY DEF HostInv
<1> QED BY <1>1, HostInvHolds, PTL

\* No call is on, or will be posted to, a thread whose last event was handled: the
\* thread of a call in flight is #worker or the one dispose() waits for, and the
\* host forgets either when it handles its exit.
THEOREM NoCallWaitsForTheDead == Spec => []NobodyWaitsForTheDead
<1>1. HostInv => NobodyWaitsForTheDead
  <2> SUFFICES ASSUME HostInv PROVE NobodyWaitsForTheDead
    OBVIOUS
  <2>1. worker # 0 => ~Reaped(worker)
    BY DEF HostInv
  <2>2. starting # 0 => ~Reaped(starting)
    BY HostFacts DEF HostInv, StartOK, Starts, Reaped
  <2>3. \A c \in Calls : call[c].at \in {"ensured", "pending"} => ~Reaped(call[c].on)
    BY DEF HostInv, CallOK, DisposalOK
  <2> QED BY <2>1, <2>2, <2>3 DEF NobodyWaitsForTheDead
<1> QED BY <1>1, HostInvHolds, PTL

\* When dispose() has returned, no thread is referenced or being started and no
\* call is under way, nor will be, however dispose() met a start in flight.
THEOREM DisposedForGood == Spec => []DisposeIsFinal
<1>1. HostInv => DisposeIsFinal
  <2> SUFFICES ASSUME HostInv, disposal = "done"
               PROVE  /\ worker = 0 /\ starting = 0
                      /\ \A c \in Calls : call[c].at \in {"idle", "queued", "settled"}
    BY DEF DisposeIsFinal
  <2>1. worker = 0 /\ starting = 0
    BY DEF HostInv, DisposalOK
  <2> QED BY <2>1, HostFacts DEF HostInv, CallOK, CallState
<1> QED BY <1>1, HostInvHolds, PTL

\* One live thread at a time, as long as every exit event was handled before the
\* successor of the thread was in place: a live thread is #worker or the one that
\* is starting, and never are there both.
THEOREM AtMostOneLiveThread == Spec => []OneLiveThread
<1>1. HostInv => OneLiveThread
  <2> DEFINE only == IF starting # 0 THEN starting ELSE worker
             live == {t \in Threads : Alive(t)}
  <2> SUFFICES ASSUME HostInv, ~overtaken PROVE Cardinality(live) <= 1
    BY DEF OneLiveThread
  <2>1. live \subseteq {only}
    BY NullThread DEF HostInv, StartOK
  <2> HIDE DEF only, live
  <2>2. IsFiniteSet({only}) /\ Cardinality({only}) = 1
    BY FS_Singleton
  <2> QED BY <2>1, <2>2, FS_Subset
<1> QED BY <1>1, HostInvHolds, PTL

=============================================================================
