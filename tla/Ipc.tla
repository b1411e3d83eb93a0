-------------------------------- MODULE Ipc --------------------------------
(***************************************************************************)
(* Endpoint IPC of the kernel: one mailbox, one blocked receiver and one   *)
(* blocked sender per endpoint (kernel/ipc.c, kernel/endpoint.c), the      *)
(* thread wait protocol it rests on (kernel/thread.c), and the task paths  *)
(* that close endpoints and stop threads (kernel/task.c).                  *)
(*                                                                         *)
(* The kernel runs on one CPU and serialises kernel objects by masking     *)
(* interrupts, so a kernel call is atomic up to the point where it parks   *)
(* in scheduler_wait_current().  A blocking call is therefore two kinds of *)
(* step: the call up to its park, and one pass of its wait loop each time  *)
(* the thread runs again.  The order in which READY threads are selected   *)
(* is left open here (any READY thread may be next); module Scheduler      *)
(* models the run ring that decides it.                                    *)
(***************************************************************************)
EXTENDS Integers, Sequences, FiniteSets

CONSTANTS
    Threads, Endpoints, Messages, Processes,
    ProcessOf,          \* the process each thread belongs to
    Kernel,             \* the kernel process
    None,               \* a null pointer
    WaitIdLimit,        \* wait identities are 1 .. WaitIdLimit, then exhausted
    EndpointIdLimit,    \* endpoint identities are 1 .. EndpointIdLimit
    HalfRange           \* timer arithmetic is modulo 2 * HalfRange

ASSUME IpcAssumption ==
    /\ ProcessOf \in [Threads -> Processes]
    /\ Kernel \in Processes
    /\ None \notin Threads \cup Endpoints \cup Messages \cup Processes
    /\ WaitIdLimit \in Nat \ {0} /\ EndpointIdLimit \in Nat \ {0}
    /\ HalfRange \in Nat \ {0, 1}

\* The endpoints are a pool of fixed size.
ASSUME EndpointsFinite == IsFiniteSet(Endpoints)

VARIABLES
    state, current, halting,                 \* scheduling state of the threads
    wait, frame, g_next_wait_id,             \* Thread.wait_*, suspended call
    endpoint_id, owner, closed, g_next_endpoint_id,
    message, staged,                         \* mailbox, waiting_sender_message
    waiting_receiver, waiting_sender,        \* reverse links of an endpoint
    caps,                                    \* who holds a capability to what
    timed, ticks,                            \* g_timed_waits, g_ticks
    exit_info,                               \* Process.exit_info.reason
    halted,                                  \* cpu_halt_forever() was reached
    \* history: what each send call returned, and, by endpoint identity, the
    \* messages the mailbox accepted and the messages receivers took from it
    outcome, accepted, received

schedVars == <<state, current, halting>>
waitVars == <<wait, frame, g_next_wait_id>>
objectVars == <<endpoint_id, owner, closed, g_next_endpoint_id, caps>>
boxVars == <<message, staged, waiting_receiver, waiting_sender>>
history == <<outcome, accepted, received>>
vars == <<schedVars, waitVars, objectVars, boxVars, timed, ticks, exit_info,
          halted, history>>

Receive == "IPC_RECEIVE"
Send == "IPC_SEND"
Terminal == {"COMPLETED", "CANCELLED", "PEER_CLOSED", "TIMED_OUT"}

NoWait == [kind |-> "NONE", object |-> None, id |-> 0, result |-> "NONE"]
NoLink == [thread |-> None, id |-> 0]
\* The C frame of a blocking call: its locals survive while the thread is parked.
NoFrame == [kind |-> "NONE", endpoint |-> None, id |-> 0, timed |-> FALSE, message |-> None]
NoSlot == [endpoint |-> None, endpoint_id |-> 0, kind |-> "NONE", id |-> 0, deadline |-> 0]

Modulus == 2 * HalfRange
\* Defect: the table has room for one wait per endpoint.
TimedWaitCapacityPerEndpoint == Cardinality(Endpoints)
TimedWaitCapacity == 2 * Cardinality(Endpoints)
TimeoutMaxTicks == HalfRange - 1

Wait == [kind : {"NONE", Receive, Send}, object : Endpoints \cup {None},
         id : 0 .. WaitIdLimit, result : Terminal \cup {"NONE", "PENDING"}]
Link == [thread : Threads \cup {None}, id : 0 .. WaitIdLimit]
Frame == [kind : {"NONE", Receive, Send}, endpoint : Endpoints \cup {None},
          id : 0 .. WaitIdLimit, timed : BOOLEAN, message : Messages \cup {None}]
Slot == [endpoint : Endpoints \cup {None}, endpoint_id : 0 .. EndpointIdLimit,
         kind : {"NONE", Receive, Send}, id : 0 .. WaitIdLimit, deadline : 0 .. Modulus - 1]

-----------------------------------------------------------------------------
(* State predicates *)

Live(e) == endpoint_id[e] # 0
Ready == {t \in Threads : state[t] = "READY"}
Holds(p, e) == <<p, e>> \in caps

\* A thread that runs with its wait loop unfinished has interrupts masked,
\* unless it sits in the STI;HLT of the last-runnable-thread wait.
Masked == current # None /\ frame[current] # NoFrame /\ ~halting

\* The running thread is outside any wait and may enter the kernel.
Calling(c) == ~halted /\ c = current /\ c # None /\ frame[c] = NoFrame

LinkOf(e, kind) == IF kind = Receive THEN waiting_receiver[e] ELSE waiting_sender[e]

WaitMatches(t, kind, e, id) ==
    /\ id # 0
    /\ wait[t].kind = kind /\ wait[t].object = e /\ wait[t].id = id

ReservationValid(e, kind) ==
    LET l == LinkOf(e, kind)
    IN  IF l.thread = None THEN l.id = 0
        ELSE /\ WaitMatches(l.thread, kind, e, l.id)
             /\ wait[l.thread].result \in Terminal \cup {"PENDING"}
             /\ \/ l.thread = current /\ state[l.thread] = "RUNNING"
                \/ state[l.thread] \in {"BLOCKED", "READY"}

Pending(t) == wait[t].result = "PENDING"

\* What both receive and close demand of the staged send.
StagingConsistent(e) ==
    LET s == waiting_sender[e].thread
    IN  staged[e] # None <=> (s # None /\ Pending(s))

\* Defect: a full mailbox is written over.
CanSendOverwriting(e) ==
    Live(e) /\ ~closed[e] /\ ReservationValid(e, Receive)

CanSend(e) ==
    /\ Live(e) /\ ~closed[e] /\ message[e] = None
    /\ ReservationValid(e, Receive)
    /\ waiting_receiver[e].thread # None => Pending(waiting_receiver[e].thread)

CanReceive(e, c) ==
    /\ Live(e) /\ ~closed[e]
    /\ ReservationValid(e, Receive) /\ ReservationValid(e, Send)
    /\ waiting_receiver[e].thread # None =>
          waiting_receiver[e].thread = c /\ Pending(c)
    /\ message[e] # None
    /\ StagingConsistent(e)

CanClose(e) ==
    /\ Live(e) /\ ~closed[e]
    /\ ReservationValid(e, Receive) /\ ReservationValid(e, Send)
    /\ StagingConsistent(e)

-----------------------------------------------------------------------------
(* Effects *)

\* Defect: nobody is woken.
MadeReadyNobody(S) == state

\* ipc_make_ready: a BLOCKED thread is queued, a READY or running one is not
\* queued a second time.
MadeReady(S) ==
    [t \in Threads |-> IF t \in S /\ state[t] = "BLOCKED" THEN "READY" ELSE state[t]]

\* Defect: a decided wait is decided again.
CompletedAgain(S, result) ==
    [t \in Threads |-> IF t \in S THEN [wait[t] EXCEPT !.result = result] ELSE wait[t]]

\* thread_wait_try_complete for every thread of S still PENDING.
Completed(S, result) ==
    [t \in Threads |-> IF t \in S /\ Pending(t) THEN [wait[t] EXCEPT !.result = result]
                       ELSE wait[t]]

Halt == halted' = TRUE /\ UNCHANGED <<schedVars, waitVars, objectVars, boxVars, timed,
                                      ticks, exit_info, history>>

NextId(id, limit) == IF id = limit THEN 0 ELSE id + 1

\* thread_activate: thread next runs, thread prev leaves the CPU in state left.
Switched(st, prev, left, next) ==
    [t \in Threads |-> IF t = next THEN "RUNNING" ELSE IF t = prev THEN left ELSE st[t]]

\* The running thread leaves the CPU in the given state; the idle context runs
\* when no thread is READY.
SwitchAway(st, left) ==
    /\ halting' = FALSE
    /\ LET ready == {t \in Threads : st[t] = "READY"}
       IN  \/ \E n \in ready : /\ current' = n
                              /\ state' = Switched(st, current, left, n)
          \/ /\ ready = {} /\ current' = None
             /\ state' = Switched(st, current, left, None)

\* scheduler_wait_current: block, or halt the CPU when nobody else is READY.
Park ==
    \/ Ready # {} /\ SwitchAway(state, "BLOCKED")
    \/ Ready = {} /\ halting' = TRUE /\ UNCHANGED <<state, current>>

-----------------------------------------------------------------------------
(* Endpoint objects and capabilities: kernel code run by the current thread *)

EndpointCreate(e, p) ==
    /\ Calling(current) /\ ~Live(e) /\ g_next_endpoint_id # 0
    /\ endpoint_id' = [endpoint_id EXCEPT ![e] = g_next_endpoint_id]
    /\ g_next_endpoint_id' = NextId(g_next_endpoint_id, EndpointIdLimit)
    /\ owner' = [owner EXCEPT ![e] = p]
    /\ closed' = [closed EXCEPT ![e] = FALSE]
    /\ UNCHANGED <<schedVars, waitVars, boxVars, caps, timed, ticks, exit_info, halted, history>>

\* Defect: registered waiters do not keep the endpoint.
DestroyableWithoutCaps(e) ==
    Live(e) /\ (\A p \in Processes : ~Holds(p, e)) /\ message[e] = None /\ staged[e] = None

Destroyable(e) ==
    /\ Live(e) /\ \A p \in Processes : ~Holds(p, e)
    /\ message[e] = None /\ staged[e] = None
    /\ waiting_receiver[e] = NoLink /\ waiting_sender[e] = NoLink

EndpointDestroy(e) ==
    /\ Calling(current) /\ Destroyable(e)
    /\ endpoint_id' = [endpoint_id EXCEPT ![e] = 0]
    /\ owner' = [owner EXCEPT ![e] = None]
    /\ closed' = [closed EXCEPT ![e] = FALSE]
    /\ UNCHANGED <<schedVars, waitVars, boxVars, g_next_endpoint_id, caps, timed, ticks,
                   exit_info, halted, history>>

CapabilityInsert(p, e) ==
    /\ Calling(current) /\ Live(e) /\ ~closed[e] /\ ~Holds(p, e)
    /\ caps' = caps \cup {<<p, e>>}
    /\ UNCHANGED <<schedVars, waitVars, endpoint_id, owner, closed, g_next_endpoint_id,
                   boxVars, timed, ticks, exit_info, halted, history>>

CapabilityRevoke(p, e) ==
    /\ Calling(current) /\ Holds(p, e)
    /\ caps' = caps \ {<<p, e>>}
    /\ UNCHANGED <<schedVars, waitVars, endpoint_id, owner, closed, g_next_endpoint_id,
                   boxVars, timed, ticks, exit_info, halted, history>>

-----------------------------------------------------------------------------
(* Nonblocking transfer, and the immediate path of the blocking calls *)

\* ipc_send_locked: a receiver's wake is only a hint, its wait stays PENDING.
Deliver(e, m) ==
    /\ message' = [message EXCEPT ![e] = m]
    /\ state' = MadeReady({waiting_receiver[e].thread})
    /\ accepted' = [accepted EXCEPT ![endpoint_id[e]] = Append(@, m)]
    /\ outcome' = [outcome EXCEPT ![m] = "ok"]
    /\ UNCHANGED <<staged, waiting_receiver, waiting_sender, received>>

TrySend(e, m) ==
    /\ Calling(current) /\ Holds(ProcessOf[current], e)
    /\ outcome[m] = "unsent" /\ CanSend(e)
    /\ Deliver(e, m)
    /\ UNCHANGED <<current, halting, waitVars, objectVars, timed, ticks, exit_info, halted>>

\* An interrupt handler that publishes an event with ipc_try_send as the kernel
\* process; it also ends the HLT of a waiting thread.
InterruptSend(e, m) ==
    /\ ~halted /\ ~Masked /\ Holds(Kernel, e)
    /\ outcome[m] = "unsent" /\ CanSend(e)
    /\ Deliver(e, m) /\ halting' = FALSE
    /\ UNCHANGED <<current, waitVars, objectVars, timed, ticks, exit_info, halted>>

\* ipc_receive_locked: take the mailbox, promote a staged message and commit its
\* sender.  self is the wait left behind by the receiving thread c.
Take(e, c, self) ==
    LET s == waiting_sender[e].thread
        promoted == IF staged[e] = None THEN {} ELSE {s}
    IN  /\ received' = [received EXCEPT ![endpoint_id[e]] = Append(@, message[e])]
        /\ message' = [message EXCEPT ![e] = staged[e]]
        /\ accepted' = IF staged[e] = None THEN accepted
                       ELSE [accepted EXCEPT ![endpoint_id[e]] = Append(@, staged[e])]
        /\ staged' = [staged EXCEPT ![e] = None]
        /\ wait' = [Completed(promoted, "COMPLETED") EXCEPT ![c] = self]
        /\ state' = MadeReady(promoted)

TryReceive(e) ==
    /\ Calling(current) /\ Holds(ProcessOf[current], e)
    /\ CanReceive(e, current)
    /\ Take(e, current, NoWait)
    /\ UNCHANGED <<current, halting, frame, g_next_wait_id, objectVars, waiting_receiver,
                   waiting_sender, timed, ticks, exit_info, halted, outcome>>

-----------------------------------------------------------------------------
(* Blocking calls, up to the park *)

\* thread_wait_begin, link publication, optional timeout registration, park.
\* n is the timeout in ticks, 0 for a call without one.
BeginWait(e, kind, m, n) ==
    LET c == current
        isTimed == n # 0
        id == g_next_wait_id
        free == Cardinality({t \in Threads : timed[t] # NoSlot}) < TimedWaitCapacity
        link == [thread |-> c, id |-> id]
    IN  /\ Calling(c) /\ Holds(ProcessOf[c], e) /\ ~closed[e]
        /\ LinkOf(e, kind) = NoLink /\ id # 0
        /\ g_next_wait_id' = NextId(id, WaitIdLimit)
        /\ \/ /\ isTimed => free
              /\ wait' = [wait EXCEPT ![c] = [kind |-> kind, object |-> e, id |-> id,
                                              result |-> "PENDING"]]
              /\ frame' = [frame EXCEPT ![c] = [kind |-> kind, endpoint |-> e, id |-> id,
                                                timed |-> isTimed, message |-> m]]
              /\ timed' = IF ~isTimed THEN timed
                          ELSE [timed EXCEPT ![c] =
                                  [endpoint |-> e, endpoint_id |-> endpoint_id[e], kind |-> kind,
                                   id |-> id, deadline |-> (ticks + n) % Modulus]]
              /\ waiting_receiver' = IF kind = Receive
                                     THEN [waiting_receiver EXCEPT ![e] = link]
                                     ELSE waiting_receiver
              /\ waiting_sender' = IF kind = Send THEN [waiting_sender EXCEPT ![e] = link]
                                   ELSE waiting_sender
              /\ staged' = IF kind = Send THEN [staged EXCEPT ![e] = m] ELSE staged
              /\ outcome' = IF kind = Send THEN [outcome EXCEPT ![m] = "calling"] ELSE outcome
              /\ Park
           \* the timeout table is full, or the scheduler refuses to park: the
           \* reservation is cancelled and ended, only its identity is spent
           \/ UNCHANGED <<schedVars, wait, frame, timed, waiting_receiver, waiting_sender,
                          staged, outcome>>
        /\ UNCHANGED <<objectVars, message, ticks, exit_info, halted, accepted, received>>

ReceiveBlocking(e, n) ==
    /\ message[e] = None
    /\ BeginWait(e, Receive, None, n)

SendBlocking(e, m, n) ==
    /\ message[e] # None /\ staged[e] = None /\ outcome[m] = "unsent"
    /\ BeginWait(e, Send, m, n)

-----------------------------------------------------------------------------
(* One pass of the wait loop after the thread runs again *)

\* ipc_timeout_unregister finds the registration of this very wait.
Registered(c) ==
    /\ timed[c].endpoint = frame[c].endpoint
    /\ timed[c].kind = frame[c].kind /\ timed[c].id = frame[c].id

\* Everything the loop and ipc_end_reservation check with cpu_halt_forever.
LoopIntact(c) ==
    LET f == frame[c]
    IN  /\ WaitMatches(c, f.kind, f.endpoint, f.id)
        /\ ReservationValid(f.endpoint, f.kind)
        /\ f.timed => Registered(c)
        /\ f.kind = Send => /\ Pending(c) => staged[f.endpoint] # None
                            /\ wait[c].result = "COMPLETED" => staged[f.endpoint] = None

\* ipc_end_reservation, apart from the thread's own wait fields.
EndReservation(c) ==
    LET e == frame[c].endpoint
    IN  /\ frame' = [frame EXCEPT ![c] = NoFrame]
        /\ timed' = [timed EXCEPT ![c] = NoSlot]
        /\ IF frame[c].kind = Receive
           THEN /\ waiting_receiver' = [waiting_receiver EXCEPT ![e] = NoLink]
                /\ UNCHANGED waiting_sender
           ELSE /\ waiting_sender' = [waiting_sender EXCEPT ![e] = NoLink]
                /\ UNCHANGED waiting_receiver

\* The call returns without having moved a message itself.
ReturnFrom(c) ==
    /\ EndReservation(c)
    /\ wait' = [wait EXCEPT ![c] = NoWait]
    /\ staged' = IF frame[c].kind = Send
                 THEN [staged EXCEPT ![frame[c].endpoint] = None] ELSE staged
    /\ outcome' = IF frame[c].kind = Send
                  THEN [outcome EXCEPT ![frame[c].message] =
                          IF wait[c].result = "COMPLETED" THEN "ok" ELSE "failed"]
                  ELSE outcome
    /\ UNCHANGED <<schedVars, message, accepted, received>>

\* Another event won, or the park is refused and the wait is cancelled.
ResumeReturn(c) ==
    /\ Pending(c) => \/ frame[c].kind = Send
                     \/ message[frame[c].endpoint] = None
                     \/ ~CanReceive(frame[c].endpoint, c)
    /\ ReturnFrom(c)

ResumeTake(c) ==
    LET e == frame[c].endpoint
    IN  /\ frame[c].kind = Receive /\ Pending(c) /\ CanReceive(e, c)
        /\ Take(e, c, NoWait)
        /\ EndReservation(c)
        /\ UNCHANGED <<current, halting, outcome>>

ResumePark(c) ==
    /\ Pending(c)
    /\ frame[c].kind = Receive => message[frame[c].endpoint] = None
    /\ Park
    /\ UNCHANGED <<wait, frame, timed, boxVars, history>>

Resume ==
    /\ ~halted /\ Masked
    /\ \/ ~LoopIntact(current) /\ Halt
       \/ /\ LoopIntact(current)
          /\ ResumeReturn(current) \/ ResumeTake(current) \/ ResumePark(current)
          /\ UNCHANGED <<g_next_wait_id, objectVars, ticks, exit_info, halted>>

-----------------------------------------------------------------------------
(* The timer interrupt: ipc_timeout_poll, then scheduler_preempt *)

\* Defect: the comparison ignores that the counter wraps, or is off by one.
DeadlineReachedUnsigned(now, deadline) == now >= deadline
DeadlinePassed(now, deadline) == now > deadline

\* (s64)(now - deadline) >= 0
DeadlineReached(now, deadline) == (now - deadline) % Modulus < HalfRange

SlotIntact(t) ==
    LET s == timed[t]
    IN  /\ endpoint_id[s.endpoint] = s.endpoint_id /\ s.endpoint_id # 0
        /\ WaitMatches(t, s.kind, s.endpoint, s.id)
        /\ ReservationValid(s.endpoint, s.kind)

\* Defect: the poll also expires waits that are decided.
ExpiredThoughDecided(now) ==
    {t \in Threads : timed[t] # NoSlot /\ DeadlineReached(now, timed[t].deadline)}

Expired(now) ==
    {t \in Threads : timed[t] # NoSlot /\ Pending(t) /\ DeadlineReached(now, timed[t].deadline)}

TimerInterrupt ==
    LET now == (ticks + 1) % Modulus
        expired == Expired(now)
        st == MadeReady(expired)
        intact == /\ \A t \in Threads : timed[t] # NoSlot => SlotIntact(t)
                  /\ \A t \in expired : timed[t].kind = Send => staged[timed[t].endpoint] # None
    IN  /\ ~halted /\ ~Masked
        /\ \/ ~intact /\ Halt
           \/ /\ intact
              /\ ticks' = now
              /\ wait' = Completed(expired, "TIMED_OUT")
              /\ staged' = [e \in Endpoints |->
                              IF \E t \in expired : timed[t].kind = Send /\ timed[t].endpoint = e
                              THEN None ELSE staged[e]]
              /\ \/ \E t \in Threads : st[t] = "READY" /\ SwitchAway(st, "READY")
                 \/ /\ \A t \in Threads : st[t] # "READY"
                    /\ state' = st /\ halting' = FALSE /\ UNCHANGED current
              /\ UNCHANGED <<frame, g_next_wait_id, objectVars, message, waiting_receiver,
                             waiting_sender, timed, exit_info, halted, history>>

-----------------------------------------------------------------------------
(* Closing endpoints and stopping threads *)

Waiters(E) == {t \in Threads : \E e \in E : \/ waiting_receiver[e].thread = t
                                            \/ waiting_sender[e].thread = t}

\* scheduler_can_terminate_thread, then ipc_abort_thread_wait when it waits.
CanStop(t) ==
    /\ t # current /\ state[t] \in {"READY", "BLOCKED"}
    /\ wait[t] # NoWait => /\ wait[t].kind \in {Receive, Send} /\ Live(wait[t].object)
                           /\ ReservationValid(wait[t].object, wait[t].kind)
                           /\ LinkOf(wait[t].object, wait[t].kind).thread = t

\* ipc_endpoint_close on every endpoint of E and task_terminate_thread on every
\* thread of T.  The two commute: an aborted waiter is gone whether or not the
\* close reached it first.  Stopped is the thread state that results.
Stopped(E, T) == [t \in Threads |-> IF t \in T THEN "DEAD" ELSE MadeReady(Waiters(E))[t]]

CloseAndStop(E, T) ==
    /\ closed' = [e \in Endpoints |-> closed[e] \/ e \in E]
    /\ message' = [e \in Endpoints |-> IF e \in E THEN None ELSE message[e]]
    /\ staged' = [e \in Endpoints |-> IF e \in E \/ waiting_sender[e].thread \in T
                                      THEN None ELSE staged[e]]
    /\ waiting_receiver' = [e \in Endpoints |-> IF waiting_receiver[e].thread \in T
                                                THEN NoLink ELSE waiting_receiver[e]]
    /\ waiting_sender' = [e \in Endpoints |-> IF waiting_sender[e].thread \in T
                                              THEN NoLink ELSE waiting_sender[e]]
    /\ wait' = [t \in Threads |-> IF t \in T THEN NoWait
                                  ELSE Completed(Waiters(E), "PEER_CLOSED")[t]]
    /\ frame' = [t \in Threads |-> IF t \in T THEN NoFrame ELSE frame[t]]
    /\ timed' = [t \in Threads |-> IF t \in T THEN NoSlot ELSE timed[t]]
    /\ outcome' = [m \in Messages |-> IF \E t \in T : frame[t].message = m THEN "aborted"
                                      ELSE outcome[m]]

EndpointClose(e) ==
    /\ Calling(current) /\ CanClose(e)
    /\ CloseAndStop({e}, {})
    /\ state' = Stopped({e}, {})
    /\ UNCHANGED <<current, halting, g_next_wait_id, endpoint_id, owner, g_next_endpoint_id,
                   caps, ticks, exit_info, halted, accepted, received>>

TerminateThread(t) ==
    /\ Calling(current) /\ CanStop(t)
    /\ CloseAndStop({}, {t})
    /\ state' = Stopped({}, {t})
    /\ UNCHANGED <<current, halting, g_next_wait_id, endpoint_id, owner, g_next_endpoint_id,
                   caps, ticks, exit_info, halted, accepted, received>>

\* Defect: blocked threads of the process are passed over.
ReadyThreads(p) == {t \in Threads : ProcessOf[t] = p /\ state[t] \in {"READY", "RUNNING"}}
LiveThreads(p) == {t \in Threads : ProcessOf[t] = p /\ state[t] # "DEAD"}
OpenOwned(p) == {e \in Endpoints : Live(e) /\ owner[e] = p /\ ~closed[e]}

\* The terminal step of the running user thread: its siblings in T are stopped,
\* the endpoints in E are closed, the reason is published unless it is NONE, and
\* the thread never runs again.  Every refusal on the way halts the machine.
Leave(c, E, T, reason) ==
    LET p == ProcessOf[c]
        sound == /\ exit_info[p] = "NONE"
                 /\ \A e \in E : CanClose(e)
                 /\ \A t \in T : CanStop(t)
                 /\ reason # "NONE" =>
                      \A t \in Threads : ProcessOf[t] = p => t \in T \/ wait[t] = NoWait
    IN  /\ Calling(c) /\ p # Kernel
        /\ \/ ~sound /\ Halt
           \/ /\ sound
              /\ CloseAndStop(E, T)
              /\ exit_info' = [exit_info EXCEPT ![p] = reason]
              /\ SwitchAway(Stopped(E, T), "DEAD")
              /\ UNCHANGED <<g_next_wait_id, endpoint_id, owner, g_next_endpoint_id, caps,
                             ticks, halted, accepted, received>>

\* task_exit_current_from_interrupt: only the last live thread ends the process.
UserExit ==
    LET p == ProcessOf[current]
    IN  /\ Calling(current)
        /\ IF LiveThreads(p) = {current} THEN Leave(current, OpenOwned(p), {}, "NORMAL")
           ELSE Leave(current, {}, {}, "NONE")

\* task_fault_current_from_interrupt: a fault takes the siblings down as well.
UserFault ==
    LET p == ProcessOf[current]
    IN  /\ Calling(current)
        /\ Leave(current, OpenOwned(p), LiveThreads(p) \ {current}, "FAULT")

\* scheduler_exit_current, called by a kernel thread.
KernelThreadExit ==
    /\ Calling(current) /\ ProcessOf[current] = Kernel
    /\ SwitchAway(state, "DEAD")
    /\ UNCHANGED <<waitVars, objectVars, boxVars, timed, ticks, exit_info, halted, history>>

\* task_quiesce_process: authority goes last, and only if every reap succeeded.
QuiesceProcess(p) ==
    LET E == OpenOwned(p)
        T == LiveThreads(p)
    IN  /\ Calling(current) /\ p # Kernel /\ ProcessOf[current] # p
        /\ \A e \in E : CanClose(e)
        /\ \A t \in T : CanStop(t)
        /\ CloseAndStop(E, T)
        /\ state' = Stopped(E, T)
        /\ exit_info' = IF exit_info[p] = "NONE" /\ \E t \in Threads : ProcessOf[t] = p
                        THEN [exit_info EXCEPT ![p] = "TERMINATED"] ELSE exit_info
        /\ \/ UNCHANGED caps
           \/ caps' = {c \in caps : c[1] # p}
        /\ UNCHANGED <<current, halting, g_next_wait_id, endpoint_id, owner,
                       g_next_endpoint_id, ticks, halted, accepted, received>>

-----------------------------------------------------------------------------
(* Specification *)

Init ==
    /\ current \in Threads /\ halting = FALSE
    /\ state = [t \in Threads |-> IF t = current THEN "RUNNING" ELSE "READY"]
    /\ wait = [t \in Threads |-> NoWait] /\ frame = [t \in Threads |-> NoFrame]
    /\ g_next_wait_id = 1
    /\ endpoint_id = [e \in Endpoints |-> 0] /\ g_next_endpoint_id = 1
    /\ owner = [e \in Endpoints |-> None] /\ closed = [e \in Endpoints |-> FALSE]
    /\ message = [e \in Endpoints |-> None] /\ staged = [e \in Endpoints |-> None]
    /\ waiting_receiver = [e \in Endpoints |-> NoLink]
    /\ waiting_sender = [e \in Endpoints |-> NoLink]
    /\ caps = {}
    /\ timed = [t \in Threads |-> NoSlot] /\ ticks = 0
    /\ exit_info = [p \in Processes |-> "NONE"]
    /\ halted = FALSE
    /\ outcome = [m \in Messages |-> "unsent"]
    /\ accepted = [i \in 1 .. EndpointIdLimit |-> <<>>]
    /\ received = [i \in 1 .. EndpointIdLimit |-> <<>>]

Next ==
    \/ \E e \in Endpoints, p \in Processes \cup {None} : EndpointCreate(e, p)
    \/ \E e \in Endpoints : EndpointDestroy(e) \/ EndpointClose(e) \/ TryReceive(e)
    \/ \E e \in Endpoints, p \in Processes : CapabilityInsert(p, e) \/ CapabilityRevoke(p, e)
    \/ \E e \in Endpoints, m \in Messages : TrySend(e, m) \/ InterruptSend(e, m)
    \/ \E e \in Endpoints, n \in 0 .. TimeoutMaxTicks :
          \/ ReceiveBlocking(e, n)
          \/ \E m \in Messages : SendBlocking(e, m, n)
    \/ Resume
    \/ TimerInterrupt
    \/ \E t \in Threads : TerminateThread(t)
    \/ UserExit \/ UserFault \/ KernelThreadExit
    \/ \E p \in Processes : QuiesceProcess(p)

Spec == Init /\ [][Next]_vars

\* The timer keeps interrupting, a thread that runs with interrupts masked gets to
\* its next park or return, and the run ring selects every READY thread in turn.
Fairness ==
    /\ WF_vars(TimerInterrupt) /\ WF_vars(Resume)
    /\ \A t \in Threads : SF_vars(TimerInterrupt /\ current' = t)

FairSpec == Spec /\ Fairness

-----------------------------------------------------------------------------
(* Properties *)

\* Every variable keeps its type; in particular every wait, link, suspended call
\* and timeout registration is either absent or complete.
TypeOK ==
    /\ state \in [Threads -> {"READY", "RUNNING", "BLOCKED", "DEAD"}]
    /\ current \in Threads \cup {None} /\ halting \in BOOLEAN
    /\ wait \in [Threads -> Wait] /\ frame \in [Threads -> Frame]
    /\ g_next_wait_id \in 0 .. WaitIdLimit
    /\ endpoint_id \in [Endpoints -> 0 .. EndpointIdLimit]
    /\ g_next_endpoint_id \in 0 .. EndpointIdLimit
    /\ owner \in [Endpoints -> Processes \cup {None}]
    /\ closed \in [Endpoints -> BOOLEAN]
    /\ message \in [Endpoints -> Messages \cup {None}]
    /\ staged \in [Endpoints -> Messages \cup {None}]
    /\ waiting_receiver \in [Endpoints -> Link]
    /\ waiting_sender \in [Endpoints -> Link]
    /\ caps \subseteq Processes \X Endpoints
    /\ timed \in [Threads -> Slot] /\ ticks \in 0 .. Modulus - 1
    /\ exit_info \in [Processes -> {"NONE", "NORMAL", "FAULT", "TERMINATED"}]
    /\ halted \in BOOLEAN
    /\ outcome \in [Messages -> {"unsent", "calling", "ok", "failed", "aborted"}]
    /\ accepted \in [1 .. EndpointIdLimit -> Seq(Messages)]
    /\ received \in [1 .. EndpointIdLimit -> Seq(Messages)]

\* No interleaving of sends, receives, timeouts, closes, aborts, exits and faults
\* reaches one of the cpu_halt_forever() calls that guard the wait protocol.
NeverHalts == ~halted

\* No lost wakeup: a thread is left BLOCKED only while its wait is PENDING and the
\* event it waits for has not happened.  A blocked receiver has an empty open
\* mailbox; a blocked sender has a full one and its message still staged.
NoLostWakeup ==
    \A t \in Threads : state[t] = "BLOCKED" =>
        LET e == frame[t].endpoint
        IN  /\ frame[t] # NoFrame /\ Pending(t) /\ ~closed[e]
            /\ frame[t].kind = Receive => message[e] = None
            /\ frame[t].kind = Send => message[e] # None /\ staged[e] = frame[t].message

\* A call in progress, the wait fields of its thread, its timeout registration, the
\* link of its endpoint and the staged message always tell the same story.
CallAgrees(t) ==
    LET f == frame[t]
        e == f.endpoint
    IN  IF f = NoFrame THEN wait[t] = NoWait /\ timed[t] = NoSlot
        ELSE /\ f.kind \in {Receive, Send} /\ e \in Endpoints /\ f.id # 0
             /\ Live(e) /\ state[t] # "DEAD"
             /\ WaitMatches(t, f.kind, e, f.id) /\ wait[t].result # "NONE"
             /\ LinkOf(e, f.kind) = [thread |-> t, id |-> f.id]
             /\ IF f.timed THEN Registered(t) /\ timed[t].endpoint_id = endpoint_id[e]
                ELSE timed[t] = NoSlot
             /\ Pending(t) => /\ ~closed[e]
                              /\ f.kind = Send => /\ staged[e] = f.message /\ f.message # None
                                                  /\ message[e] # None

EndpointAgrees(e) ==
    LET r == waiting_receiver[e]
        s == waiting_sender[e]
    IN  /\ IF r.thread = None THEN r = NoLink
           ELSE frame[r.thread].kind = Receive /\ frame[r.thread].endpoint = e
        /\ IF s.thread = None THEN s = NoLink
           ELSE frame[s.thread].kind = Send /\ frame[s.thread].endpoint = e
        /\ staged[e] # None => s.thread # None /\ Pending(s.thread)

\* One thread at most is RUNNING, the current one; capabilities and suspended calls
\* name live endpoints, and every wait agrees with its endpoint, so that no check of
\* the wait loop, of the timeout poll or of an abort can fail.
ReservationsAgree ==
    /\ \A t \in Threads : state[t] = "RUNNING" <=> t = current
    /\ \A t \in Threads : CallAgrees(t)
    /\ \A e \in Endpoints : EndpointAgrees(e)
    /\ \A c \in caps : Live(c[2])

\* While an endpoint is open, what receivers took plus what the mailbox holds is
\* exactly what the mailbox accepted, in order: nothing is lost, duplicated or
\* reordered.  A close may discard at most the one message in the mailbox.
ExactlyOnceInOrder ==
    \A e \in Endpoints : Live(e) =>
        LET in == accepted[endpoint_id[e]]
            out == received[endpoint_id[e]]
        IN  /\ ~closed[e] => in = out \o (IF message[e] = None THEN <<>> ELSE <<message[e]>>)
            /\ closed[e] => /\ message[e] = None
                            /\ in = out \/ \E m \in Messages : in = Append(out, m)

AcceptedSomewhere(m) == \E i \in 1 .. EndpointIdLimit : \E k \in DOMAIN accepted[i] : accepted[i][k] = m

\* A send call tells the truth: it returns success only for a message the mailbox
\* accepted, and failure (timeout, peer close, cancel) only for one it never did.
\* While the call is in progress its wait says COMPLETED exactly if it was accepted.
TruthfulSend ==
    /\ \A m \in Messages :
          /\ outcome[m] = "ok" => AcceptedSomewhere(m)
          /\ outcome[m] \in {"unsent", "failed"} => ~AcceptedSomewhere(m)
    /\ \A t \in Threads : frame[t].kind = Send =>
          (AcceptedSomewhere(frame[t].message) <=> wait[t].result = "COMPLETED")

\* Every accepted message is received once and in order, and a sender is told
\* success exactly when its message was accepted (kernel/ipc.c).
MessagesKept == ExactlyOnceInOrder /\ TruthfulSend

\* A timed wait ends exactly at its deadline, neither before it nor after it, also
\* when the tick counter wraps between registration and expiry.
TimeoutOnDeadline ==
    [][\A t \in Threads : Pending(t) /\ timed[t] # NoSlot /\ ticks' # ticks =>
          (wait'[t].result = "TIMED_OUT" <=> ticks' = timed[t].deadline)]_vars

\* Each blocked or not yet resumed call pins its endpoint: the object is not
\* destroyed or reused under it, whatever happens to the capabilities.
WaiterPinsEndpoint ==
    [][\A t \in Threads : frame[t] # NoFrame =>
          endpoint_id'[frame[t].endpoint] = endpoint_id[frame[t].endpoint]]_vars

\* The first terminal result of a wait is final: a later timeout, close or
\* completion of the same operation never overwrites it.
FirstResultWins ==
    [][\A t \in Threads :
          wait[t].result \in Terminal /\ wait'[t].id = wait[t].id =>
              wait'[t].result = wait[t].result]_vars

\* Twice the endpoint capacity is enough timeout slots: a blocking call that may
\* still publish its reservation always finds a free one.
TimeoutSlotAvailable ==
    \A e \in Endpoints, kind \in {Receive, Send} : LinkOf(e, kind) = NoLink =>
        Cardinality({t \in Threads : timed[t] # NoSlot}) < TimedWaitCapacity

\* A published process outcome is final and means that no thread of the process
\* can run or wait any more.
ExitedProcessIsStopped ==
    \A t \in Threads : exit_info[ProcessOf[t]] # "NONE" =>
        state[t] = "DEAD" /\ wait[t] = NoWait /\ frame[t] = NoFrame
\* Every call with a timeout returns (or its thread is stopped).
TimedCallReturns ==
    \A t \in Threads : frame[t].timed ~> frame[t] = NoFrame

\* A call whose event has happened returns: its wait is decided by completion,
\* close or timeout, or its receive has a message reserved in the mailbox.
DecidedCallReturns ==
    \A t \in Threads :
        (frame[t] # NoFrame /\ (Pending(t) => /\ frame[t].kind = Receive
                                             /\ message[frame[t].endpoint] # None))
        ~> frame[t] = NoFrame
=============================================================================
