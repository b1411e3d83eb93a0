--------------------------- MODULE ManagedService ---------------------------
(***************************************************************************)
(* A kernel-managed user service (kernel/managed_service.c): start, call,  *)
(* one-way send, bounded stop, recovery and the observation of its exit.   *)
(*                                                                         *)
(* The service runs whenever the calling kernel thread is preempted or     *)
(* parked, that is between any two steps of a call.  The program it runs   *)
(* is arbitrary, except that it answers a request at most once.  Its       *)
(* launch and release are those of ProgramLife.                            *)
(***************************************************************************)
EXTENDS Naturals

CONSTANTS
    Callers,           \* kernel threads
    None,
    IncarnationLimit,  \* bound: services ever started
    RequestLimit,      \* bound: requests ever sent
    FaultLimit         \* bound: failures of lower operations

ASSUME ManagedServiceAssumption ==
    /\ {IncarnationLimit, RequestLimit, FaultLimit} \subseteq Nat /\ None \notin Callers

VARIABLES
    state,             \* ManagedServiceState
    incarnation,
    next_incarnation,
    last_exit, last_stop_result,
    held,              \* queue, endpoints and kernel capabilities created
    program,           \* life of service->program, as in ProgramLife
    thread,            \* of its thread; RECEIVING is BLOCKED on the command endpoint
    event,             \* the pending event of the exit queue
    command, reply,    \* the message in each endpoint
    serving,           \* the request the program works on
    connection,        \* each caller's ManagedServiceConnection
    call,              \* each caller's call in progress
    requests, faults,
    answer,            \* history: what each caller's last successful call got
    ran                \* history: the last incarnation whose program was published

objects == <<held, program, thread, event, command, reply, serving>>
history == <<answer, ran>>
vars == <<state, incarnation, next_incarnation, last_exit, last_stop_result, objects,
          connection, call, requests, faults, history>>

States == {"STOPPED", "STARTING", "RUNNING", "CLOSING", "FAILED", "REAP_PENDING"}
CreationOrder == <<"queue", "command", "reply", "send", "receive", "command_grant", "reply_grant">>
ReleaseOrder == <<"send", "receive", "command_grant", "reply_grant", "command", "reply", "queue">>
FirstOf(order, n) == {order[k] : k \in 1 .. n}
Objects == FirstOf(CreationOrder, 7)
NoCall == [op |-> "none", step |-> "idle", request |-> 0, force |-> FALSE]
NoExit == [incarnation |-> 0, reason |-> "NONE"]

Calling(c) == call[c].op # "none"
At(c, s) == call[c].step = s
Goto(c, s) == call' = [call EXCEPT ![c].step = s]
Begin(c, op, s) == call' = [call EXCEPT ![c] = [NoCall EXCEPT !.op = op, !.step = s]]
Return(c) == call' = [call EXCEPT ![c] = NoCall]
Fails == faults > 0 /\ faults' = faults - 1

(* service_ready *)
Ready == "command" \in held /\ thread = "RECEIVING"

NeedsCleanup == program # "FREE" \/ held # {}

Init ==
    /\ state = "STOPPED" /\ incarnation = 0 /\ next_incarnation = 1
    /\ last_exit = NoExit /\ last_stop_result = "NONE"
    /\ held = {} /\ program = "FREE" /\ thread = "NONE" /\ event = "NONE"
    /\ command = None /\ reply = None /\ serving = None
    /\ connection = [c \in Callers |-> 0] /\ call = [c \in Callers |-> NoCall]
    /\ requests = 0 /\ faults = FaultLimit
    /\ answer = [c \in Callers |-> [request |-> 0, answers |-> 0]] /\ ran = 0

-----------------------------------------------------------------------------
(* Observation of the service's end *)

\* Defect: the event is taken from the queue and not kept.
TakenAndLost == UNCHANGED last_exit /\ event' = "NONE"

(* service_record_pending_exit *)
Recorded ==
    /\ last_exit' = [incarnation |-> incarnation, reason |-> event]
    /\ event' = "NONE"

(* service_refresh_terminal consumes the pending event of a program that is still held. *)
Pending == state # "STOPPED" /\ program # "FREE" /\ event # "NONE"

RecordIfPending == IF Pending THEN Recorded ELSE UNCHANGED <<last_exit, event>>

\* The states it may leave; a retained program may or may not carry an exit record.
Refreshed ==
    CASE Pending -> {IF state = "CLOSING" /\ event = "NORMAL" THEN "REAP_PENDING" ELSE "FAILED"}
      [] ~Pending /\ state # "STOPPED" /\ program = "ENDED" -> {"FAILED"}
      [] ~Pending /\ state # "STOPPED" /\ program = "RETAINED" -> {state, "FAILED"}
      [] OTHER -> {state}

Refresh == RecordIfPending /\ state' \in Refreshed

NotRunning(s) == IF s = "RUNNING" THEN "FAILED" ELSE s

\* managed_service_state and what is built on it, with interrupts masked.
Observe(c) ==
    /\ ~Calling(c) /\ Refresh
    /\ UNCHANGED <<incarnation, next_incarnation, last_stop_result, held, program, thread,
                   command, reply, serving, connection, call, requests, faults, history>>

-----------------------------------------------------------------------------
(* managed_service_start *)

StartService(c) ==
    /\ ~Calling(c) /\ state = "STOPPED" /\ ~NeedsCleanup
    /\ next_incarnation <= IncarnationLimit
    /\ state' = "STARTING"
    /\ incarnation' = next_incarnation /\ next_incarnation' = next_incarnation + 1
    /\ Begin(c, "start", "create")
    /\ UNCHANGED <<last_exit, objects, connection, requests, faults, history>>

Start(c) == StartService(c) /\ last_stop_result' = "NONE"

\* The exit queue, both endpoints and four capabilities; the creation may stop anywhere.
CreateObjects(c) ==
    /\ At(c, "create")
    /\ \/ held' = Objects /\ UNCHANGED faults /\ Goto(c, "launch")
       \/ /\ Fails /\ Goto(c, "fail")
          /\ \E n \in 0 .. 6 : held' = FirstOf(CreationOrder, n)
    /\ UNCHANGED <<state, incarnation, next_incarnation, last_exit, last_stop_result, program,
                   thread, event, command, reply, serving, connection, requests, history>>

LaunchProgram(c) ==
    /\ At(c, "launch")
    /\ \/ /\ program' = "RUNNING" /\ thread' = "READY" /\ ran' = incarnation
          /\ UNCHANGED faults /\ Goto(c, "refresh")
       \/ /\ Fails /\ program' \in {"FREE", "RETAINED"} /\ UNCHANGED <<thread, ran>>
          /\ Goto(c, "fail")
    /\ UNCHANGED <<state, incarnation, next_incarnation, last_exit, last_stop_result, held,
                   event, command, reply, serving, connection, requests, answer>>

(***************************************************************************)
(* service_wait_ready reads the state of the service in three steps and    *)
(* yields while its thread is runnable.                                    *)
(***************************************************************************)
WaitRefresh(c) ==
    /\ At(c, "refresh") /\ Refresh
    /\ Goto(c, IF state' = "FAILED" THEN "fail" ELSE "ready")
    /\ UNCHANGED <<incarnation, next_incarnation, last_stop_result, held, program, thread,
                   command, reply, serving, connection, requests, faults, history>>

WaitReady(c) ==
    /\ At(c, "ready")
    /\ IF ~Ready THEN Goto(c, "runnable") /\ UNCHANGED <<state, answer>>
       ELSE /\ Return(c)
            /\ state' = IF call[c].op = "start" THEN "RUNNING" ELSE state
            /\ answer' = IF call[c].op = "start" THEN answer
                         ELSE [answer EXCEPT ![c].request = call[c].request]
    /\ UNCHANGED <<incarnation, next_incarnation, last_exit, last_stop_result, objects,
                   connection, requests, faults, ran>>

\* The thread is neither ready to be called nor runnable.
WaitGivesUp(c) ==
    /\ At(c, "runnable") /\ thread # "READY"
    /\ Goto(c, "fail")
    /\ UNCHANGED <<state, incarnation, next_incarnation, last_exit, last_stop_result, objects,
                   connection, requests, faults, history>>

WaitYields(c) ==
    /\ At(c, "runnable") /\ thread = "READY"
    /\ Goto(c, "refresh")
    /\ UNCHANGED <<state, incarnation, next_incarnation, last_exit, last_stop_result, objects,
                   connection, requests, faults, history>>

\* Defect: the wait for the thread's end has no deadline.
BoundedButDead(c) ==
    \/ At(c, "runnable") /\ thread = "READY"
    \/ At(c, "receive") /\ reply = None

Bounded(c) ==
    \/ At(c, "runnable") /\ thread = "READY"
    \/ At(c, "receive") /\ reply = None
    \/ At(c, "dead") /\ thread = "READY"

\* The deadline of a wait for readiness, for the reply, or for the thread's end.
TimesOut(c) ==
    /\ Bounded(c)
    /\ Goto(c, "fail")
    /\ UNCHANGED <<state, incarnation, next_incarnation, last_exit, last_stop_result, objects,
                   connection, requests, faults, history>>

-----------------------------------------------------------------------------
(* managed_service_call and managed_service_send_oneway *)

Connect(c) ==
    /\ ~Calling(c) /\ state = "RUNNING" /\ program = "RUNNING"
    /\ connection' = [connection EXCEPT ![c] = incarnation]
    /\ UNCHANGED <<state, incarnation, next_incarnation, last_exit, last_stop_result, objects,
                   call, requests, faults, history>>

\* Defect: a connection to an earlier incarnation is as good as a current one.
AnyConnection(c) == connection[c] # 0

Current(c) == connection[c] # 0 /\ connection[c] = incarnation

\* The service is running and idle, so ipc_try_send finds its thread waiting.
Send(c, kind, inc) ==
    /\ ~Calling(c) /\ state = "RUNNING" /\ Ready
    /\ requests < RequestLimit /\ requests' = requests + 1
    /\ command' = [request |-> requests', kind |-> kind, incarnation |-> inc]
    /\ thread' = "READY"
    /\ UNCHANGED <<state, incarnation, next_incarnation, last_exit, last_stop_result, held,
                   program, event, reply, serving, connection, faults, history>>

\* The call then goes on at the given step.
Request(c, kind, inc, step) ==
    /\ Send(c, kind, inc)
    /\ call' = [call EXCEPT ![c] = [NoCall EXCEPT !.op = kind, !.step = step,
                                                  !.request = requests']]

Call(c) == Current(c) /\ Request(c, "call", connection[c], "receive")

\* For requests that the program does not answer.
SendOneway(c) == Current(c) /\ Send(c, "oneway", connection[c]) /\ UNCHANGED call

\* ipc_receive_blocking_for, and the check that the reply is of this incarnation and kind.
ReceiveReply(c) ==
    /\ At(c, "receive") /\ reply # None
    /\ reply' = None
    /\ Goto(c, IF ~(reply.good /\ reply.kind = call[c].op) THEN "fail"
               ELSE IF call[c].op = "call" THEN "refresh" ELSE "dead")
    /\ answer' = [answer EXCEPT ![c] = [request |-> 0, answers |-> reply.answers]]
    /\ UNCHANGED <<state, incarnation, next_incarnation, last_exit, last_stop_result, held,
                   program, thread, event, command, serving, connection, requests, faults, ran>>

CallFails(c) ==
    /\ At(c, "fail") /\ call[c].op = "call"
    /\ RecordIfPending /\ state' \in {NotRunning(s) : s \in Refreshed}
    /\ Return(c)
    /\ UNCHANGED <<incarnation, next_incarnation, last_stop_result, held, program, thread,
                   command, reply, serving, connection, requests, faults, history>>

-----------------------------------------------------------------------------
(* managed_service_stop_bounded and managed_service_recover *)

Stop(c) ==
    /\ ~Calling(c) /\ state # "STOPPED"
    /\ last_stop_result' = "NONE"
    /\ Begin(c, "stop", "decide") /\ Refresh
    /\ UNCHANGED <<incarnation, next_incarnation, held, program, thread, command, reply,
                   serving, connection, requests, faults, history>>

\* A service that is ready is asked to shut down, any other one is stopped by force.
AskOrForce(c) ==
    /\ At(c, "decide")
    /\ IF state = "RUNNING" /\ Ready
       THEN /\ state' = "CLOSING" /\ Goto(c, "receive")
            /\ command' = [request |-> 0, kind |-> "stop", incarnation |-> incarnation]
            /\ thread' = "READY"
       ELSE Goto(c, "fail") /\ UNCHANGED <<state, command, thread>>
    /\ UNCHANGED <<incarnation, next_incarnation, last_exit, last_stop_result, held, program,
                   event, reply, serving, connection, requests, faults, history>>

\* service_wait_thread_dead looks at the thread once with interrupts masked.
WaitDead(c) ==
    /\ At(c, "dead") /\ thread # "READY"
    /\ Goto(c, IF thread = "DEAD" THEN "event" ELSE "fail")
    /\ UNCHANGED <<state, incarnation, next_incarnation, last_exit, last_stop_result, objects,
                   connection, requests, faults, history>>

\* Defect: any recorded end makes the stop graceful.
EndedSomehow == event # "NONE"

EndedNormally == event = "NORMAL"

CheckEvent(c) ==
    /\ At(c, "event")
    /\ IF event # "NONE" THEN Recorded ELSE UNCHANGED <<last_exit, event>>
    /\ IF EndedNormally /\ command = None /\ reply = None
       THEN /\ state' = "REAP_PENDING"
            /\ call' = [call EXCEPT ![c].step = "record", ![c].force = FALSE]
       ELSE Goto(c, "fail") /\ UNCHANGED state
    /\ UNCHANGED <<incarnation, next_incarnation, last_stop_result, held, program, thread,
                   command, reply, serving, connection, requests, faults, history>>

Recover(c) ==
    /\ ~Calling(c) /\ state \notin {"STOPPED", "RUNNING"}
    /\ Begin(c, "recover", "fail") /\ Refresh
    /\ UNCHANGED <<incarnation, next_incarnation, last_stop_result, held, program, thread,
                   command, reply, serving, connection, requests, faults, history>>

\* Where start, stop and recover go when they must force the release.
Force(c) ==
    /\ At(c, "fail") /\ call[c].op # "call"
    /\ state' = "FAILED"
    /\ call' = [call EXCEPT ![c].step = "record", ![c].force = TRUE]
    /\ UNCHANGED <<incarnation, next_incarnation, last_exit, last_stop_result, objects,
                   connection, requests, faults, history>>

-----------------------------------------------------------------------------
(* service_release *)

StopResult(c, released) ==
    last_stop_result' = IF call[c].op # "stop" THEN last_stop_result
                        ELSE IF ~released THEN "FAILED"
                        ELSE IF call[c].force THEN "FORCED" ELSE "GRACEFUL"

Retained(c) == state' = "REAP_PENDING" /\ StopResult(c, FALSE) /\ Return(c)

\* Before and after the program is released, a pending event is recorded.
SeePending(c) ==
    /\ At(c, "record") \/ At(c, "drain")
    /\ Goto(c, CASE event # "NONE" /\ At(c, "record") -> "take"
                 [] event # "NONE" /\ At(c, "drain") -> "take_last"
                 [] event = "NONE" /\ At(c, "record") -> "program"
                 [] OTHER -> "objects")
    /\ UNCHANGED <<state, incarnation, next_incarnation, last_exit, last_stop_result, objects,
                   connection, requests, faults, history>>

RecordPending(c) ==
    /\ At(c, "take") \/ At(c, "take_last")
    /\ event # "NONE" /\ Recorded
    /\ Goto(c, IF At(c, "take") THEN "program" ELSE "objects")
    /\ UNCHANGED <<state, incarnation, next_incarnation, last_stop_result, held, program,
                   thread, command, reply, serving, connection, requests, faults, history>>

\* Defect: a running program is released without being stopped.
Unstopped == TRUE

Stopped == program # "RUNNING"

(***************************************************************************)
(* program_terminate and program_reap, of which only the first stops a     *)
(* running program.  The release may fail before or after that.            *)
(***************************************************************************)
ReleaseProgram(c) ==
    /\ At(c, "program")
    /\ \/ /\ program = "RUNNING" /\ call[c].force
          /\ program' = "ENDED" /\ event' = "TERMINATED" /\ thread' = "DEAD" /\ serving' = None
          /\ UNCHANGED <<state, last_stop_result, call, faults>>
       \/ /\ Stopped
          /\ program' = "FREE" /\ thread' = "NONE" /\ serving' = None
          /\ Goto(c, "drain") /\ UNCHANGED <<state, event, last_stop_result, faults>>
       \/ /\ program # "FREE" /\ Fails
          /\ Retained(c) /\ UNCHANGED <<program, thread, event, serving>>
    /\ UNCHANGED <<incarnation, next_incarnation, last_exit, held, command, reply, connection,
                   requests, history>>

\* Close, revoke and destroy; what is left when one of them fails is retried later.
ReleaseObjects(c) ==
    /\ At(c, "objects")
    /\ command' = None /\ reply' = None
    /\ \/ /\ held' = {} /\ state' = "STOPPED" /\ incarnation' = 0 /\ StopResult(c, TRUE)
          /\ Return(c) /\ UNCHANGED faults
       \/ /\ Fails /\ \E n \in 0 .. 6 : held' = held \ FirstOf(ReleaseOrder, n)
          /\ Retained(c) /\ UNCHANGED incarnation
    /\ UNCHANGED <<next_incarnation, last_exit, program, thread, event, serving, connection,
                   requests, history>>

-----------------------------------------------------------------------------
(* The program of the service: external, arbitrary but for its single answers *)

ServeReceive ==
    /\ thread = "READY" /\ serving = None
    /\ serving' = command /\ command' = None
    /\ thread' = IF command = None THEN "RECEIVING" ELSE "READY"
    /\ UNCHANGED <<held, program, event, reply>>

ServeReply ==
    /\ thread = "READY" /\ serving # None /\ reply = None
    /\ serving.kind \in {"call", "stop", "spin"}
    /\ \E good \in BOOLEAN :
           reply' = [answers |-> serving.request, kind |-> serving.kind, good |-> good]
    /\ serving' = None
    /\ UNCHANGED <<held, program, thread, event, command>>

ServeSilently ==
    /\ thread = "READY" /\ serving # None /\ serving' = None
    /\ UNCHANGED <<held, program, thread, event, command, reply>>

ServeElsewhere ==
    /\ thread = "READY" /\ thread' = "STUCK"
    /\ UNCHANGED <<held, program, event, command, reply, serving>>

ServeEnd ==
    /\ thread = "READY" /\ thread' = "DEAD" /\ program' = "ENDED"
    /\ event' \in {"NORMAL", "FAULT"} /\ serving' = None
    /\ UNCHANGED <<held, command, reply>>

Serve ==
    /\ ServeReceive \/ ServeReply \/ ServeSilently \/ ServeElsewhere \/ ServeEnd
    /\ UNCHANGED <<state, incarnation, next_incarnation, last_exit, last_stop_result,
                   connection, call, requests, faults, history>>

-----------------------------------------------------------------------------
CallStep(c) ==
    \/ CreateObjects(c) \/ LaunchProgram(c)
    \/ WaitRefresh(c) \/ WaitReady(c) \/ WaitGivesUp(c) \/ WaitYields(c) \/ TimesOut(c)
    \/ ReceiveReply(c) \/ CallFails(c) \/ AskOrForce(c) \/ WaitDead(c) \/ CheckEvent(c)
    \/ Force(c) \/ SeePending(c) \/ RecordPending(c) \/ ReleaseProgram(c) \/ ReleaseObjects(c)

BeginCall(c) == Start(c) \/ Call(c) \/ Stop(c) \/ Recover(c)

Use(c) == Observe(c) \/ Connect(c) \/ SendOneway(c) \/ BeginCall(c)

Next ==
    \/ \E c \in Callers : Use(c) \/ CallStep(c)
    \/ Serve

Spec == Init /\ [][Next]_vars

(* Fairness: a call goes on, and time passes while it waits. *)
FairSpec ==
    /\ Spec
    /\ \A c \in Callers : WF_vars(CallStep(c)) /\ SF_vars(TimesOut(c))

-----------------------------------------------------------------------------
(* Properties *)

(* State, objects and calls are of their types. *)
TypeOK ==
    /\ state \in States /\ incarnation \in 0 .. IncarnationLimit
    /\ last_stop_result \in {"NONE", "GRACEFUL", "FORCED", "FAILED"}
    /\ held \subseteq Objects /\ program \in {"FREE", "RUNNING", "ENDED", "RETAINED"}
    /\ thread \in {"NONE", "READY", "RECEIVING", "STUCK", "DEAD"}
    /\ event \in {"NONE", "NORMAL", "FAULT", "TERMINATED"}
    /\ requests \in 0 .. RequestLimit /\ faults \in 0 .. FaultLimit
    /\ state = "STOPPED" => ~NeedsCleanup /\ event = "NONE"

(***************************************************************************)
(* A call that succeeds returns the answer to its own request: a late      *)
(* answer to a call that gave up is never taken for a later one's.         *)
(***************************************************************************)
AnswerIsOwn ==
    \A c \in Callers : answer[c].request # 0 => answer[c].answers = answer[c].request

(***************************************************************************)
(* No request reaches an incarnation of the service over a connection to   *)
(* an earlier one.                                                         *)
(***************************************************************************)
RequestsAreCurrent ==
    \A m \in {command, serving} \ {None} : m.incarnation = incarnation

(***************************************************************************)
(* A service that stopped after its program ran has left a record of how   *)
(* that program ended, whoever consumed the event.                         *)
(***************************************************************************)
EndIsRecorded ==
    /\ TypeOK
    /\ state = "STOPPED" /\ ran # 0 => last_exit.incarnation = ran /\ last_exit.reason # "NONE"

(***************************************************************************)
(* A stop is reported graceful only when this incarnation of the program   *)
(* ended normally, by itself, and everything was released.                 *)
(***************************************************************************)
GracefulIsNormal ==
    [][(last_stop_result # "GRACEFUL" /\ last_stop_result' = "GRACEFUL") =>
           /\ state' = "STOPPED" /\ ~NeedsCleanup'
           /\ last_exit' = [incarnation |-> incarnation, reason |-> "NORMAL"]]_vars

(* The program is used as ProgramLife allows; its events are its reports. *)
Life == INSTANCE ProgramLife WITH
    Instances <- {None},
    life <- [i \in {None} |-> program],
    reports <- [i \in {None} |-> IF program = "ENDED" THEN 1 ELSE 0]
UsesProgramLife == Life!Spec

(* A stop ends, whatever the program does: every wait in it is bounded. *)
StopEnds == \A c \in Callers : call[c].op = "stop" ~> call[c].op = "none"

\* The service uses its program as ProgramLife allows, serves requests of its own
\* incarnation only, and is called graceful only after a normal end
\* (managed_service_call, managed_service_stop, service_release).
ServesItsLife == UsesProgramLife /\ GracefulIsNormal /\ []RequestsAreCurrent
=============================================================================
