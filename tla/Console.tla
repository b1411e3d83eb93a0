------------------------------- MODULE Console -------------------------------
(***************************************************************************)
(* The system console and what is brokered through it:                     *)
(* kernel/system_console.c (endpoints, the Ring-3 console service, its     *)
(* calls and application sessions), kernel/foreground_program.c (one       *)
(* foreground program in a session), kernel/background_service.c (one      *)
(* ordinary service) and kernel/userspace_shell.c (the loop of the kernel  *)
(* thread that drives them), with the receive loop of                      *)
(* user/console_service.c on the other side.                               *)
(*                                                                         *)
(* The kernel thread is sequential, so a kernel operation is an operator   *)
(* from the console's state to the set of its outcomes, and an action is a *)
(* whole operation of the loop.  The service, the program and the user     *)
(* move between them.                                                      *)
(*                                                                         *)
(* What may fail is the creation of an object, a capability or a program,  *)
(* the release of a dead one, and a call that runs out of time; revoking a *)
(* valid handle does not fail, and an endpoint is destroyed exactly when   *)
(* nothing refers to it.                                                   *)
(***************************************************************************)
EXTENDS Outcomes, FiniteSets

CONSTANTS
  StartLimit,    \* incarnations of the console service
  SessionLimit,  \* application sessions
  LateCalls,     \* may a call run out of time while the service reads the archive?
  MediaRefused   \* may a media launch get no grants: no firmware framebuffer, or a capability
                 \* that cannot be inserted?

VARIABLES
  c,     \* state of the console, the foreground program and the background slot
  pc,    \* where the loop of the kernel thread is
  asked  \* the pending action a key event returned

vars == <<c, pc, asked>>

Ends == {"app", "input", "launch", "service"}

BothPortals == {"console", "archive"}

NoRequest == [from |-> 0, op |-> "none"]

Blank == [portals |-> {}, stale |-> FALSE,
          svc |-> "STOPPED", mode |-> "none", inc |-> 0, conn |-> 0,
          shell |-> "INACTIVE", waiting |-> FALSE, believed |-> 0,
          ends |-> {}, inputCap |-> FALSE, closed |-> FALSE,
          appMsg |-> 0, inputMsg |-> 0, launchMsg |-> NoRequest, serviceMsg |-> NoRequest,
          session |-> 0, next |-> 1, authority |-> {},
          program |-> "FREE", started |-> 0, queue |-> FALSE, event |-> "none",
          worker |-> "STOPPED", faults |-> 0]

Init == c = Blank /\ pc = "boot" /\ asked = "none"

(***************************************************************************)
(* The console service as a process.                                       *)
(***************************************************************************)

\* The service's thread is gone.  A reply it was waiting for stays behind in
\* the archive portal's reply endpoint: the portal outlives the service.
Dead(s) ==
  [s EXCEPT !.stale = @ \/ s.mode = "reading", !.mode = "none",
            !.shell = "INACTIVE", !.waiting = FALSE, !.believed = 0]

system_console_service_release(s) ==
  LET released == [Dead(s) EXCEPT !.svc = "STOPPED", !.conn = 0] IN
  CASE s.svc = "RUNNING" -> Ok(released) \union Faults([Dead(s) EXCEPT !.svc = "FAILED"])
    [] s.svc = "FAILED" -> Ok(released) \union Faults(s)
    [] OTHER -> Ok(released)

\* managed_service_recover leaves a running service alone.
managed_service_recover(s) ==
  IF s.svc = "FAILED" THEN system_console_service_release(s) ELSE {[ok |-> s.svc = "STOPPED", c |-> s]}

\* boot_archive_portal_idle: no reply is left over and no request is served.
ArchiveIdle(s) == "archive" \in s.portals /\ ~s.stale /\ s.mode /= "reading"

system_console_connect(s) == [s EXCEPT !.conn = s.inc]

system_console_service_start(s) ==
  LET up == [s EXCEPT !.svc = "RUNNING", !.mode = "command", !.inc = @ + 1,
                      !.shell = "INACTIVE", !.waiting = FALSE]
      launched == Ok(up) \union Faults(s) \union Faults([s EXCEPT !.svc = "FAILED"])
  IN IF "app" \notin s.ends \/ s.svc /= "STOPPED" \/ s.inc >= StartLimit THEN Fail(s)
     ELSE Recover(Then(launched,
                       LAMBDA d : LET e == system_console_connect(d)
                                  IN IF ArchiveIdle(e) THEN Ok(e) ELSE Fail(e)),
                  managed_service_recover)

(***************************************************************************)
(* Endpoints.                                                              *)
(***************************************************************************)

\* An endpoint with the kernel's handles to it: all or nothing.
Create(s, e) ==
  IF e \in s.ends THEN Fail(s)
  ELSE Ok([s EXCEPT !.ends = @ \union {e}, !.inputCap = @ \/ e = "input"]) \union Faults(s)

\* Capabilities that still refer to the endpoint: authorities left in the
\* kernel's table and those of a program that has not been released.
Referenced(s, e) ==
  \/ e = "app" /\ ("app_send" \in s.authority \/ s.program /= "FREE" \/ s.svc /= "STOPPED")
  \/ e = "input" /\ ("input_receive" \in s.authority \/ s.program /= "FREE")
  \/ e \in {"launch", "service"} /\ s.svc /= "STOPPED"

\* The destroyers close the endpoint, which empties it, drop the kernel's own
\* handles and then destroy it.
Destroy(s, e) ==
  LET d == [s EXCEPT !.closed = @ \/ (e = "app" /\ "app" \in s.ends),
                     !.appMsg = IF e = "app" THEN 0 ELSE @,
                     !.inputCap = @ /\ e /= "input",
                     !.inputMsg = IF e = "input" THEN 0 ELSE @,
                     !.launchMsg = IF e = "launch" THEN NoRequest ELSE @,
                     !.serviceMsg = IF e = "service" THEN NoRequest ELSE @]
  IN IF e \notin s.ends THEN Ok(s)
     ELSE IF Referenced(s, e) THEN Fail(d)
     ELSE Ok([d EXCEPT !.ends = @ \ {e},
                       !.closed = @ /\ e /= "app",
                       !.session = IF e = "app" THEN 0 ELSE @])

app_endpoint_create(s) == Create(s, "app")
app_input_endpoint_create(s) == Create(s, "input")
launch_endpoint_create(s) == Create(s, "launch")
service_endpoint_create(s) == Create(s, "service")

app_endpoint_destroy(s) == Destroy(s, "app")
app_input_endpoint_destroy(s) == Destroy(s, "input")
launch_endpoint_destroy(s) == Destroy(s, "launch")
service_endpoint_destroy(s) == Destroy(s, "service")

CreateAll(s) ==
  Then(Then(Then(app_endpoint_create(s), app_input_endpoint_create), launch_endpoint_create), service_endpoint_create)

DestroyAll(s) ==
  Then(Then(Then(app_endpoint_destroy(s), app_input_endpoint_destroy), launch_endpoint_destroy), service_endpoint_destroy)

\* The failure paths go on after a step that failed.
DropAll(s) ==
  Both(Both(Both(Both(system_console_service_release(s), app_endpoint_destroy), app_input_endpoint_destroy),
            launch_endpoint_destroy),
       service_endpoint_destroy)

console_portal_start(s) == Ok([s EXCEPT !.portals = @ \union {"console"}]) \union Faults(s)
boot_archive_portal_start(s) == Ok([s EXCEPT !.portals = @ \union {"archive"}]) \union Faults(s)

\* Stopping an absent portal succeeds; the archive portal drains its endpoints.
console_portal_stop(s) ==
  Ok([s EXCEPT !.portals = @ \ {"console"}])
  \union (IF "console" \in s.portals THEN Faults(s) ELSE {})

boot_archive_portal_stop(s) ==
  Ok([s EXCEPT !.portals = @ \ {"archive"}, !.stale = FALSE])
  \union (IF "archive" \in s.portals THEN Faults(s) ELSE {})

system_console_present(s) == s.portals /= {} \/ s.ends /= {} \/ s.svc /= "STOPPED"

system_console_start(s) ==
  IF system_console_present(s) THEN Fail(s)
  ELSE Then(console_portal_start(s),
            LAMBDA d : Recover(Then(Then(boot_archive_portal_start(d), CreateAll), system_console_service_start),
                               LAMBDA f : Both(Both(DropAll(f), boot_archive_portal_stop), console_portal_stop)))

system_console_stop(s) ==
  IF s.session /= 0 THEN Fail(s)
  ELSE Then(Then(Then(system_console_service_release(s), DestroyAll), boot_archive_portal_stop), console_portal_stop)

system_console_restart(s) ==
  IF s.portals /= BothPortals \/ s.session /= 0 THEN Fail(s)
  ELSE Then(Then(system_console_service_release(s), DestroyAll),
            LAMBDA d : Recover(Then(CreateAll(d), system_console_service_start), DropAll))

system_console_running(s) ==
  /\ s.portals = BothPortals /\ s.ends = Ends /\ s.inputCap
  /\ s.svc = "RUNNING" /\ s.conn = s.inc

system_console_idle(s) ==
  /\ s.session = 0 /\ system_console_running(s) /\ s.mode = "command"
  /\ s.launchMsg = NoRequest /\ s.serviceMsg = NoRequest /\ ArchiveIdle(s)

(***************************************************************************)
(* Calls.                                                                  *)
(***************************************************************************)

\* The requests the shell sends for its commands, each before the reply that
\* announces it.
launch_request_send(s, op) == [s EXCEPT !.shell = "SUSPENDED", !.launchMsg = [from |-> s.inc, op |-> op]]

service_command(s, op) ==
  [s EXCEPT !.shell = "SUSPENDED", !.waiting = TRUE, !.serviceMsg = [from |-> s.inc, op |-> op]]

\* shell_execute, by the action the command returns.
shell_execute(s, action) ==
  CASE action = "RUN_GRAPHICS" -> [s EXCEPT !.shell = "SUSPENDED"]
    [] action \in {"RUN", "PLAY"} -> launch_request_send(s, action)
    [] action \in {"START", "STOP", "RESTART", "STATUS", "DIAG_FAULT"} -> service_command(s, action)
    [] OTHER -> s

shell_handle_key(s, action) ==
  CASE s.shell /= "ACTIVE" -> s
    [] s.shell = "ACTIVE" /\ action = "RETURN_MONITOR" -> [s EXCEPT !.shell = "INACTIVE"]
    [] OTHER -> shell_execute(s, action)

\* handle_app_request: a message of another session is discarded, END of this
\* one returns the service to its command endpoint.
handle_app_request(s) ==
  [s EXCEPT !.appMsg = 0, !.believed = IF s.appMsg = s.believed THEN 0 ELSE @,
            !.mode = IF s.appMsg = s.believed THEN "command" ELSE @]

\* The service takes the session number and switches to the app endpoint; a
\* message left there by an earlier program is discarded before it waits.
EnterApp(s, id) ==
  LET d == [s EXCEPT !.mode = "app", !.believed = id]
  IN IF d.appMsg /= 0 THEN handle_app_request(d) ELSE d

\* The service's loop: what it answers to a command and where that leaves it.
\* A result nobody waits for and a session over an active shell are refused.
jcos_main(s, command, x) ==
  CASE command = "WRITE_BYTE" -> [ok |-> TRUE, c |-> s]
    [] command = "SHELL_ACTIVATE" -> [ok |-> TRUE, c |-> [s EXCEPT !.shell = "ACTIVE"]]
    [] command = "SHELL_DEACTIVATE" -> [ok |-> TRUE, c |-> [s EXCEPT !.shell = "INACTIVE", !.waiting = FALSE]]
    [] command = "SHELL_KEY_EVENT" -> [ok |-> TRUE, c |-> shell_handle_key(s, x)]
    [] command = "SERVICE_RESULT" /\ s.shell = "SUSPENDED" /\ s.waiting ->
         [ok |-> TRUE, c |-> [s EXCEPT !.shell = "ACTIVE", !.waiting = FALSE]]
    [] command = "APP_SESSION_BEGIN" /\ s.shell /= "ACTIVE" -> [ok |-> TRUE, c |-> EnterApp(s, x)]
    [] OTHER -> [ok |-> FALSE, c |-> s]

\* managed_service_call: the service answers, or the call runs out of time,
\* which marks the service failed wherever it is; a command that makes the
\* service read the archive may leave it in a read.
Call(s, command, x) ==
  {jcos_main(s, command, x)}
  \union Faults([s EXCEPT !.svc = "FAILED", !.mode = "hung"])
  \union (IF LateCalls /\ command = "SHELL_KEY_EVENT" THEN Faults([s EXCEPT !.svc = "FAILED", !.mode = "reading"]) ELSE {})

system_console_putchar(s) == IF system_console_idle(s) THEN Call(s, "WRITE_BYTE", 0) ELSE Fail(s)

system_console_shell_activate(s) == IF system_console_idle(s) THEN Call(s, "SHELL_ACTIVATE", 0) ELSE Fail(s)

system_console_shell_deactivate(s) == IF system_console_idle(s) THEN Call(s, "SHELL_DEACTIVATE", 0) ELSE Fail(s)

system_console_input_event(s, action) ==
  IF system_console_idle(s) THEN Call(s, "SHELL_KEY_EVENT", action) ELSE Fail(s)

system_console_service_result(s) ==
  IF system_console_running(s) /\ s.mode = "command" THEN Call(s, "SERVICE_RESULT", 0) ELSE Fail(s)

(***************************************************************************)
(* Application sessions.                                                   *)
(***************************************************************************)

\* Defect: the input endpoint is not emptied for a new session.
InputKept(s) == s

\* system_console_app_input_endpoint_reset.
InputReset(s) == [s EXCEPT !.inputMsg = 0]

app_session_begin(s) ==
  IF ~system_console_idle(s) \/ s.next > SessionLimit THEN Fail(s)
  ELSE LET d == [InputReset(s) EXCEPT !.next = @ + 1]
           answer == jcos_main(d, "APP_SESSION_BEGIN", s.next)
           valid == IF answer.ok /\ answer.c.mode = "app" THEN Ok([answer.c EXCEPT !.session = s.next]) ELSE Fail(d)
       IN Recover(valid \union Faults([d EXCEPT !.mode = "hung"]), system_console_restart)

\* Two authorities are inserted; the second failing takes the first back.
app_client_grant_begin(s) ==
  IF s.session = 0 \/ s.mode /= "app" \/ ~s.inputCap THEN Fail(s)
  ELSE Ok([s EXCEPT !.authority = @ \union {"app_send", "input_receive"}]) \union Faults(s)

app_client_grant_end(s) == Ok([s EXCEPT !.authority = @ \ {"app_send", "input_receive"}])

media_grants_begin(s) ==
  Ok([s EXCEPT !.authority = @ \union {"display"}])
  \union (IF MediaRefused THEN Fail(s) ELSE {})

media_grants_end(s) == Ok([s EXCEPT !.authority = @ \ {"display"}])

\* system_console_app_session_wait_end: a message in the endpoint is taken
\* while the kernel thread yields; the service comes back to its command
\* endpoint and the portals are idle, or the time is over.
app_session_wait_end(s) ==
  LET d == IF s.mode = "app" /\ s.appMsg /= 0 THEN handle_app_request(s) ELSE s IN
  IF s.svc = "RUNNING" /\ d.mode = "command" /\ ArchiveIdle(d)
    THEN Ok([d EXCEPT !.session = 0]) \union Faults(d) ELSE Fail(d)

\* The END that the kernel injects: delivered to the waiting service, or left
\* in the endpoint when the service has already returned to its commands.
InjectEnd(s) ==
  IF "app" \notin s.ends \/ s.closed \/ s.appMsg /= 0 THEN Fail(s)
  ELSE LET d == [s EXCEPT !.appMsg = s.session]
       IN Ok(IF s.mode = "app" THEN handle_app_request(d) ELSE d) \union Faults(s)

\* Defect: the last resort keeps the session it could not end.
LastResortInSession(s) == [s EXCEPT !.closed = TRUE, !.appMsg = 0]

LastResort(s) == [s EXCEPT !.session = 0, !.closed = TRUE, !.appMsg = 0]

app_session_abort(s) ==
  UNION {IF o.ok THEN {o} ELSE system_console_restart(LastResort(o.c)) :
           o \in Then(InjectEnd(s), app_session_wait_end)}

(***************************************************************************)
(* The foreground program.                                                 *)
(***************************************************************************)

program_terminate(s) ==
  IF s.program = "FREE" THEN Ok(s)
  ELSE Ok([s EXCEPT !.program = "FREE", !.started = 0,
                    !.event = IF s.program = "RUNNING" THEN "other" ELSE @])
       \union Faults(s)

\* The queue is drained; a program that still is watched keeps it alive.
queue_release(s) ==
  IF ~s.queue THEN Ok(s)
  ELSE IF s.program = "RUNNING" THEN Fail([s EXCEPT !.event = "none"])
  ELSE Ok([s EXCEPT !.queue = FALSE, !.event = "none"])

foreground_program_cleanup(s) ==
  Both(Both(program_terminate(s),
            LAMBDA d : IF d.session /= 0 THEN app_session_abort(d) ELSE Ok(d)),
       queue_release)

foreground_program_idle(s) == s.program = "FREE" /\ ~s.queue /\ s.session = 0

\* A request is taken from the endpoint before it is judged; one of another
\* incarnation is dropped.
launch_request_take(s) ==
  IF ~system_console_running(s) \/ s.launchMsg = NoRequest THEN Fail(s)
  ELSE {[ok |-> s.launchMsg.from = s.inc, c |-> [s EXCEPT !.launchMsg = NoRequest]]}

program_launch(s) ==
  Ok([s EXCEPT !.program = "RUNNING", !.started = s.session])
  \union Faults(s) \union Faults([s EXCEPT !.program = "RETAINED"])

\* Defect: a launch that fails returns before it gives its authorities back.
LaunchWithoutEnd(s, media) ==
  Then(IF media THEN media_grants_begin(s) ELSE Ok(s),
       LAMBDA d : Then(Then(program_launch(d), app_client_grant_end), media_grants_end))

\* The authorities are given back whether or not the launch succeeded.
Launch(s, media) ==
  Then(IF media THEN media_grants_begin(s) ELSE Ok(s),
       LAMBDA d : Both(Both(program_launch(d), app_client_grant_end), media_grants_end))

\* foreground_program_run_pending up to the wait.
RunBegin(s, media) ==
  Then(Then(IF foreground_program_idle(s) THEN Ok(s) ELSE foreground_program_cleanup(s),
            launch_request_take),
       LAMBDA d : Recover(Then(Then(Then(Ok([d EXCEPT !.queue = TRUE]) \union Faults(d), app_session_begin),
                                    app_client_grant_begin),
                               LAMBDA e : Launch(e, media)),
                          foreground_program_cleanup))

\* foreground_program_run_pending after the wait: the session must end, the
\* exit record must be this program's and normal, and all is released.
RunEnd(s, dead) ==
  Recover(IF ~dead THEN Fail(s)
          ELSE Then(Then(app_session_wait_end(s),
                         LAMBDA d : IF d.event = "normal" THEN Ok([d EXCEPT !.event = "none"]) ELSE Fail(d)),
                    LAMBDA d : Then(program_terminate(d), queue_release)),
          foreground_program_cleanup)

(***************************************************************************)
(* The background service.                                                 *)
(***************************************************************************)

service_request_take(s) ==
  IF ~system_console_running(s) \/ s.serviceMsg = NoRequest THEN Fail(s)
  ELSE {[ok |-> s.serviceMsg.from = s.inc, c |-> [s EXCEPT !.serviceMsg = NoRequest]]}

release_slot(s) ==
  IF s.worker = "STOPPED" THEN Ok(s)
  ELSE Ok([s EXCEPT !.worker = "STOPPED"]) \union Faults([s EXCEPT !.worker = "FAILED"])

start_extent(s) ==
  Ok([s EXCEPT !.worker = "RUNNING"]) \union Faults(s) \union Faults([s EXCEPT !.worker = "FAILED"])

\* background_service_handle_pending, one operation each.
BackgroundOp(s, op) ==
  CASE op = "START" /\ s.worker = "RUNNING" -> Ok(s)
    [] op \in {"START", "RESTART"} -> Then(release_slot(s), start_extent)
    [] op = "STOP" -> release_slot(s)
    [] op = "DIAG_FAULT" /\ s.worker = "RUNNING" -> Ok([s EXCEPT !.worker = "FAILED"]) \union Faults(s)
    [] OTHER -> Ok(s)

background_service_handle_pending(s) ==
  LET op == s.serviceMsg.op IN Then(service_request_take(s), LAMBDA d : BackgroundOp(d, op))

(***************************************************************************)
(* The loop of the kernel thread.                                          *)
(***************************************************************************)

userspace_shell_recover(s) == Then(system_console_restart(s), system_console_shell_activate)

ActivateOrRecover(s) ==
  UNION {IF o.ok THEN {o} ELSE userspace_shell_recover(o.c) : o \in system_console_shell_activate(s)}

\* Next position of the loop: on in the shell, or out to the monitor.
Continue(S) == \E o \in S : c' = o.c /\ pc' = IF o.ok THEN "shell" ELSE "monitor"

\* kernel_main starts the console once; without it the machine halts.
Boot ==
  /\ pc = "boot"
  /\ \E o \in system_console_start(c) : c' = o.c /\ pc' = IF o.ok THEN "monitor" ELSE "off"
  /\ UNCHANGED asked

\* The objects of a whole console, or of none, and no others but the service in
\* the background slot: no program, exit queue or authority is left over.
power_object_state_clean(s) ==
  /\ system_console_present(s) =>
       s.portals = BothPortals /\ s.ends = Ends /\ s.inputCap /\ s.svc /= "STOPPED"
  /\ s.program = "FREE" /\ ~s.queue /\ s.authority = {}

\* power_quiesce: the background service and the console are stopped.  Whether
\* that succeeds or not, the machine does not go on: it is powered off or halts.
Shutdown ==
  /\ pc = "monitor" /\ power_object_state_clean(c)
  /\ \E o \in Then(release_slot(c),
                   LAMBDA d : IF system_console_present(d) THEN system_console_stop(d) ELSE Ok(d)) :
       c' = o.c
  /\ pc' = "off" /\ UNCHANGED asked

MonitorWrites ==
  /\ pc = "monitor" /\ system_console_idle(c)
  /\ \E o \in system_console_putchar(c) : c' = o.c
  /\ UNCHANGED <<pc, asked>>

userspace_shell_run ==
  /\ pc = "monitor"
  /\ Continue(system_console_shell_activate(c)) /\ UNCHANGED asked

Actions == {"NONE", "RETURN_MONITOR", "RUN_GRAPHICS", "RUN", "PLAY",
            "START", "STOP", "RESTART", "STATUS", "DIAG_FAULT"}

\* A key is handled and its action followed; a failed transaction restarts the
\* console, and the key is not replayed.
KeyEvent ==
  /\ pc = "shell"
  /\ \E action \in Actions :
       LET done == IF c.shell = "ACTIVE" THEN action ELSE "NONE" IN
       \E o \in system_console_input_event(c, action) :
         IF o.ok
           THEN /\ c' = o.c
                /\ asked' = done
                /\ pc' = CASE done = "NONE" -> "shell"
                           [] done = "RETURN_MONITOR" -> "monitor"
                           [] OTHER -> "broker"
           ELSE Continue(userspace_shell_recover(o.c)) /\ UNCHANGED asked

Escape ==
  /\ pc = "shell"
  /\ \E o \in system_console_shell_deactivate(c) : c' = o.c
  /\ pc' = "monitor" /\ UNCHANGED asked

RunForeground ==
  /\ pc = "broker" /\ asked \in {"RUN", "PLAY"}
  /\ \E o \in RunBegin(c, asked = "PLAY") :
       IF o.ok THEN c' = o.c /\ pc' = "waiting"
               ELSE Continue(ActivateOrRecover(o.c))
  /\ UNCHANGED asked

ForegroundOver(dead) == \E o \in RunEnd(c, dead) : Continue(ActivateOrRecover(o.c))

\* foreground_wait returns: the program is dead, the user pressed Escape, or a
\* key could not be delivered in time.
ForegroundWait ==
  /\ pc = "waiting"
  /\ IF c.program = "DEAD" THEN ForegroundOver(TRUE) ELSE ForegroundOver(FALSE)
  /\ UNCHANGED asked

\* A key for the program waits in the input endpoint until it is read.
KeyToProgram ==
  /\ pc = "waiting" /\ c.program = "RUNNING" /\ c.inputMsg = 0 /\ c.inputCap
  /\ c' = [c EXCEPT !.inputMsg = c.session]
  /\ UNCHANGED <<pc, asked>>

\* graphical_session_run does not touch the console.
RunGraphics ==
  /\ pc = "broker" /\ asked = "RUN_GRAPHICS"
  /\ Continue(ActivateOrRecover(c)) /\ UNCHANGED asked

ServiceControl ==
  /\ pc = "broker" /\ asked \in {"START", "STOP", "RESTART", "STATUS", "DIAG_FAULT"}
  /\ \E o \in Then(background_service_handle_pending(c), system_console_service_result) :
       IF o.ok THEN c' = o.c /\ pc' = "shell" ELSE Continue(userspace_shell_recover(o.c))
  /\ UNCHANGED asked

(***************************************************************************)
(* The other processes, between operations of the kernel thread.           *)
(***************************************************************************)

\* The console service faults or exits.
ServiceDies ==
  /\ c.svc = "RUNNING" /\ c.faults < FaultLimit
  /\ c' = [Dead(c) EXCEPT !.svc = "FAILED", !.faults = @ + 1]
  /\ UNCHANGED <<pc, asked>>

\* The program reads its key, or writes END; the service takes it when it is
\* waiting on the application endpoint.
ProgramReadsKey ==
  /\ c.program = "RUNNING" /\ c.inputMsg /= 0
  /\ c' = [c EXCEPT !.inputMsg = 0] /\ UNCHANGED <<pc, asked>>

ProgramSendsEnd ==
  /\ c.program = "RUNNING" /\ c.appMsg = 0 /\ ~c.closed
  /\ c' = [c EXCEPT !.appMsg = c.started] /\ UNCHANGED <<pc, asked>>

ServiceTakes ==
  /\ c.svc = "RUNNING" /\ c.mode = "app" /\ c.appMsg /= 0
  /\ c' = handle_app_request(c) /\ UNCHANGED <<pc, asked>>

ProgramExits ==
  /\ c.program = "RUNNING"
  /\ \E reason \in {"normal", "other"} : c' = [c EXCEPT !.program = "DEAD", !.event = reason]
  /\ UNCHANGED <<pc, asked>>

Next ==
  /\ pc /= "off"
  /\ \/ Boot \/ Shutdown \/ MonitorWrites \/ userspace_shell_run
     \/ KeyEvent \/ Escape \/ RunForeground \/ ForegroundWait \/ KeyToProgram
     \/ RunGraphics \/ ServiceControl
     \/ ServiceDies \/ ProgramReadsKey \/ ProgramSendsEnd \/ ServiceTakes \/ ProgramExits

Spec == Init /\ [][Next]_vars

(***************************************************************************)
(* Properties.                                                             *)
(***************************************************************************)

\* The console with no further lower-level failure to come.
Settled == [c EXCEPT !.faults = FaultLimit]

\* userspace_shell_recover gives an idle console with an active shell.
ComesBack(s) ==
  \A o \in userspace_shell_recover(s) : o.ok /\ system_console_idle(o.c) /\ o.c.shell = "ACTIVE"

\* Whatever failed before and in whatever order, the console is not stuck.  A
\* session is open only while its program is waited for.  Without a program, one
\* userspace_shell_recover in which nothing fails brings the console and the
\* shell back; with one, also one whose release failed, the same holds after one
\* foreground_program_cleanup.  The loop of the shell runs the recovery after
\* every failed transaction, and foreground_program_run_pending the clean-up
\* before it returns.  A clean-up that failed is tried again only by the next
\* program to be run, which needs a console: until then the restart fails
\* at app_endpoint_destroy, as the retained program refers to the endpoint.
Recoverable ==
  pc \notin {"boot", "off"} =>
    /\ pc /= "waiting" => c.session = 0
    /\ c.inc < StartLimit /\ c.session = 0 /\ c.program = "FREE" => ComesBack(Settled)
    /\ c.inc < StartLimit - 1 =>
         \A o \in foreground_program_cleanup(Settled) : o.ok /\ ComesBack(o.c)

\* The authorities a launch inserts into the kernel's table are gone when the
\* launch is over, whichever way it went.
AuthorityOnlyWhileLaunching == c.authority = {}

\* A program finds in its input endpoint only keys typed in its own session,
\* and the service never takes an END of another session for its own: as long
\* as the program runs and has not written END, the service serves it.
SessionsDoNotMix ==
  c.program = "RUNNING" =>
    /\ c.inputMsg \in {0, c.started}
    /\ c.mode = "app" => c.believed = c.started
==============================================================================
