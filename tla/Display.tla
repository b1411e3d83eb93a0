------------------------------- MODULE Display -------------------------------
(***************************************************************************)
(* The Ring 3 display: the display service that borrows the framebuffer,   *)
(* the compositor service that drives it, one surface written by a         *)
(* graphical client and read by the display service, and the kernel's      *)
(* graphical session that puts the four together and takes them apart      *)
(* (kernel/display_surface.c, display_service.c, compositor_service.c,     *)
(* graphical_session.c, input_router.c).                                   *)
(*                                                                         *)
(* The kernel side is one thread; the three programs may die between any   *)
(* two of its steps.  An operation is a map from the state c to the set of *)
(* its outcomes (module Outcomes).  Two of the services' managed-service   *)
(* calls are kept as what ManagedService promises: a start, a call, a stop *)
(* or a recovery succeeds or leaves the state its failure leaves.          *)
(* Capability revocations of valid handles succeed, and an endpoint is     *)
(* destroyed exactly when nothing refers to it.                            *)
(***************************************************************************)
EXTENDS Outcomes

CONSTANT Programs     \* processes created in a behaviour

VARIABLE
  c     \* the state of the kernel's display objects and of the three programs

displayVars == <<c>>

Services == {"display", "compositor"}
Gone == [st |-> "STOPPED", pid |-> 0]
NoClient == [active |-> FALSE, ep |-> FALSE, pid |-> 0]

\* Nothing held, the kernel draws.
Blank ==
  [svc |-> [v \in Services |-> Gone],
   surface |-> FALSE, writer |-> 0, reader |-> 0,   \* DisplaySurface
   slot |-> FALSE, client |-> NoClient,             \* g_surfaces[0], g_client
   grant |-> FALSE, focus |-> FALSE, shown |-> FALSE, \* compositor_service.c, its slot table
   lease |-> "KERNEL", owner |-> 0,
   app |-> "none", apid |-> 0, queue |-> FALSE, wpid |-> 0, active |-> FALSE,
   next |-> 1, faults |-> 0]

\* BUSY: managed_service_state says RUNNING, but the service never returns to
\* its receive.
Running(s, v) == s.svc[v].st \in {"RUNNING", "BUSY"}
Idle(s, v) == s.svc[v].st = "RUNNING"
Stopped(s, v) == s.svc[v].st = "STOPPED"

(***************************************************************************)
(* What the managed services promise (module ManagedService).              *)
(***************************************************************************)
Start(s, v) ==
  LET started(st) == [s EXCEPT !.svc[v] = [st |-> st, pid |-> s.next], !.next = @ + 1]
  IN  Ok(started("RUNNING")) \cup Faults(s) \cup Faults(started("REAP_PENDING"))

Release(s, v) ==
  Ok([s EXCEPT !.svc[v] = Gone])
  \cup UNION {Faults([s EXCEPT !.svc[v] = [st |-> "REAP_PENDING", pid |-> p]]) :
                p \in {0, s.svc[v].pid}}

StopBounded(s, v) == IF Stopped(s, v) THEN Fail(s) ELSE Release(s, v)

RecoverService(s, v) ==
  IF Stopped(s, v) THEN Ok(s) ELSE IF Running(s, v) THEN Fail(s) ELSE Release(s, v)

\* A request is only made to an idle service; one that is not answered in time
\* leaves the service FAILED.
Call(s, v) ==
  IF Idle(s, v) THEN Ok(s) \cup Faults(s) \cup Faults([s EXCEPT !.svc[v].st = "FAILED"]) ELSE Fail(s)

(***************************************************************************)
(* The surface: one frame, at most one writer and one reader.              *)
(***************************************************************************)
display_surface_create(s) ==
  IF s.surface THEN Fail(s) ELSE Ok([s EXCEPT !.surface = TRUE]) \cup Faults(s)

\* Defect: the frame is freed although the display service still maps it.
DestroyedUnderReader(s) ==
  IF ~s.surface THEN Ok(s)
  ELSE IF s.writer /= 0 THEN Fail(s)
  ELSE Ok([s EXCEPT !.surface = FALSE])

display_surface_destroy(s) ==
  IF ~s.surface THEN Ok(s)
  ELSE IF s.writer /= 0 \/ s.reader /= 0 THEN Fail(s)
  ELSE Ok([s EXCEPT !.surface = FALSE])

display_surface_writer_mapping(s) == Check(s, s.surface /\ s.writer = 0)

display_surface_writer_claim(s) ==
  IF s.surface /\ s.writer = 0 THEN Ok([s EXCEPT !.writer = s.apid]) ELSE Fail(s)

display_surface_writer_release(s, pid) ==
  IF s.surface /\ pid /= 0 /\ s.writer = pid THEN Ok([s EXCEPT !.writer = 0]) ELSE Fail(s)

display_surface_map_reader(s, pid) ==
  IF s.surface /\ s.reader = 0 /\ pid /= 0
  THEN Ok([s EXCEPT !.reader = pid]) \cup Faults(s) ELSE Fail(s)

display_surface_unmap_reader(s, pid) ==
  IF s.surface /\ s.reader /= 0 /\ s.reader = pid THEN Ok([s EXCEPT !.reader = 0]) ELSE Fail(s)

display_surface_reader_mapping_valid(s, pid) == s.surface /\ s.reader /= 0 /\ s.reader = pid

(***************************************************************************)
(* The compositor service: its grant on the display, the focused slot.     *)
(***************************************************************************)
release_display_grant(s) == Ok([s EXCEPT !.grant = FALSE])

compositor_service_stop(s) ==
  IF Stopped(s, "compositor") THEN Ok([s EXCEPT !.focus = FALSE, !.grant = FALSE])
  ELSE IF ~Running(s, "compositor") THEN Fail(s)
  ELSE Then(StopBounded(s, "compositor"),
            LAMBDA t : Ok([t EXCEPT !.focus = FALSE, !.grant = FALSE, !.shown = FALSE]))

compositor_service_recover(s) ==
  Then(RecoverService(s, "compositor"),
       LAMBDA t : Ok([t EXCEPT !.focus = FALSE, !.grant = FALSE, !.shown = FALSE]))

compositor_service_cleanup(s) ==
  IF Running(s, "compositor") THEN compositor_service_stop(s) ELSE compositor_service_recover(s)

compositor_service_surface_configure(s) ==
  Then(Call(s, "compositor"), LAMBDA t : Ok([t EXCEPT !.shown = TRUE]))

compositor_service_surface_remove(s) ==
  Then(Call(s, "compositor"), LAMBDA t : Ok([t EXCEPT !.shown = FALSE, !.focus = FALSE]))

compositor_focus_request(s, focused) ==
  Then(Call(s, "compositor"), LAMBDA t : Ok([t EXCEPT !.focus = focused]))

compositor_service_focus_clear(s) ==
  IF ~Running(s, "compositor") THEN Check(s, ~s.focus)
  ELSE IF ~s.focus THEN Ok(s)
  ELSE compositor_focus_request(s, FALSE)

compositor_service_focus_slot(s) == Running(s, "compositor") /\ s.focus

\* The compositor draws through the display service: with that one dead or busy
\* its reply never comes.
compositor_service_compose(s) ==
  IF Idle(s, "display") THEN Call(s, "compositor")
  ELSE IF Idle(s, "compositor") THEN Fail([s EXCEPT !.svc["compositor"].st = "FAILED"])
  ELSE Fail(s)

(***************************************************************************)
(* The display service.                                                    *)
(***************************************************************************)
\* display_direct_abort and display_direct_reclaim, by the lease's state.
lease_release_after_service(s, owner) ==
  IF s.lease = "USER" /\ (owner = 0 \/ owner /= s.owner) THEN Fail(s)
  ELSE Ok([s EXCEPT !.lease = "KERNEL", !.owner = 0])

\* managed_service_stop_bounded, then the lease when the process is gone.
StopAndReturn(s) ==
  Then(StopBounded(s, "display"),
       LAMBDA t : lease_release_after_service(t, s.svc["display"].pid))

configure_pixel_masks(s) == Call(s, "display")

\* Defect: a failed start returns the framebuffer with the process still there.
StartReturnsLease(s) ==
  LET prepare == IF s.slot \/ s.client.active \/ s.lease /= "KERNEL"
                      \/ ~(\A v \in Services : Stopped(s, v))
                 THEN Fail(s) ELSE Ok([s EXCEPT !.lease = "HANDOFF"]) \cup Faults(s)
      launch(t) == Recover(Start(t, "display"), LAMBDA u : Ok([u EXCEPT !.lease = "KERNEL"]))
      commit(t) == Ok([t EXCEPT !.lease = "USER", !.owner = t.svc["display"].pid]) \cup Faults(t)
      configure(t) == Recover(Then(commit(t), configure_pixel_masks), StopAndReturn)
  IN  Then(Then(prepare, launch), configure)

display_service_start(s) ==
  LET prepare == IF s.slot \/ s.client.active \/ s.lease /= "KERNEL"
                      \/ ~(\A v \in Services : Stopped(s, v))
                 THEN Fail(s) ELSE Ok([s EXCEPT !.lease = "HANDOFF"]) \cup Faults(s)
      aborted(t) == IF Stopped(t, "display") THEN Ok([t EXCEPT !.lease = "KERNEL"]) ELSE Ok(t)
      launch(t) == Recover(Start(t, "display"), aborted)
      commit(t) == Ok([t EXCEPT !.lease = "USER", !.owner = t.svc["display"].pid]) \cup Faults(t)
      configure(t) == Recover(Then(commit(t), configure_pixel_masks), StopAndReturn)
  IN  Then(Then(prepare, launch), configure)

display_service_surface_slot_mapping_valid(s) ==
  /\ Running(s, "display") /\ s.slot
  /\ display_surface_reader_mapping_valid(s, s.svc["display"].pid)

\* The service is back at its receive, or the wait runs out.
wait_idle(s) == IF Idle(s, "display") THEN Ok(s) \cup Faults(s) ELSE Fail(s)

display_service_surface_attach_slot(s) ==
  IF ~Running(s, "display") \/ ~s.surface \/ s.slot THEN Fail(s)
  ELSE Then(Then(wait_idle(s), LAMBDA t : display_surface_map_reader(t, t.svc["display"].pid)),
            LAMBDA t : Ok([t EXCEPT !.slot = TRUE]))

display_service_surface_configure(s) ==
  IF display_service_surface_slot_mapping_valid(s) THEN compositor_service_surface_configure(s)
  ELSE Fail(s)

display_service_surface_remove(s) ==
  IF s.slot /\ Running(s, "compositor") THEN compositor_service_surface_remove(s) ELSE Fail(s)

display_service_surface_detach_slot(s) ==
  LET pid == s.svc["display"].pid
      quiet(t) == IF Running(t, "compositor") THEN display_service_surface_remove(t)
                  ELSE Check(t, Stopped(t, "compositor"))
      unmap(t) == Then(display_surface_unmap_reader(t, pid), LAMBDA u : Ok([u EXCEPT !.slot = FALSE]))
  IN  IF s.client.active THEN Fail(s)
      ELSE IF ~s.slot THEN Ok(s)
      ELSE IF pid = 0 THEN Fail(s)
      ELSE Then(IF Running(s, "display") THEN Then(wait_idle(s), quiet) ELSE Ok(s), unmap)

display_service_client_grant_begin(s) ==
  IF ~display_service_surface_slot_mapping_valid(s) THEN Fail(s)
  ELSE Then(wait_idle(s), LAMBDA t : Ok([t EXCEPT !.grant = TRUE]) \cup Faults(t))

\* The grant only lives for the launch: the child has its own capabilities.
compositor_service_start(s) ==
  LET launched(t) == Both(Start(t, "compositor"), release_display_grant)
      undone(t) == IF Running(t, "compositor") THEN StopBounded(t, "compositor") ELSE Ok(t)
  IN  IF ~Running(s, "display") \/ ~Stopped(s, "compositor") \/ s.focus \/ s.grant THEN Fail(s)
      ELSE Then(display_service_client_grant_begin(s), LAMBDA t : Recover(launched(t), undone))

(***************************************************************************)
(* The input client: the endpoint through which focused keys reach the     *)
(* client.  Until it is bound the kernel holds the receive authority.      *)
(***************************************************************************)
display_service_input_client_begin(s) ==
  IF s.client.ep \/ s.client.active \/ s.writer /= 0
     \/ ~display_service_surface_slot_mapping_valid(s) THEN Fail(s)
  ELSE Then(wait_idle(s),
            LAMBDA t : Ok([t EXCEPT !.client = [active |-> TRUE, ep |-> TRUE, pid |-> 0]])
                       \cup Faults(t))

display_service_input_client_bind(s) ==
  IF s.client.active /\ s.client.pid = 0 /\ s.writer = s.apid /\ s.apid /= 0
  THEN Ok([s EXCEPT !.client.pid = s.apid]) ELSE Fail(s)

\* The endpoint is only destroyed once the client's own capability is gone.
input_client_rollback(s) ==
  IF s.app \in {"none", "unmade"} THEN Ok([s EXCEPT !.client = NoClient])
  ELSE Fail([s EXCEPT !.client.active = FALSE])

display_focus_request(s) ==
  IF /\ display_service_surface_slot_mapping_valid(s)
     /\ s.client.active /\ s.client.pid /= 0 /\ s.writer = s.client.pid
  THEN compositor_focus_request(s, TRUE) ELSE Fail(s)

display_service_input_client_end(s) ==
  IF ~s.client.active THEN IF s.client.ep THEN input_client_rollback(s) ELSE Ok(s)
  ELSE IF s.writer /= 0 \/ s.app \in {"alive", "dead"} THEN Fail(s)
  ELSE Then(IF compositor_service_focus_slot(s) THEN compositor_service_focus_clear(s) ELSE Ok(s),
            input_client_rollback)

\* The event is handed over only to a client that waits for it.
display_service_input_event(s) ==
  IF /\ compositor_service_focus_slot(s)
     /\ s.client.active /\ s.client.pid /= 0 /\ s.writer = s.client.pid
     /\ s.app = "alive"
  THEN Ok(s) \cup Faults(s) ELSE Fail(s)

input_route_event(s) ==
  IF ~Running(s, "display") \/ ~compositor_service_focus_slot(s) THEN Fail(s)
  ELSE display_service_input_event(s)

display_service_stop(s) ==
  IF s.client.active \/ ~Stopped(s, "compositor") THEN Fail(s)
  ELSE IF Stopped(s, "display")
  THEN IF s.slot THEN Fail(s) ELSE lease_release_after_service(s, s.owner)
  ELSE IF ~Running(s, "display") THEN Fail(s)
  ELSE Then(display_service_surface_detach_slot(s), StopAndReturn)

display_service_recover(s) ==
  LET owner == IF s.svc["display"].pid /= 0 THEN s.svc["display"].pid ELSE s.owner
  IN  IF s.client.active \/ ~Stopped(s, "compositor") THEN Fail(s)
      ELSE Then(Then(display_service_surface_detach_slot(s),
                     LAMBDA t : RecoverService(t, "display")),
                LAMBDA t : lease_release_after_service(t, owner))

display_service_cleanup(s) ==
  IF Running(s, "display") THEN display_service_stop(s) ELSE display_service_recover(s)

(***************************************************************************)
(* The graphical session.  A failed launch may leave an instance whose     *)
(* clean-up is owed ("unmade"): it never ran.                              *)
(***************************************************************************)
program_launch(s) ==
  LET with(app) == [s EXCEPT !.app = app, !.apid = s.next, !.next = @ + 1]
  IN  Ok(with("alive")) \cup Faults(s) \cup Faults(with("unmade"))

release_app(s) ==
  IF s.app = "none" THEN Ok(s) ELSE Ok([s EXCEPT !.app = "none", !.apid = 0]) \cup Faults(s)

\* Its watch ends with the program.
release_exit_queue(s) ==
  IF ~s.queue THEN Ok(s) ELSE IF s.app /= "none" THEN Fail(s) ELSE Ok([s EXCEPT !.queue = FALSE])

release_writer(s) ==
  IF s.wpid = 0 THEN Ok(s)
  ELSE Then(display_surface_writer_release(s, s.wpid), LAMBDA t : Ok([t EXCEPT !.wpid = 0]))

Retained(s) ==
  \/ s.active \/ s.queue \/ s.wpid /= 0 \/ s.app /= "none" \/ s.client.active \/ s.client.ep
  \/ s.surface \/ \E v \in Services : ~Stopped(s, v)

\* Defect: the surface is not waited for: the display service is stopped first.
CleansServiceFirst(s) ==
  LET clear == IF compositor_service_focus_slot(s) THEN compositor_service_focus_clear(s) ELSE Ok(s)
      app == Then(Then(Both(clear, release_app), release_writer), release_exit_queue)
      comp == Both(app, compositor_service_cleanup)
      dead == Both(comp, LAMBDA t : RecoverService(t, "display"))
      disp == Both(Both(dead, display_service_input_client_end), display_service_cleanup)
  IN  IF ~Retained(s) THEN Ok(s)
      ELSE Then(Both(disp, display_surface_destroy), LAMBDA t : Ok([t EXCEPT !.active = FALSE]))

graphical_session_cleanup(s) ==
  LET clear == IF compositor_service_focus_slot(s) THEN compositor_service_focus_clear(s) ELSE Ok(s)
      app == Then(Then(Both(clear, release_app), release_writer), release_exit_queue)
      comp == Both(Both(app, display_service_input_client_end), compositor_service_cleanup)
      detached == Both(comp, display_service_surface_detach_slot)
      disp == Both(detached, display_service_cleanup)
  IN  IF ~Retained(s) THEN Ok(s)
      ELSE Then(Both(disp, display_surface_destroy), LAMBDA t : Ok([t EXCEPT !.active = FALSE]))

\* wait_app_blocked: the client reaches its receive, or the wait runs out.
wait_app_blocked(s) == IF s.app = "alive" THEN Ok(s) \cup Faults(s) ELSE Fail(s)

graphical_session_start(s) ==
  LET ready(t) == Check(t, (\A v \in Services : Stopped(t, v)) /\ ~t.slot /\ ~t.client.active
                           /\ ~t.focus /\ t.lease = "KERNEL" /\ t.owner = 0)
      services(t) == Then(Then(Then(Then(display_surface_create(t), display_service_start),
                                    display_service_surface_attach_slot), compositor_service_start),
                          display_service_input_client_begin)
      queue(t) == Ok([t EXCEPT !.queue = TRUE]) \cup Faults(t)
      client(t) == Then(Then(display_surface_writer_mapping(t), program_launch),
                        display_surface_writer_claim)
      bound(t) == Then(Then(display_service_input_client_bind([t EXCEPT !.wpid = t.apid]),
                            wait_app_blocked), display_service_surface_configure)
      shown(t) == Then(Then(Then(bound(t), display_focus_request), compositor_service_compose),
                       LAMBDA u : Ok([u EXCEPT !.active = TRUE]))
      build(t) == Recover(Then(Then(Then(services(t), queue), client), shown),
                          graphical_session_cleanup)
  IN  IF s.active THEN Fail(s)
      ELSE Then(Then(graphical_session_cleanup(s), ready), build)

graphical_session_handle_event(s) ==
  IF /\ s.active /\ Running(s, "display") /\ Running(s, "compositor") /\ s.app = "alive"
     /\ compositor_service_focus_slot(s)
  THEN Then(Then(input_route_event(s), wait_app_blocked), compositor_service_compose)
  ELSE Fail(s)

graphical_session_stop(s) == graphical_session_cleanup(s)

(***************************************************************************)
(* The kernel thread's calls, and the programs' deaths.                    *)
(***************************************************************************)
Init == c = Blank

Outcome(S) == \E o \in S : c' = o.c

\* Each session uses three processes.
StartSession == c.next + 2 <= Programs /\ Outcome(graphical_session_start(c))

\* A key: handled, or the session is stopped as it is on Escape.
SessionKey ==
  /\ c.active
  /\ \E o \in graphical_session_handle_event(c) :
       IF o.ok THEN c' = o.c ELSE Outcome(graphical_session_stop(o.c))

\* Escape, a component found dead, or the shell's clean-up after a failure.
StopSession == Retained(c) /\ Outcome(graphical_session_stop(c))

ServiceDies ==
  /\ c.faults < FaultLimit
  /\ \E v \in Services :
       Running(c, v) /\ c' = [c EXCEPT !.svc[v].st = "FAILED", !.faults = @ + 1]

\* A service stays away from its receive: it loops, or waits for somebody else.
ServiceHangs ==
  /\ c.faults < FaultLimit
  /\ \E v \in Services :
       Idle(c, v) /\ c' = [c EXCEPT !.svc[v].st = "BUSY", !.faults = @ + 1]

ClientDies ==
  /\ c.app = "alive" /\ c.faults < FaultLimit
  /\ c' = [c EXCEPT !.app = "dead", !.faults = @ + 1]

Next == StartSession \/ SessionKey \/ StopSession \/ ServiceDies \/ ServiceHangs \/ ClientDies

DisplaySpec == Init /\ [][Next]_displayVars

(***************************************************************************)
(* Properties.                                                             *)
(***************************************************************************)
\* A surface's frame is never freed (display_surface_destroy) while a
\* process that can still run has it mapped: the display service as its
\* reader or the client as its writer, whatever failed in the clean-up.
FrameOutlivesMappings == ~c.surface => c.reader = 0 /\ c.app /= "alive"

\* The kernel only counts the framebuffer as its own again when the display
\* service's process, which has it mapped, no longer exists.
KernelDrawsAlone == c.lease = "KERNEL" => c.svc["display"].pid = 0

Settled == [c EXCEPT !.faults = FaultLimit]
Cleaned(s) == [s EXCEPT !.next = 1, !.faults = 0] = Blank
CleansUp(s) == \A o \in graphical_session_cleanup(s) : o.ok /\ Cleaned(o.c)

\* From every state, however it failed before, graphical_session_cleanup with no
\* further failure gives everything back: no process, no surface, no endpoint,
\* no focus, the framebuffer with the kernel.  One call does when no service
\* hangs; a hung compositor is stopped by the first call, which may report
\* failure, and the second does the rest.  While the display service hangs with
\* the surface attached, display_service_surface_detach_slot refuses to unmap
\* under it: then the client, its endpoint and the compositor still go within
\* two calls, the surface and the framebuffer stay with the service, and the
\* rest goes as soon as it dies.
SessionRecoverable ==
  IF c.svc["display"].st = "BUSY" /\ c.slot
  THEN \A o \in Both(graphical_session_cleanup(Settled), graphical_session_cleanup) :
         /\ ~o.ok /\ o.c.surface /\ o.c.svc["display"] = c.svc["display"] /\ o.c.lease = c.lease
         /\ o.c.app = "none" /\ o.c.client = NoClient /\ Stopped(o.c, "compositor")
         /\ CleansUp([o.c EXCEPT !.svc["display"].st = "FAILED"])
  ELSE IF c.svc["compositor"].st = "BUSY"
  THEN \A o \in graphical_session_cleanup(Settled) : CleansUp(o.c)
  ELSE CleansUp(Settled)
=============================================================================
