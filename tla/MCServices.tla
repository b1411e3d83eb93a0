------------------------------ MODULE MCServices ------------------------------
(***************************************************************************)
(* The supervisor, the console and the display, one part at a time: the    *)
(* console service with its sessions and launches, the portals it reads    *)
(* and writes through, the serial worker, keyboard and serial input, the   *)
(* line editors on the terminal; the guarded scanout with the native       *)
(* controller, the plane's programming, graphical sessions and their       *)
(* composition.  A behaviour is one part's; the variables of the others    *)
(* are absent (0) in it.                                                   *)
(***************************************************************************)
EXTENDS Integers, TLC

CONSTANTS Parts, Callers, None, LateCalls, MediaRefused

VARIABLES
  part,
  c, pc, asked,
  portal, slot, client, portal_faults,
  w, owner, worker, request, reply, served, told, worker_faults,
  g_initialized, held, caps, fifo, decoder, ring, line, parser, focus, taken, presses,
  kind, e, t, keys, start, slipped,
  state, incarnation, next_incarnation, last_exit, last_stop_result, objects_held, program, thread, event,
  command, answer_box, serving, connection, call, requests, faults, answer, ran, g_rpc_owner,
  f, painter, present, gui, alias, n,
  honest, plan, gate, driver, talk,
  d,
  kernel, comp, disp, screen, surfaces

Console == INSTANCE Console WITH StartLimit <- 4, SessionLimit <- 3, FaultLimit <- 2

Portals == INSTANCE Portals WITH
  Archive <- <<"p", "q", "r">>, MaxRead <- 2, Attempts <- 4, ClientLimit <- 2, StartLimit <- 2, FaultLimit <- 2,
  faults <- portal_faults

Worker == INSTANCE SerialWorker WITH CallLimit <- 3, FaultLimit <- 2, faults <- worker_faults

Input == INSTANCE Input WITH QueueSize <- 2, DrainLimit <- 3, PollLimit <- 2, FifoLimit <- 6, KeyLimit <- 3

Editor == INSTANCE LineEditor WITH
  Columns <- 4, Rows <- 2, Scrollback <- 4, Capacity <- 5, HistoryCapacity <- 2, Prompt <- <<">">>, KeyLimit <- 6

Supervisor == INSTANCE Supervisor WITH
  IncarnationLimit <- 2, RequestLimit <- 2, FaultLimit <- 0,
  held <- objects_held, reply <- answer_box

Native == INSTANCE Native

Rebind == INSTANCE Rebind WITH Polls <- 2, Modulus <- 6, MaxDelta <- 4

Session == INSTANCE Display WITH FaultLimit <- 4, Programs <- 6, c <- d

Compose == INSTANCE Compose WITH
  Width <- 3, Height <- 2, Stride <- 4, SurfaceW <- 2, SurfaceH <- 1, NSlots <- 2, Zs <- {0, 1}, MaxWrites <- 1,
  Rects <- {[x |-> 0, y |-> 0, w |-> 2, h |-> 1], [x |-> 1, y |-> 0, w |-> 1, h |-> 2]}

console == <<c, pc, asked>>
portals == <<portal, slot, client, portal_faults>>
serial == <<w, owner, worker, request, reply, served, told, worker_faults>>
input == <<g_initialized, held, caps, fifo, decoder, ring, line, parser, focus, taken, presses>>
editor == <<kind, e, t, keys, start, slipped>>

supervisor == <<state, incarnation, next_incarnation, last_exit, last_stop_result, objects_held, program, thread, event,
                command, answer_box, serving, connection, call, requests, faults, answer, ran, g_rpc_owner>>
native == <<f, painter, present, gui, alias, n>>
rebind == <<honest, plan, gate, driver, talk>>
session == <<d>>
compose == <<kernel, comp, disp, screen, surfaces>>

Init ==
  /\ part \in Parts
  /\ IF part = "console" THEN Console!Init ELSE c = 0 /\ pc = 0 /\ asked = 0
  /\ IF part = "portals" THEN Portals!Init ELSE portal = 0 /\ slot = 0 /\ client = 0 /\ portal_faults = 0
  /\ IF part = "serial" THEN Worker!Init
     ELSE w = 0 /\ owner = 0 /\ worker = 0 /\ request = 0 /\ reply = 0 /\ served = 0 /\ told = 0 /\ worker_faults = 0
  /\ IF part = "input" THEN Input!Init
     ELSE /\ g_initialized = 0 /\ held = 0 /\ caps = 0 /\ fifo = 0 /\ decoder = 0 /\ ring = 0 /\ line = 0 /\ parser = 0
          /\ focus = 0 /\ taken = 0 /\ presses = 0
  /\ IF part = "editor" THEN Editor!Init ELSE kind = 0 /\ e = 0 /\ t = 0 /\ keys = 0 /\ start = 0 /\ slipped = 0
  /\ IF part = "supervisor" THEN Supervisor!SupervisorInit
     ELSE /\ state = 0 /\ incarnation = 0 /\ next_incarnation = 0 /\ last_exit = 0 /\ last_stop_result = 0
          /\ objects_held = 0 /\ program = 0 /\ thread = 0 /\ event = 0 /\ command = 0 /\ answer_box = 0 /\ serving = 0
          /\ connection = 0 /\ call = 0 /\ requests = 0 /\ faults = 0 /\ answer = 0 /\ ran = 0 /\ g_rpc_owner = 0
  /\ IF part = "native" THEN Native!InitDisplay ELSE f = 0 /\ painter = 0 /\ present = 0 /\ gui = 0 /\ alias = 0 /\ n = 0
  /\ IF part = "rebind" THEN Rebind!Init ELSE honest = 0 /\ plan = 0 /\ gate = 0 /\ driver = 0 /\ talk = 0
  /\ IF part = "session" THEN Session!Init ELSE d = 0
  /\ IF part = "compose" THEN Compose!Init ELSE kernel = 0 /\ comp = 0 /\ disp = 0 /\ screen = 0 /\ surfaces = 0

Next ==
  /\ UNCHANGED part
  /\ \/ part = "console" /\ Console!Next
        /\ UNCHANGED <<portals, serial, input, editor, supervisor, native, rebind, session, compose>>
     \/ part = "portals" /\ Portals!Next
        /\ UNCHANGED <<console, serial, input, editor, supervisor, native, rebind, session, compose>>
     \/ part = "serial" /\ Worker!Next
        /\ UNCHANGED <<console, portals, input, editor, supervisor, native, rebind, session, compose>>
     \/ part = "input" /\ Input!Next
        /\ UNCHANGED <<console, portals, serial, editor, supervisor, native, rebind, session, compose>>
     \/ part = "editor" /\ Editor!Next
        /\ UNCHANGED <<console, portals, serial, input, supervisor, native, rebind, session, compose>>
     \/ part = "supervisor" /\ Supervisor!SupervisorNext
        /\ UNCHANGED <<console, portals, serial, input, editor, native, rebind, session, compose>>
     \/ part = "native" /\ Native!NextDisplay
        /\ UNCHANGED <<console, portals, serial, input, editor, supervisor, rebind, session, compose>>
     \/ part = "rebind" /\ Rebind!Next
        /\ UNCHANGED <<console, portals, serial, input, editor, supervisor, native, session, compose>>
     \/ part = "session" /\ Session!Next
        /\ UNCHANGED <<console, portals, serial, input, editor, supervisor, native, rebind, compose>>
     \/ part = "compose" /\ Compose!Next
        /\ UNCHANGED <<console, portals, serial, input, editor, supervisor, native, rebind, session>>

Spec == Init /\ [][Next]_<<part, console, portals, serial, input, editor, supervisor, native, rebind, session, compose>>

Symmetry == Permutations(Callers)

\* The console is never stuck: with no program left, or after the clean-up of the
\* one there is, one recovery of the shell loop brings it back
\* (userspace_shell_recover, foreground_program_cleanup).
Recoverable == part = "console" => Console!Recoverable

\* Authorities to hand out exist only inside a launch
\* (system_console_app_client_grant_begin and _end).
AuthorityOnlyWhileLaunching == part = "console" => Console!AuthorityOnlyWhileLaunching

\* A session sees only the keys and ends of its own program, and no launch leaves authorities
\* behind (system_console_app_session_begin and _abort, system_console_app_client_grant_end).
SessionsDoNotMix == AuthorityOnlyWhileLaunching /\ (part = "console" => Console!SessionsDoNotMix)

\* A read of the archive returns the bytes asked for, and the first reply a service takes is
\* its own (jcos_boot_archive_read, portal_handle, portal_receive_current).
ReadsAreExact == part = "portals" => Portals!ReadsAreExact /\ Portals!FirstReplyIsOwn

\* After a failed call no further operation is begun, and operations run once and in the order
\* of the calls (serial_worker_call, worker_main).
PoisonStopsDispatch ==
  [](part = "serial" => Worker!ServedInOrder) /\ [][part = "serial" => Worker!PoisonStep]_serial

\* Events are keys as they were pressed, and no modifier is stuck once the controller is empty
\* (decode_scancode, serial_event_from_byte, input_poll).
EventsAreKeysPressed == part = "input" => Input!EventsAreKeysPressed /\ Input!ModifiersFollowKeys

\* The rows hold the edited line, and the framebuffer shows the retained lines and one cursor
\* (redraw, insert_bytes, erase_before of both editors; kernel/terminal.c).
RowsShowLine == part = "editor" => Editor!RowsShowLine /\ Editor!PictureIsCurrent

\* Threads that share the supervisor get their own answers, stop only their own supervisor and
\* leave a record of its end (kernel/supervisor.c).
AnswerIsOwn == part = "supervisor" => Supervisor!AnswerIsOwn /\ Supervisor!StopsOnlyItsOwn /\ Supervisor!EndIsRecorded

\* One party at a time writes the framebuffer, a mapping of it is always on the
\* controller's record, and a frame counts as presented only when all of it was
\* drawn (framebuffer_write_begin, prepare_output, display_present_user,
\* polaris_native.c release_writer).
ScanoutGuarded == part = "native" => Native!SingleWriter /\ Native!MappingIsTracked /\ Native!PresentedIsComplete

\* The display engine is reprogrammed only while nobody can draw
\* (polaris_mmio_rebind_write).
RebindInTheDark == [][part = "native" => Native!RebindsDark]_native

\* The plane gets its two words once each and in order whatever a driver sends,
\* and an honest driver and the gate never disagree
\* (polaris_program_gate_step, polaris_user_program).
PlaneFollowsPlan == part = "rebind" => Rebind!StoresFollowPlan /\ Rebind!SequencersAgree

\* However a session failed, no frame is freed under a mapping, the kernel draws
\* only when the display service is gone, and clean-ups in which nothing fails
\* give everything back, but for what a display service that hangs still holds
\* (graphical_session_cleanup, display_surface_destroy, wait_idle,
\* lease_release_after_service).
SessionRecoverable ==
  part = "session" => Session!SessionRecoverable /\ Session!FrameOutlivesMappings /\ Session!KernelDrawsAlone

\* What a composition leaves on the screen is the stack of surfaces, and the
\* kernel and the compositor agree on the focused one (compose,
\* draw_surface_rect, g_focused_slot).
ComposedShowsStack == part = "compose" => Compose!ComposedShowsStack /\ Compose!FocusAgrees
=============================================================================
