------------------------------- MODULE Scanout -------------------------------
(***************************************************************************)
(* Who may write the framebuffer: kernel/framebuffer.c (the firmware       *)
(* scanout, the output installed after it, the kernel's nested writers)    *)
(* and kernel/display.c (the lease that hands the output to one Ring-3     *)
(* process, and the presenter behind the DISPLAY_PRESENT system call).     *)
(*                                                                         *)
(* Every function masks interrupts around its own state, so a masked       *)
(* section is one step and threads are preempted between them: one thread  *)
(* paints the terminal, one process presents frames through the kernel and *)
(* one thread runs the graphical session (kernel/display_service.c).       *)
(***************************************************************************)
EXTENDS Integers, FiniteSets

VARIABLES
  f,        \* globals of framebuffer.c and display.c
  painter,  \* the thread that paints: "idle", "checked" render, "inside" a drawing
  present,  \* the presenter: its place, rows it could not draw, its last answer
  gui,      \* where the session is in starting or releasing its display process
  alias     \* processes with a writable mapping of the framebuffer

scanoutVars == <<f, painter, present, gui, alias>>

InitScanout ==
  /\ f = [scanout |-> "FIRMWARE", valid |-> TRUE, kind |-> "FIRMWARE", id |-> 0, next |-> 1,
          writers |-> 0, lease |-> "KERNEL", owner |-> "none", direct |-> 0,
          saved |-> FALSE, render |-> TRUE]
  /\ painter = "idle"
  /\ present = [pc |-> "idle", skipped |-> FALSE, answer |-> FALSE]
  /\ gui = "none"
  /\ alias = {}

(***************************************************************************)
(* framebuffer.c.                                                          *)
(***************************************************************************)

display_kernel_framebuffer_writable(s) == s.lease \in {"KERNEL", "RECLAIM"}

\* Is a new writer admitted?  It then counts as one.
framebuffer_write_begin(s) == s.valid /\ display_kernel_framebuffer_writable(s)
Entered(s) == [s EXCEPT !.writers = @ + 1]

framebuffer_write_end(s) ==
  [s EXCEPT !.writers = @ - 1,
            !.scanout = IF s.writers = 1 /\ @ = "RETIRING" THEN "RETIRED" ELSE @]

framebuffer_writers_idle(s) == s.writers = 0

framebuffer_firmware_retire(s) ==
  LET r == IF s.scanout = "FIRMWARE"
           THEN [s EXCEPT !.scanout = "RETIRING", !.valid = FALSE, !.kind = "NONE"] ELSE s
  IN IF r.scanout = "RETIRING" /\ r.writers = 0 THEN [r EXCEPT !.scanout = "RETIRED"] ELSE r

framebuffer_output_matches(s, id) == s.valid /\ s.id = id

CanInstall(s) == s.scanout = "RETIRED" /\ ~s.valid /\ framebuffer_writers_idle(s) /\ s.lease = "KERNEL"

framebuffer_native_install(s, rescue) ==
  [s EXCEPT !.id = s.next, !.next = @ + 1, !.valid = TRUE,
            !.kind = IF rescue THEN "RESCUE" ELSE "NATIVE"]

CanRevoke(s, id) == id /= 0 /\ s.id = id /\ s.kind \in {"NATIVE", "RESCUE", "QUARANTINED"}

framebuffer_output_revoke(s, id) ==
  IF CanRevoke(s, id) THEN [s EXCEPT !.valid = FALSE, !.kind = "QUARANTINED"] ELSE s

(***************************************************************************)
(* display.c.                                                              *)
(***************************************************************************)

\* Defect: the lease is handed over without waiting for the kernel's writers.
PreparedWhileWriting(s, id) == s.lease = "KERNEL" /\ framebuffer_output_matches(s, id)

CanPrepare(s, id) ==
  s.lease = "KERNEL" /\ framebuffer_output_matches(s, id) /\ framebuffer_writers_idle(s)

prepare_output(s, id) ==
  [s EXCEPT !.lease = "HANDOFF", !.direct = id, !.owner = "none", !.saved = s.render, !.render = FALSE]

CanCommit(s) == s.lease = "HANDOFF" /\ framebuffer_output_matches(s, s.direct)

display_direct_commit(s, p) == [s EXCEPT !.owner = p, !.lease = "USER"]

\* display_direct_restore_kernel: the two masked sections, with the terminal
\* switched on again between them.
CanRestore(s, expected, p) == s.lease = expected /\ (expected = "USER" => s.owner = p)

RestoreBegin(s) ==
  [s EXCEPT !.lease = "RECLAIM", !.direct = 0, !.owner = "none", !.saved = FALSE,
            !.render = @ \/ (s.saved /\ s.valid)]

RestoreEnd(s) == [s EXCEPT !.lease = "KERNEL"]

CanRetire(s) == s.id = 0 /\ s.lease = "KERNEL"

display_retire_firmware_scanout(s) == [framebuffer_firmware_retire(s) EXCEPT !.render = FALSE]

(***************************************************************************)
(* The terminal paints: it looks whether it renders, and each drawing      *)
(* (pixel, fill, rectangle, scroll, row) enters and leaves on its own.     *)
(***************************************************************************)

CheckRender == painter = "idle" /\ f.render /\ painter' = "checked" /\ UNCHANGED <<f, present, gui, alias>>

Draw ==
  /\ painter = "checked"
  /\ IF framebuffer_write_begin(f) THEN f' = Entered(f) /\ painter' = "inside" ELSE f' = f /\ painter' = "idle"
  /\ UNCHANGED <<present, gui, alias>>

Drawn == painter = "inside" /\ f' = framebuffer_write_end(f) /\ painter' = "idle" /\ UNCHANGED <<present, gui, alias>>

(***************************************************************************)
(* display_present_user: an outer writer around a fill and the rows, each  *)
(* of which enters again and is silently dropped when it is not admitted.  *)
(***************************************************************************)

PresentChecks ==
  /\ present.pc = "idle" /\ f.scanout = "FIRMWARE" /\ f.lease = "KERNEL"
  /\ present' = [pc |-> "admitted", skipped |-> FALSE, answer |-> FALSE]
  /\ UNCHANGED <<f, painter, gui, alias>>

PresentBegins ==
  /\ present.pc = "admitted"
  /\ IF framebuffer_write_begin(f)
     THEN f' = Entered(f) /\ present' = [present EXCEPT !.pc = "rows"]
     ELSE f' = f /\ present' = [present EXCEPT !.pc = "idle"]
  /\ UNCHANGED <<painter, gui, alias>>

PresentRow ==
  /\ present.pc = "rows"
  /\ IF framebuffer_write_begin(f)
     THEN f' = Entered(f) /\ present' = [present EXCEPT !.pc = "row"]
     ELSE f' = f /\ present' = [present EXCEPT !.skipped = TRUE]
  /\ UNCHANGED <<painter, gui, alias>>

PresentRowEnds ==
  present.pc = "row" /\ f' = framebuffer_write_end(f) /\ present' = [present EXCEPT !.pc = "rows"]
  /\ UNCHANGED <<painter, gui, alias>>

\* Defect: the frame is reported as presented without looking again.
PresentedAnyway == TRUE

\* framebuffer_firmware_valid at the end: retirement may have closed admission.
Presented == f.scanout = "FIRMWARE"

\* The answer is computed before the writer leaves; an unreadable row fails.
PresentEnds ==
  /\ present.pc = "rows"
  /\ \E readable \in BOOLEAN : present' = [present EXCEPT !.pc = "leaving", !.answer = readable /\ Presented]
  /\ UNCHANGED <<f, painter, gui, alias>>

PresentLeaves ==
  present.pc = "leaving" /\ f' = framebuffer_write_end(f) /\ present' = [present EXCEPT !.pc = "idle"]
  /\ UNCHANGED <<painter, gui, alias>>

(***************************************************************************)
(* The session's display process (display_service_start, _stop, _recover). *)
(***************************************************************************)

GuiPrepares ==
  gui = "none" /\ CanPrepare(f, 0) /\ f' = prepare_output(f, 0) /\ gui' = "prepared"
  /\ UNCHANGED <<painter, present, alias>>

\* The launch succeeds, fails with nothing left, or leaves a process to recover.
GuiLaunches ==
  /\ gui = "prepared"
  /\ \/ gui' = "launched" /\ alias' = alias \union {"gui"}
     \/ gui' = "gone" /\ alias' = alias
     \/ gui' = "failed" /\ alias' = alias \union {"gui"}
  /\ UNCHANGED <<f, painter, present>>

GuiCommits ==
  /\ gui = "launched"
  /\ IF CanCommit(f) THEN f' = display_direct_commit(f, "gui") /\ gui' = "running"
     ELSE f' = f /\ gui' = "failed"
  /\ UNCHANGED <<painter, present, alias>>

\* The process is stopped or recovered; until then it keeps its mapping.
GuiStops ==
  gui \in {"running", "failed"} /\ gui' = "gone" /\ alias' = alias \ {"gui"} /\ UNCHANGED <<f, painter, present>>

\* lease_release_after_service.
GuiReleases ==
  /\ gui = "gone"
  /\ \/ \E expected \in {"HANDOFF", "USER"} :
          CanRestore(f, expected, "gui") /\ f' = RestoreBegin(f) /\ gui' = "restoring"
     \/ f.lease = "KERNEL" /\ f' = f /\ gui' = "none"
  /\ UNCHANGED <<painter, present, alias>>

GuiRestored ==
  gui = "restoring" /\ f' = RestoreEnd(f) /\ gui' = "none" /\ UNCHANGED <<painter, present, alias>>

NextScanout ==
  \/ CheckRender \/ Draw \/ Drawn
  \/ PresentChecks \/ PresentBegins \/ PresentRow \/ PresentRowEnds \/ PresentEnds \/ PresentLeaves
  \/ GuiPrepares \/ GuiLaunches \/ GuiCommits \/ GuiStops \/ GuiReleases \/ GuiRestored

(***************************************************************************)
(* Properties.                                                             *)
(***************************************************************************)

KernelDrawing == painter = "inside" \/ present.pc \in {"rows", "row", "leaving"}

\* One party writes the framebuffer: at most one process has it mapped
\* writable, and while one has, no kernel thread is inside a drawing
\* (prepare_output waits for the writers, framebuffer_write_begin refuses new
\* ones, the lease comes back only after the process is gone).
SingleWriter == Cardinality(alias) <= 1 /\ (alias /= {} => ~KernelDrawing)

\* A frame is reported as presented only when all its rows were drawn, even if
\* the firmware scanout was retired meanwhile (display_present_user).
PresentedIsComplete == present.answer => ~present.skipped
=============================================================================
