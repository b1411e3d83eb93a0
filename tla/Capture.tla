------------------------------- MODULE Capture -------------------------------
(***************************************************************************)
(* The read-only capture of the firmware's scanout (build with             *)
(* JCOS_POLARIS_LIVE_CAPTURE=1): the controller of                         *)
(* kernel/polaris_live_capture.c, the batch of samples of                  *)
(* polaris_observation.c, the mapped register pages, their ledger and the  *)
(* hold of polaris_mmio.c, the bounded reader of device_register_reader.c  *)
(* and polaris_capture.c, and the Ring 3 program that decodes what was     *)
(* captured (user/register_reader_probe.c).                                *)
(*                                                                         *)
(* The controller is one kernel thread.  Between its steps the display     *)
(* hardware changes registers of its own accord or disappears from the     *)
(* bus, the two seconds of admission run out, and the program that owns    *)
(* the function dies.  Register values are model values that differ only   *)
(* where the code tells them apart.  A register changes at most once, so   *)
(* none returns to an earlier value; MaxChanges bounds the changes.        *)
(***************************************************************************)
EXTENDS Integers, FiniteSets

CONSTANTS Pipes, Pages, MaxChanges

VARIABLES gpu, run, service, assignment, binding, reader, probe

captureVars == <<gpu, run, service, assignment, binding, reader, probe>>

Control == 1
Plane == 2
Surface == 3
Fields == 1 .. 3
FieldValues == <<{"off", "on", "moving"}, {"a", "b", "blank"}, {"a", "b"}>>

NoPipe == 0
MaxReads == Pipes + 2 * Cardinality(Fields)
ReadLimit == 2 * Cardinality(Fields)

Blank == [f \in Fields |-> "none"]

polaris_observation_init ==
    [reads |-> 0, pipe |-> NoPipe, control |-> "none", values |-> Blank]

IdleRun == [pc |-> "idle", attempted |-> FALSE, success |-> FALSE, clean |-> FALSE,
            owner |-> FALSE, hold |-> FALSE, expired |-> FALSE,
            batch |-> polaris_observation_init, before |-> "none", after |-> "none",
            instant |-> [values |-> Blank, location |-> "none"]]

NoAssignment == [state |-> "NONE", children |-> 0, access |-> 0, refs |-> 0]

NoBinding == [registered |-> FALSE, closing |-> FALSE, prepared |-> FALSE,
              poisoned |-> FALSE, mapped |-> 0, location |-> FALSE,
              child |-> FALSE, access |-> FALSE, holds |-> 0]

NoReader == [valid |-> FALSE, refs |-> 0, revoked |-> FALSE, closed |-> FALSE,
             late |-> FALSE, pipe |-> NoPipe, values |-> Blank,
             admitted |-> 0, successful |-> 0]

IdleProbe == [state |-> "waiting", read |-> 0, first |-> Blank, second |-> Blank,
              result |-> "none", snapshot |-> Blank]

Init ==
    /\ gpu \in [control : [1 .. Pipes -> FieldValues[Control]], plane : {"a", "blank"},
                surface : {"a"}, location : {"a"}, changed : {{}}, lost : {FALSE}]
    /\ run = IdleRun
    /\ service = [state |-> "STOPPED", alive |-> FALSE]
    /\ assignment = NoAssignment
    /\ binding = NoBinding
    /\ reader = NoReader
    /\ probe = IdleProbe

-----------------------------------------------------------------------------
(* The binding's ledger (polaris_mmio.c).                                  *)

owner_live == service.alive

polaris_mmio_binding_prepared ==
    /\ binding.registered /\ binding.prepared /\ ~binding.closing /\ ~binding.poisoned
    /\ binding.mapped = Pages /\ binding.child /\ binding.access
    /\ assignment.state = "ASSIGNED" /\ owner_live

polaris_mmio_close(b) == [b EXCEPT !.closing = TRUE, !.prepared = FALSE]

\* The pins of the owner record a ledger accounts for.
Pinned(a, b) == [a EXCEPT !.children = IF b.child THEN 1 ELSE 0,
                          !.access = IF b.access THEN 1 ELSE 0]

\* Defect: a page that cannot be unmapped is forgotten with the ledger, and
\* the function's pins with it.
CleanupForgets(a, b) ==
    IF b.poisoned \/ b.holds # 0
    THEN {[ok |-> FALSE, a |-> a, b |-> polaris_mmio_close(b)]}
    ELSE {[ok |-> TRUE, a |-> Pinned(a, NoBinding), b |-> NoBinding]}
         \cup {[ok |-> FALSE, a |-> a, b |-> NoBinding] : n \in 1 .. b.mapped}

\* Where unmapping may stop, last page first: a page still mapped, or one
\* removed whose frame was not the recorded one.
Stuck(b) ==
    {[b EXCEPT !.location = FALSE, !.mapped = n] : n \in 1 .. b.mapped}
    \cup {[b EXCEPT !.location = FALSE, !.mapped = n - 1, !.poisoned = TRUE] : n \in 1 .. b.mapped}
    \cup (IF b.location THEN {b, [b EXCEPT !.location = FALSE, !.poisoned = TRUE]} ELSE {})

\* What taking a registered binding down may leave: nothing, or, after a
\* failed or unexpected unmapping, the pages not yet removed and both pins.
cleanup_locked(a, b) ==
    IF b.poisoned \/ b.holds # 0
    THEN {[ok |-> FALSE, a |-> a, b |-> polaris_mmio_close(b)]}
    ELSE {[ok |-> TRUE, a |-> Pinned(a, NoBinding), b |-> NoBinding]}
         \cup {[ok |-> FALSE, a |-> a, b |-> polaris_mmio_close(left)] : left \in Stuck(b)}

Ledger(n) == [NoBinding EXCEPT !.registered = TRUE, !.child = TRUE, !.access = TRUE,
                               !.mapped = n]

\* What preparing may leave: a refusal before the ledger is published; the
\* prepared binding; or the rollback from any number of mapped pages.
prepare ==
    {[ok |-> FALSE, a |-> assignment, b |-> binding]}
    \cup (IF owner_live /\ assignment.state = "ASSIGNED" /\ ~binding.registered
          THEN {[ok |-> TRUE, a |-> Pinned(assignment, Ledger(Pages)),
                 b |-> [Ledger(Pages) EXCEPT !.prepared = TRUE]]}
               \cup UNION {{[o EXCEPT !.ok = FALSE] :
                              o \in cleanup_locked(Pinned(assignment, Ledger(n)), Ledger(n))} :
                           n \in 0 .. Pages}
          ELSE {})

polaris_mmio_prepare_location ==
    {[ok |-> FALSE, b |-> binding]}
    \cup (IF polaris_mmio_binding_prepared /\ binding.holds = 0 /\ ~binding.location
          THEN {[ok |-> TRUE, b |-> [binding EXCEPT !.location = TRUE]],
                [ok |-> FALSE, b |-> polaris_mmio_close([binding EXCEPT !.location = TRUE])]}
          ELSE {})

\* A hold admits a read while the binding is still prepared for its owner.
held_binding == run.hold /\ binding.holds # 0 /\ polaris_mmio_binding_prepared

\* The bus answers a load of a lost device with all ones.
read_leaf(value) == IF gpu.lost THEN "absent" ELSE value

RegisterAt(pipe, field) ==
    CASE field = Control -> gpu.control[pipe]
      [] field = Plane -> gpu.plane
      [] field = Surface -> gpu.surface

-----------------------------------------------------------------------------
(* The batch: every pipe's control, then two samples of the running pipe   *)
(* (polaris_observation.c).                                                *)

NextPipe(b) == IF b.reads < Pipes THEN b.reads + 1 ELSE b.pipe
NextField(b) == IF b.reads < Pipes THEN Control
                ELSE ((b.reads - Pipes) % Cardinality(Fields)) + 1

AcceptControl(b, value) ==
    LET pipe == b.reads + 1
        chosen == IF value = "on" THEN pipe ELSE b.pipe IN
    [ok |-> /\ value \notin {"absent", "moving"}
            /\ value = "on" => b.pipe = NoPipe
            /\ pipe = Pipes => chosen # NoPipe,
     b |-> [b EXCEPT !.reads = @ + 1, !.pipe = chosen,
                     !.control = IF value = "on" THEN value ELSE @]]

\* Defect: the second sample is not compared with the first.
AcceptsAnySecond(b, value) ==
    LET field == NextField(b)
        first == b.reads < Pipes + Cardinality(Fields) IN
    [ok |-> /\ value # "absent"
            /\ field = Control => value = b.control
            /\ field = Plane => value # "blank",
     b |-> [b EXCEPT !.reads = @ + 1, !.values[field] = IF first THEN value ELSE @]]

AcceptField(b, value) ==
    LET field == NextField(b)
        first == b.reads < Pipes + Cardinality(Fields) IN
    [ok |-> /\ value # "absent"
            /\ field = Control => value = b.control
            /\ field = Plane => value # "blank"
            /\ ~first => value = b.values[field],
     b |-> [b EXCEPT !.reads = @ + 1, !.values[field] = IF first THEN value ELSE @]]

polaris_observation_accept(b, value) ==
    IF b.reads < Pipes THEN AcceptControl(b, value) ELSE AcceptField(b, value)

-----------------------------------------------------------------------------
(* The controller (polaris_live_capture.c).                                *)

At(pc) == run.pc = pc
Goto(pc) == run' = [run EXCEPT !.pc = pc]
Finish == Goto("finish")

\* One attempt per boot, a failed one included.
polaris_live_capture_run ==
    /\ At("idle") /\ ~run.attempted
    /\ \E pc \in {"start", "idle"} : run' = [run EXCEPT !.attempted = TRUE, !.pc = pc]
    /\ UNCHANGED <<gpu, service, assignment, binding, reader, probe>>

StartService ==
    /\ At("start")
    /\ \/ service' = [state |-> "RUNNING", alive |-> TRUE] /\ Goto("assign")
       \/ /\ service' \in {[state |-> s, alive |-> s = "RUNNING"] :
                             s \in {"STOPPED", "FAILED", "RUNNING"}}
          /\ Finish
    /\ UNCHANGED <<gpu, assignment, binding, reader, probe>>

Claim ==
    /\ At("assign")
    /\ \/ /\ owner_live
          /\ assignment' = [NoAssignment EXCEPT !.state = "ASSIGNED", !.refs = 1]
          /\ run' = [run EXCEPT !.pc = "prepare", !.owner = TRUE]
       \/ /\ assignment' \in {NoAssignment, [NoAssignment EXCEPT !.state = "AVAILABLE"]}
          /\ Finish
    /\ UNCHANGED <<gpu, service, binding, reader, probe>>

Prepare ==
    /\ At("prepare")
    /\ \E o \in prepare :
         /\ assignment' = o.a /\ binding' = o.b
         /\ Goto(IF o.ok THEN "locate" ELSE "finish")
    /\ UNCHANGED <<gpu, service, reader, probe>>

PrepareLocation ==
    /\ At("locate")
    /\ \E o \in polaris_mmio_prepare_location :
         /\ binding' = o.b
         /\ Goto(IF o.ok THEN "hold" ELSE "finish")
    /\ UNCHANGED <<gpu, service, assignment, reader, probe>>

polaris_mmio_hold_acquire ==
    /\ At("hold")
    /\ \/ /\ polaris_mmio_binding_prepared
          /\ binding' = [binding EXCEPT !.holds = @ + 1]
          /\ run' = [run EXCEPT !.pc = "read", !.hold = TRUE]
       \/ ~polaris_mmio_binding_prepared /\ Finish /\ UNCHANGED binding
    /\ UNCHANGED <<gpu, service, assignment, reader, probe>>

admitted == ~run.expired

CaptureStops ==
    /\ run.pc \in {"read", "witness", "after"}
    /\ ~admitted \/ ~held_binding
    /\ Finish
    /\ UNCHANGED <<gpu, service, assignment, binding, reader, probe>>

\* The location pair, before the samples and after them.
capture_location ==
    /\ admitted /\ held_binding /\ binding.location
    /\ \/ /\ At("read") /\ run.batch.reads = Pipes /\ run.before = "none"
          /\ run' = [run EXCEPT !.before = read_leaf(gpu.location),
                                !.pc = IF gpu.lost THEN "finish" ELSE "witness"]
       \/ /\ At("after")
          /\ run' = [run EXCEPT !.after = read_leaf(gpu.location),
                                !.pc = IF gpu.lost THEN "finish" ELSE "close"]
    /\ UNCHANGED <<gpu, service, assignment, binding, reader, probe>>

\* The plane's witnesses, whose values only the preview looks at.
capture_witness ==
    /\ At("witness") /\ admitted /\ held_binding
    /\ Goto(CASE gpu.lost -> "finish"
              [] run.batch.reads < MaxReads -> "read"
              [] OTHER -> "after")
    /\ UNCHANGED <<gpu, service, assignment, binding, reader, probe>>

polaris_mmio_read_held ==
    /\ At("read") /\ admitted /\ held_binding
    /\ run.batch.reads = Pipes => run.before # "none"
    /\ LET b == run.batch
           o == polaris_observation_accept(b, read_leaf(RegisterAt(NextPipe(b), NextField(b)))) IN
       run' = [run EXCEPT
                 !.batch = o.b,
                 !.instant = IF o.b.reads = Pipes + Cardinality(Fields)
                             THEN [values |-> [f \in Fields |-> RegisterAt(o.b.pipe, f)],
                                   location |-> gpu.location] ELSE @,
                 !.pc = CASE ~o.ok -> "finish"
                          [] o.b.reads = MaxReads -> "witness"
                          [] OTHER -> "read"]
    /\ UNCHANGED <<gpu, service, assignment, binding, reader, probe>>

\* Live access ends before Ring 3 sees anything.
CloseAndClean ==
    /\ At("close")
    /\ \E o \in cleanup_locked(assignment, [polaris_mmio_close(binding) EXCEPT !.holds = @ - 1]) :
         /\ assignment' = o.a /\ binding' = o.b
         /\ run' = [run EXCEPT !.hold = FALSE, !.pc = IF o.ok THEN "observe" ELSE "finish"]
    /\ UNCHANGED <<gpu, service, reader, probe>>

\* The fixed profile: the same location before and after, and the surface
\* where that location puts it.
polaris_vram_observe ==
    /\ At("observe")
    /\ Goto(IF /\ run.before = run.after /\ run.batch.values[Plane] = "a"
               /\ run.batch.values[Surface] = run.before
            THEN "create" ELSE "finish")
    /\ UNCHANGED <<gpu, service, assignment, binding, reader, probe>>

device_register_reader_create_observation ==
    /\ At("create")
    /\ \/ /\ owner_live
          /\ reader' = [NoReader EXCEPT !.valid = TRUE, !.refs = 1, !.pipe = run.batch.pipe,
                                        !.values = run.batch.values]
          /\ probe' = [IdleProbe EXCEPT !.state = "first"]
          /\ Goto("ask")
       \/ Finish /\ UNCHANGED <<reader, probe>>
    /\ UNCHANGED <<gpu, service, assignment, binding>>

\* The reply is believed only with every read accounted for and the reader
\* revoked.
ReplyHeard ==
    /\ At("ask")
    /\ \/ probe.state = "replied" /\ owner_live
       \/ ~owner_live
    /\ Goto(IF /\ owner_live /\ probe.result = "decoded"
               /\ reader.successful = ReadLimit /\ reader.revoked
            THEN "metadata" ELSE "finish")
    /\ UNCHANGED <<gpu, service, assignment, binding, reader, probe>>

\* The four metadata calls and their comparison with the correlated surface.
Metadata ==
    /\ At("metadata")
    /\ \/ owner_live /\ probe.snapshot[Surface] = run.before /\ Goto("preview")
       \/ Finish
    /\ UNCHANGED <<gpu, service, assignment, binding, reader, probe>>

\* The blockers, the two witness calls and the five recipe steps.
Preview ==
    /\ At("preview")
    /\ \/ owner_live /\ run' = [run EXCEPT !.pc = "finish", !.success = TRUE]
       \/ Finish
    /\ UNCHANGED <<gpu, service, assignment, binding, reader, probe>>

device_register_reader_revoke(r) ==
    IF r.valid THEN [r EXCEPT !.revoked = TRUE, !.closed = TRUE] ELSE r

ClosedAndReleased(b) ==
    [polaris_mmio_close(b) EXCEPT !.holds = IF run.hold THEN @ - 1 ELSE @]

\* cleanup_capture, up to the binding: revoke, close, release, quarantine,
\* unmap.
Drain ==
    /\ At("finish")
    /\ reader' = device_register_reader_revoke(reader)
    /\ LET a == IF run.owner THEN [assignment EXCEPT !.state = "QUARANTINED"]
                ELSE assignment IN
       \E o \in IF binding.registered THEN cleanup_locked(a, ClosedAndReleased(binding))
                ELSE {[ok |-> TRUE, a |-> a, b |-> binding]} :
         /\ assignment' = o.a /\ binding' = o.b
         /\ run' = [run EXCEPT !.pc = "stop", !.hold = FALSE, !.clean = o.ok]
    /\ UNCHANGED <<gpu, service, probe>>

\* cleanup_capture, from the service on: stop or recover it, and with its
\* capabilities gone destroy the reader and an assignment never claimed.
StopService ==
    /\ At("stop")
    /\ \E stopped \in IF service.state = "STOPPED" THEN {TRUE} ELSE BOOLEAN :
         LET refs == IF stopped THEN 0 ELSE reader.refs
             unowned == assignment.state # "NONE" /\ ~run.owner IN
         /\ service' = [state |-> IF stopped THEN "STOPPED" ELSE "FAILED",
                        alive |-> service.alive /\ ~stopped]
         /\ reader' = IF refs = 0 THEN NoReader ELSE reader
         /\ assignment' = IF unowned THEN NoAssignment
                          ELSE [assignment EXCEPT !.refs = IF stopped THEN 0 ELSE @]
         /\ probe' = IF stopped THEN IdleProbe ELSE probe
         /\ run' = [IdleRun EXCEPT
                      !.attempted = TRUE, !.owner = run.owner,
                      !.success = run.success,
                      !.clean = run.clean /\ stopped /\ refs = 0]
    /\ UNCHANGED <<gpu, binding>>

-----------------------------------------------------------------------------
(* The program: two passes over the reader, compared and decoded.          *)

polaris_capture_budget_admit(r, pipe, field) ==
    /\ ~r.closed /\ ~r.late /\ pipe = r.pipe /\ r.admitted < ReadLimit
    /\ field = (r.admitted % Cardinality(Fields)) + 1

\* The read of one field: admitted, counted, and closed by the last one.
device_register_reader_read(pipe, field) ==
    IF ~reader.valid \/ reader.revoked THEN [ok |-> FALSE, r |-> reader]
    ELSE IF ~polaris_capture_budget_admit(reader, pipe, field)
    THEN [ok |-> FALSE, r |-> [reader EXCEPT !.revoked = TRUE, !.closed = TRUE]]
    ELSE LET last == reader.admitted + 1 = ReadLimit IN
         [ok |-> TRUE, r |-> [reader EXCEPT !.admitted = @ + 1, !.successful = @ + 1,
                                            !.closed = last, !.revoked = last]]

polaris_display_capture ==
    /\ owner_live /\ probe.state \in {"first", "second"}
    /\ LET field == probe.read + 1
           o == device_register_reader_read(run.batch.pipe, field)
           done == field = Cardinality(Fields) IN
       /\ reader' = o.r
       /\ probe' =
            CASE ~o.ok -> [probe EXCEPT !.state = "replied", !.result = "READ_FAILED"]
              [] o.ok /\ probe.state = "first" ->
                   [probe EXCEPT !.first[field] = reader.values[field],
                                 !.read = IF done THEN 0 ELSE field,
                                 !.state = IF done THEN "second" ELSE @]
              [] OTHER ->
                   [probe EXCEPT !.second[field] = reader.values[field], !.read = field,
                                 !.state = IF done THEN "decode" ELSE @]
    /\ UNCHANGED <<gpu, run, service, assignment, binding>>

polaris_display_decode ==
    /\ owner_live /\ probe.state = "decode"
    /\ \E decoded \in BOOLEAN :
         probe' = [probe EXCEPT
                     !.state = "replied",
                     !.snapshot = IF probe.first = probe.second THEN probe.first ELSE @,
                     !.result = CASE probe.first # probe.second -> "CHANGED"
                                  [] decoded -> "decoded"
                                  [] OTHER -> "OK"]
    /\ UNCHANGED <<gpu, run, service, assignment, binding, reader>>

-----------------------------------------------------------------------------
(* What happens in between.                                                *)

Registers == ({"control"} \X (1 .. Pipes)) \cup ({"plane", "surface", "location"} \X {0})

\* The hardware changes a register that has not changed yet.
RegisterChanges ==
    /\ run.hold /\ Cardinality(gpu.changed) < MaxChanges
    /\ \E r \in Registers \ gpu.changed :
         \/ /\ r[1] = "control"
            /\ \E v \in FieldValues[Control] \ {gpu.control[r[2]]} :
                 gpu' = [gpu EXCEPT !.control[r[2]] = v, !.changed = @ \cup {r}]
         \/ /\ r[1] = "plane"
            /\ \E v \in FieldValues[Plane] \ {gpu.plane} :
                 gpu' = [gpu EXCEPT !.plane = v, !.changed = @ \cup {r}]
         \/ /\ r[1] = "surface"
            /\ gpu' = [gpu EXCEPT !.surface = "b", !.changed = @ \cup {r}]
         \/ /\ r[1] = "location"
            /\ gpu' = [gpu EXCEPT !.location = "b", !.changed = @ \cup {r}]
    /\ UNCHANGED <<run, service, assignment, binding, reader, probe>>

DeviceLost ==
    /\ run.hold /\ ~gpu.lost /\ gpu' = [gpu EXCEPT !.lost = TRUE]
    /\ UNCHANGED <<run, service, assignment, binding, reader, probe>>

AdmissionExpires ==
    /\ run.hold /\ ~run.expired /\ run' = [run EXCEPT !.expired = TRUE]
    /\ UNCHANGED <<gpu, service, assignment, binding, reader, probe>>

ReaderExpires ==
    /\ reader.valid /\ ~reader.late /\ reader' = [reader EXCEPT !.late = TRUE]
    /\ UNCHANGED <<gpu, run, service, assignment, binding, probe>>

OwnerDies ==
    /\ owner_live /\ service' = [service EXCEPT !.alive = FALSE]
    /\ UNCHANGED <<gpu, run, assignment, binding, reader, probe>>

Next ==
    \/ polaris_live_capture_run \/ StartService \/ Claim \/ Prepare \/ PrepareLocation
    \/ polaris_mmio_hold_acquire \/ CaptureStops \/ capture_location \/ capture_witness
    \/ polaris_mmio_read_held \/ CloseAndClean \/ polaris_vram_observe
    \/ device_register_reader_create_observation \/ ReplyHeard \/ Metadata \/ Preview
    \/ Drain \/ StopService
    \/ polaris_display_capture \/ polaris_display_decode
    \/ RegisterChanges \/ DeviceLost \/ AdmissionExpires \/ ReaderExpires \/ OwnerDies

CaptureSpec == Init /\ [][Next]_captureVars

-----------------------------------------------------------------------------
\* What Ring 3 decodes was on the display at one instant, though its
\* registers are read one by one, twice, with the hardware running: the
\* values of the running pipe when the first sample ended, and the location
\* of video memory at that time
\* (polaris_observation_accept, polaris_vram_observe).
SnapshotIsInstant ==
    run.pc \in {"metadata", "preview"} =>
        /\ probe.snapshot = run.instant.values /\ run.before = run.instant.location
        /\ probe.snapshot[Control] = "on" /\ probe.snapshot[Plane] # "blank"
        /\ reader.pipe = run.batch.pipe

\* No failure loses track of what is mapped and pinned: the function's
\* counters are those of a registered ledger, pages stay mapped only under
\* both pins, the controller's hold is the ledger's; and once a run reports a
\* clean end nothing but the quarantined function is left
\* (polaris_mmio.c: cleanup_locked; polaris_live_capture.c: cleanup_capture).
NothingForgotten ==
    /\ assignment.children = (IF binding.child THEN 1 ELSE 0)
    /\ assignment.access = (IF binding.access THEN 1 ELSE 0)
    /\ binding.mapped # 0 \/ binding.location => binding.child /\ binding.access
    /\ binding.holds = (IF run.hold THEN 1 ELSE 0)
    /\ At("idle") /\ run.attempted /\ run.clean =>
         /\ binding = NoBinding /\ reader = NoReader /\ service.state = "STOPPED"
         /\ assignment \in {NoAssignment, [NoAssignment EXCEPT !.state = "QUARANTINED"]}
=============================================================================
