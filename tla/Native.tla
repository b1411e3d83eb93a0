-------------------------------- MODULE Native --------------------------------
(***************************************************************************)
(* The native display controller of a build with JCOS_POLARIS_NATIVE_WRITE:*)
(* kernel/polaris_native.c, run by the worker of kernel/polaris_watch.c    *)
(* beside the threads of Scanout.  It reserves a primary and a rescue      *)
(* driver (kernel/polaris_driver.c), retires the firmware scanout, points  *)
(* the display engine at the retained framebuffer with two register writes *)
(* (kernel/polaris_mmio.c), lends the output to the primary, and moves it  *)
(* once to the rescue driver when the Ring-3 policy (graphics_supervisor.c,*)
(* user/graphics_policy.c) says so.                                        *)
(*                                                                         *)
(* n.pc is the worker's place between two uses of the display state, so    *)
(* the other threads run between them; n.k is what a release continues to. *)
(* Session and sequence numbers of the policy are left out: a request that *)
(* fails makes the session fail for good, so every one that is answered is *)
(* in order.                                                               *)
(***************************************************************************)
EXTENDS Scanout

VARIABLE n

Roles == {"primary", "rescue"}

InitNative ==
  n = [pc |-> "idle", k |-> "none", who |-> "primary", stage |-> 0, attempted |-> FALSE,
       mutated |-> FALSE, writer |-> "none", out |-> 0, authorized |-> FALSE, asg |-> "none",
       cap |-> FALSE, binding |-> "none", hold |-> FALSE, rebind |-> FALSE, armed |-> FALSE,
       next |-> 0, original |-> FALSE, diag |-> {}, pending |-> "none",
       drv |-> [r \in Roles |-> "STOPPED"],
       pol |-> "IDLE", plive |-> TRUE, pfailed |-> FALSE, pclosed |-> FALSE]

Goto(s, pc) == [s EXCEPT !.pc = pc]
Others == UNCHANGED <<painter, present, gui>>

(***************************************************************************)
(* The policy: what Ring 3 decides and what a request to it may yield.     *)
(***************************************************************************)

\* x: which driver is live, whether they were probed and which answered.
graphics_policy_decide(stage, event, x) ==
  LET lost(r) == r \notin x.live \/ (x.probed /\ r \notin x.pong)
      inconsistent == \/ (x.pong /= {} /\ ~x.probed) \/ ~(x.pong \subseteq x.live)
                      \/ (stage = "RESCUE" /\ "primary" \in x.live)
  IN CASE event = "BEGIN" /\ stage \in {"IDLE", "CLOSED"} -> <<"ARMED", "ACCEPT">>
       [] event = "CLOSE" /\ stage /= "IDLE" -> <<"CLOSED", "HEADLESS">>
       [] event = "PRIMARY" /\ stage = "ARMED" -> <<"PRIMARY", "KEEP">>
       [] event = "RESCUED" /\ stage = "RECOVERING" -> <<"RESCUE", "KEEP">>
       [] event = "REQUEST_RESCUE" /\ stage = "PRIMARY" -> <<"RECOVERING", "RECOVER">>
       [] event = "OBSERVE" /\ stage \in {"PRIMARY", "RESCUE"} /\ ~inconsistent ->
            IF lost("rescue") THEN <<"CLOSED", "HEADLESS">>
            ELSE IF stage = "PRIMARY" /\ lost("primary") THEN <<"RECOVERING", "RECOVER">>
            ELSE <<stage, "KEEP">>
       [] OTHER -> <<stage, "REJECT">>

NoFacts == [live |-> {}, probed |-> FALSE, pong |-> {}]

\* graphics_supervisor_request: an answer, or a session that failed for good,
\* whether or not the lost request was carried out.
Ask(s, event, x) ==
  LET d == graphics_policy_decide(s.pol, event, x)
      moved == [s EXCEPT !.pol = d[1]]
  IN IF s.pfailed \/ ~s.plive THEN {[act |-> "none", s |-> [s EXCEPT !.pfailed = TRUE]]}
     ELSE {[act |-> d[2], s |-> moved]}
          \union {[act |-> "none", s |-> [t EXCEPT !.pfailed = TRUE]] : t \in {s, moved}}

\* policy_close: asked at most once; only a session that began is closed.
policy_close(s) ==
  IF s.pol = "IDLE" \/ s.pclosed THEN {[act |-> "HEADLESS", s |-> s]}
  ELSE {[a EXCEPT !.s.pfailed = @ \/ a.act /= "HEADLESS"] : a \in Ask([s EXCEPT !.pclosed = TRUE], "CLOSE", NoFacts)}

(***************************************************************************)
(* polaris_native_begin: one attempt per boot, under a checked profile.    *)
(***************************************************************************)

polaris_native_begin ==
  /\ n.pc = "idle" /\ ~n.attempted
  /\ f.lease = "KERNEL" /\ f.scanout = "FIRMWARE" /\ framebuffer_writers_idle(f)
  /\ n' = Goto([n EXCEPT !.attempted = TRUE, !.original = f.render], "reserve")
  /\ UNCHANGED <<f, alias>> /\ Others

\* Both drivers with a read-only mapping, the policy session, the assignment
\* with its capability, the register binding and a hold on it.  A failure
\* anywhere leaves what was reserved to failed().
Reserve ==
  LET one == [n EXCEPT !.drv.primary = "RUNNING"]
      two == [one EXCEPT !.drv.rescue = "RUNNING"]
      open == {a.s : a \in {b \in Ask(two, "BEGIN", NoFacts) : b.act = "ACCEPT"}}
      shut == {a.s : a \in {b \in Ask(two, "BEGIN", NoFacts) : b.act /= "ACCEPT"}}
      Claimed(s) == [s EXCEPT !.asg = "ASSIGNED", !.cap = TRUE]
      Prepared(s) == [Claimed(s) EXCEPT !.binding = "prepared"]
      Held(s) == [Prepared(s) EXCEPT !.hold = TRUE]
  IN /\ n.pc = "reserve"
     /\ \/ /\ n' \in {Goto(s, "failing") :
                s \in {n, one, two, [one EXCEPT !.drv.primary = "DEAD"], [two EXCEPT !.drv.rescue = "DEAD"]} \union shut
                      \union open \union {[s EXCEPT !.asg = "created"] : s \in open}
                      \union {Claimed(s) : s \in open} \union {Prepared(s) : s \in open}}
           /\ f' = f
        \/ \E s \in open, pc \in {"retire", "failing"} : n' = Goto(Held(s), pc) /\ f' = [f EXCEPT !.render = FALSE]
     /\ UNCHANGED alias /\ Others

\* The rescue driver must be there before the firmware scanout is given up.
Retire ==
  /\ n.pc = "retire"
  /\ f' = IF n.drv.rescue = "RUNNING" /\ CanRetire(f) THEN display_retire_firmware_scanout(f) ELSE f
  /\ n' = IF n.drv.rescue = "RUNNING" /\ CanRetire(f) /\ f'.scanout = "RETIRED"
          THEN Goto([n EXCEPT !.mutated = TRUE, !.who = "primary"], "enable") ELSE Goto(n, "failing")
  /\ UNCHANGED alias /\ Others

\* rebind_binding: the registers may be touched at all.
rebind_binding(s) ==
  /\ s.hold /\ s.binding = "prepared" /\ f.scanout = "RETIRED" /\ framebuffer_writers_idle(f)
  /\ s.asg = "ASSIGNED" \/ (s.asg = "QUARANTINED" /\ s.rebind)

polaris_mmio_enable_rebind ==
  /\ n.pc = "enable"
  /\ n' = IF rebind_binding(n) /\ ~n.rebind /\ f.lease = "KERNEL" /\ n.asg = "ASSIGNED"
          THEN Goto([n EXCEPT !.rebind = TRUE, !.next = 0], "program") ELSE Goto(n, "failing")
  /\ UNCHANGED <<f, alias>> /\ Others

CanWrite(s) ==
  /\ rebind_binding(s) /\ s.rebind /\ s.next < 2 /\ f.lease = "KERNEL"
  /\ s.armed <=> s.asg = "QUARANTINED"

\* polaris_mmio_rebind_write, asked for by the driver's sequencer: the high
\* word, then the low one, each consumed before the store.
polaris_mmio_rebind_write ==
  /\ n.pc = "program" /\ n.drv[n.who] = "RUNNING" /\ CanWrite(n)
  /\ n' = [n EXCEPT !.next = @ + 1]
  /\ UNCHANGED <<f, alias>> /\ Others

\* execute ends: after both writes and real progress, or with any failure.
ExecuteEnds ==
  /\ n.pc = "program"
  /\ \/ n' = Goto(n, "failing")
     \/ /\ n.next = 2 /\ n.drv[n.who] = "RUNNING" /\ n.who = "primary"
        /\ \E a \in Ask([n EXCEPT !.stage = 1], "PRIMARY", NoFacts) :
             n' = Goto(a.s, IF a.act = "KEEP" THEN "install" ELSE "failing")
     \/ n.next = 2 /\ n.drv[n.who] = "RUNNING" /\ n.who = "rescue" /\ n' = Goto(n, "install")
  /\ UNCHANGED <<f, alias>> /\ Others

(***************************************************************************)
(* show: the output is installed, leased, mapped writable and drawn.       *)
(***************************************************************************)

ShowFails(s) == IF s.who = "primary" THEN Goto(s, "ask") ELSE Goto(s, "failing")

\* Defect: the driver is not recorded as the writer before it is given the output.
InstallsUnrecorded ==
  /\ n.pc = "install" /\ n.drv[n.who] = "RUNNING" /\ CanInstall(f)
  /\ f' = framebuffer_native_install(f, n.who = "rescue")
  /\ n' = Goto([n EXCEPT !.out = f'.id], "prepare")
  /\ UNCHANGED alias /\ Others

Install ==
  /\ n.pc = "install"
  /\ IF n.drv[n.who] = "RUNNING" /\ CanInstall(f)
     THEN /\ f' = framebuffer_native_install(f, n.who = "rescue")
          /\ n' = Goto([n EXCEPT !.out = f'.id, !.writer = n.who], "prepare")
     ELSE f' = f /\ n' = ShowFails(n)
  /\ UNCHANGED alias /\ Others

PrepareNative ==
  /\ n.pc = "prepare"
  /\ IF CanPrepare(f, n.out) THEN f' = prepare_output(f, n.out) /\ n' = Goto(n, "grant")
     ELSE f' = f /\ n' = ShowFails(n)
  /\ UNCHANGED alias /\ Others

Grant ==
  /\ n.pc = "grant"
  /\ \/ n.drv[n.who] = "RUNNING" /\ alias' = alias \union {n.who} /\ n' = Goto(n, "commit")
     \/ alias' = alias /\ n' = ShowFails(n)
  /\ UNCHANGED f /\ Others

\* The draw is answered, or the driver is lost; then the rescue is reported.
CommitNative ==
  /\ n.pc = "commit"
  /\ IF ~CanCommit(f) THEN f' = f /\ n' = ShowFails(n)
     ELSE /\ f' = display_direct_commit(f, n.who)
          /\ \/ n' = ShowFails([n EXCEPT !.drv[n.who] = "DEAD"])
             \/ n.drv[n.who] = "RUNNING" /\ n.who = "primary" /\ n' = Goto(n, "idle")
             \/ /\ n.drv[n.who] = "RUNNING" /\ n.who = "rescue"
                /\ \E a \in Ask([n EXCEPT !.stage = 2], "RESCUED", NoFacts) :
                     n' = Goto(a.s, IF a.act = "KEEP" THEN "idle" ELSE "failing")
  /\ UNCHANGED alias /\ Others

(***************************************************************************)
(* Rescue.                                                                 *)
(***************************************************************************)

\* request_rescue, by command or after a failed show.
request_rescue ==
  /\ n.pc = "ask" \/ (n.pc = "idle" /\ n.stage = 1)
  /\ \E a \in Ask(n, "REQUEST_RESCUE", NoFacts) :
       n' = IF a.act = "RECOVER" THEN Goto([a.s EXCEPT !.authorized = TRUE], "recover") ELSE Goto(a.s, "failing")
  /\ UNCHANGED <<f, alias>> /\ Others

\* Quarantined by its owner, destroyed when it never had one.
quarantine(s) == [s EXCEPT !.asg = CASE @ = "ASSIGNED" -> "QUARANTINED" [] @ = "created" -> "none" [] OTHER -> @]

\* recover_native, first half: the output is revoked before the primary, which
\* a command may make fault first, is stopped.
recover_native ==
  /\ n.pc = "recover"
  /\ IF n.stage = 1 /\ n.authorized /\ (n.out = 0 \/ CanRevoke(f, n.out))
     THEN /\ f' = framebuffer_output_revoke(f, n.out)
          /\ \E d \in {n.drv.primary, "DEAD"} :
               n' = Goto([quarantine(n) EXCEPT !.authorized = FALSE, !.stage = 4, !.drv.primary = d,
                                               !.k = "recover", !.who = "primary"], "stop")
     ELSE f' = f /\ n' = Goto(n, "failing")
  /\ UNCHANGED alias /\ Others

(***************************************************************************)
(* release_writer: stop the driver, and then take the lease back from it.  *)
(***************************************************************************)

\* Defect: the lease is taken back although the driver could not be stopped.
ReclaimsAnyway ==
  /\ n.pc = "stop"
  /\ \E d \in {"STOPPED", "DEAD"} :
       /\ n' = Goto([n EXCEPT !.drv[n.who] = d], IF n.writer = n.who THEN "reclaim" ELSE "released")
       /\ alias' = IF d = "STOPPED" THEN alias \ {n.who} ELSE alias
  /\ UNCHANGED f /\ Others

StopWriter ==
  /\ n.pc = "stop"
  /\ \/ /\ n' = Goto([n EXCEPT !.drv[n.who] = "STOPPED"], IF n.writer = n.who THEN "reclaim" ELSE "released")
        /\ alias' = alias \ {n.who}
     \/ n.drv[n.who] /= "STOPPED" /\ n' = Goto([n EXCEPT !.drv[n.who] = "DEAD"], "unreleased") /\ alias' = alias
  /\ UNCHANGED f /\ Others

Reclaim ==
  /\ n.pc = "reclaim"
  /\ \/ f.lease = "KERNEL" /\ f' = f /\ n' = Goto([n EXCEPT !.writer = "none"], "released")
     \/ \E expected \in {"HANDOFF", "USER"} :
          CanRestore(f, expected, n.who) /\ f' = RestoreBegin(f) /\ n' = Goto(n, "restored")
  /\ UNCHANGED alias /\ Others

Reclaimed ==
  n.pc = "restored" /\ f' = RestoreEnd(f) /\ n' = Goto([n EXCEPT !.writer = "none"], "released")
  /\ UNCHANGED alias /\ Others

\* The second half of recover_native: arm, observe the plane again, have the
\* rescue driver plan and program it.
polaris_mmio_arm_recovery ==
  /\ n.pc = "released" /\ n.k = "recover"
  /\ n' \in IF rebind_binding(n) /\ n.rebind /\ ~n.armed /\ f.lease = "KERNEL" /\ n.asg = "QUARANTINED"
            THEN {Goto([n EXCEPT !.armed = TRUE, !.next = 0, !.who = "rescue"], pc) : pc \in {"program", "failing"}}
            ELSE {Goto(n, "failing")}
  /\ UNCHANGED <<f, alias>> /\ Others

\* What the other users of release_writer do next.
AfterRelease ==
  /\ n.pc \in {"released", "unreleased"} /\ ~(n.pc = "released" /\ n.k = "recover")
  /\ n' = Goto(n, CASE n.k = "failed" -> "settle"
                    [] n.pc = "released" -> "close"
                    [] n.k = "power" -> "idle"
                    [] OTHER -> "failing")
  /\ UNCHANGED <<f, alias>> /\ Others

(***************************************************************************)
(* The ends: failed(), polaris_native_finish, polaris_native_power_prepare.*)
(***************************************************************************)

Failing ==
  /\ n.pc = "failing"
  /\ f' = framebuffer_output_revoke(f, n.out)
  /\ n' = IF n.writer = "none" THEN Goto(quarantine(n), "settle")
          ELSE Goto([quarantine(n) EXCEPT !.k = "failed", !.who = n.writer], "stop")
  /\ UNCHANGED alias /\ Others

\* polaris_driver_stop of a set of drivers: each stops or is left to clean up.
Stopped(s, stopped) ==
  [s EXCEPT !.drv = [r \in Roles |-> IF r \in stopped \/ @[r] = "STOPPED" THEN "STOPPED" ELSE "DEAD"]]

\* stop_io: admission closed and the hold released; the cleanup may fail.
stop_io(s, clean) == [s EXCEPT !.hold = FALSE, !.binding = IF @ = "none" \/ clean THEN "none" ELSE "closing"]

AllStopped(s) == \A r \in Roles : s.drv[r] = "STOPPED"

\* The rest of failed(): everything is tried, nothing is undone; a policy that
\* failed is stopped and the firmware console comes back if it still exists.
Settle ==
  /\ n.pc = "settle"
  /\ \E stopped \in SUBSET Roles, clean \in BOOLEAN :
       LET s == [stop_io(Stopped(n, stopped), clean) EXCEPT !.stage = 3]
           drained == AllStopped(s) /\ s.binding = "none" /\ s.writer = "none"
       IN /\ \E a \in policy_close([s EXCEPT !.cap = @ /\ ~drained]) :
               n' = Goto([a.s EXCEPT !.plive = @ /\ ~a.s.pfailed], "idle")
          /\ alias' = alias \ stopped
  /\ f' = [f EXCEPT !.render = IF f.scanout = "FIRMWARE" /\ n.writer = "none" THEN n.original ELSE @]
  /\ Others

\* The rest of finish and power_prepare, which stop at the first failure.
Close ==
  /\ n.pc = "close"
  /\ \E stopped \in SUBSET Roles, clean \in BOOLEAN :
       LET s == Stopped(n, stopped)
           t == stop_io(quarantine(s), clean)
           refused == Goto(IF AllStopped(s) THEN t ELSE s, IF n.k = "finish" THEN "failing" ELSE "idle")
       IN /\ alias' = alias \ stopped
          /\ IF ~AllStopped(s) \/ t.binding /= "none" THEN n' = refused /\ f' = f
             ELSE \E a \in policy_close([t EXCEPT !.cap = FALSE]) :
                    IF n.k = "finish" /\ a.act /= "HEADLESS" THEN n' = Goto(a.s, "failing") /\ f' = f
                    ELSE /\ n' = Goto([a.s EXCEPT !.stage = 3, !.plive = @ /\ (n.k = "power" => ~a.s.pfailed)], "idle")
                         /\ f' = [f EXCEPT !.render = @ \/ n.k = "finish" \/ f.valid]
  /\ Others

polaris_native_finish ==
  /\ n.pc = "idle" /\ n.stage \in {1, 2}
  /\ n' = Goto([n EXCEPT !.k = "finish", !.who = IF n.stage = 1 THEN "primary" ELSE "rescue"], "stop")
  /\ UNCHANGED <<f, alias>> /\ Others

polaris_native_power_prepare ==
  /\ n.pc = "idle" /\ n.attempted
  /\ n' = IF n.writer = "none" THEN Goto([n EXCEPT !.stage = 3, !.k = "power", !.pending = "none"], "close")
          ELSE Goto([n EXCEPT !.stage = 3, !.k = "power", !.who = n.writer, !.pending = "none"], "stop")
  /\ UNCHANGED <<f, alias>> /\ Others

polaris_native_abort ==
  n.pc = "idle" /\ n.attempted /\ n' = Goto([n EXCEPT !.pending = "none"], "failing")
  /\ UNCHANGED <<f, alias>> /\ Others

(***************************************************************************)
(* The watchdog, and faults: injected once per role, or their own.         *)
(***************************************************************************)

Answers(r) == n.drv[r] = "RUNNING"

polaris_native_poll ==
  LET live == {r \in Roles : n.drv[r] \in {"RUNNING", "SPIN"}} \ (IF n.stage = 1 THEN {} ELSE {"primary"})
      needed == IF n.stage = 1 THEN Roles ELSE {"rescue"}
      healthy == needed \subseteq live
      pong == IF healthy THEN {r \in needed : Answers(r)} ELSE {}
      x == [live |-> live, probed |-> healthy, pong |-> pong]
      s == [n EXCEPT !.drv = [r \in Roles |-> IF healthy /\ r \in needed /\ ~Answers(r) THEN "DEAD" ELSE @[r]]]
  IN /\ n.pc = "idle" /\ n.stage \in {1, 2}
     /\ n' \in IF ~n.plive THEN {Goto(n, "failing")}
               ELSE {CASE a.act = "KEEP" /\ healthy /\ pong = needed -> a.s
                       [] a.act = "RECOVER" /\ n.stage = 1 /\ "rescue" \in (IF healthy THEN pong ELSE live) ->
                            Goto([a.s EXCEPT !.authorized = TRUE], "recover")
                       [] OTHER -> Goto(a.s, "failing") : a \in Ask(s, "OBSERVE", x)}
     /\ UNCHANGED <<f, alias>> /\ Others

polaris_native_can_diagnostic(r) ==
  /\ r \notin n.diag
  /\ CASE r = "primary" -> n.stage = 1 [] r = "rescue" -> n.stage = 2 [] OTHER -> n.stage \in {1, 2}

\* The driver acknowledges and faults or spins, or the delivery fails.
diagnostic(r) ==
  /\ n.pc = "idle" /\ polaris_native_can_diagnostic(r) /\ n.writer = r
  /\ \/ \E d \in {"SPIN", "DEAD"} : Answers(r) /\ n' = [n EXCEPT !.diag = @ \union {r}, !.drv[r] = d, !.pending = "none"]
     \/ n' = Goto([n EXCEPT !.diag = @ \union {r}, !.pending = "none"], "failing")
  /\ UNCHANGED <<f, alias>> /\ Others

policy_diagnostic ==
  /\ n.pc = "idle" /\ polaris_native_can_diagnostic("policy") /\ n.writer /= "none" /\ n.plive
  /\ n' \in {Goto([n EXCEPT !.diag = @ \union {"policy"}, !.plive = FALSE, !.pending = "none"], pc) : pc \in {"idle", "failing"}}
  /\ UNCHANGED <<f, alias>> /\ Others

\* ARM of polaris_watch.c, and the tick that finds no shell or no such role.
ArmDiagnostic ==
  /\ n.pc = "idle" /\ n.pending = "none"
  /\ \E r \in Roles \union {"policy"} : polaris_native_can_diagnostic(r) /\ n' = [n EXCEPT !.pending = r]
  /\ UNCHANGED <<f, alias>> /\ Others

DelayedRefused ==
  n.pc = "idle" /\ n.pending /= "none" /\ n' = [n EXCEPT !.pending = "none"] /\ UNCHANGED <<f, alias>> /\ Others

DriverDies ==
  /\ \E r \in Roles : n.drv[r] \in {"RUNNING", "SPIN"} /\ n' = [n EXCEPT !.drv[r] = "DEAD"]
  /\ UNCHANGED <<f, alias>> /\ Others

PolicyDies == n.plive /\ n.attempted /\ n' = [n EXCEPT !.plive = FALSE] /\ UNCHANGED <<f, alias>> /\ Others

NextNative ==
  \/ polaris_native_begin \/ Reserve \/ Retire \/ polaris_mmio_enable_rebind
  \/ polaris_mmio_rebind_write \/ ExecuteEnds
  \/ Install \/ PrepareNative \/ Grant \/ CommitNative
  \/ request_rescue \/ recover_native \/ StopWriter \/ Reclaim \/ Reclaimed
  \/ polaris_mmio_arm_recovery \/ AfterRelease \/ Failing \/ Settle \/ Close
  \/ polaris_native_finish \/ polaris_native_power_prepare \/ polaris_native_abort
  \/ polaris_native_poll \/ (\E r \in Roles : diagnostic(r)) \/ policy_diagnostic
  \/ ArmDiagnostic \/ DelayedRefused \/ DriverDies \/ PolicyDies

displayVars == <<f, painter, present, gui, alias, n>>

InitDisplay == InitScanout /\ InitNative
NextDisplay == (NextScanout /\ UNCHANGED n) \/ NextNative

DisplaySpec == InitDisplay /\ [][NextDisplay]_displayVars

(***************************************************************************)
(* Properties.                                                             *)
(***************************************************************************)

\* The display engine is reprogrammed only while nobody can draw: the firmware
\* scanout is retired for good, no kernel thread is inside a drawing, and no
\* process, not even the one being replaced, has the framebuffer mapped
\* writable (release_writer before polaris_mmio_arm_recovery).
RebindsDark == n'.next > n.next => f.scanout = "RETIRED" /\ ~KernelDrawing /\ alias = {}
RebindInTheDark == [][RebindsDark]_displayVars

\* A driver that holds the writable mapping is the one the controller will
\* stop (g.writer): a mapping is never forgotten by a failed or finished run.
MappingIsTracked == \A r \in Roles : r \in alias => n.writer = r
=============================================================================
