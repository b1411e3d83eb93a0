------------------------------- MODULE PciIrq -------------------------------
(***************************************************************************)
(* Delivery of a PCI function's legacy interrupt to its driver: the        *)
(* interrupt resource (kernel/pci_irq_resource.c), the router that leases  *)
(* an IOAPIC entry and a vector to it (pci_irq_router.c, the lease calls   *)
(* of interrupt_controller.c) and the device vectors of interrupts.c.      *)
(*                                                                         *)
(* Each resource has an assignment of its own; the pin it takes on the     *)
(* assignment is in module PciDevice.  Kernel calls are atomic (interrupts *)
(* are masked), but a vector may reach the local APIC inside one and is    *)
(* then taken after it.  The event endpoint is reduced to its mailbox and  *)
(* to the reservation of the one thread that waits on it (module Ipc).     *)
(***************************************************************************)
EXTENDS Naturals, FiniteSets

CONSTANTS
    Irqs,            \* storage of interrupt resources
    Gsis, GsiOf,     \* IOAPIC inputs, and the one each device is wired to
    EdgeTriggered,   \* inputs routed as edge triggered (no override in the MADT)
    VectorCount,     \* PCI_IRQ_ROUTER_VECTOR_FIRST..LAST, numbered from 1
    StormThreshold,  \* PCI_IRQ_STORM_THRESHOLD
    SequenceLimit,   \* the last sequence number; 0 follows it
    IdLimit          \* bound: resources ever created

ASSUME PciIrqAssumption ==
    /\ GsiOf \in [Irqs -> Gsis] /\ EdgeTriggered \subseteq Gsis
    /\ VectorCount \in Nat \ {0} /\ StormThreshold \in Nat \ {0}
    /\ SequenceLimit \in Nat \ {0} /\ IdLimit \in Nat

VARIABLES
    assignment, \* ASSIGNED, QUARANTINED by a recovery, or FAILED quarantined
    held,      \* the owner still holds the resource and event capabilities
    irq,       \* the PciIrqResource records
    binding,   \* g_bindings, by resource storage
    mailbox,   \* the sequence in the event endpoint, 0 when empty
    closed,    \* the owner process has exited and its endpoint is closed
    receiver,  \* the driver's reservation: NONE, PENDING, TERMINAL (timed out)
    got,       \* the sequence the driver consumed last
    masked,    \* IOAPIC mask bits
    inflight,  \* IOAPIC remote IRR bits
    asserted,  \* devices that assert their interrupt
    pended,    \* vectors waiting in the local APIC
    issued     \* resource identities issued

vars == <<assignment, held, irq, binding, mailbox, closed, receiver, got, masked,
          inflight, asserted, pended, issued>>

driver == <<closed, receiver, got, held>>
hardware == <<inflight, asserted, pended>>

Vectors == 1..VectorCount

NoIrq == [id |-> 0, state |-> "INVALID", masked |-> TRUE, pending |-> 0,
          suppressed |-> 0, next |-> 0]

NewIrq(id) == [NoIrq EXCEPT !.id = id, !.state = "DISARMED", !.next = 1]

Unbound == [id |-> 0, vector |-> 0, masked |-> TRUE]

Bound(i) == binding[i] # Unbound

(* What one method of the router requires of the binding it finds.  The    *)
(* resource may have been destroyed under it, or recreated with a new id.  *)
BindingValid(i) ==
    /\ Bound(i)
    /\ irq[i].id = binding[i].id
    /\ masked[GsiOf[i]] = binding[i].masked

OwnerAuthorized(i) == held[i] /\ assignment[i] = "ASSIGNED" /\ irq[i].state # "INVALID"

Init ==
    /\ assignment = [i \in Irqs |-> "ASSIGNED"] /\ held = [i \in Irqs |-> FALSE]
    /\ irq = [i \in Irqs |-> NoIrq] /\ binding = [i \in Irqs |-> Unbound]
    /\ mailbox = [i \in Irqs |-> 0] /\ closed = [i \in Irqs |-> FALSE]
    /\ receiver = [i \in Irqs |-> "NONE"] /\ got = [i \in Irqs |-> 0]
    /\ masked = [g \in Gsis |-> TRUE] /\ inflight = [g \in Gsis |-> FALSE]
    /\ asserted = {} /\ pended = {} /\ issued = 0

-----------------------------------------------------------------------------
(* Life of a resource and of its assignment *)

Create(i) ==
    /\ assignment[i] = "ASSIGNED" /\ irq[i].state = "INVALID" /\ issued < IdLimit
    /\ issued' = issued + 1
    /\ irq' = [irq EXCEPT ![i] = NewIrq(issued')]
    /\ held' = [held EXCEPT ![i] = TRUE]
    /\ UNCHANGED <<assignment, binding, mailbox, closed, receiver, got, masked, hardware>>

(* The owner's table is revoked, by the owner or when it is torn down. *)
Revoke(i) ==
    /\ held[i]
    /\ held' = [held EXCEPT ![i] = FALSE]
    /\ UNCHANGED <<assignment, irq, binding, mailbox, closed, receiver, got, masked,
                   hardware, issued>>

(* A binding of the resource is not looked for: it stays, no longer valid. *)
Destroy(i) ==
    /\ irq[i].state = "DISARMED" /\ ~held[i]
    /\ mailbox[i] = 0 /\ receiver[i] = "NONE"
    /\ irq' = [irq EXCEPT ![i] = NoIrq]
    /\ closed' = [closed EXCEPT ![i] = FALSE]
    /\ got' = [got EXCEPT ![i] = 0]
    /\ UNCHANGED <<assignment, held, binding, mailbox, receiver, masked, hardware, issued>>

(* The driver process exits: its endpoint closes and discards the mailbox. *)
OwnerExit(i) ==
    /\ irq[i].state # "INVALID" /\ ~closed[i]
    /\ closed' = [closed EXCEPT ![i] = TRUE]
    /\ mailbox' = [mailbox EXCEPT ![i] = 0]
    /\ receiver' = [receiver EXCEPT ![i] = "NONE"]
    /\ UNCHANGED <<assignment, held, irq, binding, got, masked, hardware, issued>>

(* The assignment is released and claimed by a new driver. *)
Reclaim(i) ==
    /\ assignment[i] = "QUARANTINED" /\ irq[i].state = "INVALID"
    /\ assignment' = [assignment EXCEPT ![i] = "ASSIGNED"]
    /\ UNCHANGED <<held, irq, binding, mailbox, driver, masked, hardware, issued>>

-----------------------------------------------------------------------------
(* The router *)

FreeVectors == {v \in Vectors : \A j \in Irqs : binding[j].vector # v}

GsiInUse(g) == \E j \in Irqs : Bound(j) /\ GsiOf[j] = g

(* The lease refuses a source that is live or still in flight. *)
LeaseAcquirable(g) == masked[g] /\ ~inflight[g]

CanBind(i) ==
    /\ OwnerAuthorized(i) /\ irq[i].state = "DISARMED" /\ ~Bound(i)
    /\ ~GsiInUse(GsiOf[i]) /\ FreeVectors # {} /\ LeaseAcquirable(GsiOf[i])

LowestFree ==
    IF FreeVectors = {} THEN VectorCount + 1
    ELSE CHOOSE v \in FreeVectors : \A w \in FreeVectors : v <= w

BindLegacyIntx(i) ==
    /\ CanBind(i)
    /\ binding' = [binding EXCEPT
           ![i] = [id |-> irq[i].id, vector |-> LowestFree, masked |-> TRUE]]
    /\ UNCHANGED <<assignment, irq, mailbox, driver, masked, hardware, issued>>

SourceMask(i, on) ==
    /\ binding' = [binding EXCEPT ![i].masked = on]
    /\ masked' = [masked EXCEPT ![GsiOf[i]] = on]

Armed(i) == [irq[i] EXCEPT !.state = "ARMED", !.masked = FALSE, !.suppressed = 0]

Arm(i) ==
    /\ BindingValid(i) /\ binding[i].masked /\ OwnerAuthorized(i)
    /\ irq[i].state = "DISARMED"
    /\ irq' = [irq EXCEPT ![i] = Armed(i)]
    /\ SourceMask(i, FALSE)
    /\ UNCHANGED <<assignment, mailbox, driver, hardware, issued>>

Delivering(i) == irq[i].state \in {"ARMED", "PENDING", "STORMED"}

Disarmed(i) == [irq[i] EXCEPT !.state = "DISARMED", !.masked = TRUE,
                              !.pending = 0, !.suppressed = 0]

\* Defect: the undelivered event stays in the mailbox.
ResourceDisarmKeepingEvent(i) ==
    /\ irq' = IF Delivering(i) THEN [irq EXCEPT ![i] = Disarmed(i)] ELSE irq
    /\ UNCHANGED mailbox

(* force_disarm_locked of the resource: an undelivered event is discarded. *)
ResourceDisarm(i) ==
    /\ irq' = IF Delivering(i) THEN [irq EXCEPT ![i] = Disarmed(i)] ELSE irq
    /\ mailbox' = IF Delivering(i) THEN [mailbox EXCEPT ![i] = 0] ELSE mailbox

(* By the owner or, without its capabilities, by the supervisor. *)
Disarm(i) ==
    /\ BindingValid(i)
    /\ ResourceDisarm(i)
    /\ SourceMask(i, TRUE)
    /\ UNCHANGED <<assignment, driver, hardware, issued>>

(* The saved entry is written back.  An edge triggered one clears remote   *)
(* IRR; a level triggered one keeps a vector that is in flight.            *)
LeaseRelease(i) ==
    /\ binding' = [binding EXCEPT ![i] = Unbound]
    /\ masked' = [masked EXCEPT ![GsiOf[i]] = TRUE]
    /\ \E irr \in {FALSE, inflight[GsiOf[i]]} :
           inflight' = [inflight EXCEPT ![GsiOf[i]] = irr]

Unbind(i) ==
    /\ BindingValid(i) /\ binding[i].masked /\ irq[i].state = "DISARMED"
    /\ LeaseRelease(i)
    /\ UNCHANGED <<assignment, irq, mailbox, driver, asserted, pended, issued>>

ForceUnbind(i) ==
    /\ BindingValid(i) /\ irq[i].state # "DISARMED"
    /\ ResourceDisarm(i)
    /\ LeaseRelease(i)
    /\ UNCHANGED <<assignment, driver, asserted, pended, issued>>

BindingsSound == \A j \in Irqs : Bound(j) => BindingValid(j)

(* Recovery of the assignment of a stopped driver: quarantine, then the    *)
(* sweeps over all bindings, then the release of its lease.                *)
Recover(i) ==
    /\ assignment[i] = "ASSIGNED" /\ closed[i] /\ BindingsSound
    /\ assignment' = [assignment EXCEPT ![i] = "QUARANTINED"]
    /\ ResourceDisarm(i)
    /\ IF Bound(i) THEN LeaseRelease(i) ELSE UNCHANGED <<binding, masked, inflight>>
    /\ UNCHANGED <<driver, asserted, pended, issued>>

(* An invalid binding, of whatever assignment, ends the first sweep before *)
(* or after it has met this one; the assignment stays quarantined.         *)
RecoverFails(i) ==
    /\ assignment[i] = "ASSIGNED" /\ closed[i] /\ ~BindingsSound
    /\ assignment' = [assignment EXCEPT ![i] = "FAILED"]
    /\ \/ UNCHANGED <<irq, mailbox, binding, masked>>
       \/ BindingValid(i) /\ ResourceDisarm(i) /\ SourceMask(i, TRUE)
    /\ UNCHANGED <<driver, hardware, issued>>

-----------------------------------------------------------------------------
(* Interrupts *)

Line(g) == \E i \in asserted : GsiOf[i] = g

VectorsOn(g) == {binding[i].vector : i \in {j \in Irqs : Bound(j) /\ GsiOf[j] = g}}

(* A rising edge on an unmasked edge triggered input sends its vector. *)
AssertLine(i) ==
    /\ i \notin asserted
    /\ asserted' = asserted \cup {i}
    /\ pended' = IF GsiOf[i] \in EdgeTriggered /\ ~Line(GsiOf[i]) /\ ~masked[GsiOf[i]]
                 THEN pended \cup VectorsOn(GsiOf[i]) ELSE pended
    /\ UNCHANGED <<assignment, irq, binding, mailbox, driver, masked, inflight, issued>>

(* The device withdraws its interrupt, serviced by the driver or not. *)
Withdraw(i) ==
    /\ i \in asserted
    /\ asserted' = asserted \ {i}
    /\ UNCHANGED <<assignment, irq, binding, mailbox, driver, masked, inflight,
                   pended, issued>>

(* The IOAPIC sends the vector of an asserted level triggered input once   *)
(* per end of interrupt.                                                   *)
Deliver(g) ==
    /\ g \notin EdgeTriggered /\ Line(g) /\ ~masked[g] /\ ~inflight[g]
    /\ pended' = pended \cup VectorsOn(g)
    /\ inflight' = [inflight EXCEPT ![g] = TRUE]
    /\ UNCHANGED <<assignment, irq, binding, mailbox, driver, masked, asserted, issued>>

(* ipc_try_send into the event endpoint *)
EventAccepted(i) == ~closed[i] /\ mailbox[i] = 0 /\ receiver[i] # "TERMINAL"

Suppressed(r) ==
    LET n == IF r.suppressed < StormThreshold THEN r.suppressed + 1 ELSE r.suppressed
    IN  [r EXCEPT !.suppressed = n, !.masked = TRUE,
                  !.state = IF n >= StormThreshold THEN "STORMED" ELSE @]

NextSequence(s) == IF s = SequenceLimit THEN 0 ELSE s + 1

Published(r) == [r EXCEPT !.state = "PENDING", !.masked = TRUE, !.pending = r.next,
                          !.next = NextSequence(r.next)]

Unpublished(r) == [r EXCEPT !.state = "STORMED", !.masked = TRUE, !.pending = 0,
                            !.next = NextSequence(r.next)]

Signal(i) ==
    LET r == irq[i]
        publish == /\ assignment[i] = "ASSIGNED" /\ r.state = "ARMED"
                   /\ ~r.masked /\ r.pending = 0 /\ r.next # 0
    IN  /\ irq' = [irq EXCEPT ![i] =
               IF publish THEN IF EventAccepted(i) THEN Published(r) ELSE Unpublished(r)
               ELSE IF assignment[i] = "ASSIGNED" /\ r.state \in {"PENDING", "STORMED"}
                    THEN Suppressed(r)
               ELSE r]
        /\ mailbox' = IF publish /\ EventAccepted(i)
                      THEN [mailbox EXCEPT ![i] = r.next] ELSE mailbox

\* Defect: the source is not masked.
HandleUnmasked(i) == Signal(i) /\ UNCHANGED <<binding, masked>>

(* The source is masked before the event is published. *)
Handle(i) == Signal(i) /\ SourceMask(i, TRUE)

(* Interrupt dispatch of a vector the router owns, with the end of         *)
(* interrupt that clears remote IRR.  Until the mask is written a second   *)
(* edge may pend the vector again.                                         *)
DispatchBound(i) ==
    /\ BindingValid(i) /\ binding[i].vector \in pended
    /\ Handle(i)
    /\ \/ pended' = pended \ {binding[i].vector}
       \/ GsiOf[i] \in EdgeTriggered /\ ~masked[GsiOf[i]] /\ UNCHANGED pended
    /\ inflight' = [inflight EXCEPT ![GsiOf[i]] = FALSE]
    /\ UNCHANGED <<assignment, driver, asserted, issued>>

(* A late vector whose binding is gone, or no longer valid, only ends. *)
DispatchStray(v) ==
    /\ v \in pended
    /\ \A i \in Irqs : binding[i].vector = v => ~BindingValid(i)
    /\ pended' = pended \ {v}
    /\ inflight' = [g \in Gsis |-> inflight[g] /\ v \notin VectorsOn(g)]
    /\ UNCHANGED <<assignment, irq, binding, mailbox, driver, masked, asserted, issued>>

-----------------------------------------------------------------------------
(* The driver *)

AckAccepted(i, s) ==
    /\ BindingValid(i) /\ binding[i].masked /\ OwnerAuthorized(i)
    /\ irq[i].state \in {"PENDING", "STORMED"}
    /\ irq[i].pending = s /\ mailbox[i] = 0

\* Defect: the source stays masked after the acknowledgement.
AckKeepingSource(i, s) ==
    /\ AckAccepted(i, s)
    /\ irq' = [irq EXCEPT ![i] =
           IF @.state = "PENDING" THEN [Armed(i) EXCEPT !.pending = 0]
           ELSE [@ EXCEPT !.pending = 0]]
    /\ UNCHANGED <<binding, masked>>

(* In a storm the event is acknowledged and the source stays masked. *)
AckApplied(i, s) ==
    /\ AckAccepted(i, s)
    /\ irq' = [irq EXCEPT ![i] =
           IF @.state = "PENDING" THEN [Armed(i) EXCEPT !.pending = 0]
           ELSE [@ EXCEPT !.pending = 0]]
    /\ IF irq[i].state = "PENDING" THEN SourceMask(i, FALSE)
       ELSE UNCHANGED <<binding, masked>>

Acknowledge(i, s) ==
    /\ s # 0 /\ ~closed[i]
    /\ AckApplied(i, s)
    /\ UNCHANGED <<assignment, mailbox, driver, hardware, issued>>

RecoverStorm(i) ==
    /\ ~closed[i] /\ BindingValid(i) /\ binding[i].masked /\ OwnerAuthorized(i)
    /\ irq[i].state = "STORMED" /\ irq[i].pending = 0 /\ mailbox[i] = 0
    /\ irq' = [irq EXCEPT ![i] = Armed(i)]
    /\ SourceMask(i, FALSE)
    /\ UNCHANGED <<assignment, mailbox, driver, hardware, issued>>

(* The driver parks on the event endpoint. *)
Wait(i) ==
    /\ held[i] /\ ~closed[i] /\ receiver[i] = "NONE" /\ mailbox[i] = 0
    /\ receiver' = [receiver EXCEPT ![i] = "PENDING"]
    /\ UNCHANGED <<assignment, held, irq, binding, mailbox, closed, got, masked,
                   hardware, issued>>

(* The driver takes the event, parked on the endpoint or polling it. *)
Receive(i) ==
    /\ held[i] \/ receiver[i] = "PENDING"
    /\ ~closed[i] /\ mailbox[i] # 0 /\ receiver[i] # "TERMINAL"
    /\ got' = [got EXCEPT ![i] = mailbox[i]]
    /\ mailbox' = [mailbox EXCEPT ![i] = 0]
    /\ receiver' = [receiver EXCEPT ![i] = "NONE"]
    /\ UNCHANGED <<assignment, held, irq, binding, closed, masked, hardware, issued>>

(* The timer ends the wait, even one that a message has already made ready. *)
Timeout(i) ==
    /\ receiver[i] = "PENDING"
    /\ receiver' = [receiver EXCEPT ![i] = "TERMINAL"]
    /\ UNCHANGED <<assignment, held, irq, binding, mailbox, closed, got, masked,
                   hardware, issued>>

(* The timed out thread runs again and gives up its reservation. *)
Resume(i) ==
    /\ receiver[i] = "TERMINAL"
    /\ receiver' = [receiver EXCEPT ![i] = "NONE"]
    /\ UNCHANGED <<assignment, held, irq, binding, mailbox, closed, got, masked,
                   hardware, issued>>

-----------------------------------------------------------------------------
Next ==
    \/ \E i \in Irqs :
           \/ Create(i) \/ Revoke(i) \/ Destroy(i) \/ OwnerExit(i) \/ Reclaim(i)
           \/ BindLegacyIntx(i) \/ Arm(i) \/ Disarm(i) \/ Unbind(i) \/ ForceUnbind(i)
           \/ Recover(i) \/ RecoverFails(i)
           \/ AssertLine(i) \/ Withdraw(i) \/ DispatchBound(i)
           \/ RecoverStorm(i) \/ Wait(i) \/ Receive(i) \/ Timeout(i) \/ Resume(i)
           \/ \E s \in 0..SequenceLimit : Acknowledge(i, s)
    \/ \E g \in Gsis : Deliver(g)
    \/ \E v \in Vectors : DispatchStray(v)

Spec == Init /\ [][Next]_vars

(* The hardware delivers what is asserted and unmasked, and a driver that  *)
(* is alive acknowledges the events it has received.                       *)
Fairness ==
    /\ \A g \in Gsis : WF_vars(Deliver(g))
    /\ \A v \in Vectors : WF_vars(DispatchStray(v))
    /\ \A i \in Irqs :
           WF_vars(DispatchBound(i)) /\ WF_vars(Acknowledge(i, got[i]))

FairSpec == Spec /\ Fairness

-----------------------------------------------------------------------------
IrqRecord ==
    [id : 0..IdLimit, state : {"INVALID", "DISARMED", "ARMED", "PENDING", "STORMED"},
     masked : BOOLEAN, pending : 0..SequenceLimit, suppressed : 0..StormThreshold,
     next : 0..SequenceLimit]

BindingRecord == [id : 0..IdLimit, vector : 0..VectorCount, masked : BOOLEAN]

(* The types of the records, the identities and the vectors in use. *)
TypeOK ==
    /\ assignment \in [Irqs -> {"ASSIGNED", "QUARANTINED", "FAILED"}]
    /\ held \in [Irqs -> BOOLEAN] /\ closed \in [Irqs -> BOOLEAN]
    /\ irq \in [Irqs -> IrqRecord] /\ binding \in [Irqs -> BindingRecord]
    /\ mailbox \in [Irqs -> 0..SequenceLimit] /\ got \in [Irqs -> 0..SequenceLimit]
    /\ receiver \in [Irqs -> {"NONE", "PENDING", "TERMINAL"}]
    /\ masked \in [Gsis -> BOOLEAN] /\ inflight \in [Gsis -> BOOLEAN]
    /\ asserted \subseteq Irqs /\ pended \subseteq Vectors
    /\ issued \in 0..IdLimit

(* IOAPIC masking follows the resource's delivery state: an unmasked       *)
(* source belongs to a valid binding whose resource is armed, so that its  *)
(* next interrupt is masked and cannot fire for ever, and a bound, armed   *)
(* resource of an assigned device is not left masked while it can still    *)
(* number an event.                                                        *)
SourceFollowsDelivery ==
    /\ TypeOK
    /\ \A g \in Gsis : ~masked[g] =>
           \E i \in Irqs : /\ GsiOf[i] = g /\ BindingValid(i)
                           /\ irq[i].state = "ARMED" /\ ~irq[i].masked
    /\ \A i \in Irqs :
           (irq[i].state = "ARMED" /\ assignment[i] = "ASSIGNED" /\ irq[i].next # 0)
              => Bound(i) /\ ~masked[GsiOf[i]]

(* One event is outstanding until the driver has consumed it: what is in   *)
(* the mailbox is the pending event, and a pending event that is not in    *)
(* the mailbox has been received, so an acknowledgement never answers an   *)
(* event that the driver has not seen.  It is newer than the last one the  *)
(* driver took from the resource, whatever disarming, storms and re-arming *)
(* come between.                                                           *)
OneEventOutstanding ==
    \A i \in Irqs :
        /\ mailbox[i] # 0 => mailbox[i] = irq[i].pending /\ mailbox[i] > got[i]
        /\ irq[i].pending # 0 /\ ~closed[i] => irq[i].pending \in {mailbox[i], got[i]}

(* Masking follows delivery, and one event is outstanding until the driver *)
(* has consumed it (pci_irq_router.c, pci_irq_resource.c).                 *)
DeliverySound == SourceFollowsDelivery /\ OneEventOutstanding

(* A level triggered interrupt that stays asserted while its driver lives  *)
(* is turned into an event, or shown to the driver as a storm, unless the  *)
(* resource is taken out of service or has no sequence numbers left: no    *)
(* acknowledgement or storm recovery leaves it armed and silent.           *)
InService(i) == Delivering(i) /\ OwnerAuthorized(i) /\ ~closed[i] /\ irq[i].next # 0

InterruptReachesDriver ==
    \A i \in {j \in Irqs : GsiOf[j] \notin EdgeTriggered} :
        (i \in asserted /\ InService(i)) ~>
            (mailbox[i] # 0 \/ irq[i].state = "STORMED" \/ i \notin asserted \/ ~InService(i))
=============================================================================
