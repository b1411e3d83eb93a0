----------------------------- MODULE PciDevice -----------------------------
(***************************************************************************)
(* One PCI function under a driver process: the owner record               *)
(* (kernel/pci_assignment.c) with the child resources and active accesses  *)
(* that pin it, the DMA gate and the sticky bus-master taint; BAR mappings *)
(* (kernel/pci_bar_resource.c, pci_bar_access.c), the interrupt resource's *)
(* pin (pci_irq_resource.c; its delivery protocol is module PciIrq), DMA   *)
(* buffers and submissions (pci_dma_buffer.c, pci_dma_submission.c), and   *)
(* the recovery of a device whose driver has stopped                       *)
(* (pci_device_recovery.c, pci_flr.c).                                     *)
(*                                                                         *)
(* Every call is atomic (interrupts are masked) but one: the function      *)
(* level reset runs with interrupts enabled between two masked sections,   *)
(* so any other call can fall into it.                                     *)
(*                                                                         *)
(* The mediator that programs the device and the device itself are not in  *)
(* the repository.  They are modelled from what the code asks of them: the *)
(* taint is marked before bus mastering is enabled, the device touches a   *)
(* span it was given only while bus mastering is on, and it may keep       *)
(* touching it until it says it is done or a function level reset succeeds.*)
(***************************************************************************)
EXTENDS Integers, FiniteSets

CONSTANTS Assignments, Processes, None, ChildResourceLimit, ActiveAccessLimit,
          Buffers, Submissions, Bars, Mappings, Irqs, Callers

VARIABLES
    assignment,   \* the owner records of the enumerated functions
    process,      \* RUNNING, STOPPED (no thread left) or GONE
    capability,   \* the resources whose one handle is still in its owner's table
    buffer, submission, bar, mmio, irq,
    recovery,     \* g_recoveries, by assignment
    flr,          \* callers inside pci_device_recovery_complete_flr
    command,      \* PCI command register: IDLE, MASTER (bus mastering), QUIESCED
    dma,          \* <<a, b>>: device a may still access the frames of buffer b
    halted        \* cpu_halt_forever() was reached

resources == <<buffer, submission, bar, mmio, irq>>
hardware == <<command, dma>>
vars == <<assignment, process, capability, resources, recovery, flr, hardware, halted>>

NoBuffer == [assignment |-> None, owner |-> None, state |-> "NONE", held |-> FALSE,
             mapped |-> "NO"]
NoSubmission == [buffer |-> None, state |-> "NONE"]
NoBar == [assignment |-> None, owner |-> None, active |-> 0]
NoIrq == [assignment |-> None, owner |-> None, armed |-> FALSE]
NoRecovery == [state |-> "NONE", reset_required |-> FALSE, reset_completed |-> FALSE]
NoCall == [assignment |-> None, result |-> "NONE"]

-----------------------------------------------------------------------------
(* The owner record: for each operation a guard on it and the record it leaves *)

Available == [state |-> "AVAILABLE", owner |-> None, children |-> 0,
              access |-> 0, gate |-> FALSE, exposed |-> FALSE]
Absent == [Available EXCEPT !.state = "NONE"]

AssignmentRecord ==
    [state : {"NONE", "AVAILABLE", "ASSIGNED", "QUIESCING", "QUARANTINED"},
     owner : Processes \cup {None}, children : 0 .. ChildResourceLimit,
     access : 0 .. ActiveAccessLimit, gate : BOOLEAN, exposed : BOOLEAN]

OwnedBy(r, p) == r.state \notin {"NONE", "AVAILABLE"} /\ r.owner = p
AssignedTo(r, p) == r.state = "ASSIGNED" /\ r.owner = p

Claimed(r, p) == [r EXCEPT !.state = "ASSIGNED", !.owner = p]

CanAcquireChild(r) == r.children < ChildResourceLimit
CanReleaseChild(r, p) == OwnedBy(r, p) /\ r.children # 0
ChildAcquired(r) == [r EXCEPT !.children = @ + 1]
ChildReleased(r) == [r EXCEPT !.children = @ - 1]

CanAcquireAccess(r, p) == AssignedTo(r, p) /\ r.access < ActiveAccessLimit
CanReleaseAccess(r, p) == OwnedBy(r, p) /\ r.access # 0
AccessAcquired(r) == [r EXCEPT !.access = @ + 1]
AccessReleased(r) == [r EXCEPT !.access = @ - 1]

CanAcquireGate(r, p) == AssignedTo(r, p) /\ ~r.gate
CanReleaseGate(r, p) == OwnedBy(r, p) /\ r.state # "QUIESCING" /\ r.gate

CanMarkExposed(r) == r.state = "ASSIGNED" /\ r.gate /\ r.access # 0

CanBeginQuiesce(r) == r.state = "ASSIGNED" /\ r.access = 0 /\ ~r.gate /\ ~r.exposed

\* The pins that must be gone before the record returns to AVAILABLE.
Unpinned(r, refs) == r.children = 0 /\ r.access = 0 /\ ~r.gate /\ refs = 0

CanCompleteRelease(r, refs) == r.state = "QUIESCING" /\ Unpinned(r, refs) /\ ~r.exposed
ReleaseDone(r) == [r EXCEPT !.owner = None, !.state = "AVAILABLE"]

CanCompleteQuarantine(r, refs) == r.state = "QUARANTINED" /\ Unpinned(r, refs)
QuarantineDone(r) == [r EXCEPT !.owner = None, !.exposed = FALSE, !.state = "AVAILABLE"]

-----------------------------------------------------------------------------
(* State predicates *)

Refs(o) == IF o \in capability THEN 1 ELSE 0
InUse(p) == process[p] # "GONE"

LiveBuffers(a) == {b \in Buffers : buffer[b].assignment = a}
LiveBars(a) == {r \in Bars : bar[r].assignment = a}
LiveIrqs(a) == {i \in Irqs : irq[i].assignment = a}
SubmissionsOf(a) ==
    {s \in Submissions : submission[s].buffer # None /\
                         buffer[submission[s].buffer].assignment = a}
MappingsOf(a) == {m \in Mappings : mmio[m] # None /\ bar[mmio[m]].assignment = a}
MappedBuffers(a) == {b \in LiveBuffers(a) : buffer[b].mapped = "YES"}

\* assignment_matches of every child resource.
Matches(r) == assignment[r.assignment].owner = r.owner

\* A mapping left half removed, or an owner whose process object is gone,
\* makes a buffer invalid for every later call.
BufferValid(b) ==
    /\ buffer[b].assignment # None
    /\ Matches(buffer[b])
    /\ InUse(buffer[b].owner)
    /\ buffer[b].mapped # "PARTLY"
    /\ (buffer[b].state = "READY") = ~buffer[b].held

BarsIdle(a) == \A r \in LiveBars(a) : bar[r].active = 0

SubmissionValid(s) ==
    LET b == submission[s].buffer
        a == buffer[b].assignment
    IN  /\ BufferValid(b) /\ assignment[a].gate
        /\ IF submission[s].state = "ACTIVE"
           THEN /\ assignment[a].state \in {"ASSIGNED", "QUARANTINED"}
                /\ buffer[b].state = "DEVICE_ACTIVE"
                /\ buffer[b].mapped = "NO" /\ BarsIdle(a)
           ELSE /\ assignment[a].state = "QUARANTINED"
                /\ buffer[b].state = "QUARANTINED"

\* owner_authorized_locked of each resource: the parent is ASSIGNED and the
\* owner still holds the handle.
Authorized(a) ==
    assignment[a].state = "ASSIGNED" /\ InUse(assignment[a].owner) /\ a \in capability
OwnerAuthorized(o, r) ==
    InUse(r.owner) /\ o \in capability /\ AssignedTo(assignment[r.assignment], r.owner)

Running == ~halted
Must(releases) == halted' = ~releases

-----------------------------------------------------------------------------
(* The assignment and its owner *)

AssignmentCreate(a) ==
    /\ Running /\ assignment[a].state = "NONE"
    /\ assignment' = [assignment EXCEPT ![a] = Available]
    /\ UNCHANGED <<process, capability, resources, recovery, flr, hardware, halted>>

AssignmentDestroy(a) ==
    /\ Running /\ assignment[a].state = "AVAILABLE" /\ a \notin capability
    /\ assignment' = [assignment EXCEPT ![a] = Absent]
    /\ UNCHANGED <<process, capability, resources, recovery, flr, hardware, halted>>

Claim(a, p) ==
    /\ Running /\ InUse(p)
    /\ assignment[a].state = "AVAILABLE" /\ a \notin capability
    /\ assignment' = [assignment EXCEPT ![a] = Claimed(@, p)]
    /\ capability' = capability \cup {a}
    /\ UNCHANGED <<process, resources, recovery, flr, hardware, halted>>

BeginQuiesce(a) ==
    /\ Running /\ CanBeginQuiesce(assignment[a])
    /\ assignment' = [assignment EXCEPT ![a].state = "QUIESCING"]
    /\ UNCHANGED <<process, capability, resources, recovery, flr, hardware, halted>>

CompleteRelease(a) ==
    /\ Running /\ CanCompleteRelease(assignment[a], Refs(a))
    /\ assignment' = [assignment EXCEPT ![a] = ReleaseDone(@)]
    /\ UNCHANGED <<process, capability, resources, recovery, flr, hardware, halted>>

\* pci_assignment_force_quarantine as the native display path calls it: no
\* recovery object follows.
ForceQuarantine(a) ==
    /\ Running /\ assignment[a].state \in {"ASSIGNED", "QUIESCING"}
    /\ assignment' = [assignment EXCEPT ![a].state = "QUARANTINED"]
    /\ UNCHANGED <<process, capability, resources, recovery, flr, hardware, halted>>

ProcessStop(p) ==
    /\ Running /\ process[p] = "RUNNING"
    /\ process' = [process EXCEPT ![p] = "STOPPED"]
    /\ UNCHANGED <<assignment, capability, resources, recovery, flr, hardware, halted>>

OwnedObjects(p) ==
    {a \in Assignments : assignment[a].owner = p} \cup
    {b \in Buffers : buffer[b].owner = p} \cup
    {r \in Bars : bar[r].owner = p} \cup {i \in Irqs : irq[i].owner = p}

\* process_destroy wants an empty capability table; destroying the page
\* tables fails while a page is still mapped.  DMA buffers are not looked at.
ProcessDestroy(p) ==
    /\ Running /\ process[p] = "STOPPED"
    /\ OwnedObjects(p) \cap capability = {}
    /\ \A b \in Buffers : buffer[b].owner = p => buffer[b].mapped = "NO"
    /\ \A m \in Mappings : mmio[m] # None => bar[mmio[m]].owner # p
    /\ process' = [process EXCEPT ![p] = "GONE"]
    /\ UNCHANGED <<assignment, capability, resources, recovery, flr, hardware, halted>>

Revoke(o) ==
    /\ Running /\ o \in capability
    /\ capability' = capability \ {o}
    /\ UNCHANGED <<assignment, process, resources, recovery, flr, hardware, halted>>

-----------------------------------------------------------------------------
(* BARs and interrupts *)

BarCreate(r, a) ==
    /\ Running /\ bar[r] = NoBar /\ Authorized(a) /\ CanAcquireChild(assignment[a])
    /\ assignment' = [assignment EXCEPT ![a] = ChildAcquired(@)]
    /\ bar' = [bar EXCEPT ![r] = [assignment |-> a, owner |-> assignment[a].owner, active |-> 0]]
    /\ capability' = capability \cup {r}
    /\ UNCHANGED <<process, buffer, submission, mmio, irq, recovery, flr, hardware, halted>>

BarDestroy(r) ==
    /\ Running /\ bar[r] # NoBar /\ Matches(bar[r]) /\ bar[r].active = 0 /\ r \notin capability
    /\ Must(CanReleaseChild(assignment[bar[r].assignment], bar[r].owner))
    /\ assignment' = [assignment EXCEPT ![bar[r].assignment] = ChildReleased(@)]
    /\ bar' = [bar EXCEPT ![r] = NoBar]
    /\ UNCHANGED <<process, capability, buffer, submission, mmio, irq, recovery, flr, hardware>>

\* Defect: the gate of a running submission is not looked at.
AccessAcquirableUnderGate(r) ==
    /\ OwnerAuthorized(r, bar[r])
    /\ CanAcquireAccess(assignment[bar[r].assignment], bar[r].owner)

\* pci_bar_resource_access_acquire for a mapping; a port access takes and
\* returns the same pin inside one call.
AccessAcquirable(r) ==
    /\ ~assignment[bar[r].assignment].gate
    /\ OwnerAuthorized(r, bar[r])
    /\ CanAcquireAccess(assignment[bar[r].assignment], bar[r].owner)

MmioMap(m, r) ==
    /\ Running /\ mmio[m] = None /\ bar[r] # NoBar /\ AccessAcquirable(r)
    /\ assignment' = [assignment EXCEPT ![bar[r].assignment] = AccessAcquired(@)]
    /\ bar' = [bar EXCEPT ![r].active = @ + 1]
    /\ mmio' = [mmio EXCEPT ![m] = r]
    /\ UNCHANGED <<process, capability, buffer, submission, irq, recovery, flr, hardware, halted>>

MmioUnmap(m) ==
    /\ Running /\ mmio[m] # None /\ Matches(bar[mmio[m]]) /\ InUse(bar[mmio[m]].owner)
    /\ LET r == mmio[m]
           a == bar[r].assignment
       IN  /\ Must(bar[r].active # 0 /\ CanReleaseAccess(assignment[a], bar[r].owner))
           /\ assignment' = [assignment EXCEPT ![a] = AccessReleased(@)]
           /\ bar' = [bar EXCEPT ![r].active = @ - 1]
    /\ mmio' = [mmio EXCEPT ![m] = None]
    /\ UNCHANGED <<process, capability, buffer, submission, irq, recovery, flr, hardware>>

IrqCreate(i, a) ==
    /\ Running /\ irq[i] = NoIrq /\ Authorized(a) /\ CanAcquireChild(assignment[a])
    /\ assignment' = [assignment EXCEPT ![a] = ChildAcquired(@)]
    /\ irq' = [irq EXCEPT ![i] = [assignment |-> a, owner |-> assignment[a].owner,
                                  armed |-> FALSE]]
    /\ capability' = capability \cup {i}
    /\ UNCHANGED <<process, buffer, submission, bar, mmio, recovery, flr, hardware, halted>>

IrqArm(i) ==
    /\ Running /\ irq[i] # NoIrq /\ ~irq[i].armed /\ OwnerAuthorized(i, irq[i])
    /\ CanAcquireAccess(assignment[irq[i].assignment], irq[i].owner)
    /\ assignment' = [assignment EXCEPT ![irq[i].assignment] = AccessAcquired(@)]
    /\ irq' = [irq EXCEPT ![i].armed = TRUE]
    /\ UNCHANGED <<process, capability, buffer, submission, bar, mmio, recovery, flr, hardware, halted>>

IrqForceDisarm(i) ==
    /\ Running /\ irq[i].armed /\ Matches(irq[i])
    /\ Must(CanReleaseAccess(assignment[irq[i].assignment], irq[i].owner))
    /\ assignment' = [assignment EXCEPT ![irq[i].assignment] = AccessReleased(@)]
    /\ irq' = [irq EXCEPT ![i].armed = FALSE]
    /\ UNCHANGED <<process, capability, buffer, submission, bar, mmio, recovery, flr, hardware>>

IrqDestroy(i) ==
    /\ Running /\ irq[i] # NoIrq /\ Matches(irq[i]) /\ ~irq[i].armed /\ i \notin capability
    /\ Must(CanReleaseChild(assignment[irq[i].assignment], irq[i].owner))
    /\ assignment' = [assignment EXCEPT ![irq[i].assignment] = ChildReleased(@)]
    /\ irq' = [irq EXCEPT ![i] = NoIrq]
    /\ UNCHANGED <<process, capability, buffer, submission, bar, mmio, recovery, flr, hardware>>

-----------------------------------------------------------------------------
(* DMA buffers and submissions *)

BufferCreate(b, a) ==
    /\ Running /\ buffer[b] = NoBuffer /\ Authorized(a) /\ CanAcquireChild(assignment[a])
    /\ assignment' = [assignment EXCEPT ![a] = ChildAcquired(@)]
    /\ buffer' = [buffer EXCEPT ![b] = [NoBuffer EXCEPT !.assignment = a,
                        !.owner = assignment[a].owner, !.state = "READY"]]
    /\ capability' = capability \cup {b}
    /\ UNCHANGED <<process, submission, bar, mmio, irq, recovery, flr, hardware, halted>>

BufferMap(b) ==
    /\ Running /\ BufferValid(b) /\ OwnerAuthorized(b, buffer[b])
    /\ buffer[b].state = "READY" /\ buffer[b].mapped = "NO"
    /\ buffer' = [buffer EXCEPT ![b].mapped = "YES"]
    /\ UNCHANGED <<assignment, process, capability, submission, bar, mmio, irq, recovery, flr,
                   hardware, halted>>

\* Pages are removed one by one; a page that cannot be removed stops the loop
\* with mapped_page_count between zero and page_count.
BufferForceUnmap(b) ==
    /\ Running /\ BufferValid(b) /\ buffer[b].mapped = "YES"
    /\ \E left \in {"NO", "PARTLY"} : buffer' = [buffer EXCEPT ![b].mapped = left]
    /\ UNCHANGED <<assignment, process, capability, submission, bar, mmio, irq, recovery, flr,
                   hardware, halted>>

\* The frames return to the page allocator here.
CanDestroyBuffer(b) ==
    /\ BufferValid(b) /\ buffer[b].state = "READY" /\ ~buffer[b].held
    /\ buffer[b].mapped = "NO" /\ b \notin capability

BufferDestroy(b) ==
    /\ Running /\ CanDestroyBuffer(b)
    /\ Must(CanReleaseChild(assignment[buffer[b].assignment], buffer[b].owner))
    /\ assignment' = [assignment EXCEPT ![buffer[b].assignment] = ChildReleased(@)]
    /\ buffer' = [buffer EXCEPT ![b] = NoBuffer]
    /\ UNCHANGED <<process, capability, submission, bar, mmio, irq, recovery, flr, hardware>>

CanSubmit(b) ==
    LET a == buffer[b].assignment
    IN  /\ BufferValid(b) /\ buffer[b].state = "READY" /\ buffer[b].mapped = "NO"
        /\ Authorized(a) /\ OwnerAuthorized(b, buffer[b])
        /\ BarsIdle(a)
        /\ CanAcquireGate(assignment[a], buffer[b].owner)
        /\ CanAcquireAccess(assignment[a], buffer[b].owner)

SubmissionBegin(s, b) ==
    /\ Running /\ submission[s] = NoSubmission /\ CanSubmit(b)
    /\ assignment' = [assignment EXCEPT ![buffer[b].assignment] =
                          [AccessAcquired(@) EXCEPT !.gate = TRUE]]
    /\ buffer' = [buffer EXCEPT ![b].held = TRUE, ![b].state = "DEVICE_ACTIVE"]
    /\ submission' = [submission EXCEPT ![s] = [buffer |-> b, state |-> "ACTIVE"]]
    /\ UNCHANGED <<process, capability, bar, mmio, irq, recovery, flr, hardware, halted>>

\* The mediator completes a submission once the device is done with it.
SubmissionComplete(s) ==
    /\ Running /\ submission[s].state = "ACTIVE" /\ SubmissionValid(s)
    /\ LET b == submission[s].buffer
           a == buffer[b].assignment
       IN  /\ <<a, b>> \notin dma
           /\ OwnerAuthorized(b, buffer[b])
           /\ Must(/\ CanReleaseAccess(assignment[a], buffer[b].owner)
                   /\ CanReleaseGate(assignment[a], buffer[b].owner))
           /\ assignment' = [assignment EXCEPT ![a] = [AccessReleased(@) EXCEPT !.gate = FALSE]]
           /\ buffer' = [buffer EXCEPT ![b].held = FALSE, ![b].state = "READY"]
    /\ submission' = [submission EXCEPT ![s] = NoSubmission]
    /\ UNCHANGED <<process, capability, bar, mmio, irq, recovery, flr, hardware>>

-----------------------------------------------------------------------------
(* The mediator and the device *)

MarkBusMasterExposed(a) ==
    /\ Running /\ CanMarkExposed(assignment[a])
    /\ assignment' = [assignment EXCEPT ![a].exposed = TRUE]
    /\ UNCHANGED <<process, capability, resources, recovery, flr, hardware, halted>>

NoteInheritedBusMaster(a) ==
    /\ Running /\ assignment[a].state = "ASSIGNED" /\ command[a] = "MASTER"
    /\ assignment' = [assignment EXCEPT ![a].exposed = TRUE]
    /\ UNCHANGED <<process, capability, resources, recovery, flr, hardware, halted>>

\* A backend records the taint before it touches the bus-master bit.
MediatorCommand(a) ==
    /\ Running /\ assignment[a].state = "ASSIGNED" /\ assignment[a].exposed
    /\ \E c \in {"IDLE", "MASTER"} \ {command[a]} : command' = [command EXCEPT ![a] = c]
    /\ UNCHANGED <<assignment, process, capability, resources, recovery, flr, dma, halted>>

DeviceStart(s) ==
    /\ submission[s].state = "ACTIVE"
    /\ LET b == submission[s].buffer
           a == buffer[b].assignment
       IN  /\ command[a] = "MASTER" /\ assignment[a].state = "ASSIGNED"
           /\ dma' = dma \cup {<<a, b>>}
    /\ UNCHANGED <<assignment, process, capability, resources, recovery, flr, command, halted>>

DeviceDone(d) ==
    /\ d \in dma
    /\ dma' = dma \ {d}
    /\ UNCHANGED <<assignment, process, capability, resources, recovery, flr, command, halted>>

-----------------------------------------------------------------------------
(* Recovery *)

ArmedIrqs(a) == {i \in LiveIrqs(a) : irq[i].armed}

\* The sweeps walk the whole registry and stop at the first invalid entry,
\* whichever assignment it belongs to.
RegistrySound ==
    /\ \A b \in Buffers : buffer[b] # NoBuffer => BufferValid(b)
    /\ \A s \in Submissions : submission[s] # NoSubmission => SubmissionValid(s)

\* How far pci_device_recovery_begin gets: the interrupts I disarmed, the
\* command register verified quiet, the mappings M and then the buffer
\* mappings B removed, one of them perhaps only partly.  Each sweep starts
\* only after the one before it.
Sweep(a, I, quiet, M, B, partly) ==
    /\ I \subseteq ArmedIrqs(a) /\ M \subseteq MappingsOf(a) /\ B \subseteq MappedBuffers(a)
    /\ partly \subseteq MappedBuffers(a) \ B /\ Cardinality(partly) <= 1
    /\ quiet => I = ArmedIrqs(a)
    /\ M # {} => quiet
    /\ B \cup partly # {} => quiet /\ M = MappingsOf(a)

\* Defect: QUIESCED is published although a sweep gave up.
SweptUnverified(a, quiet, M, B) == quiet /\ RegistrySound

Swept(a, quiet, M, B) ==
    /\ quiet /\ M = MappingsOf(a) /\ B = MappedBuffers(a)
    /\ RegistrySound

QuarantinedState(r) == IF r.state = "DEVICE_ACTIVE" THEN "QUARANTINED" ELSE r.state

RecoveryBegin(a) ==
    /\ Running /\ recovery[a] = NoRecovery
    /\ assignment[a].state = "ASSIGNED" /\ process[assignment[a].owner] = "STOPPED"
    /\ \E I \in SUBSET Irqs, quiet \in BOOLEAN, M \in SUBSET Mappings,
          B \in SUBSET Buffers, partly \in SUBSET Buffers :
          LET done == Swept(a, quiet, M, B)
          IN  /\ Sweep(a, I, quiet, M, B, partly)
              /\ Must(assignment[a].access >= Cardinality(I) + Cardinality(M))
              /\ assignment' = [assignment EXCEPT ![a].state = "QUARANTINED",
                                    ![a].access = @ - Cardinality(I) - Cardinality(M)]
              /\ irq' = [i \in Irqs |-> IF i \in I THEN [irq[i] EXCEPT !.armed = FALSE]
                                        ELSE irq[i]]
              /\ command' = [command EXCEPT ![a] = IF quiet THEN "QUIESCED" ELSE @]
              /\ bar' = [r \in Bars |-> [bar[r] EXCEPT !.active =
                                            @ - Cardinality({m \in M : mmio[m] = r})]]
              /\ mmio' = [m \in Mappings |-> IF m \in M THEN None ELSE mmio[m]]
              /\ buffer' = [b \in Buffers |->
                    [buffer[b] EXCEPT
                        !.mapped = IF b \in B THEN "NO" ELSE IF b \in partly THEN "PARTLY" ELSE @,
                        !.state = IF done /\ b \in LiveBuffers(a)
                                  THEN QuarantinedState(buffer[b]) ELSE @]]
              /\ submission' = [s \in Submissions |->
                    IF done /\ s \in SubmissionsOf(a)
                    THEN [submission[s] EXCEPT !.state = "QUARANTINED"] ELSE submission[s]]
              /\ recovery' = [recovery EXCEPT ![a] =
                    [state |-> IF done THEN "QUIESCED" ELSE "FAILED_QUARANTINED",
                     reset_required |-> command[a] = "MASTER" \/ assignment[a].exposed,
                     reset_completed |-> FALSE]]
    /\ UNCHANGED <<process, capability, flr, dma>>

RecoveryValid(a) == recovery[a] # NoRecovery /\ assignment[a].state = "QUARANTINED"

QuarantinedBuffers(a) == {b \in LiveBuffers(a) : buffer[b].state = "QUARANTINED"}
BuffersUnder(S) == {submission[s].buffer : s \in S}

\* complete_dma_recovery_locked releases the submissions S with their buffers,
\* then the other quarantined buffers B; both sweeps stop at an invalid entry.
DmaReleasable(a, S, B) ==
    /\ S \subseteq {s \in SubmissionsOf(a) : submission[s].state = "QUARANTINED"}
    /\ B \subseteq QuarantinedBuffers(a) \ BuffersUnder(SubmissionsOf(a))
    /\ B # {} => S = SubmissionsOf(a)
    /\ \A b \in BuffersUnder(S) \cup B : BufferValid(b) /\ buffer[b].mapped = "NO"
    /\ RegistrySound => S = SubmissionsOf(a) /\ BuffersUnder(S) \cup B = QuarantinedBuffers(a)

DmaSafe(a, S, B) ==
    /\ RegistrySound
    /\ assignment[a].access = Cardinality(BuffersUnder(S) \cup B)
    /\ assignment[a].gate => S # {}

\* Defect: the gate outlives the submission that held it.
ReleaseDmaKeepingGate(a, S, B) ==
    LET R == BuffersUnder(S) \cup B
    IN  /\ Must(assignment[a].access >= Cardinality(R))
        /\ assignment' = [assignment EXCEPT ![a].access = @ - Cardinality(R)]
        /\ buffer' = [b \in Buffers |-> IF b \in R
                         THEN [buffer[b] EXCEPT !.held = FALSE, !.state = "READY"]
                         ELSE buffer[b]]
        /\ submission' = [s \in Submissions |-> IF s \in S THEN NoSubmission ELSE submission[s]]

ReleaseDma(a, S, B) ==
    LET R == BuffersUnder(S) \cup B
    IN  /\ Must(/\ assignment[a].access >= Cardinality(R)
                /\ S # {} => CanReleaseGate(assignment[a], assignment[a].owner))
        /\ assignment' = [assignment EXCEPT ![a].access = @ - Cardinality(R),
                                            ![a].gate = @ /\ S = {}]
        /\ buffer' = [b \in Buffers |-> IF b \in R
                         THEN [buffer[b] EXCEPT !.held = FALSE, !.state = "READY"]
                         ELSE buffer[b]]
        /\ submission' = [s \in Submissions |-> IF s \in S THEN NoSubmission ELSE submission[s]]

\* Defect: a bus-master bit that reads clear is taken as proof.
ResetIgnored(a) == command[a] = "QUIESCED"

ResetNotNeeded(a) == ~recovery[a].reset_required /\ command[a] = "QUIESCED"

CompleteWithoutReset(a) ==
    /\ Running /\ RecoveryValid(a) /\ recovery[a].state = "QUIESCED" /\ ResetNotNeeded(a)
    /\ \E S \in SUBSET Submissions, B \in SUBSET Buffers :
          /\ DmaReleasable(a, S, B) /\ ReleaseDma(a, S, B)
          /\ recovery' = [recovery EXCEPT ![a].state =
                             IF DmaSafe(a, S, B) THEN "DMA_SAFE" ELSE @]
    /\ UNCHANGED <<process, capability, bar, mmio, irq, flr, hardware>>

\* First masked section of pci_device_recovery_complete_flr.
FlrEnter(c, a) ==
    /\ Running /\ flr[c] = NoCall
    /\ RecoveryValid(a) /\ recovery[a].state = "QUIESCED" /\ recovery[a].reset_required
    /\ flr' = [flr EXCEPT ![c] = [assignment |-> a, result |-> "RUNNING"]]
    /\ UNCHANGED <<assignment, process, capability, resources, recovery, hardware, halted>>

\* pci_flr_execute_quiesced, with interrupts enabled.
FlrExecute(c) ==
    /\ Running /\ flr[c].result = "RUNNING"
    /\ LET a == flr[c].assignment
       IN  \E result \in {"NOT_ATTEMPTED", "FAILED", "COMPLETE"} :
             /\ result # "NOT_ATTEMPTED" => command[a] = "QUIESCED"
             /\ flr' = [flr EXCEPT ![c].result = result]
             /\ dma' = IF result = "COMPLETE" THEN {d \in dma : d[1] # a} ELSE dma
    /\ UNCHANGED <<assignment, process, capability, resources, recovery, command, halted>>

\* Second masked section: revalidate, then apply the result.
FlrLeave(c) ==
    /\ Running /\ flr[c].result \notin {"NONE", "RUNNING"}
    /\ flr' = [flr EXCEPT ![c] = NoCall]
    /\ LET a == flr[c].assignment
           current == RecoveryValid(a) /\ recovery[a].state = "QUIESCED"
       IN  \/ /\ ~current \/ flr[c].result = "NOT_ATTEMPTED"
             /\ UNCHANGED <<assignment, buffer, submission, recovery, halted>>
          \/ /\ current /\ flr[c].result = "FAILED"
             /\ recovery' = [recovery EXCEPT ![a].state = "FAILED_QUARANTINED"]
             /\ UNCHANGED <<assignment, buffer, submission, halted>>
          \/ /\ current /\ flr[c].result = "COMPLETE"
             /\ \E S \in SUBSET Submissions, B \in SUBSET Buffers :
                   /\ DmaReleasable(a, S, B) /\ ReleaseDma(a, S, B)
                   /\ recovery' = [recovery EXCEPT ![a].reset_completed = TRUE,
                         ![a].state = IF DmaSafe(a, S, B) THEN "DMA_SAFE"
                                      ELSE "FAILED_QUARANTINED"]
    /\ UNCHANGED <<process, capability, bar, mmio, irq, hardware>>

CompleteAssignment(a) ==
    /\ Running /\ RecoveryValid(a) /\ recovery[a].state = "DMA_SAFE"
    /\ CanCompleteQuarantine(assignment[a], Refs(a))
    /\ assignment' = [assignment EXCEPT ![a] = QuarantineDone(@)]
    /\ recovery' = [recovery EXCEPT ![a] = NoRecovery]
    /\ UNCHANGED <<process, capability, resources, flr, hardware, halted>>

-----------------------------------------------------------------------------
Init ==
    /\ assignment = [a \in Assignments |-> Absent]
    /\ process = [p \in Processes |-> "RUNNING"]
    /\ capability = {}
    /\ buffer = [b \in Buffers |-> NoBuffer]
    /\ submission = [s \in Submissions |-> NoSubmission]
    /\ bar = [r \in Bars |-> NoBar]
    /\ mmio = [m \in Mappings |-> None]
    /\ irq = [i \in Irqs |-> NoIrq]
    /\ recovery = [a \in Assignments |-> NoRecovery]
    /\ flr = [c \in Callers |-> NoCall]
    /\ command \in [Assignments -> {"IDLE", "MASTER"}]
    /\ dma = {}
    /\ halted = FALSE

Ownership ==
    \/ \E a \in Assignments :
          \/ AssignmentCreate(a) \/ AssignmentDestroy(a)
          \/ BeginQuiesce(a) \/ CompleteRelease(a) \/ ForceQuarantine(a)
          \/ \E p \in Processes : Claim(a, p)
    \/ \E p \in Processes : ProcessStop(p) \/ ProcessDestroy(p)
    \/ \E o \in Assignments \cup Buffers \cup Bars \cup Irqs : Revoke(o)

CpuAccess ==
    \/ \E r \in Bars : \/ BarDestroy(r)
                       \/ \E a \in Assignments : BarCreate(r, a)
                       \/ \E m \in Mappings : MmioMap(m, r)
    \/ \E m \in Mappings : MmioUnmap(m)
    \/ \E i \in Irqs : \/ IrqArm(i) \/ IrqForceDisarm(i) \/ IrqDestroy(i)
                       \/ \E a \in Assignments : IrqCreate(i, a)

DeviceAccess ==
    \/ \E b \in Buffers : \/ BufferMap(b) \/ BufferForceUnmap(b) \/ BufferDestroy(b)
                          \/ \E a \in Assignments : BufferCreate(b, a)
                          \/ \E s \in Submissions : SubmissionBegin(s, b)
    \/ \E s \in Submissions : SubmissionComplete(s) \/ DeviceStart(s)
    \/ \E a \in Assignments : \/ MarkBusMasterExposed(a) \/ NoteInheritedBusMaster(a)
                              \/ MediatorCommand(a)
    \/ \E d \in dma : DeviceDone(d)

Recovering ==
    \/ \E a \in Assignments : \/ RecoveryBegin(a) \/ CompleteWithoutReset(a)
                              \/ CompleteAssignment(a)
                              \/ \E c \in Callers : FlrEnter(c, a)
    \/ \E c \in Callers : FlrExecute(c) \/ FlrLeave(c)

Next == Ownership \/ CpuAccess \/ DeviceAccess \/ Recovering

Spec == Init /\ [][Next]_vars

-----------------------------------------------------------------------------
(* Properties *)

\* Type invariant of the assignment, its resources and the recovery objects.
TypeOK ==
    /\ assignment \in [Assignments -> AssignmentRecord]
    /\ process \in [Processes -> {"RUNNING", "STOPPED", "GONE"}]
    /\ capability \subseteq Assignments \cup Buffers \cup Bars \cup Irqs
    /\ buffer \in [Buffers ->
          [assignment : Assignments \cup {None}, owner : Processes \cup {None},
           state : {"NONE", "READY", "DEVICE_ACTIVE", "QUARANTINED"}, held : BOOLEAN,
           mapped : {"NO", "PARTLY", "YES"}]]
    /\ submission \in [Submissions -> [buffer : Buffers \cup {None},
                                       state : {"NONE", "ACTIVE", "QUARANTINED"}]]
    /\ bar \in [Bars -> [assignment : Assignments \cup {None}, owner : Processes \cup {None},
                         active : 0 .. ActiveAccessLimit]]
    /\ mmio \in [Mappings -> Bars \cup {None}]
    /\ irq \in [Irqs -> [assignment : Assignments \cup {None}, owner : Processes \cup {None},
                         armed : BOOLEAN]]
    /\ recovery \in [Assignments ->
          [state : {"NONE", "QUIESCED", "DMA_SAFE", "FAILED_QUARANTINED"},
           reset_required : BOOLEAN, reset_completed : BOOLEAN]]
    /\ flr \in [Callers -> [assignment : Assignments \cup {None},
             result : {"NONE", "RUNNING", "NOT_ATTEMPTED", "FAILED", "COMPLETE"}]]
    /\ command \in [Assignments -> {"IDLE", "MASTER", "QUIESCED"}]
    /\ dma \subseteq Assignments \X Buffers
    /\ halted \in BOOLEAN

\* The counters of an assignment are exactly the resources that pin it, over
\* every order of creation, access, quarantine and recovery: one child per
\* live BAR, interrupt and buffer, one access per mapping, armed interrupt and
\* buffer the device holds, and the gate exactly while one submission lives
\* (pci_assignment.c:276-346).  So no release that the kernel takes for granted
\* fails, and no teardown or rollback path reaches cpu_halt_forever().
PinsExact ==
    /\ TypeOK /\ ~halted
    /\ \A a \in Assignments :
           /\ assignment[a].children =
                 Cardinality(LiveBuffers(a)) + Cardinality(LiveBars(a)) + Cardinality(LiveIrqs(a))
           /\ assignment[a].access =
                 Cardinality(MappingsOf(a)) + Cardinality(ArmedIrqs(a)) +
                 Cardinality({b \in LiveBuffers(a) : buffer[b].held})
           /\ Cardinality(SubmissionsOf(a)) = (IF assignment[a].gate THEN 1 ELSE 0)

\* No frame goes back to READY, and so none to the page allocator, while the
\* device may still access it: neither the driver's death, nor clearing the
\* bus-master bit, nor unmapping ends the quarantine of a buffer
\* (pci_device_recovery.c:198-281, pci_dma_buffer.c:386-430).
FramesStayPut ==
    \A d \in dma : /\ buffer[d[2]].assignment = d[1]
                   /\ buffer[d[2]].state \in {"DEVICE_ACTIVE", "QUARANTINED"}

\* While a submission is in flight on an assigned device no user mapping of its
\* buffer and no BAR access exists, and none can be opened
\* (pci_dma_submission.c:105-172, pci_bar_resource.c:266-278).
SubmissionExcludesCpu ==
    \A s \in Submissions : submission[s].state = "ACTIVE" =>
        LET b == submission[s].buffer
        IN  buffer[b].mapped = "NO" /\ BarsIdle(buffer[b].assignment)

\* QUIESCED means that the CPU is out of the picture: what still pins the
\* assignment is quarantined DMA and nothing else, so releasing that DMA is
\* all that completion has to do (pci_device_recovery.c:120-213).
QuiescedIsQuiet ==
    \A a \in Assignments : recovery[a].state = "QUIESCED" =>
        /\ MappingsOf(a) = {} /\ ArmedIrqs(a) = {}
        /\ \A b \in LiveBuffers(a) : buffer[b].mapped = "NO" /\ buffer[b].state # "DEVICE_ACTIVE"
        /\ command[a] = "QUIESCED"

\* No frame is reused while a device may access it, a submission excludes the
\* processor, the counters are exact and quiesced means quiet.
NoReuseUnderDma == FramesStayPut /\ SubmissionExcludesCpu /\ PinsExact /\ QuiescedIsQuiet
=============================================================================
