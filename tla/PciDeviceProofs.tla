-------------------------- MODULE PciDeviceProofs --------------------------
(***************************************************************************)
(* The device, its mediator and the recovery of a dead driver's function   *)
(* keep the invariant too, so the counters of module PciDevice are exact,  *)
(* a device's frames are not reused while it may access them, a submission *)
(* excludes the processor and a quiesced device is quiet, for every number *)
(* of functions, owners, resources and limits, with one caller of the      *)
(* function level reset.                                                   *)
(***************************************************************************)
EXTENDS PciDeviceInvariant, TLAPS

(* The backend and the device *)
LEMMA ExposeStep ==
    ASSUME IInv, NEW a \in Assignments, assignment' = [assignment EXCEPT ![a].exposed = TRUE],
           assignment[a].state = "ASSIGNED",
           UNCHANGED <<process, capability, resources, recovery, flr, hardware, halted>>
    PROVE  IInv'
<1>1. /\ assignment[a] \in AssignmentRecord /\ capability \subseteq Handles
      /\ assignment \in [Assignments -> AssignmentRecord]
    BY Zenon, Record, Typed
<1>2. PICK new : new = [assignment[a] EXCEPT !.exposed = TRUE]
    BY Zenon
<1>3. /\ new \in AssignmentRecord /\ new.exposed = TRUE /\ new.state = assignment[a].state
      /\ new.children = assignment[a].children /\ new.access = assignment[a].access
      /\ new.gate = assignment[a].gate
    BY Zenon, <1>1, <1>2 DEF AssignmentRecord
<1>4. assignment' = [assignment EXCEPT ![a] = new]
    BY <1>1, <1>2
<1>5. "ASSIGNED" \notin {"NONE", "AVAILABLE"} /\ "ASSIGNED" # "QUARANTINED"
    OBVIOUS
<1>6. recovery[a] = NoRecovery
    BY Zenon, <1>5, Recovering1
<1> QED
    BY Zenon, <1>1, <1>3, <1>4, <1>5, <1>6, OneRecord

(* Only the device, or a caller of its reset, moves. *)
LEMMA HardwareStep ==
    ASSUME IInv, UNCHANGED <<assignment, process, capability, resources, recovery, halted>>,
           flr' \in [Callers -> CallRecord], command' \in [Assignments -> {"IDLE", "MASTER", "QUIESCED"}],
           dma' \subseteq Assignments \X Buffers, FramesStayPut', RecoverySound', FlrSound',
           \A x \in Assignments : recovery[x].state = "QUIESCED" => command'[x] = command[x]
    PROVE  IInv'
<1>1. /\ assignment' = assignment /\ process' = process /\ capability' = capability /\ buffer' = buffer
      /\ submission' = submission /\ bar' = bar /\ mmio' = mmio /\ irq' = irq /\ recovery' = recovery
      /\ halted' = halted
    BY Zenon DEF resources
<1>2. TypeOK'
  <2>1. TypeOK
      BY Zenon DEF IInv
  <2> QED
      BY Zenon, <1>1, <2>1, Types, TypesAfter
<1>3. \A x : /\ nBuffers(x)' = nBuffers(x) /\ nBars(x)' = nBars(x) /\ nIrqs(x)' = nIrqs(x)
             /\ nMappings(x)' = nMappings(x) /\ nArmed(x)' = nArmed(x) /\ nHeld(x)' = nHeld(x)
             /\ nSubmissions(x)' = nSubmissions(x)
    BY Zenon, <1>1, SameBuffers, SameHeld, SameSubmissions, CpuKept
<1>4. Counted'
  <2>1. ASSUME NEW x \in Assignments PROVE CountedAt(x)'
    <3>1. CountedAt(x)
        BY Zenon, AtNow
    <3> QED
        BY Zenon, <1>1, <1>3, <3>1 DEF CountedAt, ChildrenAt, AccessAt, GateAt
  <2> QED
      BY Zenon, <2>1, CountedAfter
<1>5. FreeUnpinned' /\ DmaSound'
  <2>1. FreeUnpinned /\ DmaSound
      BY Zenon DEF IInv
  <2> QED
      BY Zenon, <1>1, <2>1 DEF FreeUnpinned, DmaSound
<1>6. ResourcesSound'
  <2>1. ResourcesSound
      BY Zenon DEF IInv
  <2>2. \A r \in Bars : Through(r)' = Through(r)
      BY Zenon, <1>1 DEF Through
  <2> QED
      BY Zenon, <1>1, <2>1, <2>2 DEF ResourcesSound
<1>7. SubmissionExcludesCpu'
  <2>1. SubmissionExcludesCpu
      BY Zenon DEF IInv
  <2> QED
      BY Zenon, <1>1, <2>1 DEF SubmissionExcludesCpu, BarsIdle, LiveBars
<1>8. QuiescedIsQuiet'
  <2>1. ASSUME NEW x \in Assignments, recovery'[x].state = "QUIESCED" PROVE QuietAt(x)'
    <3>1. recovery[x].state = "QUIESCED" /\ QuietAt(x)
        BY Zenon, <1>1, <2>1, QuiescedIn
    <3>2. MappingsOf(x)' = MappingsOf(x) /\ ArmedIrqs(x)' = ArmedIrqs(x) /\ LiveBuffers(x)' = LiveBuffers(x)
        BY Zenon, <1>1, SameMappings, SameArmed, SameBuffers
    <3> QED
        BY Zenon, <1>1, <3>1, <3>2 DEF QuietAt
  <2> QED
      BY Zenon, <2>1, QuietAfter
<1> QED
    BY Zenon, <1>1, <1>2, <1>4, <1>5, <1>6, <1>7, <1>8, Afterwards

LEMMA MediatorCommandStep == ASSUME IInv, NEW a \in Assignments, MediatorCommand(a) PROVE IInv'
<1>1. /\ assignment[a].state = "ASSIGNED" /\ assignment[a].exposed
      /\ UNCHANGED <<assignment, process, capability, resources, recovery, flr, dma, halted>>
    BY Zenon DEF MediatorCommand
<1>2. PICK c \in {"IDLE", "MASTER"} : command' = [command EXCEPT ![a] = c]
    BY Zenon DEF MediatorCommand
<1>3. command \in [Assignments -> {"IDLE", "MASTER", "QUIESCED"}] /\ dma \subseteq Assignments \X Buffers
      /\ flr \in [Callers -> CallRecord]
    BY Zenon, Typed
<1>4. /\ command' \in [Assignments -> {"IDLE", "MASTER", "QUIESCED"}]
      /\ \A x \in Assignments : x # a => command'[x] = command[x]
    BY <1>2, <1>3
<1>5. "ASSIGNED" # "QUARANTINED"
    OBVIOUS
<1>6. \A x \in Assignments : recovery[x].state = "QUIESCED" => command'[x] = command[x]
    BY Zenon, <1>1, <1>4, <1>5, QuiescedIn
<1>7. /\ assignment' = assignment /\ recovery' = recovery /\ flr' = flr /\ dma' = dma /\ buffer' = buffer
    BY Zenon, <1>1 DEF resources
<1>8. FramesStayPut' /\ FlrSound'
  <2>1. FramesStayPut /\ FlrSound
      BY Zenon DEF IInv
  <2> QED
      BY Zenon, <1>7, <2>1 DEF FramesStayPut, FlrSound
<1>9. RecoverySound'
  <2>1. RecoverySound
      BY Zenon DEF IInv
  <2>2. ASSUME NEW d \in dma
        PROVE  IF recovery[d[1]] = NoRecovery THEN command'[d[1]] = "MASTER" \/ assignment[d[1]].exposed
               ELSE recovery[d[1]].reset_required
      BY Zenon, <1>1, <1>4, <2>1, DmaIn DEF RecoverySound
  <2> QED
      BY Zenon, <1>7, <2>1, <2>2 DEF RecoverySound
<1> QED
    BY Zenon, <1>1, <1>3, <1>4, <1>6, <1>7, <1>8, <1>9, HardwareStep

LEMMA DeviceStartStep ==
    ASSUME IInv, NEW s \in Submissions, NEW b \in Buffers, b = submission[s].buffer, NEW a \in Assignments,
           a = buffer[b].assignment, DeviceStart(s)
    PROVE  IInv'
<1>1. /\ submission[s].state = "ACTIVE" /\ command[a] = "MASTER" /\ assignment[a].state = "ASSIGNED"
      /\ dma' = dma \cup {<<a, b>>}
      /\ UNCHANGED <<assignment, process, capability, resources, recovery, flr, command, halted>>
    BY Zenon DEF DeviceStart
<1>2. dma \subseteq Assignments \X Buffers /\ flr \in [Callers -> CallRecord]
      /\ command \in [Assignments -> {"IDLE", "MASTER", "QUIESCED"}]
    BY Zenon, Typed
<1>3. /\ assignment' = assignment /\ recovery' = recovery /\ flr' = flr /\ command' = command /\ buffer' = buffer
    BY Zenon, <1>1 DEF resources
<1>4. dma' \subseteq Assignments \X Buffers
    BY <1>1, <1>2
<1>5. "ASSIGNED" # "QUARANTINED"
    OBVIOUS
<1>6. recovery[a] = NoRecovery
    BY Zenon, <1>1, <1>5, Recovering1
<1>7. <<a, b>>[1] = a /\ <<a, b>>[2] = b
    OBVIOUS
<1>8. FramesStayPut'
  <2>1. buffer[b].state \in {"DEVICE_ACTIVE", "QUARANTINED"}
    <3>1. buffer[b].held
        BY Zenon, <1>1, ActiveIn, SubmissionIn
    <3> QED
        BY Zenon, <3>1 DEF IInv, DmaSound
  <2>2. FramesStayPut
      BY Zenon DEF IInv
  <2> QED
      BY Zenon, <1>1, <1>3, <1>7, <2>1, <2>2 DEF FramesStayPut
<1>9. RecoverySound'
  <2>1. RecoverySound
      BY Zenon DEF IInv
  <2>2. ASSUME NEW d \in dma'
        PROVE  IF recovery[d[1]] = NoRecovery THEN command[d[1]] = "MASTER" \/ assignment[d[1]].exposed
               ELSE recovery[d[1]].reset_required
    <3>1. d \in dma \/ d = <<a, b>>
        BY Zenon, <1>1, <2>2
    <3> QED
        BY Zenon, <1>1, <1>6, <1>7, <2>1, <3>1 DEF RecoverySound
  <2> QED
      BY Zenon, <1>3, <2>1, <2>2 DEF RecoverySound
<1>10. FlrSound'
  <2>1. ASSUME NEW c \in Callers, flr[c].result # "NONE"
        PROVE  /\ flr[c].assignment # None
               /\ recovery[flr[c].assignment].state = "QUIESCED" /\ recovery[flr[c].assignment].reset_required
               /\ flr[c].result = "COMPLETE" => \A d \in dma' : d[1] # flr[c].assignment
    <3>1. /\ flr[c].assignment # None
          /\ recovery[flr[c].assignment].state = "QUIESCED" /\ recovery[flr[c].assignment].reset_required
          /\ flr[c].result = "COMPLETE" => \A d \in dma : d[1] # flr[c].assignment
        BY Zenon, <2>1 DEF IInv, FlrSound
    <3>2. NoRecovery.state # "QUIESCED"
        BY DEF NoRecovery
    <3>3. flr[c].assignment # a
        BY Zenon, <1>6, <3>1, <3>2
    <3> QED
        BY Zenon, <1>1, <1>7, <3>1, <3>3
  <2> QED
      BY Zenon, <1>3, <2>1 DEF FlrSound
<1> QED
    BY Zenon, <1>1, <1>2, <1>3, <1>4, <1>8, <1>9, <1>10, HardwareStep

LEMMA DeviceDoneStep == ASSUME IInv, NEW d \in dma, DeviceDone(d) PROVE IInv'
<1>1. /\ dma' = dma \ {d}
      /\ UNCHANGED <<assignment, process, capability, resources, recovery, flr, command, halted>>
    BY Zenon DEF DeviceDone
<1>2. dma' \subseteq Assignments \X Buffers /\ flr \in [Callers -> CallRecord] /\ dma' \subseteq dma
      /\ command \in [Assignments -> {"IDLE", "MASTER", "QUIESCED"}]
    BY Zenon, <1>1, Typed
<1>3. /\ assignment' = assignment /\ recovery' = recovery /\ flr' = flr /\ command' = command /\ buffer' = buffer
    BY Zenon, <1>1 DEF resources
<1>4. FramesStayPut /\ RecoverySound /\ FlrSound
    BY Zenon DEF IInv
<1>5. FramesStayPut'
    BY Zenon, <1>2, <1>3, <1>4 DEF FramesStayPut
<1>6. RecoverySound'
    BY Zenon, <1>2, <1>3, <1>4 DEF RecoverySound
<1>7. FlrSound'
    BY Zenon, <1>2, <1>3, <1>4 DEF FlrSound
<1> QED
    BY Zenon, <1>1, <1>2, <1>3, <1>5, <1>6, <1>7, HardwareStep

LEMMA DeviceAccessStep == ASSUME IInv, DeviceAccess PROVE IInv'
<1>1. ASSUME NEW b \in Buffers, BufferMap(b) \/ BufferForceUnmap(b) PROVE IInv'
    BY Zenon, <1>1, BufferMapStep, BufferForceUnmapStep
<1>2. ASSUME NEW b \in Buffers, BufferDestroy(b) PROVE IInv'
  <2>1. buffer[b].assignment # None
      BY Zenon, <1>2 DEF BufferDestroy, CanDestroyBuffer, BufferValid
  <2> QED
      BY Zenon, <1>2, <2>1, BufferIn, BufferDestroyStep
<1>3. ASSUME NEW b \in Buffers, NEW a \in Assignments, BufferCreate(b, a) PROVE IInv'
    BY Zenon, <1>3, BufferCreateStep
<1>4. ASSUME NEW b \in Buffers, NEW s \in Submissions, SubmissionBegin(s, b) PROVE IInv'
  <2>1. buffer[b].assignment # None
      BY Zenon, <1>4 DEF SubmissionBegin, CanSubmit, BufferValid
  <2> QED
      BY Zenon, <1>4, <2>1, BufferIn, SubmissionBeginStep
<1>5. ASSUME NEW s \in Submissions, SubmissionComplete(s) PROVE IInv'
  <2>1. submission[s].state = "ACTIVE"
      BY Zenon, <1>5 DEF SubmissionComplete
  <2> QED
      BY Zenon, <1>5, <2>1, ActiveIn, SubmissionIn, SubmissionCompleteStep
<1>6. ASSUME NEW s \in Submissions, DeviceStart(s) PROVE IInv'
  <2>1. submission[s].state = "ACTIVE"
      BY Zenon, <1>6 DEF DeviceStart
  <2> QED
      BY Zenon, <1>6, <2>1, ActiveIn, SubmissionIn, DeviceStartStep
<1>7. ASSUME NEW a \in Assignments, MarkBusMasterExposed(a) \/ NoteInheritedBusMaster(a) PROVE IInv'
    BY Zenon, <1>7, ExposeStep DEF MarkBusMasterExposed, NoteInheritedBusMaster, CanMarkExposed
<1>8. ASSUME NEW a \in Assignments, MediatorCommand(a) PROVE IInv'
    BY Zenon, <1>8, MediatorCommandStep
<1>9. ASSUME NEW d \in dma, DeviceDone(d) PROVE IInv'
    BY Zenon, <1>9, DeviceDoneStep
<1> QED
    BY Zenon, <1>1, <1>2, <1>3, <1>4, <1>5, <1>6, <1>7, <1>8, <1>9 DEF DeviceAccess

-----------------------------------------------------------------------------
(* Recovery *)

Reduced(new, r, k, g) ==
    /\ new = [r EXCEPT !.access = r.access - k, !.gate = g]
    /\ new.state = r.state /\ new.owner = r.owner
    /\ new.exposed = r.exposed /\ new.children = r.children /\ new.access = r.access - k
    /\ new.gate = g

LEMMA DmaReleased ==
    ASSUME NEW r \in AssignmentRecord, NEW k \in Nat, NEW g \in BOOLEAN, r.access >= k, ActiveAccessLimit \in Nat
    PROVE  \E new \in AssignmentRecord : Reduced(new, r, k, g)
<1>1. PICK mid : mid = [r EXCEPT !.access = @ - k]
    BY Zenon
<1>2. /\ mid \in AssignmentRecord /\ mid.state = r.state /\ mid.owner = r.owner
      /\ mid.exposed = r.exposed /\ mid.children = r.children /\ mid.access = r.access - k
    BY <1>1 DEF AssignmentRecord
<1>3. PICK new \in AssignmentRecord : new = [mid EXCEPT !.gate = g]
    BY Zenon, <1>2, GateClosed
<1>4. /\ new.gate = g /\ new.state = mid.state /\ new.owner = mid.owner
      /\ new.exposed = mid.exposed /\ new.children = mid.children /\ new.access = mid.access
    BY Zenon, <1>2, <1>3, GateClosed
<1>5. new = [r EXCEPT !.access = r.access - k, !.gate = g]
    BY <1>1, <1>3
<1> QED
    BY Zenon, <1>2, <1>3, <1>4, <1>5 DEF Reduced

LEMMA DmaReleasedIs ==
    ASSUME IInv, NEW a \in Assignments, NEW S, NEW k \in Nat, assignment[a].access >= k,
           assignment' = [assignment EXCEPT ![a].access = @ - k, ![a].gate = @ /\ S = {}]
    PROVE  /\ Stays(a) /\ assignment'[a].children = assignment[a].children
           /\ assignment'[a].access = assignment[a].access - k
           /\ S = {} => assignment'[a].gate = assignment[a].gate
           /\ S # {} => assignment'[a].gate = FALSE
<1>0. assignment[a] \in AssignmentRecord /\ ActiveAccessLimit \in Nat
    BY Zenon, Record
<1>1. PICK g \in BOOLEAN : g = (assignment[a].gate /\ S = {})
    BY Zenon
<1>2. (S = {} => g = assignment[a].gate) /\ (S # {} => g = FALSE)
    BY Zenon, <1>1, Record
<1>3. PICK new \in AssignmentRecord :
          /\ new = [assignment[a] EXCEPT !.access = @ - k, !.gate = g]
          /\ new.state = assignment[a].state /\ new.owner = assignment[a].owner
          /\ new.exposed = assignment[a].exposed /\ new.children = assignment[a].children
          /\ new.access = assignment[a].access - k /\ new.gate = g
  <2>1. PICK r \in AssignmentRecord : r = assignment[a]
      BY Zenon, <1>0
  <2>3. r.access >= k /\ ActiveAccessLimit \in Nat
      BY Zenon, <1>0, <2>1
  <2>4. \E new \in AssignmentRecord : Reduced(new, r, k, g)
      BY Zenon, <2>3, DmaReleased
  <2> QED
      BY Zenon, <2>1, <2>4 DEF Reduced
<1>4. assignment' = [assignment EXCEPT ![a] = new]
    BY Zenon, <1>1, <1>3
<1>6. Stays(a) /\ assignment'[a] = new
    BY Zenon, <1>3, <1>4, Replaced
<1> QED
    BY Zenon, <1>2, <1>3, <1>6

LEMMA ReleaseDmaStep ==
    ASSUME IInv, NEW a \in Assignments, NEW S \in SUBSET Submissions, NEW B \in SUBSET Buffers,
           assignment[a].state = "QUARANTINED", \A d \in dma : d[1] # a,
           DmaReleasable(a, S, B), ReleaseDma(a, S, B),
           UNCHANGED <<process, capability, bar, mmio, irq, hardware>>,
           recovery' \in [Assignments -> RecoveryRecord], flr' \in [Callers -> CallRecord], FlrSound',
           \A x \in Assignments : /\ x # a => recovery'[x] = recovery[x]
                                  /\ recovery'[x].state = "QUIESCED" => recovery[x].state = "QUIESCED"
    PROVE  IInv'
<1>1. PICK R : R = BuffersUnder(S) \cup B
    BY Zenon
<1>2. /\ Must(/\ assignment[a].access >= Cardinality(R)
              /\ S # {} => CanReleaseGate(assignment[a], assignment[a].owner))
      /\ assignment' = [assignment EXCEPT ![a].access = @ - Cardinality(R), ![a].gate = @ /\ S = {}]
      /\ buffer' = [b \in Buffers |-> IF b \in R THEN [buffer[b] EXCEPT !.held = FALSE, !.state = "READY"]
                                      ELSE buffer[b]]
      /\ submission' = [s \in Submissions |-> IF s \in S THEN NoSubmission ELSE submission[s]]
    BY Zenon, <1>1 DEF ReleaseDma
<1>3. /\ S \subseteq SubmissionsOf(a) /\ B \subseteq QuarantinedBuffers(a)
      /\ B \cap BuffersUnder(SubmissionsOf(a)) = {}
    BY Zenon DEF DmaReleasable
<1>4. ASSUME NEW b \in R PROVE b \in HeldBuffers(a)
  <2>1. CASE b \in B
    <3>1. b \in LiveBuffers(a) /\ b \in Buffers /\ buffer[b].state = "QUARANTINED"
        BY Zenon, <1>3, <2>1 DEF QuarantinedBuffers, LiveBuffers
    <3>2. buffer[b].held
        BY Zenon, <3>1 DEF IInv, DmaSound
    <3> QED
        BY Zenon, <3>1, <3>2 DEF HeldBuffers
  <2>2. CASE b \in BuffersUnder(S)
    <3>1. PICK s \in S : b = submission[s].buffer
        BY Zenon, <2>2 DEF BuffersUnder
    <3>2. s \in Submissions /\ b # None /\ buffer[b].assignment = a
        BY Zenon, <1>3, <3>1 DEF SubmissionsOf
    <3> QED
        BY Zenon, <3>1, <3>2, SubmissionIn DEF HeldBuffers, LiveBuffers
  <2> QED
      BY Zenon, <1>1, <1>4, <2>1, <2>2
<1>5. R \subseteq HeldBuffers(a) /\ \A b \in R : b \in Buffers /\ buffer[b].assignment = a
    BY Zenon, <1>4 DEF HeldBuffers, LiveBuffers
<1>6. ASSUME NEW t \in Submissions, submission[t].buffer \in R PROVE t \in S
  <2>1. submission[t].buffer \in Buffers /\ buffer[submission[t].buffer].assignment = a
      BY Zenon, <1>5, <1>6
  <2>2. None \notin Buffers
      BY Zenon, Typed DEF Parameters
  <2>3. t \in SubmissionsOf(a)
      BY Zenon, <2>1, <2>2 DEF SubmissionsOf
  <2>4. submission[t].buffer \in BuffersUnder(SubmissionsOf(a))
      BY Zenon, <2>3 DEF BuffersUnder
  <2>5. submission[t].buffer \in BuffersUnder(S)
      BY Zenon, <1>1, <1>3, <1>6, <2>4
  <2>6. PICK s \in S : TRUE
      BY Zenon, <2>5 DEF BuffersUnder
  <2> QED
      BY Zenon, <1>3, <2>3, <2>6, Pinned
<1>7. ASSUME NEW d \in dma PROVE d[2] \notin R
  <2>1. buffer[d[2]].assignment = d[1] /\ d[1] # a
      BY Zenon, DmaIn
  <2> QED
      BY Zenon, <1>5, <2>1
<1>8. /\ Cardinality(R) \in Nat /\ assignment[a].access >= Cardinality(R) /\ ActiveAccessLimit \in Nat
      /\ assignment[a] \in AssignmentRecord
  <2>1. CountedAt(a) /\ Numbered(a) /\ IsFiniteSet(HeldBuffers(a))
      BY Zenon, AtNow, Finite, Typed
  <2>2. /\ Cardinality(R) \in Nat /\ Cardinality(HeldBuffers(a) \ R) \in Nat
        /\ nHeld(a) = Cardinality(HeldBuffers(a) \ R) + Cardinality(R)
      BY Zenon, <1>5, <2>1, Parted DEF nHeld
  <2>3. assignment[a].access = nMappings(a) + nArmed(a) + nHeld(a)
      BY Zenon, <2>1 DEF CountedAt, AccessAt
  <2>4. nMappings(a) \in Nat /\ nArmed(a) \in Nat
      BY Zenon, <2>1 DEF Numbered
  <2>5. assignment[a].access >= Cardinality(R)
      BY <2>2, <2>3, <2>4
  <2> QED
      BY Zenon, <2>2, <2>5, Record
<1>9. halted' = FALSE
  <2>1. "QUARANTINED" \notin {"NONE", "AVAILABLE"} /\ "QUARANTINED" # "QUIESCING"
      OBVIOUS
  <2>2. S # {} => assignment[a].gate
      BY Zenon, <1>3, Pinned
  <2> QED
      BY Zenon, <1>2, <1>8, <2>1, <2>2 DEF Must, CanReleaseGate, OwnedBy
<1>10. /\ Stays(a) /\ assignment'[a].children = assignment[a].children
       /\ assignment'[a].access = assignment[a].access - Cardinality(R)
       /\ S = {} => assignment'[a].gate = assignment[a].gate
       /\ S # {} => assignment'[a].gate = FALSE
    BY Zenon, <1>2, <1>8, DmaReleasedIs
<1>11. command' = command /\ dma' = dma
    BY Zenon DEF hardware
<1>12. RecoverySound'
  <2>1. RecoverySound
      BY Zenon DEF IInv
  <2>2. ASSUME NEW x \in Assignments, recovery'[x] # NoRecovery PROVE assignment'[x].state = "QUARANTINED"
      BY ZenonT(30), <1>10, <2>1, <2>2 DEF RecoverySound, Stays
  <2>3. ASSUME NEW d \in dma
        PROVE  IF recovery'[d[1]] = NoRecovery THEN command[d[1]] = "MASTER" \/ assignment'[d[1]].exposed
               ELSE recovery'[d[1]].reset_required
    <3>1. d[1] \in Assignments /\ recovery'[d[1]] = recovery[d[1]]
        BY Zenon, DmaIn
    <3>2. assignment'[d[1]] = assignment[d[1]]
        BY Zenon, <1>10, <3>1 DEF Stays
    <3>3. IF recovery[d[1]] = NoRecovery THEN command[d[1]] = "MASTER" \/ assignment[d[1]].exposed
          ELSE recovery[d[1]].reset_required
        BY Zenon, <2>1 DEF RecoverySound
    <3> QED
        BY Zenon, <3>1, <3>2, <3>3
  <2> QED
      BY Zenon, <1>11, <2>2, <2>3 DEF RecoverySound
<1>13. assignment[a].state \notin {"NONE", "AVAILABLE"}
    OBVIOUS
<1>14. UNCHANGED <<process, capability, bar, mmio, irq, command, dma>>
    BY Zenon, <1>11
<1> QED
    BY Zenon, <1>2, <1>3, <1>5, <1>6, <1>7, <1>9, <1>10, <1>12, <1>13, <1>14, ReleaseStep

LEMMA CompleteWithoutResetStep == ASSUME IInv, NEW a \in Assignments, CompleteWithoutReset(a) PROVE IInv'
<1>1. /\ recovery[a] # NoRecovery /\ assignment[a].state = "QUARANTINED" /\ recovery[a].state = "QUIESCED"
      /\ ~recovery[a].reset_required
      /\ UNCHANGED <<process, capability, bar, mmio, irq, flr, hardware>>
    BY Zenon DEF CompleteWithoutReset, RecoveryValid, ResetNotNeeded
<1>2. PICK S \in SUBSET Submissions, B \in SUBSET Buffers :
          /\ DmaReleasable(a, S, B) /\ ReleaseDma(a, S, B)
          /\ recovery' = [recovery EXCEPT ![a].state = IF DmaSafe(a, S, B) THEN "DMA_SAFE" ELSE @]
    BY Zenon DEF CompleteWithoutReset
<1>3. recovery \in [Assignments -> RecoveryRecord] /\ flr \in [Callers -> CallRecord]
    BY Zenon, Typed
<1>4. PICK st \in {"DMA_SAFE", "QUIESCED"} : recovery' = [recovery EXCEPT ![a].state = st]
    BY Zenon, <1>1, <1>2
<1>5. /\ recovery' \in [Assignments -> RecoveryRecord]
      /\ \A x \in Assignments : x # a => recovery'[x] = recovery[x]
    BY <1>3, <1>4 DEF RecoveryRecord
<1>6. ASSUME NEW d \in dma PROVE d[1] # a
    BY Zenon, <1>1, <1>6 DEF IInv, RecoverySound
<1>7. flr' = flr /\ dma' = dma
    BY Zenon, <1>1 DEF hardware
<1>8. FlrSound'
  <2>1. ASSUME NEW c \in Callers, flr[c].result # "NONE"
        PROVE  /\ flr[c].assignment # None
               /\ recovery'[flr[c].assignment].state = "QUIESCED" /\ recovery'[flr[c].assignment].reset_required
               /\ flr[c].result = "COMPLETE" => \A d \in dma : d[1] # flr[c].assignment
    <3>1. /\ flr[c].assignment # None
          /\ recovery[flr[c].assignment].state = "QUIESCED" /\ recovery[flr[c].assignment].reset_required
          /\ flr[c].result = "COMPLETE" => \A d \in dma : d[1] # flr[c].assignment
        BY Zenon, <2>1 DEF IInv, FlrSound
    <3>2. flr[c].assignment \in Assignments
      <4>1. flr[c].assignment \in Assignments \cup {None}
          BY <1>3 DEF CallRecord
      <4> QED
          BY Zenon, <3>1, <4>1
    <3> QED
        BY Zenon, <1>1, <1>5, <3>1, <3>2
  <2> QED
      BY Zenon, <1>7, <2>1 DEF FlrSound
<1>9. \A x \in Assignments : recovery'[x].state = "QUIESCED" => recovery[x].state = "QUIESCED"
    BY Zenon, <1>1, <1>5
<1>10. flr' \in [Callers -> CallRecord]
    BY Zenon, <1>3, <1>7
<1> QED
    BY Zenon, <1>1, <1>2, <1>5, <1>6, <1>8, <1>9, <1>10, ReleaseDmaStep

(* The caller inside the reset. *)
LEMMA CallerIn ==
    ASSUME IInv, NEW c \in Callers, flr[c].result # "NONE"
    PROVE  /\ flr[c].assignment \in Assignments /\ recovery[flr[c].assignment].state = "QUIESCED"
           /\ assignment[flr[c].assignment].state = "QUARANTINED" /\ recovery[flr[c].assignment].reset_required
           /\ flr[c].result = "COMPLETE" => \A d \in dma : d[1] # flr[c].assignment
<1>1. /\ flr[c].assignment # None
      /\ recovery[flr[c].assignment].state = "QUIESCED" /\ recovery[flr[c].assignment].reset_required
      /\ flr[c].result = "COMPLETE" => \A d \in dma : d[1] # flr[c].assignment
    BY Zenon DEF IInv, FlrSound
<1>2. flr[c].assignment \in Assignments \cup {None}
  <2>1. flr \in [Callers -> CallRecord]
      BY Zenon, Typed
  <2> QED
      BY <2>1 DEF CallRecord
<1> QED
    BY Zenon, <1>1, <1>2, QuiescedIn

LEMMA FlrEnterStep == ASSUME IInv, NEW c \in Callers, NEW a \in Assignments, FlrEnter(c, a) PROVE IInv'
<1>1. /\ recovery[a].state = "QUIESCED" /\ recovery[a].reset_required
      /\ flr' = [flr EXCEPT ![c] = [assignment |-> a, result |-> "RUNNING"]]
      /\ UNCHANGED <<assignment, process, capability, resources, recovery, hardware, halted>>
    BY Zenon DEF FlrEnter
<1>2. /\ Parameters /\ flr \in [Callers -> CallRecord] /\ dma \subseteq Assignments \X Buffers
      /\ command \in [Assignments -> {"IDLE", "MASTER", "QUIESCED"}]
    BY Zenon, Typed
<1>3. /\ flr' \in [Callers -> CallRecord] /\ flr'[c].assignment = a /\ flr'[c].result = "RUNNING"
    BY <1>1, <1>2 DEF CallRecord
<1>4. /\ buffer' = buffer /\ assignment' = assignment /\ recovery' = recovery /\ command' = command /\ dma' = dma
    BY Zenon, <1>1 DEF resources, hardware
<1>5. FramesStayPut' /\ RecoverySound'
  <2>1. FramesStayPut /\ RecoverySound
      BY Zenon DEF IInv
  <2> QED
      BY Zenon, <1>4, <2>1 DEF FramesStayPut, RecoverySound
<1>6. FlrSound'
  <2>1. a # None /\ "RUNNING" # "COMPLETE" /\ \A d \in Callers : d = c
      BY Zenon, <1>2 DEF Parameters
  <2> QED
      BY Zenon, <1>1, <1>3, <1>4, <2>1 DEF FlrSound
<1> QED
    BY Zenon, <1>1, <1>2, <1>3, <1>4, <1>5, <1>6, HardwareStep

LEMMA FlrExecuteStep ==
    ASSUME IInv, NEW c \in Callers, NEW a, a = flr[c].assignment, FlrExecute(c) PROVE IInv'
<1>1. /\ flr[c].result = "RUNNING"
      /\ UNCHANGED <<assignment, process, capability, resources, recovery, command, halted>>
    BY Zenon DEF FlrExecute
<1>2. PICK result \in {"NOT_ATTEMPTED", "FAILED", "COMPLETE"} :
          /\ flr' = [flr EXCEPT ![c].result = result]
          /\ dma' = IF result = "COMPLETE" THEN {d \in dma : d[1] # a} ELSE dma
    BY Zenon DEF FlrExecute
<1>3. /\ Parameters /\ flr \in [Callers -> CallRecord] /\ dma \subseteq Assignments \X Buffers
      /\ command \in [Assignments -> {"IDLE", "MASTER", "QUIESCED"}]
    BY Zenon, Typed
<1>4. "RUNNING" # "NONE"
    OBVIOUS
<1>5. /\ a \in Assignments /\ recovery[a].state = "QUIESCED" /\ recovery[a].reset_required /\ a # None
    BY Zenon, <1>1, <1>3, <1>4, CallerIn DEF Parameters
<1>6. /\ flr' \in [Callers -> CallRecord] /\ flr'[c].assignment = a /\ flr'[c].result = result
    BY <1>2, <1>3 DEF CallRecord
<1>7. dma' \subseteq dma /\ (result = "COMPLETE" => \A d \in dma' : d[1] # a)
    BY Zenon, <1>2
<1>8. dma' \subseteq Assignments \X Buffers
    BY Zenon, <1>3, <1>7
<1>9. /\ buffer' = buffer /\ assignment' = assignment /\ recovery' = recovery /\ command' = command
    BY Zenon, <1>1 DEF resources
<1>10. FramesStayPut' /\ RecoverySound'
  <2>1. FramesStayPut /\ RecoverySound
      BY Zenon DEF IInv
  <2>2. FramesStayPut'
      BY Zenon, <1>7, <1>9, <2>1 DEF FramesStayPut
  <2>3. RecoverySound'
      BY Zenon, <1>7, <1>9, <2>1 DEF RecoverySound
  <2> QED
      BY Zenon, <2>2, <2>3
<1>11. FlrSound'
  <2>1. \A d \in Callers : d = c
      BY Zenon, <1>3 DEF Parameters
  <2> QED
      BY Zenon, <1>5, <1>6, <1>7, <1>9, <2>1 DEF FlrSound
<1> QED
    BY Zenon, <1>1, <1>3, <1>6, <1>8, <1>9, <1>10, <1>11, HardwareStep

LEMMA LeftAlone ==
    ASSUME IInv, NEW a \in Assignments, UNCHANGED <<assignment, buffer, submission, halted>>,
           UNCHANGED <<process, capability, bar, mmio, irq, command, dma>>,
           assignment[a].state \notin {"NONE", "AVAILABLE"},
           recovery' \in [Assignments -> RecoveryRecord], flr' \in [Callers -> CallRecord],
           RecoverySound', FlrSound',
           \A x \in Assignments : recovery'[x].state = "QUIESCED" => recovery[x].state = "QUIESCED"
    PROVE  IInv'
<1>1. /\ assignment \in [Assignments -> AssignmentRecord] /\ buffer \in [Buffers -> BufferRecord]
      /\ submission \in [Submissions -> SubmissionRecord] /\ halted = FALSE /\ capability \subseteq Handles
    BY Zenon, Typed
<1>2. /\ assignment' = assignment /\ buffer' = buffer /\ submission' = submission /\ halted' = halted
      /\ bar' = bar /\ dma' = dma /\ capability' = capability /\ mmio' = mmio /\ irq' = irq
    BY Zenon
<1>3. Stays(a)
    BY Zenon, <1>1, <1>2 DEF Stays
<1>4. Counted'
  <2>1. ASSUME NEW x \in Assignments PROVE CountedAt(x)'
    <3>1. CountedAt(x)
        BY Zenon, AtNow
    <3>2. /\ nBuffers(x)' = nBuffers(x) /\ nBars(x)' = nBars(x) /\ nIrqs(x)' = nIrqs(x)
          /\ nMappings(x)' = nMappings(x) /\ nArmed(x)' = nArmed(x) /\ nHeld(x)' = nHeld(x)
          /\ nSubmissions(x)' = nSubmissions(x)
        BY Zenon, <1>2, SameBuffers, SameHeld, SameSubmissions, CpuKept
    <3> QED
        BY Zenon, <1>2, <3>1, <3>2 DEF CountedAt, ChildrenAt, AccessAt, GateAt
  <2> QED
      BY Zenon, <2>1, CountedAfter
<1>5. DmaSound' /\ FramesStayPut'
  <2>1. DmaSound /\ FramesStayPut
      BY Zenon DEF IInv
  <2> QED
      BY ZenonT(30), <1>2, <2>1 DEF DmaSound, FramesStayPut
<1>6. SubmissionExcludesCpu'
  <2>1. SubmissionExcludesCpu
      BY Zenon DEF IInv
  <2> QED
      BY Zenon, <1>2, <2>1 DEF SubmissionExcludesCpu, BarsIdle, LiveBars
<1>7. \A x \in Assignments : \A b \in LiveBuffers(x)' :
          /\ b \in LiveBuffers(x) /\ buffer'[b].mapped \in {buffer[b].mapped, "NO"}
          /\ buffer'[b].state \in {buffer[b].state, "READY"}
  <2>1. \A x \in Assignments : LiveBuffers(x)' = LiveBuffers(x)
      BY Zenon, <1>2, SameBuffers
  <2> QED
      BY Zenon, <1>2, <2>1
<1>8. /\ buffer' \in [Buffers -> BufferRecord] /\ submission' \in [Submissions -> SubmissionRecord]
      /\ halted' = FALSE /\ capability' \subseteq Handles
    BY Zenon, <1>1, <1>2
<1> QED
    BY Zenon, <1>3, <1>4, <1>5, <1>6, <1>7, <1>8, DmaMoves

LEMMA FlrLeaveStep ==
    ASSUME IInv, NEW c \in Callers, NEW a \in Assignments, a = flr[c].assignment, FlrLeave(c) PROVE IInv'
<1>1. /\ flr[c].result # "NONE" /\ flr' = [flr EXCEPT ![c] = NoCall]
      /\ UNCHANGED <<process, capability, bar, mmio, irq, hardware>>
    BY Zenon DEF FlrLeave
<1>2. \/ UNCHANGED <<assignment, buffer, submission, recovery, halted>>
      \/ /\ recovery' = [recovery EXCEPT ![a].state = "FAILED_QUARANTINED"]
         /\ UNCHANGED <<assignment, buffer, submission, halted>>
      \/ /\ flr[c].result = "COMPLETE"
         /\ \E S \in SUBSET Submissions, B \in SUBSET Buffers :
               /\ DmaReleasable(a, S, B) /\ ReleaseDma(a, S, B)
               /\ recovery' = [recovery EXCEPT ![a].reset_completed = TRUE,
                                  ![a].state = IF DmaSafe(a, S, B) THEN "DMA_SAFE" ELSE "FAILED_QUARANTINED"]
    BY Zenon DEF FlrLeave
<1>3. /\ Parameters /\ flr \in [Callers -> CallRecord] /\ recovery \in [Assignments -> RecoveryRecord]
    BY Zenon, Typed
<1>4. /\ recovery[a].state = "QUIESCED" /\ assignment[a].state = "QUARANTINED" /\ recovery[a].reset_required
      /\ flr[c].result = "COMPLETE" => \A d \in dma : d[1] # a
    BY Zenon, <1>1, CallerIn
<1>5. /\ flr' \in [Callers -> CallRecord] /\ flr'[c].result = "NONE"
  <2>1. NoCall \in CallRecord /\ NoCall.result = "NONE"
      BY DEF NoCall, CallRecord
  <2> QED
      BY <1>1, <1>3, <2>1
<1>6. FlrSound'
  <2>1. \A d \in Callers : d = c
      BY Zenon, <1>3 DEF Parameters
  <2> QED
      BY Zenon, <1>5, <2>1 DEF FlrSound
<1>7. command' = command /\ dma' = dma /\ assignment[a].state \notin {"NONE", "AVAILABLE"}
  <2>1. "QUARANTINED" \notin {"NONE", "AVAILABLE"}
      OBVIOUS
  <2> QED
      BY Zenon, <1>1, <1>4, <2>1 DEF hardware
<1>8. UNCHANGED <<process, capability, bar, mmio, irq, command, dma>>
    BY Zenon, <1>1, <1>7
<1>9. CASE UNCHANGED <<assignment, buffer, submission, recovery, halted>>
  <2>1. assignment' = assignment /\ recovery' = recovery
      BY Zenon, <1>9
  <2>2. RecoverySound'
    <3>1. RecoverySound
        BY Zenon DEF IInv
    <3> QED
        BY Zenon, <1>7, <2>1, <3>1 DEF RecoverySound
  <2>3. /\ UNCHANGED <<assignment, buffer, submission, halted>> /\ recovery' \in [Assignments -> RecoveryRecord]
        /\ \A x \in Assignments : recovery'[x].state = "QUIESCED" => recovery[x].state = "QUIESCED"
      BY Zenon, <1>3, <1>9, <2>1
  <2> QED
      BY Zenon, <1>5, <1>6, <1>7, <1>8, <2>2, <2>3, LeftAlone
<1>10. CASE /\ recovery' = [recovery EXCEPT ![a].state = "FAILED_QUARANTINED"]
            /\ UNCHANGED <<assignment, buffer, submission, halted>>
  <2>1. /\ recovery' \in [Assignments -> RecoveryRecord] /\ recovery'[a].state = "FAILED_QUARANTINED"
        /\ \A x \in Assignments : /\ x # a => recovery'[x] = recovery[x]
                                  /\ recovery'[x].reset_required = recovery[x].reset_required
      BY <1>3, <1>10 DEF RecoveryRecord
  <2>2. "FAILED_QUARANTINED" # "QUIESCED"
      OBVIOUS
  <2>3. \A x \in Assignments : recovery'[x].state = "QUIESCED" => recovery[x].state = "QUIESCED"
      BY Zenon, <2>1, <2>2
  <2>4. recovery'[a] # NoRecovery /\ assignment' = assignment
      BY <1>10, <2>1 DEF NoRecovery
  <2>5. RecoverySound'
    <3>1. RecoverySound
        BY Zenon DEF IInv
    <3>2. ASSUME NEW x \in Assignments, recovery'[x] # NoRecovery PROVE assignment[x].state = "QUARANTINED"
        BY Zenon, <1>4, <2>1, <3>1, <3>2 DEF RecoverySound
    <3>3. ASSUME NEW d \in dma
          PROVE  IF recovery'[d[1]] = NoRecovery THEN command[d[1]] = "MASTER" \/ assignment[d[1]].exposed
                 ELSE recovery'[d[1]].reset_required
      <4>1. d[1] \in Assignments
          BY Zenon, DmaIn
      <4>2. IF recovery[d[1]] = NoRecovery THEN command[d[1]] = "MASTER" \/ assignment[d[1]].exposed
            ELSE recovery[d[1]].reset_required
          BY Zenon, <3>1 DEF RecoverySound
      <4>3. CASE d[1] = a
          BY Zenon, <1>4, <2>1, <2>4, <4>1, <4>3
      <4>4. CASE d[1] # a
          BY Zenon, <2>1, <4>1, <4>2, <4>4
      <4> QED
          BY Zenon, <4>3, <4>4
    <3> QED
        BY Zenon, <1>7, <2>4, <3>2, <3>3 DEF RecoverySound
  <2> QED
      BY Zenon, <1>5, <1>6, <1>7, <1>8, <1>10, <2>1, <2>3, <2>5, LeftAlone
<1>11. CASE /\ flr[c].result = "COMPLETE"
            /\ \E S \in SUBSET Submissions, B \in SUBSET Buffers :
                  /\ DmaReleasable(a, S, B) /\ ReleaseDma(a, S, B)
                  /\ recovery' = [recovery EXCEPT ![a].reset_completed = TRUE,
                                     ![a].state = IF DmaSafe(a, S, B) THEN "DMA_SAFE" ELSE "FAILED_QUARANTINED"]
  <2>1. PICK S \in SUBSET Submissions, B \in SUBSET Buffers :
            /\ DmaReleasable(a, S, B) /\ ReleaseDma(a, S, B)
            /\ recovery' = [recovery EXCEPT ![a].reset_completed = TRUE,
                               ![a].state = IF DmaSafe(a, S, B) THEN "DMA_SAFE" ELSE "FAILED_QUARANTINED"]
      BY Zenon, <1>11
  <2>2. PICK st \in {"DMA_SAFE", "FAILED_QUARANTINED"} :
            recovery' = [recovery EXCEPT ![a].reset_completed = TRUE, ![a].state = st]
      BY Zenon, <2>1
  <2>3. /\ recovery' \in [Assignments -> RecoveryRecord] /\ recovery'[a].state = st
        /\ \A x \in Assignments : x # a => recovery'[x] = recovery[x]
    <3>1. PICK new : new = [recovery[a] EXCEPT !.reset_completed = TRUE, !.state = st]
        BY Zenon
    <3>2. recovery[a] \in RecoveryRecord /\ st \in {"NONE", "QUIESCED", "DMA_SAFE", "FAILED_QUARANTINED"}
        BY <1>3
    <3>3. new \in RecoveryRecord /\ new.state = st
      <4>1. PICK mid : mid = [recovery[a] EXCEPT !.reset_completed = TRUE]
          BY Zenon
      <4>2. mid \in RecoveryRecord
          BY Zenon, <3>2, <4>1 DEF RecoveryRecord
      <4>3. new = [mid EXCEPT !.state = st]
          BY <3>1, <4>1
      <4> QED
          BY SMTT(20), <3>2, <4>2, <4>3 DEF RecoveryRecord
    <3>4. recovery' = [recovery EXCEPT ![a] = new]
        BY Zenon, <2>2, <3>1
    <3> QED
        BY SMTT(20), <1>3, <3>3, <3>4
  <2>4. st # "QUIESCED"
      OBVIOUS
  <2>5. \A x \in Assignments : /\ x # a => recovery'[x] = recovery[x]
                               /\ recovery'[x].state = "QUIESCED" => recovery[x].state = "QUIESCED"
      BY Zenon, <2>3, <2>4
  <2>6. \A d \in dma : d[1] # a
      BY Zenon, <1>4, <1>11
  <2> QED
      BY Zenon, <1>1, <1>4, <1>5, <1>6, <2>1, <2>3, <2>5, <2>6, ReleaseDmaStep
<1> QED
    BY Zenon, <1>2, <1>9, <1>10, <1>11

LEMMA CompleteAssignmentStep == ASSUME IInv, NEW a \in Assignments, CompleteAssignment(a) PROVE IInv'
<1>1. /\ recovery[a].state = "DMA_SAFE" /\ assignment[a].children = 0 /\ assignment[a].access = 0
      /\ ~assignment[a].gate /\ assignment' = [assignment EXCEPT ![a] = QuarantineDone(@)]
      /\ recovery' = [recovery EXCEPT ![a] = NoRecovery]
      /\ UNCHANGED <<process, capability, resources, flr, hardware, halted>>
    BY Zenon DEF CompleteAssignment, CanCompleteQuarantine, Unpinned
<1>2. /\ assignment \in [Assignments -> AssignmentRecord] /\ recovery \in [Assignments -> RecoveryRecord]
      /\ flr \in [Callers -> CallRecord] /\ capability \subseteq Handles
      /\ process \in [Processes -> {"RUNNING", "STOPPED", "GONE"}]
    BY Zenon, Typed
<1>3. /\ assignment' \in [Assignments -> AssignmentRecord] /\ assignment'[a].state = "AVAILABLE"
      /\ assignment'[a].children = assignment[a].children /\ assignment'[a].access = assignment[a].access
      /\ assignment'[a].gate = assignment[a].gate
      /\ \A x \in Assignments : x # a => assignment'[x] = assignment[x]
    BY Zenon, <1>1, <1>2 DEF QuarantineDone, AssignmentRecord
<1>4. /\ recovery' \in [Assignments -> RecoveryRecord] /\ recovery'[a] = NoRecovery
      /\ \A x \in Assignments : x # a => recovery'[x] = recovery[x]
  <2>1. NoRecovery \in RecoveryRecord
      BY DEF NoRecovery, RecoveryRecord
  <2> QED
      BY <1>1, <1>2, <2>1
<1>5. \A d \in dma : d[1] # a
    BY Zenon, <1>1, Childless
<1>6. flr' = flr /\ dma' = dma /\ command' = command
    BY Zenon, <1>1 DEF hardware
<1>7. RecoverySound'
  <2>1. RecoverySound
      BY Zenon DEF IInv
  <2>2. ASSUME NEW x \in Assignments, recovery'[x] # NoRecovery PROVE assignment'[x].state = "QUARANTINED"
    <3>1. x # a
        BY Zenon, <1>4, <2>2
    <3>2. recovery'[x] = recovery[x] /\ assignment'[x] = assignment[x]
        BY Zenon, <1>3, <1>4, <3>1
    <3> QED
        BY Zenon, <2>1, <2>2, <3>2 DEF RecoverySound
  <2>3. ASSUME NEW d \in dma
        PROVE  IF recovery'[d[1]] = NoRecovery THEN command[d[1]] = "MASTER" \/ assignment'[d[1]].exposed
               ELSE recovery'[d[1]].reset_required
    <3>1. d[1] \in Assignments /\ d[1] # a
        BY Zenon, <1>5, DmaIn
    <3>2. IF recovery[d[1]] = NoRecovery THEN command[d[1]] = "MASTER" \/ assignment[d[1]].exposed
          ELSE recovery[d[1]].reset_required
        BY Zenon, <2>1 DEF RecoverySound
    <3>3. recovery'[d[1]] = recovery[d[1]] /\ assignment'[d[1]] = assignment[d[1]]
        BY Zenon, <1>3, <1>4, <3>1
    <3> QED
        BY Zenon, <3>2, <3>3
  <2> QED
      BY Zenon, <1>6, <2>2, <2>3 DEF RecoverySound
<1>8. FlrSound'
  <2>1. ASSUME NEW c \in Callers, flr[c].result # "NONE"
        PROVE  /\ flr[c].assignment # None
               /\ recovery'[flr[c].assignment].state = "QUIESCED" /\ recovery'[flr[c].assignment].reset_required
               /\ flr[c].result = "COMPLETE" => \A d \in dma : d[1] # flr[c].assignment
    <3>1. "DMA_SAFE" # "QUIESCED"
        OBVIOUS
    <3>2. flr[c].assignment \in Assignments /\ flr[c].assignment # a
        BY Zenon, <1>1, <2>1, <3>1, CallerIn
    <3>3. recovery'[flr[c].assignment] = recovery[flr[c].assignment]
        BY Zenon, <1>4, <3>2
    <3> QED
        BY Zenon, <2>1, <3>3 DEF IInv, FlrSound
  <2> QED
      BY Zenon, <1>6, <2>1 DEF FlrSound
<1>9. NoRecovery.state # "QUIESCED"
    BY DEF NoRecovery
<1>10. ASSUME NEW x \in Assignments
       PROVE  /\ assignment'[x].children = assignment[x].children
              /\ assignment'[x].access = assignment[x].access /\ assignment'[x].gate = assignment[x].gate
              /\ assignment'[x].state \in {"NONE", "AVAILABLE"} =>
                    assignment[x].children = 0 /\ assignment[x].access = 0 /\ ~assignment[x].gate
              /\ recovery'[x].state = "QUIESCED" => recovery[x].state = "QUIESCED"
  <2>1. CASE x = a
      BY Zenon, <1>1, <1>3, <1>4, <1>9, <2>1
  <2>2. CASE x # a
      BY Zenon, <1>3, <1>4, <2>2 DEF IInv, FreeUnpinned
  <2> QED
      BY Zenon, <2>1, <2>2
<1>11. /\ process' \in [Processes -> {"RUNNING", "STOPPED", "GONE"}] /\ capability' \subseteq Handles
       /\ UNCHANGED <<resources, flr, hardware, halted>>
    BY Zenon, <1>1, <1>2
<1> QED
    BY ZenonT(30), <1>3, <1>4, <1>7, <1>8, <1>10, <1>11, OwnerMoves

(* What pci_device_recovery_begin has done of function a when it returns. *)
Begun(a, I, quiet, M, B, partly, done) ==
    /\ recovery[a] = NoRecovery /\ assignment[a].state = "ASSIGNED"
    /\ I \subseteq ArmedIrqs(a) /\ M \subseteq MappingsOf(a) /\ B \subseteq MappedBuffers(a)
    /\ partly \subseteq MappedBuffers(a) \ B
    /\ done => quiet /\ I = ArmedIrqs(a) /\ M = MappingsOf(a) /\ B = MappedBuffers(a) /\ RegistrySound
    /\ Must(assignment[a].access >= Cardinality(I) + Cardinality(M))
    /\ assignment' = [assignment EXCEPT ![a].state = "QUARANTINED",
                          ![a].access = @ - Cardinality(I) - Cardinality(M)]
    /\ irq' = [i \in Irqs |-> IF i \in I THEN [irq[i] EXCEPT !.armed = FALSE] ELSE irq[i]]
    /\ command' = [command EXCEPT ![a] = IF quiet THEN "QUIESCED" ELSE @]
    /\ bar' = [r \in Bars |-> [bar[r] EXCEPT !.active = @ - Cardinality({m \in M : mmio[m] = r})]]
    /\ mmio' = [m \in Mappings |-> IF m \in M THEN None ELSE mmio[m]]
    /\ buffer' = [b \in Buffers |->
          [buffer[b] EXCEPT
              !.mapped = IF b \in B THEN "NO" ELSE IF b \in partly THEN "PARTLY" ELSE @,
              !.state = IF done /\ b \in LiveBuffers(a) THEN QuarantinedState(buffer[b]) ELSE @]]
    /\ submission' = [s \in Submissions |->
          IF done /\ s \in SubmissionsOf(a)
          THEN [submission[s] EXCEPT !.state = "QUARANTINED"] ELSE submission[s]]
    /\ recovery' = [recovery EXCEPT ![a] =
          [state |-> IF done THEN "QUIESCED" ELSE "FAILED_QUARANTINED",
           reset_required |-> command[a] = "MASTER" \/ assignment[a].exposed,
           reset_completed |-> FALSE]]
    /\ UNCHANGED <<process, capability, flr, dma>>

LEMMA BegunRecord ==
    ASSUME IInv, NEW a \in Assignments, NEW I, NEW quiet, NEW M, NEW B, NEW partly, NEW done,
           Begun(a, I, quiet, M, B, partly, done)
    PROVE  /\ Cardinality(I) \in Nat /\ Cardinality(M) \in Nat /\ halted' = FALSE
           /\ assignment' \in [Assignments -> AssignmentRecord]
           /\ \A x \in Assignments : x # a => assignment'[x] = assignment[x]
           /\ assignment'[a].state = "QUARANTINED" /\ assignment'[a].children = assignment[a].children
           /\ assignment'[a].access = assignment[a].access - Cardinality(I) - Cardinality(M)
           /\ assignment'[a].gate = assignment[a].gate
<1>1. /\ I \subseteq ArmedIrqs(a) /\ M \subseteq MappingsOf(a)
      /\ Must(assignment[a].access >= Cardinality(I) + Cardinality(M))
      /\ assignment' = [assignment EXCEPT ![a].state = "QUARANTINED",
                            ![a].access = @ - Cardinality(I) - Cardinality(M)]
    BY Zenon DEF Begun
<1>2. CountedAt(a) /\ Numbered(a) /\ IsFiniteSet(ArmedIrqs(a)) /\ IsFiniteSet(MappingsOf(a))
    BY Zenon, AtNow, Finite, Typed
<1>3. /\ Cardinality(I) \in Nat /\ Cardinality(ArmedIrqs(a) \ I) \in Nat
      /\ nArmed(a) = Cardinality(ArmedIrqs(a) \ I) + Cardinality(I)
    BY Zenon, <1>1, <1>2, Parted DEF nArmed
<1>4. /\ Cardinality(M) \in Nat /\ Cardinality(MappingsOf(a) \ M) \in Nat
      /\ nMappings(a) = Cardinality(MappingsOf(a) \ M) + Cardinality(M)
    BY Zenon, <1>1, <1>2, Parted DEF nMappings
<1>5. assignment[a].access = nMappings(a) + nArmed(a) + nHeld(a) /\ nHeld(a) \in Nat
    BY Zenon, <1>2 DEF CountedAt, AccessAt, Numbered
<1>6. assignment[a].access >= Cardinality(I) + Cardinality(M)
    BY SMTT(20), <1>3, <1>4, <1>5
<1>7. /\ assignment \in [Assignments -> AssignmentRecord] /\ assignment[a] \in AssignmentRecord
      /\ ActiveAccessLimit \in Nat
    BY Zenon, Record
<1>8. /\ assignment' \in [Assignments -> AssignmentRecord]
      /\ \A x \in Assignments : x # a => assignment'[x] = assignment[x]
      /\ assignment'[a].state = "QUARANTINED" /\ assignment'[a].children = assignment[a].children
      /\ assignment'[a].access = assignment[a].access - Cardinality(I) - Cardinality(M)
      /\ assignment'[a].gate = assignment[a].gate
  <2>1. PICK mid : mid = [assignment[a] EXCEPT !.state = "QUARANTINED"]
      BY Zenon
  <2>2. /\ mid \in AssignmentRecord /\ mid.state = "QUARANTINED" /\ mid.children = assignment[a].children
        /\ mid.access = assignment[a].access /\ mid.gate = assignment[a].gate
      BY <1>7, <2>1 DEF AssignmentRecord
  <2>3. PICK new : new = [mid EXCEPT !.access = mid.access - Cardinality(I) - Cardinality(M)]
      BY Zenon
  <2>4. /\ new \in AssignmentRecord /\ new.state = "QUARANTINED" /\ new.children = mid.children
        /\ new.access = mid.access - Cardinality(I) - Cardinality(M) /\ new.gate = mid.gate
      BY SMTT(20), <1>3, <1>4, <1>6, <1>7, <2>2, <2>3 DEF AssignmentRecord
  <2>5. new = [assignment[a] EXCEPT !.state = "QUARANTINED", !.access = @ - Cardinality(I) - Cardinality(M)]
      BY SMTT(20), <1>7, <2>1, <2>3 DEF AssignmentRecord
  <2>6. assignment' = [assignment EXCEPT ![a] = new]
      BY Zenon, <1>1, <2>5
  <2>7. /\ assignment' \in [Assignments -> AssignmentRecord] /\ assignment'[a] = new
        /\ \A x \in Assignments : x # a => assignment'[x] = assignment[x]
      BY SMTT(20), <1>7, <2>4, <2>6
  <2> QED
      BY Zenon, <2>2, <2>4, <2>7
<1> QED
    BY Zenon, <1>1, <1>3, <1>4, <1>6, <1>8 DEF Must

LEMMA BegunBars ==
    ASSUME IInv, NEW a \in Assignments, NEW I, NEW quiet, NEW M, NEW B, NEW partly, NEW done,
           Begun(a, I, quiet, M, B, partly, done)
    PROVE  /\ bar' \in [Bars -> BarRecord] /\ mmio' \in [Mappings -> Bars \cup {None}]
           /\ \A r \in Bars : /\ bar'[r].assignment = bar[r].assignment
                              /\ bar'[r].active = Cardinality(Through(r)')
                              /\ bar[r].active = 0 => bar'[r].active = 0
                              /\ bar'[r].assignment = None => bar'[r] = NoBar
           /\ \A m \in Mappings : mmio'[m] # None => mmio'[m] = mmio[m]
           /\ MappingsOf(a)' = MappingsOf(a) \ M
           /\ \A x \in Assignments : x # a => MappingsOf(x)' = MappingsOf(x)
<1>1. /\ M \subseteq MappingsOf(a) /\ mmio' = [m \in Mappings |-> IF m \in M THEN None ELSE mmio[m]]
      /\ bar' = [r \in Bars |-> [bar[r] EXCEPT !.active = @ - Cardinality({m \in M : mmio[m] = r})]]
    BY Zenon DEF Begun
<1>2. /\ Parameters /\ bar \in [Bars -> BarRecord] /\ mmio \in [Mappings -> Bars \cup {None}]
      /\ ActiveAccessLimit \in Nat /\ None \notin Bars /\ None \notin Assignments
    BY Zenon, Typed DEF Parameters
<1>3. /\ \A m \in Mappings : /\ m \in M => mmio'[m] = None
                             /\ m \notin M => mmio'[m] = mmio[m]
      /\ M \subseteq Mappings
    BY Zenon, <1>1 DEF MappingsOf
<1>4. mmio' \in [Mappings -> Bars \cup {None}]
    BY <1>1, <1>2
<1>5. ASSUME NEW r \in Bars
      PROVE  /\ bar'[r] \in BarRecord /\ bar'[r].assignment = bar[r].assignment
             /\ bar'[r].active = Cardinality(Through(r)')
             /\ bar[r].active = 0 => bar'[r].active = 0
             /\ bar'[r].assignment = None => bar'[r] = NoBar
  <2>1. PICK R : R = {m \in M : mmio[m] = r}
      BY Zenon
  <2>2. R \subseteq Through(r) /\ Through(r)' = Through(r) \ R
      BY Zenon, <1>2, <1>3, <2>1 DEF Through
  <2>3. /\ Cardinality(R) \in Nat /\ Cardinality(Through(r) \ R) \in Nat /\ IsFiniteSet(Through(r))
        /\ Cardinality(Through(r)) = Cardinality(Through(r) \ R) + Cardinality(R)
      BY Zenon, <1>2, <2>2, Finite, Parted
  <2>4. bar'[r] = [bar[r] EXCEPT !.active = @ - Cardinality(R)] /\ bar[r] \in BarRecord
      BY Zenon, <1>1, <1>2, <2>1
  <2>5. bar[r].active = Cardinality(Through(r)) /\ (bar[r].assignment = None => bar[r] = NoBar)
      BY Zenon DEF IInv, ResourcesSound
  <2>6. PICK k \in Nat, n \in Nat : k = Cardinality(R) /\ n = Cardinality(Through(r) \ R)
      BY Zenon, <2>3
  <2>7. bar'[r] = [bar[r] EXCEPT !.active = @ - k] /\ bar[r].active = n + k
      BY Zenon, <2>3, <2>4, <2>5, <2>6
  <2>8. /\ bar'[r] \in BarRecord /\ bar'[r].assignment = bar[r].assignment /\ bar'[r].active = n
        /\ bar[r].active = 0 => bar'[r].active = 0
      BY SMTT(20), <1>2, <2>4, <2>7 DEF BarRecord
  <2>9. ASSUME bar[r].assignment = None PROVE bar'[r] = NoBar
    <3>1. \A m \in Mappings : mmio[m] = r => m \notin M
        BY Zenon, <1>1, <1>2, <2>9 DEF MappingsOf
    <3>2. R = {}
        BY Zenon, <1>3, <2>1, <3>1
    <3>3. k = 0 /\ bar[r] = NoBar
        BY Zenon, <2>5, <2>6, <2>9, <3>2, FS_EmptySet
    <3> QED
        BY <2>7, <3>3 DEF NoBar
  <2> QED
      BY Zenon, <2>2, <2>6, <2>8, <2>9
<1>6. bar' \in [Bars -> BarRecord]
  <2>1. \A r \in Bars : bar'[r] \in BarRecord
      BY Zenon, <1>5
  <2>2. bar' = [r \in Bars |-> bar'[r]]
      BY Zenon, <1>1
  <2> QED
      BY Zenon, <2>1, <2>2
<1>7. \A m \in Mappings : mmio'[m] # None => mmio'[m] = mmio[m]
    BY Zenon, <1>3
<1>8. ASSUME NEW x, NEW m \in Mappings PROVE m \in MappingsOf(x)' <=> m \in MappingsOf(x) /\ m \notin M
  <2>1. CASE m \in M
      BY Zenon, <1>3, <2>1 DEF MappingsOf
  <2>2. CASE m \notin M
    <3>1. mmio'[m] = mmio[m] /\ (mmio[m] # None => mmio[m] \in Bars)
        BY Zenon, <1>3, <2>2, MappingIn
    <3> QED
        BY Zenon, <1>5, <2>2, <3>1 DEF MappingsOf
  <2> QED
      BY Zenon, <2>1, <2>2
<1>9. \A x : MappingsOf(x) \subseteq Mappings /\ MappingsOf(x)' \subseteq Mappings
    BY Zenon DEF MappingsOf
<1>10. MappingsOf(a)' = MappingsOf(a) \ M
    BY Zenon, <1>8, <1>9
<1>11. ASSUME NEW x \in Assignments, x # a PROVE MappingsOf(x)' = MappingsOf(x)
  <2>1. \A m \in MappingsOf(x) : m \notin M
      BY Zenon, <1>1, <1>11 DEF MappingsOf
  <2>2. \A m \in Mappings : m \in MappingsOf(x)' <=> m \in MappingsOf(x)
      BY Zenon, <1>8, <2>1
  <2> QED
      BY Zenon, <1>9, <2>2
<1> QED
    BY Zenon, <1>4, <1>5, <1>6, <1>7, <1>10, <1>11

LEMMA BegunIrqs ==
    ASSUME IInv, NEW a \in Assignments, NEW I, NEW quiet, NEW M, NEW B, NEW partly, NEW done,
           Begun(a, I, quiet, M, B, partly, done)
    PROVE  /\ irq' \in [Irqs -> IrqRecord]
           /\ \A i \in Irqs : /\ irq'[i].assignment = irq[i].assignment
                              /\ irq'[i].assignment = None => irq'[i] = NoIrq
           /\ ArmedIrqs(a)' = ArmedIrqs(a) \ I
           /\ \A x \in Assignments : x # a => ArmedIrqs(x)' = ArmedIrqs(x)
<1>1. /\ I \subseteq ArmedIrqs(a)
      /\ irq' = [i \in Irqs |-> IF i \in I THEN [irq[i] EXCEPT !.armed = FALSE] ELSE irq[i]]
    BY Zenon DEF Begun
<1>2. irq \in [Irqs -> IrqRecord] /\ None \notin Assignments
    BY Zenon, Typed DEF Parameters
<1>3. ASSUME NEW i \in Irqs
      PROVE  /\ irq'[i] \in IrqRecord /\ irq'[i].assignment = irq[i].assignment
             /\ i \in I => irq'[i].armed = FALSE
             /\ i \notin I => irq'[i] = irq[i]
  <2>1. /\ irq'[i] = IF i \in I THEN [irq[i] EXCEPT !.armed = FALSE] ELSE irq[i]
        /\ irq[i] \in IrqRecord
      BY Zenon, <1>1, <1>2
  <2> QED
      BY Zenon, <2>1 DEF IrqRecord
<1>4. irq' \in [Irqs -> IrqRecord]
  <2>1. \A i \in Irqs : irq'[i] \in IrqRecord
      BY Zenon, <1>3
  <2>2. irq' = [i \in Irqs |-> irq'[i]]
      BY Zenon, <1>1
  <2> QED
      BY Zenon, <2>1, <2>2
<1>5. ASSUME NEW i \in Irqs, irq'[i].assignment = None PROVE irq'[i] = NoIrq
  <2>1. irq[i].assignment = None
      BY Zenon, <1>3, <1>5
  <2>2. i \notin I
      BY Zenon, <1>1, <1>2, <2>1 DEF ArmedIrqs, LiveIrqs
  <2> QED
      BY Zenon, <1>3, <2>1, <2>2 DEF IInv, ResourcesSound
<1>6. ASSUME NEW x PROVE ArmedIrqs(x)' = ArmedIrqs(x) \ I
  <2>1. ASSUME NEW i \in Irqs PROVE i \in ArmedIrqs(x)' <=> i \in ArmedIrqs(x) \ I
    <3>1. CASE i \in I
        BY Zenon, <1>3, <3>1 DEF ArmedIrqs
    <3>2. CASE i \notin I
        BY Zenon, <1>3, <3>2 DEF ArmedIrqs, LiveIrqs
    <3> QED
        BY Zenon, <3>1, <3>2
  <2>2. ArmedIrqs(x)' \subseteq Irqs /\ ArmedIrqs(x) \subseteq Irqs
      BY Zenon DEF ArmedIrqs, LiveIrqs
  <2> QED
      BY Zenon, <2>1, <2>2
<1>7. ASSUME NEW x \in Assignments, x # a PROVE ArmedIrqs(x)' = ArmedIrqs(x)
  <2>1. \A i \in ArmedIrqs(x) : i \notin I
      BY Zenon, <1>1, <1>7 DEF ArmedIrqs, LiveIrqs
  <2> QED
      BY Zenon, <1>6, <2>1
<1> QED
    BY Zenon, <1>3, <1>4, <1>5, <1>6, <1>7

LEMMA BegunBuffers ==
    ASSUME IInv, NEW a \in Assignments, NEW I, NEW quiet, NEW M, NEW B, NEW partly, NEW done,
           Begun(a, I, quiet, M, B, partly, done)
    PROVE  /\ buffer' \in [Buffers -> BufferRecord]
           /\ \A b \in Buffers :
                 /\ buffer'[b].assignment = buffer[b].assignment /\ buffer'[b].held = buffer[b].held
                 /\ buffer'[b].state \in {"DEVICE_ACTIVE", "QUARANTINED"} <=>
                       buffer[b].state \in {"DEVICE_ACTIVE", "QUARANTINED"}
                 /\ buffer[b].mapped = "NO" => buffer'[b].mapped = "NO"
                 /\ b \notin LiveBuffers(a) => buffer'[b] = buffer[b]
                 /\ done /\ b \in LiveBuffers(a) =>
                       buffer'[b].mapped = "NO" /\ buffer'[b].state # "DEVICE_ACTIVE"
<1>1. /\ B \subseteq MappedBuffers(a) /\ partly \subseteq MappedBuffers(a) \ B
      /\ done => B = MappedBuffers(a) /\ RegistrySound
      /\ buffer' = [b \in Buffers |->
            [buffer[b] EXCEPT
                !.mapped = IF b \in B THEN "NO" ELSE IF b \in partly THEN "PARTLY" ELSE @,
                !.state = IF done /\ b \in LiveBuffers(a) THEN QuarantinedState(buffer[b]) ELSE @]]
    BY Zenon DEF Begun
<1>2. buffer \in [Buffers -> BufferRecord] /\ None \notin Assignments
    BY Zenon, Typed DEF Parameters
<1>3. ASSUME NEW b \in Buffers
      PROVE  \E mapped \in {"NO", "PARTLY", "YES"}, state \in {"NONE", "READY", "DEVICE_ACTIVE", "QUARANTINED"} :
                /\ buffer'[b] = [buffer[b] EXCEPT !.mapped = mapped, !.state = state]
                /\ mapped = IF b \in B THEN "NO" ELSE IF b \in partly THEN "PARTLY" ELSE buffer[b].mapped
                /\ state = IF done /\ b \in LiveBuffers(a) THEN QuarantinedState(buffer[b]) ELSE buffer[b].state
  <2>1. PICK mapped, state :
                /\ buffer'[b] = [buffer[b] EXCEPT !.mapped = mapped, !.state = state]
                /\ mapped = IF b \in B THEN "NO" ELSE IF b \in partly THEN "PARTLY" ELSE buffer[b].mapped
                /\ state = IF done /\ b \in LiveBuffers(a) THEN QuarantinedState(buffer[b]) ELSE buffer[b].state
      BY Zenon, <1>1
  <2>2. /\ buffer[b].mapped \in {"NO", "PARTLY", "YES"}
        /\ buffer[b].state \in {"NONE", "READY", "DEVICE_ACTIVE", "QUARANTINED"}
      BY <1>2 DEF BufferRecord
  <2>3. QuarantinedState(buffer[b]) \in {"NONE", "READY", "DEVICE_ACTIVE", "QUARANTINED"}
      BY <2>2 DEF QuarantinedState
  <2> QED
      BY Zenon, <2>1, <2>2, <2>3
<1>4. ASSUME NEW b \in Buffers
      PROVE  /\ buffer'[b] \in BufferRecord
             /\ buffer'[b].assignment = buffer[b].assignment /\ buffer'[b].held = buffer[b].held
             /\ buffer'[b].state \in {"DEVICE_ACTIVE", "QUARANTINED"} <=>
                   buffer[b].state \in {"DEVICE_ACTIVE", "QUARANTINED"}
             /\ buffer[b].mapped = "NO" => buffer'[b].mapped = "NO"
             /\ b \notin LiveBuffers(a) => buffer'[b] = buffer[b]
             /\ done /\ b \in LiveBuffers(a) => buffer'[b].mapped = "NO" /\ buffer'[b].state # "DEVICE_ACTIVE"
  <2>1. PICK mapped \in {"NO", "PARTLY", "YES"}, state \in {"NONE", "READY", "DEVICE_ACTIVE", "QUARANTINED"} :
                /\ buffer'[b] = [buffer[b] EXCEPT !.mapped = mapped, !.state = state]
                /\ mapped = IF b \in B THEN "NO" ELSE IF b \in partly THEN "PARTLY" ELSE buffer[b].mapped
                /\ state = IF done /\ b \in LiveBuffers(a) THEN QuarantinedState(buffer[b]) ELSE buffer[b].state
      BY Zenon, <1>3
  <2>2. buffer[b] \in BufferRecord
      BY Zenon, <1>2
  <2>3. PICK r \in BufferRecord : r = buffer[b]
      BY Zenon, <2>2
  <2>3a. PICK new : new = buffer'[b]
      BY Zenon
  <2>4. new = [r EXCEPT !.mapped = mapped, !.state = state]
      BY Zenon, <2>1, <2>3, <2>3a
  <2>5. /\ new \in BufferRecord /\ new.assignment = r.assignment /\ new.held = r.held
        /\ new.state = state /\ new.mapped = mapped
        /\ (mapped = r.mapped /\ state = r.state => new = r)
    <3>1. PICK mid : mid = [r EXCEPT !.mapped = mapped]
        BY Zenon
    <3>2. /\ mid \in BufferRecord /\ mid.assignment = r.assignment /\ mid.held = r.held
          /\ mid.mapped = mapped /\ mid.state = r.state
          /\ (mapped = r.mapped => mid = r)
        BY <3>1 DEF BufferRecord
    <3>3. new = [mid EXCEPT !.state = state]
        BY <2>4, <3>1
    <3>4. /\ new \in BufferRecord /\ new.assignment = mid.assignment /\ new.held = mid.held
          /\ new.state = state /\ new.mapped = mid.mapped
          /\ (state = mid.state => new = mid)
        BY SMTT(20), <3>2, <3>3 DEF BufferRecord
    <3> QED
        BY Zenon, <3>2, <3>4
  <2>6. state \in {"DEVICE_ACTIVE", "QUARANTINED"} <=> buffer[b].state \in {"DEVICE_ACTIVE", "QUARANTINED"}
      BY <2>1 DEF QuarantinedState
  <2>7. b \in B \/ b \in partly => b \in LiveBuffers(a) /\ buffer[b].mapped = "YES"
      BY Zenon, <1>1 DEF MappedBuffers
  <2>8. buffer[b].mapped = "NO" => mapped = "NO"
    <3>1. "YES" # "NO"
        OBVIOUS
    <3> QED
        BY Zenon, <2>1, <2>7, <3>1
  <2>9. b \notin LiveBuffers(a) => mapped = buffer[b].mapped /\ state = buffer[b].state
      BY Zenon, <2>1, <2>7
  <2>10. ASSUME done, b \in LiveBuffers(a) PROVE mapped = "NO" /\ state # "DEVICE_ACTIVE"
    <3>1. state # "DEVICE_ACTIVE"
        BY <2>1, <2>10 DEF QuarantinedState
    <3>2. buffer[b].assignment # None
        BY Zenon, <1>2, <2>10 DEF LiveBuffers
    <3>3. NoBuffer.assignment = None
        BY DEF NoBuffer
    <3>4. BufferValid(b)
        BY Zenon, <1>1, <2>10, <3>2, <3>3 DEF RegistrySound
    <3>5. buffer[b].mapped # "PARTLY"
        BY Zenon, <3>4 DEF BufferValid
    <3>6. CASE b \in B
        BY Zenon, <2>1, <3>1, <3>6
    <3>7. CASE b \notin B
      <4>1. b \notin partly
          BY Zenon, <1>1, <2>10
      <4>2. buffer[b].mapped # "YES"
          BY Zenon, <1>1, <2>10, <3>7 DEF MappedBuffers
      <4>3. mapped = buffer[b].mapped
          BY Zenon, <2>1, <3>7, <4>1
      <4>4. mapped = "NO"
          BY Zenon, <2>1, <3>5, <4>2, <4>3
      <4> QED
          BY Zenon, <3>1, <4>4
    <3> QED
        BY Zenon, <3>6, <3>7
  <2> QED
      BY Zenon, <2>3, <2>3a, <2>5, <2>6, <2>8, <2>9, <2>10
<1>5. buffer' \in [Buffers -> BufferRecord]
  <2>1. \A b \in Buffers : buffer'[b] \in BufferRecord
      BY Zenon, <1>4
  <2>2. buffer' = [b \in Buffers |-> buffer'[b]]
      BY Zenon, <1>1
  <2> QED
      BY Zenon, <2>1, <2>2
<1> QED
    BY Zenon, <1>4, <1>5

LEMMA BegunSubmissions ==
    ASSUME IInv, NEW a \in Assignments, NEW I, NEW quiet, NEW M, NEW B, NEW partly, NEW done,
           Begun(a, I, quiet, M, B, partly, done)
    PROVE  /\ submission' \in [Submissions -> SubmissionRecord]
           /\ \A s \in Submissions :
                 /\ submission'[s].buffer = submission[s].buffer
                 /\ submission'[s].state = "ACTIVE" => submission[s].state = "ACTIVE"
                 /\ submission[s].buffer = None => submission'[s].state = submission[s].state
<1>1. submission' = [s \in Submissions |->
          IF done /\ s \in SubmissionsOf(a) THEN [submission[s] EXCEPT !.state = "QUARANTINED"] ELSE submission[s]]
    BY Zenon DEF Begun
<1>2. submission \in [Submissions -> SubmissionRecord]
    BY Zenon, Typed
<1>3. ASSUME NEW s \in Submissions
      PROVE  /\ submission'[s] \in SubmissionRecord /\ submission'[s].buffer = submission[s].buffer
             /\ submission'[s].state = "ACTIVE" => submission[s].state = "ACTIVE"
             /\ submission[s].buffer = None => submission'[s].state = submission[s].state
  <2>1. submission[s] \in SubmissionRecord
      BY Zenon, <1>2
  <2>2. CASE submission'[s] = submission[s]
      BY Zenon, <2>1, <2>2
  <2>3. CASE submission'[s] = [submission[s] EXCEPT !.state = "QUARANTINED"] /\ s \in SubmissionsOf(a)
    <3>1. /\ submission'[s] \in SubmissionRecord /\ submission'[s].buffer = submission[s].buffer
          /\ submission'[s].state # "ACTIVE"
        BY <2>1, <2>3 DEF SubmissionRecord
    <3>2. submission[s].buffer # None
        BY Zenon, <2>3 DEF SubmissionsOf
    <3> QED
        BY Zenon, <3>1, <3>2
  <2> QED
      BY Zenon, <1>1, <2>2, <2>3
<1>4. submission' \in [Submissions -> SubmissionRecord]
  <2>1. \A s \in Submissions : submission'[s] \in SubmissionRecord
      BY Zenon, <1>3
  <2>2. submission' = [s \in Submissions |-> submission'[s]]
      BY Zenon, <1>1
  <2> QED
      BY Zenon, <2>1, <2>2
<1> QED
    BY Zenon, <1>3, <1>4

LEMMA BegunRecovery ==
    ASSUME IInv, NEW a \in Assignments, NEW I, NEW quiet, NEW M, NEW B, NEW partly, NEW done,
           Begun(a, I, quiet, M, B, partly, done)
    PROVE  /\ recovery' \in [Assignments -> RecoveryRecord]
           /\ command' \in [Assignments -> {"IDLE", "MASTER", "QUIESCED"}]
           /\ \A x \in Assignments : x # a => recovery'[x] = recovery[x] /\ command'[x] = command[x]
           /\ recovery'[a] # NoRecovery
           /\ recovery'[a].reset_required <=> command[a] = "MASTER" \/ assignment[a].exposed
           /\ recovery'[a].state = "QUIESCED" => done /\ command'[a] = "QUIESCED"
<1>1. PICK st \in {"QUIESCED", "FAILED_QUARANTINED"}, g \in BOOLEAN, cmd \in {"IDLE", "MASTER", "QUIESCED"} :
          /\ recovery' = [recovery EXCEPT ![a] = [state |-> st, reset_required |-> g, reset_completed |-> FALSE]]
          /\ command' = [command EXCEPT ![a] = cmd]
          /\ st = "QUIESCED" => done /\ cmd = "QUIESCED"
          /\ g <=> command[a] = "MASTER" \/ assignment[a].exposed
  <2>1. /\ command' = [command EXCEPT ![a] = IF quiet THEN "QUIESCED" ELSE @]
        /\ recovery' = [recovery EXCEPT ![a] =
              [state |-> IF done THEN "QUIESCED" ELSE "FAILED_QUARANTINED",
               reset_required |-> command[a] = "MASTER" \/ assignment[a].exposed,
               reset_completed |-> FALSE]]
        /\ done => quiet
      BY Zenon DEF Begun
  <2>2. command[a] \in {"IDLE", "MASTER", "QUIESCED"} /\ "FAILED_QUARANTINED" # "QUIESCED"
      BY Zenon, Typed
  <2>3. PICK st \in {"QUIESCED", "FAILED_QUARANTINED"} :
            /\ st = IF done THEN "QUIESCED" ELSE "FAILED_QUARANTINED"
            /\ st = "QUIESCED" => done
      BY Zenon, <2>2
  <2>4. PICK g \in BOOLEAN : g = (command[a] = "MASTER" \/ assignment[a].exposed)
      BY Zenon
  <2>5. PICK cmd \in {"IDLE", "MASTER", "QUIESCED"} :
            /\ cmd = IF quiet THEN "QUIESCED" ELSE command[a]
            /\ quiet => cmd = "QUIESCED"
      BY Zenon, <2>2
  <2>6. recovery' = [recovery EXCEPT ![a] = [state |-> st, reset_required |-> g, reset_completed |-> FALSE]]
      BY Zenon, <2>1, <2>3, <2>4
  <2>7. command' = [command EXCEPT ![a] = cmd]
      BY Zenon, <2>1, <2>5
  <2> QED
      BY Zenon, <2>1, <2>3, <2>4, <2>5, <2>6, <2>7
<1>2. /\ recovery \in [Assignments -> RecoveryRecord]
      /\ command \in [Assignments -> {"IDLE", "MASTER", "QUIESCED"}]
    BY Zenon, Typed
<1>3. /\ recovery' \in [Assignments -> RecoveryRecord] /\ recovery'[a].state = st
      /\ recovery'[a].reset_required = g
      /\ \A x \in Assignments : x # a => recovery'[x] = recovery[x]
    BY SMTT(20), <1>1, <1>2 DEF RecoveryRecord
<1>4. /\ command' \in [Assignments -> {"IDLE", "MASTER", "QUIESCED"}] /\ command'[a] = cmd
      /\ \A x \in Assignments : x # a => command'[x] = command[x]
    BY SMTT(20), <1>1, <1>2
<1>5. recovery'[a] # NoRecovery
    BY <1>3 DEF NoRecovery
<1> QED
    BY Zenon, <1>1, <1>3, <1>4, <1>5

LEMMA FewerPins ==
    ASSUME NEW a \in Assignments, NEW i \in Nat, NEW m \in Nat, AccessAt(a), nHeld(a)' = nHeld(a), nHeld(a) \in Nat,
           nMappings(a) = nMappings(a)' + m, nMappings(a)' \in Nat, nArmed(a) = nArmed(a)' + i, nArmed(a)' \in Nat,
           assignment'[a].access = assignment[a].access - i - m
    PROVE  AccessAt(a)'
BY DEF AccessAt

LEMMA BegunStep ==
    ASSUME IInv, NEW a \in Assignments, NEW I, NEW quiet, NEW M, NEW B, NEW partly, NEW done,
           Begun(a, I, quiet, M, B, partly, done)
    PROVE  IInv'
<1>1. /\ recovery[a] = NoRecovery /\ assignment[a].state = "ASSIGNED"
      /\ I \subseteq ArmedIrqs(a) /\ M \subseteq MappingsOf(a)
      /\ done => I = ArmedIrqs(a) /\ M = MappingsOf(a)
      /\ flr' = flr /\ dma' = dma /\ process' = process /\ capability' = capability
    BY Zenon DEF Begun
<1>2. /\ Cardinality(I) \in Nat /\ Cardinality(M) \in Nat /\ halted' = FALSE
      /\ assignment' \in [Assignments -> AssignmentRecord]
      /\ \A x \in Assignments : x # a => assignment'[x] = assignment[x]
      /\ assignment'[a].state = "QUARANTINED" /\ assignment'[a].children = assignment[a].children
      /\ assignment'[a].access = assignment[a].access - Cardinality(I) - Cardinality(M)
      /\ assignment'[a].gate = assignment[a].gate
    BY Zenon, BegunRecord
<1>3. /\ bar' \in [Bars -> BarRecord] /\ mmio' \in [Mappings -> Bars \cup {None}]
      /\ \A r \in Bars : /\ bar'[r].assignment = bar[r].assignment
                         /\ bar'[r].active = Cardinality(Through(r)')
                         /\ bar[r].active = 0 => bar'[r].active = 0
                         /\ bar'[r].assignment = None => bar'[r] = NoBar
      /\ \A m \in Mappings : mmio'[m] # None => mmio'[m] = mmio[m]
      /\ MappingsOf(a)' = MappingsOf(a) \ M
      /\ \A x \in Assignments : x # a => MappingsOf(x)' = MappingsOf(x)
    BY Zenon, BegunBars
<1>4. /\ irq' \in [Irqs -> IrqRecord]
      /\ \A i \in Irqs : /\ irq'[i].assignment = irq[i].assignment
                         /\ irq'[i].assignment = None => irq'[i] = NoIrq
      /\ ArmedIrqs(a)' = ArmedIrqs(a) \ I
      /\ \A x \in Assignments : x # a => ArmedIrqs(x)' = ArmedIrqs(x)
    BY Zenon, BegunIrqs
<1>5. /\ buffer' \in [Buffers -> BufferRecord]
      /\ \A b \in Buffers :
            /\ buffer'[b].assignment = buffer[b].assignment /\ buffer'[b].held = buffer[b].held
            /\ buffer'[b].state \in {"DEVICE_ACTIVE", "QUARANTINED"} <=>
                  buffer[b].state \in {"DEVICE_ACTIVE", "QUARANTINED"}
            /\ buffer[b].mapped = "NO" => buffer'[b].mapped = "NO"
            /\ b \notin LiveBuffers(a) => buffer'[b] = buffer[b]
            /\ done /\ b \in LiveBuffers(a) => buffer'[b].mapped = "NO" /\ buffer'[b].state # "DEVICE_ACTIVE"
    BY Zenon, BegunBuffers
<1>6. /\ submission' \in [Submissions -> SubmissionRecord]
      /\ \A s \in Submissions :
            /\ submission'[s].buffer = submission[s].buffer
            /\ submission'[s].state = "ACTIVE" => submission[s].state = "ACTIVE"
            /\ submission[s].buffer = None => submission'[s].state = submission[s].state
    BY Zenon, BegunSubmissions
<1>7. /\ recovery' \in [Assignments -> RecoveryRecord]
      /\ command' \in [Assignments -> {"IDLE", "MASTER", "QUIESCED"}]
      /\ \A x \in Assignments : x # a => recovery'[x] = recovery[x] /\ command'[x] = command[x]
      /\ recovery'[a] # NoRecovery
      /\ recovery'[a].reset_required <=> command[a] = "MASTER" \/ assignment[a].exposed
      /\ recovery'[a].state = "QUIESCED" => done /\ command'[a] = "QUIESCED"
    BY Zenon, BegunRecovery
<1>8. TypeOK'
  <2>1. TypeOK /\ halted' \in BOOLEAN
      BY Zenon, <1>2 DEF IInv
  <2> QED
      BY Zenon, <1>1, <1>2, <1>3, <1>4, <1>5, <1>6, <1>7, <2>1, Types, TypesAfter
<1>9. \A s \in Submissions : submission[s].buffer # None => submission[s].buffer \in Buffers
    BY Zenon, SubmissionIn
<1>10. \A x : /\ nBuffers(x)' = nBuffers(x) /\ nHeld(x)' = nHeld(x) /\ nBars(x)' = nBars(x)
              /\ nIrqs(x)' = nIrqs(x) /\ nSubmissions(x)' = nSubmissions(x)
              /\ LiveBuffers(x)' = LiveBuffers(x)
    BY Zenon, <1>3, <1>4, <1>5, <1>6, <1>9, SameBuffers, SameHeld, SameBars, SameIrqs, SameSubmissions
<1>11. Counted'
  <2>1. CountedAt(a) /\ Numbered(a) /\ IsFiniteSet(ArmedIrqs(a)) /\ IsFiniteSet(MappingsOf(a))
      BY Zenon, AtNow, Finite, Typed
  <2>2. /\ nArmed(a) = nArmed(a)' + Cardinality(I) /\ nArmed(a)' \in Nat
      BY Zenon, <1>1, <1>4, <2>1, Parted DEF nArmed
  <2>3. /\ nMappings(a) = nMappings(a)' + Cardinality(M) /\ nMappings(a)' \in Nat
      BY Zenon, <1>1, <1>3, <2>1, Parted DEF nMappings
  <2>4. AccessAt(a)'
    <3>1. AccessAt(a) /\ nHeld(a)' = nHeld(a) /\ nHeld(a) \in Nat
        BY Zenon, <1>10, <2>1 DEF CountedAt, Numbered
    <3> QED
        BY Zenon, <1>2, <2>2, <2>3, <3>1, FewerPins
  <2>5. ChildrenAt(a)' /\ GateAt(a)'
      BY Zenon, <1>2, <1>10, <2>1 DEF CountedAt, ChildrenAt, GateAt
  <2>6. ASSUME NEW x \in Assignments, x # a PROVE CountedAt(x)'
    <3>1. CountedAt(x)
        BY Zenon, AtNow
    <3>2. nMappings(x)' = nMappings(x) /\ nArmed(x)' = nArmed(x) /\ assignment'[x] = assignment[x]
        BY ZenonT(30), <1>2, <1>3, <1>4, <2>6 DEF nMappings, nArmed
    <3> QED
        BY Zenon, <1>10, <3>1, <3>2 DEF CountedAt, ChildrenAt, AccessAt, GateAt
  <2>7. \A x \in Assignments : CountedAt(x)'
      BY Zenon, <2>4, <2>5, <2>6 DEF CountedAt
  <2> QED
      BY Zenon, <2>7, CountedAfter
<1>12. FreeUnpinned'
  <2>1. "QUARANTINED" \notin {"NONE", "AVAILABLE"}
      OBVIOUS
  <2>2. ASSUME NEW x \in Assignments, assignment'[x].state \in {"NONE", "AVAILABLE"}
        PROVE  assignment'[x].children = 0 /\ assignment'[x].access = 0 /\ ~assignment'[x].gate
    <3>1. x # a
        BY Zenon, <1>2, <2>1, <2>2
    <3>2. assignment'[x] = assignment[x]
        BY Zenon, <1>2, <3>1
    <3> QED
        BY Zenon, <2>2, <3>2 DEF IInv, FreeUnpinned
  <2> QED
      BY Zenon, <2>2 DEF FreeUnpinned
<1>13. ResourcesSound'
  <2>1. ASSUME NEW m \in Mappings, mmio'[m] # None PROVE bar'[mmio'[m]].assignment # None
    <3>1. mmio'[m] = mmio[m] /\ mmio[m] # None /\ mmio[m] \in Bars
        BY ZenonT(30), <1>3, <2>1, MappingIn
    <3>2. bar[mmio[m]].assignment # None
        BY Zenon, <3>1 DEF IInv, ResourcesSound
    <3> QED
        BY Zenon, <1>3, <3>1, <3>2
  <2> QED
      BY Zenon, <1>3, <1>4, <2>1 DEF ResourcesSound
<1>14. DmaSound'
  <2>1. DmaSound
      BY Zenon DEF IInv
  <2>2. ASSUME NEW b \in Buffers
        PROVE  buffer'[b].held <=> buffer'[b].state \in {"DEVICE_ACTIVE", "QUARANTINED"}
      BY Zenon, <1>5, <2>1 DEF DmaSound
  <2>3. ASSUME NEW s \in Submissions
        PROVE  /\ submission'[s].buffer = None => submission'[s].state = "NONE"
               /\ submission'[s].buffer # None =>
                     buffer'[submission'[s].buffer].assignment # None /\ buffer'[submission'[s].buffer].held
    <3>1. /\ submission[s].buffer = None => submission[s].state = "NONE"
          /\ submission[s].buffer # None =>
                buffer[submission[s].buffer].assignment # None /\ buffer[submission[s].buffer].held
        BY Zenon, <2>1 DEF DmaSound
    <3>2. submission'[s].buffer = submission[s].buffer
        BY Zenon, <1>6
    <3>3. CASE submission[s].buffer = None
      <4>1. submission'[s].state = submission[s].state
          BY Zenon, <1>6, <3>3
      <4> QED
          BY Zenon, <3>1, <3>2, <3>3, <4>1
    <3>4. CASE submission[s].buffer # None
      <4>1. submission[s].buffer \in Buffers
          BY Zenon, <1>9, <3>4
      <4>2. /\ buffer'[submission[s].buffer].assignment = buffer[submission[s].buffer].assignment
            /\ buffer'[submission[s].buffer].held = buffer[submission[s].buffer].held
          BY Zenon, <1>5, <4>1
      <4> QED
          BY Zenon, <3>1, <3>2, <3>4, <4>2
    <3> QED
        BY Zenon, <3>3, <3>4
  <2> QED
      BY Zenon, <2>2, <2>3 DEF DmaSound
<1>15. RecoverySound'
  <2>1. RecoverySound
      BY Zenon DEF IInv
  <2>2. ASSUME NEW x \in Assignments, recovery'[x] # NoRecovery PROVE assignment'[x].state = "QUARANTINED"
    <3>1. CASE x = a
        BY Zenon, <1>2, <3>1
    <3>2. CASE x # a
      <4>1. recovery'[x] = recovery[x] /\ assignment'[x] = assignment[x]
          BY Zenon, <1>2, <1>7, <3>2
      <4> QED
          BY Zenon, <2>1, <2>2, <4>1 DEF RecoverySound
    <3> QED
        BY Zenon, <3>1, <3>2
  <2>3. ASSUME NEW d \in dma
        PROVE  IF recovery'[d[1]] = NoRecovery THEN command'[d[1]] = "MASTER" \/ assignment'[d[1]].exposed
               ELSE recovery'[d[1]].reset_required
    <3>1. IF recovery[d[1]] = NoRecovery THEN command[d[1]] = "MASTER" \/ assignment[d[1]].exposed
          ELSE recovery[d[1]].reset_required
        BY Zenon, <2>1 DEF RecoverySound
    <3>2. CASE d[1] = a
        BY Zenon, <1>1, <1>7, <3>1, <3>2
    <3>3. CASE d[1] # a
      <4>1. d[1] \in Assignments
          BY Zenon, DmaIn
      <4>2. recovery'[d[1]] = recovery[d[1]] /\ assignment'[d[1]] = assignment[d[1]] /\ command'[d[1]] = command[d[1]]
          BY Zenon, <1>2, <1>7, <3>3, <4>1
      <4> QED
          BY Zenon, <3>1, <4>2
    <3> QED
        BY Zenon, <3>2, <3>3
  <2> QED
      BY Zenon, <1>1, <2>2, <2>3 DEF RecoverySound
<1>16. NoRecovery.state # "QUIESCED"
    BY DEF NoRecovery
<1>17. FlrSound'
  <2>1. ASSUME NEW c \in Callers, flr[c].result # "NONE"
        PROVE  /\ flr[c].assignment # None
               /\ recovery'[flr[c].assignment].state = "QUIESCED" /\ recovery'[flr[c].assignment].reset_required
               /\ flr[c].result = "COMPLETE" => \A d \in dma : d[1] # flr[c].assignment
    <3>1. flr[c].assignment \in Assignments /\ flr[c].assignment # a
        BY Zenon, <1>1, <1>16, <2>1, CallerIn
    <3>2. recovery'[flr[c].assignment] = recovery[flr[c].assignment]
        BY Zenon, <1>7, <3>1
    <3> QED
        BY Zenon, <2>1, <3>2 DEF IInv, FlrSound
  <2> QED
      BY Zenon, <1>1, <2>1 DEF FlrSound
<1>18. FramesStayPut'
  <2>1. ASSUME NEW d \in dma
        PROVE  buffer'[d[2]].assignment = d[1] /\ buffer'[d[2]].state \in {"DEVICE_ACTIVE", "QUARANTINED"}
    <3>1. buffer[d[2]].assignment = d[1] /\ buffer[d[2]].state \in {"DEVICE_ACTIVE", "QUARANTINED"} /\ d[2] \in Buffers
        BY Zenon, DmaIn DEF IInv, FramesStayPut
    <3> QED
        BY Zenon, <1>5, <3>1
  <2> QED
      BY Zenon, <1>1, <2>1 DEF FramesStayPut
<1>19. SubmissionExcludesCpu'
  <2>1. ASSUME NEW s \in Submissions, submission'[s].state = "ACTIVE"
        PROVE  /\ buffer'[submission'[s].buffer].mapped = "NO"
               /\ BarsIdle(buffer[submission[s].buffer].assignment)'
    <3>1. submission[s].state = "ACTIVE" /\ submission'[s].buffer = submission[s].buffer
          /\ submission[s].buffer \in Buffers
        BY Zenon, <1>6, <1>9, <2>1, ActiveIn
    <3>2. buffer[submission[s].buffer].mapped = "NO" /\ BarsIdle(buffer[submission[s].buffer].assignment)
        BY Zenon, <3>1 DEF IInv, SubmissionExcludesCpu
    <3>3. buffer'[submission[s].buffer].mapped = "NO"
          /\ buffer'[submission[s].buffer].assignment = buffer[submission[s].buffer].assignment
        BY Zenon, <1>5, <3>1, <3>2
    <3>4. \A r \in Bars : bar'[r].assignment = buffer[submission[s].buffer].assignment => bar'[r].active = 0
        BY Zenon, <1>3, <3>2 DEF BarsIdle, LiveBars
    <3> QED
        BY Zenon, <3>1, <3>3, <3>4 DEF BarsIdle, LiveBars
  <2> QED
      BY Zenon, <2>1 DEF SubmissionExcludesCpu
<1>20. QuiescedIsQuiet'
  <2>1. ASSUME NEW x \in Assignments, recovery'[x].state = "QUIESCED" PROVE QuietAt(x)'
    <3>1. CASE x = a
      <4>1. done /\ command'[a] = "QUIESCED"
          BY Zenon, <1>7, <2>1, <3>1
      <4>2. MappingsOf(a)' = {} /\ ArmedIrqs(a)' = {}
          BY Zenon, <1>1, <1>3, <1>4, <4>1
      <4>3. \A b \in LiveBuffers(a)' : buffer'[b].mapped = "NO" /\ buffer'[b].state # "DEVICE_ACTIVE"
        <5>1. \A b \in LiveBuffers(a) : b \in Buffers
            BY Zenon DEF LiveBuffers
        <5> QED
            BY ZenonT(30), <1>5, <1>10, <4>1, <5>1
      <4> QED
          BY ZenonT(30), <3>1, <4>1, <4>2, <4>3 DEF QuietAt
    <3>2. CASE x # a
      <4>1. recovery[x].state = "QUIESCED" /\ command'[x] = command[x]
          BY Zenon, <1>7, <2>1, <3>2
      <4>2. QuietAt(x)
          BY Zenon, <4>1, QuiescedIn
      <4>3. ASSUME NEW b \in LiveBuffers(x)' PROVE buffer'[b].mapped = "NO" /\ buffer'[b].state # "DEVICE_ACTIVE"
        <5>1. b \in LiveBuffers(x) /\ b \in Buffers /\ b \notin LiveBuffers(a)
            BY Zenon, <1>10, <3>2, <4>3 DEF LiveBuffers
        <5>2. buffer'[b] = buffer[b]
            BY Zenon, <1>5, <5>1
        <5> QED
            BY Zenon, <4>2, <5>1, <5>2 DEF QuietAt
      <4>4. MappingsOf(x)' = {} /\ ArmedIrqs(x)' = {}
          BY ZenonT(30), <1>3, <1>4, <3>2, <4>2 DEF QuietAt
      <4> QED
          BY Zenon, <4>1, <4>2, <4>3, <4>4 DEF QuietAt
    <3> QED
        BY Zenon, <3>1, <3>2
  <2> QED
      BY Zenon, <2>1, QuietAfter
<1>21. halted' = halted
    BY Zenon, <1>2, Typed
<1> QED
    BY Zenon, <1>8, <1>11, <1>12, <1>13, <1>14, <1>15, <1>17, <1>18, <1>19, <1>20, <1>21, Afterwards

LEMMA RecoveryBeginStep == ASSUME IInv, NEW a \in Assignments, RecoveryBegin(a) PROVE IInv'
<1>1. /\ recovery[a] = NoRecovery /\ assignment[a].state = "ASSIGNED"
      /\ UNCHANGED <<process, capability, flr, dma>>
    BY Zenon DEF RecoveryBegin
<1>2. PICK I \in SUBSET Irqs, quiet \in BOOLEAN, M \in SUBSET Mappings, B \in SUBSET Buffers,
           partly \in SUBSET Buffers :
          /\ Sweep(a, I, quiet, M, B, partly)
          /\ Must(assignment[a].access >= Cardinality(I) + Cardinality(M))
          /\ assignment' = [assignment EXCEPT ![a].state = "QUARANTINED",
                                              ![a].access = @ - Cardinality(I) - Cardinality(M)]
          /\ irq' = [i \in Irqs |-> IF i \in I THEN [irq[i] EXCEPT !.armed = FALSE] ELSE irq[i]]
          /\ command' = [command EXCEPT ![a] = IF quiet THEN "QUIESCED" ELSE @]
          /\ bar' = [r \in Bars |-> [bar[r] EXCEPT !.active = @ - Cardinality({m \in M : mmio[m] = r})]]
          /\ mmio' = [m \in Mappings |-> IF m \in M THEN None ELSE mmio[m]]
          /\ buffer' = [b \in Buffers |->
                [buffer[b] EXCEPT !.mapped = IF b \in B THEN "NO" ELSE IF b \in partly THEN "PARTLY" ELSE @,
                                  !.state = IF Swept(a, quiet, M, B) /\ b \in LiveBuffers(a)
                                            THEN QuarantinedState(buffer[b]) ELSE @]]
          /\ submission' = [s \in Submissions |->
                IF Swept(a, quiet, M, B) /\ s \in SubmissionsOf(a)
                THEN [submission[s] EXCEPT !.state = "QUARANTINED"] ELSE submission[s]]
          /\ recovery' = [recovery EXCEPT ![a] =
                [state |-> IF Swept(a, quiet, M, B) THEN "QUIESCED" ELSE "FAILED_QUARANTINED",
                 reset_required |-> command[a] = "MASTER" \/ assignment[a].exposed,
                 reset_completed |-> FALSE]]
    BY Zenon DEF RecoveryBegin
<1>3. PICK done \in BOOLEAN : done = Swept(a, quiet, M, B)
    BY Zenon DEF Swept
<1>4. done => quiet /\ I = ArmedIrqs(a) /\ M = MappingsOf(a) /\ B = MappedBuffers(a) /\ RegistrySound
    BY Zenon, <1>2, <1>3 DEF Sweep, Swept
<1>5. /\ I \subseteq ArmedIrqs(a) /\ M \subseteq MappingsOf(a) /\ B \subseteq MappedBuffers(a)
      /\ partly \subseteq MappedBuffers(a) \ B
    BY Zenon, <1>2 DEF Sweep
<1>6. Begun(a, I, quiet, M, B, partly, done)
    BY Zenon, <1>1, <1>2, <1>3, <1>4, <1>5 DEF Begun
<1> QED
    BY Zenon, <1>6, BegunStep

LEMMA RecoveringStep == ASSUME IInv, Recovering PROVE IInv'
<1>1. ASSUME NEW a \in Assignments, RecoveryBegin(a) \/ CompleteWithoutReset(a) \/ CompleteAssignment(a)
      PROVE  IInv'
    BY Zenon, <1>1, RecoveryBeginStep, CompleteWithoutResetStep, CompleteAssignmentStep
<1>2. ASSUME NEW a \in Assignments, NEW c \in Callers, FlrEnter(c, a) PROVE IInv'
    BY Zenon, <1>2, FlrEnterStep
<1>3. ASSUME NEW c \in Callers, FlrExecute(c) PROVE IInv'
    BY Zenon, <1>3, FlrExecuteStep
<1>4. ASSUME NEW c \in Callers, FlrLeave(c) PROVE IInv'
  <2>1. flr[c].result # "NONE"
      BY Zenon, <1>4 DEF FlrLeave
  <2>2. flr[c].assignment \in Assignments
      BY Zenon, <2>1, CallerIn
  <2> QED
      BY Zenon, <1>4, <2>2, FlrLeaveStep
<1> QED
    BY Zenon, <1>1, <1>2, <1>3, <1>4 DEF Recovering

LEMMA NextStep == ASSUME IInv, [Next]_vars PROVE IInv'
<1>1. CASE UNCHANGED vars
  <2>1. /\ UNCHANGED <<assignment, process, capability, recovery, flr, halted>>
        /\ UNCHANGED <<buffer, submission, bar, mmio, irq>> /\ UNCHANGED <<command, dma>>
      BY Zenon, <1>1 DEF vars, resources, hardware
  <2> QED
    <3>1. TypeOK' /\ FreeUnpinned'
        BY Zenon, <2>1 DEF IInv, TypeOK, FreeUnpinned
    <3>2. Counted'
        BY Zenon, <2>1 DEF IInv, Counted, LiveBuffers, LiveBars, LiveIrqs, MappingsOf, ArmedIrqs, HeldBuffers, SubmissionsOf
    <3>3. ResourcesSound'
        BY ZenonT(30), <2>1 DEF IInv, ResourcesSound, Through
    <3>4. DmaSound' /\ RecoverySound' /\ FlrSound' /\ FramesStayPut'
        BY Zenon, <2>1 DEF IInv, DmaSound, RecoverySound, FlrSound, FramesStayPut
    <3>5. SubmissionExcludesCpu'
        BY Zenon, <2>1 DEF IInv, SubmissionExcludesCpu, BarsIdle, LiveBars
    <3>6. QuiescedIsQuiet'
        BY ZenonT(30), <2>1 DEF IInv, QuiescedIsQuiet, MappingsOf, ArmedIrqs, LiveBuffers, LiveIrqs
    <3> QED
        BY Zenon, <2>1, <3>1, <3>2, <3>3, <3>4, <3>5, <3>6, Afterwards
<1>2. CASE Next
    BY Zenon, <1>2, OwnershipStep, CpuAccessStep, DeviceAccessStep, RecoveringStep DEF Next
<1> QED
    BY Zenon, <1>1, <1>2

LEMMA AtFirst == ASSUME Parameters, Init PROVE IInv
<1>1. /\ None \notin Assignments /\ None \notin Buffers /\ None \notin Bars
      /\ ChildResourceLimit \in Nat /\ ActiveAccessLimit \in Nat
    BY Zenon DEF Parameters
<1>2. TypeOK
  <2>1. assignment \in [Assignments -> AssignmentRecord]
    <3>1. Available \in AssignmentRecord
        BY <1>1 DEF Available, AssignmentRecord
    <3>2. Absent \in AssignmentRecord
        BY <3>1 DEF Absent, AssignmentRecord
    <3> QED
        BY Zenon, <3>2 DEF Init
  <2>2. /\ buffer \in [Buffers -> BufferRecord] /\ submission \in [Submissions -> SubmissionRecord]
        /\ bar \in [Bars -> BarRecord] /\ irq \in [Irqs -> IrqRecord]
      BY <1>1 DEF Init, NoBuffer, NoSubmission, NoBar, NoIrq, BufferRecord, SubmissionRecord, BarRecord, IrqRecord
  <2>3. recovery \in [Assignments -> RecoveryRecord] /\ flr \in [Callers -> CallRecord]
      BY DEF Init, NoRecovery, NoCall, RecoveryRecord, CallRecord
  <2>4. /\ process \in [Processes -> {"RUNNING", "STOPPED", "GONE"}] /\ mmio \in [Mappings -> Bars \cup {None}]
        /\ command \in [Assignments -> {"IDLE", "MASTER", "QUIESCED"}]
      BY DEF Init
  <2>5. capability \subseteq Handles /\ dma \subseteq Assignments \X Buffers /\ halted \in BOOLEAN
      BY Zenon DEF Init
  <2> QED
      BY Zenon, <2>1, <2>2, <2>3, <2>4, <2>5, Types
<1>3. /\ \A b \in Buffers : buffer[b].assignment = None /\ buffer[b].state = "NONE" /\ ~buffer[b].held
      /\ \A s \in Submissions : submission[s].buffer = None /\ submission[s].state = "NONE"
      /\ \A r \in Bars : bar[r] = NoBar /\ bar[r].assignment = None /\ bar[r].active = 0
      /\ \A m \in Mappings : mmio[m] = None
      /\ \A i \in Irqs : irq[i] = NoIrq /\ irq[i].assignment = None
      /\ \A a \in Assignments : recovery[a] = NoRecovery /\ recovery[a].state = "NONE"
      /\ \A c \in Callers : flr[c].result = "NONE"
      /\ \A a \in Assignments : assignment[a].children = 0 /\ assignment[a].access = 0 /\ ~assignment[a].gate
    BY DEF Init, NoBuffer, NoSubmission, NoBar, NoIrq, NoRecovery, NoCall, Absent, Available
<1>4. dma = {} /\ ~halted
    BY Zenon DEF Init
<1>5. Cardinality({}) = 0
    BY Zenon, FS_EmptySet
<1>6. ASSUME NEW a \in Assignments PROVE CountedAt(a)
  <2>1. a # None
      BY Zenon, <1>1
  <2>2. LiveBuffers(a) = {} /\ LiveBars(a) = {} /\ LiveIrqs(a) = {}
    <3>1. \A b \in Buffers : buffer[b].assignment # a
        BY Zenon, <1>3, <2>1
    <3>2. \A r \in Bars : bar[r].assignment # a
        BY Zenon, <1>3, <2>1
    <3>3. \A i \in Irqs : irq[i].assignment # a
        BY Zenon, <1>3, <2>1
    <3> QED
        BY SMTT(20), <3>1, <3>2, <3>3 DEF LiveBuffers, LiveBars, LiveIrqs
  <2>3. MappingsOf(a) = {} /\ ArmedIrqs(a) = {} /\ HeldBuffers(a) = {} /\ SubmissionsOf(a) = {}
      BY Zenon, <1>3, <2>1, <2>2 DEF MappingsOf, ArmedIrqs, HeldBuffers, SubmissionsOf, LiveIrqs
  <2>4. /\ nBuffers(a) = 0 /\ nBars(a) = 0 /\ nIrqs(a) = 0 /\ nMappings(a) = 0 /\ nArmed(a) = 0 /\ nHeld(a) = 0
        /\ nSubmissions(a) = 0
      BY Zenon, <1>5, <2>2, <2>3 DEF nBuffers, nBars, nIrqs, nMappings, nArmed, nHeld, nSubmissions
  <2>5. 0 + 0 + 0 = 0
      OBVIOUS
  <2> QED
      BY Zenon, <1>3, <2>4, <2>5 DEF CountedAt, ChildrenAt, AccessAt, GateAt
<1>7. Counted /\ FreeUnpinned
    BY Zenon, <1>3, <1>6, CountedIs DEF FreeUnpinned
<1>8. ResourcesSound
  <2>1. ASSUME NEW r \in Bars PROVE Cardinality(Through(r)) = 0
    <3>1. r # None
        BY Zenon, <1>1
    <3>2. Through(r) = {}
        BY Zenon, <1>3, <3>1 DEF Through
    <3> QED
        BY Zenon, <1>5, <3>2
  <2> QED
      BY Zenon, <1>3, <2>1 DEF ResourcesSound
<1>9. "NONE" \notin {"DEVICE_ACTIVE", "QUARANTINED"} /\ "NONE" # "ACTIVE" /\ "NONE" # "QUIESCED"
    OBVIOUS
<1>10. DmaSound
    BY Zenon, <1>3, <1>9 DEF DmaSound
<1>11. RecoverySound /\ FlrSound /\ FramesStayPut
    BY Zenon, <1>3, <1>4 DEF RecoverySound, FlrSound, FramesStayPut
<1>12. SubmissionExcludesCpu
    BY Zenon, <1>3, <1>9 DEF SubmissionExcludesCpu
<1>13. QuiescedIsQuiet
    BY Zenon, <1>3, <1>9 DEF QuiescedIsQuiet
<1> QED
    BY Zenon, <1>2, <1>4, <1>7, <1>8, <1>10, <1>11, <1>12, <1>13 DEF IInv

LEMMA Shown == ASSUME IInv PROVE NoReuseUnderDma
<1>1. PinsExact
    BY Zenon DEF IInv, Counted, PinsExact, HeldBuffers
<1> QED
    BY Zenon, <1>1 DEF IInv, NoReuseUnderDma

(* For any number of functions, processes, buffers, submissions, BARs, mappings
   and interrupts, and one caller of the recovery entry points: no frame is
   given back while the device may still reach it, a submission in flight
   excludes every processor access, the counters of an assignment are exactly
   what pins it - so no release panics - and QUIESCED is quiet
   (pci_assignment.c, pci_dma_buffer.c, pci_dma_submission.c,
   pci_bar_resource.c, pci_device_recovery.c). *)
THEOREM DevicesAreSafe == Parameters => (Spec => []NoReuseUnderDma)
<1> SUFFICES ASSUME Parameters PROVE Spec => []NoReuseUnderDma
    OBVIOUS
<1>1. Init => IInv
    BY Zenon, AtFirst
<1>2. IInv /\ [Next]_vars => IInv'
    BY Zenon, NextStep
<1>3. IInv => NoReuseUnderDma
    BY Zenon, Shown
<1> QED
    BY <1>1, <1>2, <1>3, PTL DEF Spec

=============================================================================
