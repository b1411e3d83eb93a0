------------------------ MODULE PciDeviceInvariant -------------------------
(***************************************************************************)
(* The inductive invariant of module PciDevice, and what keeps it: the     *)
(* ownership of a function, the BARs and interrupts of the processor, and  *)
(* DMA buffers and submissions.                                            *)
(*                                                                         *)
(* PinsExact is not inductive by itself.  Counted says the same per        *)
(* function; FreeUnpinned, ResourcesSound and DmaSound say what a free     *)
(* record holds and that every mapping, buffer in flight and submission    *)
(* has its owner; RecoverySound and FlrSound say that a recovery remembers *)
(* a device that may still be busy until a reset stopped it.               *)
(***************************************************************************)
EXTENDS PciDevice, FiniteSetTheorems, TLAPS

(* What the constants have to be.  With two callers inside the reset of one device the      *)
(* second can apply the result of the first one's reset.                                    *)
Parameters ==
    /\ IsFiniteSet(Buffers) /\ IsFiniteSet(Submissions) /\ IsFiniteSet(Bars)
    /\ IsFiniteSet(Mappings) /\ IsFiniteSet(Irqs)
    /\ ChildResourceLimit \in Nat /\ ActiveAccessLimit \in Nat
    /\ None \notin Assignments \cup Processes \cup Buffers \cup Bars
    /\ \A c, d \in Callers : c = d

HeldBuffers(a) == {b \in LiveBuffers(a) : buffer[b].held}
Through(r) == {m \in Mappings : mmio[m] = r}

Counted ==
    \A a \in Assignments :
        /\ assignment[a].children =
              Cardinality(LiveBuffers(a)) + Cardinality(LiveBars(a)) + Cardinality(LiveIrqs(a))
        /\ assignment[a].access =
              Cardinality(MappingsOf(a)) + Cardinality(ArmedIrqs(a)) + Cardinality(HeldBuffers(a))
        /\ Cardinality(SubmissionsOf(a)) = (IF assignment[a].gate THEN 1 ELSE 0)

(* A function nobody owns has no pins. *)
FreeUnpinned ==
    \A a \in Assignments : assignment[a].state \in {"NONE", "AVAILABLE"} =>
        assignment[a].children = 0 /\ assignment[a].access = 0 /\ ~assignment[a].gate

ResourcesSound ==
    /\ \A r \in Bars : bar[r].active = Cardinality(Through(r)) /\ (bar[r].assignment = None => bar[r] = NoBar)
    /\ \A m \in Mappings : mmio[m] # None => bar[mmio[m]].assignment # None
    /\ \A i \in Irqs : irq[i].assignment = None => irq[i] = NoIrq

DmaSound ==
    /\ \A b \in Buffers : buffer[b].held <=> buffer[b].state \in {"DEVICE_ACTIVE", "QUARANTINED"}
    /\ \A s \in Submissions :
          /\ submission[s].buffer = None => submission[s].state = "NONE"
          /\ submission[s].buffer # None =>
                buffer[submission[s].buffer].assignment # None /\ buffer[submission[s].buffer].held

(* A recovery owns a quarantined function, and remembers that the device may still be busy. *)
RecoverySound ==
    /\ \A a \in Assignments : recovery[a] # NoRecovery => assignment[a].state = "QUARANTINED"
    /\ \A d \in dma : IF recovery[d[1]] = NoRecovery
                      THEN command[d[1]] = "MASTER" \/ assignment[d[1]].exposed
                      ELSE recovery[d[1]].reset_required

(* The recovery a caller inside the reset found is still there when it comes back. *)
FlrSound ==
    \A c \in Callers : flr[c].result # "NONE" =>
        /\ flr[c].assignment # None
        /\ recovery[flr[c].assignment].state = "QUIESCED" /\ recovery[flr[c].assignment].reset_required
        /\ flr[c].result = "COMPLETE" => \A d \in dma : d[1] # flr[c].assignment

IInv ==
    /\ Parameters /\ TypeOK /\ ~halted
    /\ Counted /\ FreeUnpinned /\ ResourcesSound /\ DmaSound /\ RecoverySound /\ FlrSound
    /\ FramesStayPut /\ SubmissionExcludesCpu /\ QuiescedIsQuiet

-----------------------------------------------------------------------------
(* Types *)

Handles == Assignments \cup Buffers \cup Bars \cup Irqs
BufferRecord ==
    [assignment : Assignments \cup {None}, owner : Processes \cup {None},
     state : {"NONE", "READY", "DEVICE_ACTIVE", "QUARANTINED"}, held : BOOLEAN,
     mapped : {"NO", "PARTLY", "YES"}]
SubmissionRecord == [buffer : Buffers \cup {None}, state : {"NONE", "ACTIVE", "QUARANTINED"}]
BarRecord ==
    [assignment : Assignments \cup {None}, owner : Processes \cup {None}, active : 0 .. ActiveAccessLimit]
IrqRecord == [assignment : Assignments \cup {None}, owner : Processes \cup {None}, armed : BOOLEAN]
RecoveryRecord ==
    [state : {"NONE", "QUIESCED", "DMA_SAFE", "FAILED_QUARANTINED"},
     reset_required : BOOLEAN, reset_completed : BOOLEAN]
CallRecord ==
    [assignment : Assignments \cup {None},
     result : {"NONE", "RUNNING", "NOT_ATTEMPTED", "FAILED", "COMPLETE"}]

LEMMA Types ==
    TypeOK <=> /\ assignment \in [Assignments -> AssignmentRecord]
               /\ process \in [Processes -> {"RUNNING", "STOPPED", "GONE"}]
               /\ capability \subseteq Handles
               /\ buffer \in [Buffers -> BufferRecord] /\ submission \in [Submissions -> SubmissionRecord]
               /\ bar \in [Bars -> BarRecord] /\ mmio \in [Mappings -> Bars \cup {None}]
               /\ irq \in [Irqs -> IrqRecord] /\ recovery \in [Assignments -> RecoveryRecord]
               /\ flr \in [Callers -> CallRecord] /\ command \in [Assignments -> {"IDLE", "MASTER", "QUIESCED"}]
               /\ dma \subseteq Assignments \X Buffers /\ halted \in BOOLEAN
BY Zenon DEF TypeOK, Handles, BufferRecord, SubmissionRecord, BarRecord, IrqRecord, RecoveryRecord, CallRecord

LEMMA TypesAfter ==
    TypeOK' <=> /\ assignment' \in [Assignments -> AssignmentRecord]
                /\ process' \in [Processes -> {"RUNNING", "STOPPED", "GONE"}]
                /\ capability' \subseteq Handles
                /\ buffer' \in [Buffers -> BufferRecord] /\ submission' \in [Submissions -> SubmissionRecord]
                /\ bar' \in [Bars -> BarRecord] /\ mmio' \in [Mappings -> Bars \cup {None}]
                /\ irq' \in [Irqs -> IrqRecord] /\ recovery' \in [Assignments -> RecoveryRecord]
                /\ flr' \in [Callers -> CallRecord] /\ command' \in [Assignments -> {"IDLE", "MASTER", "QUIESCED"}]
                /\ dma' \subseteq Assignments \X Buffers /\ halted' \in BOOLEAN
BY Zenon DEF TypeOK, Handles, BufferRecord, SubmissionRecord, BarRecord, IrqRecord, RecoveryRecord, CallRecord

QuietAt(a) ==
    /\ MappingsOf(a) = {} /\ ArmedIrqs(a) = {}
    /\ \A b \in LiveBuffers(a) : buffer[b].mapped = "NO" /\ buffer[b].state # "DEVICE_ACTIVE"
    /\ command[a] = "QUIESCED"

LEMMA QuietIs == QuiescedIsQuiet <=> \A a \in Assignments : recovery[a].state = "QUIESCED" => QuietAt(a)
BY Zenon DEF QuiescedIsQuiet, QuietAt

LEMMA QuietAfter == QuiescedIsQuiet' <=> \A a \in Assignments : recovery'[a].state = "QUIESCED" => QuietAt(a)'
BY Zenon DEF QuiescedIsQuiet, QuietAt

LEMMA Afterwards ==
    ASSUME IInv, halted' = halted,
           TypeOK', Counted', FreeUnpinned', ResourcesSound', DmaSound', RecoverySound', FlrSound',
           FramesStayPut', SubmissionExcludesCpu', QuiescedIsQuiet'
    PROVE  IInv'
<1>1. Parameters'
    BY Zenon DEF IInv, Parameters
<1>2. ~halted'
    BY Zenon DEF IInv
<1> QED
    BY Zenon, <1>1, <1>2 DEF IInv

-----------------------------------------------------------------------------
(* Counting *)

nBuffers(a) == Cardinality(LiveBuffers(a))
nBars(a) == Cardinality(LiveBars(a))
nIrqs(a) == Cardinality(LiveIrqs(a))
nMappings(a) == Cardinality(MappingsOf(a))
nArmed(a) == Cardinality(ArmedIrqs(a))
nHeld(a) == Cardinality(HeldBuffers(a))
nSubmissions(a) == Cardinality(SubmissionsOf(a))

ChildrenAt(a) == assignment[a].children = nBuffers(a) + nBars(a) + nIrqs(a)
AccessAt(a) == assignment[a].access = nMappings(a) + nArmed(a) + nHeld(a)
GateAt(a) == nSubmissions(a) = (IF assignment[a].gate THEN 1 ELSE 0)
CountedAt(a) == ChildrenAt(a) /\ AccessAt(a) /\ GateAt(a)

LEMMA CountedIs == Counted <=> \A a \in Assignments : CountedAt(a)
BY Zenon DEF Counted, CountedAt, ChildrenAt, AccessAt, GateAt, nBuffers, nBars, nIrqs, nMappings, nArmed, nHeld, nSubmissions

LEMMA CountedAfter == Counted' <=> \A a \in Assignments : CountedAt(a)'
BY Zenon DEF Counted, CountedAt, ChildrenAt, AccessAt, GateAt, nBuffers, nBars, nIrqs, nMappings, nArmed, nHeld, nSubmissions

LEMMA Finite ==
    ASSUME Parameters, NEW a
    PROVE  /\ IsFiniteSet(LiveBuffers(a)) /\ IsFiniteSet(LiveBars(a)) /\ IsFiniteSet(LiveIrqs(a))
           /\ IsFiniteSet(MappingsOf(a)) /\ IsFiniteSet(ArmedIrqs(a)) /\ IsFiniteSet(HeldBuffers(a))
           /\ IsFiniteSet(SubmissionsOf(a)) /\ IsFiniteSet(Through(a))
<1>1. /\ LiveBuffers(a) \subseteq Buffers /\ LiveBars(a) \subseteq Bars /\ LiveIrqs(a) \subseteq Irqs
      /\ MappingsOf(a) \subseteq Mappings /\ ArmedIrqs(a) \subseteq Irqs /\ HeldBuffers(a) \subseteq Buffers
      /\ SubmissionsOf(a) \subseteq Submissions /\ Through(a) \subseteq Mappings
    BY Zenon DEF LiveBuffers, LiveBars, LiveIrqs, MappingsOf, ArmedIrqs, HeldBuffers, SubmissionsOf, Through
<1> QED
    BY Zenon, <1>1, FS_Subset DEF Parameters

LEMMA Numbers ==
    ASSUME Parameters, NEW a
    PROVE  /\ nBuffers(a) \in Nat /\ nBars(a) \in Nat /\ nIrqs(a) \in Nat /\ nMappings(a) \in Nat
           /\ nArmed(a) \in Nat /\ nHeld(a) \in Nat /\ nSubmissions(a) \in Nat
           /\ Cardinality(Through(a)) \in Nat
BY Zenon, Finite, FS_CardinalityType
   DEF nBuffers, nBars, nIrqs, nMappings, nArmed, nHeld, nSubmissions

LEMMA Positive ==
    ASSUME NEW S, IsFiniteSet(S), NEW x \in S
    PROVE  Cardinality(S) \in Nat /\ Cardinality(S) >= 1
<1>1. Cardinality(S) \in Nat /\ Cardinality(S) # 0
    BY Zenon, FS_CardinalityType, FS_EmptySet
<1> QED
    BY <1>1

LEMMA Single ==
    ASSUME NEW S, IsFiniteSet(S), Cardinality(S) <= 1, NEW x \in S, NEW y \in S
    PROVE  x = y
<1> SUFFICES ASSUME x # y PROVE FALSE
    OBVIOUS
<1>1. IsFiniteSet(S \ {x}) /\ Cardinality(S \ {x}) = Cardinality(S) - 1
    BY Zenon, FS_RemoveElement
<1>2. y \in S \ {x}
    BY Zenon
<1>3. Cardinality(S \ {x}) \in Nat /\ Cardinality(S \ {x}) >= 1
    BY Zenon, <1>1, <1>2, Positive
<1>4. Cardinality(S) \in Nat
    BY Zenon, FS_CardinalityType
<1> QED
    BY <1>1, <1>3, <1>4

LEMMA Added ==
    ASSUME NEW S, IsFiniteSet(S), NEW x, x \notin S, NEW T, T = S \cup {x}
    PROVE  Cardinality(T) = Cardinality(S) + 1
BY Zenon, FS_AddElement

LEMMA Removed ==
    ASSUME NEW S, IsFiniteSet(S), NEW x \in S, NEW T, T = S \ {x}
    PROVE  Cardinality(T) = Cardinality(S) - 1
BY Zenon, FS_RemoveElement

LEMMA Parted ==
    ASSUME NEW S, IsFiniteSet(S), NEW R, R \subseteq S
    PROVE  /\ IsFiniteSet(R) /\ Cardinality(R) \in Nat /\ Cardinality(S \ R) \in Nat
           /\ Cardinality(S) = Cardinality(S \ R) + Cardinality(R)
<1>1. IsFiniteSet(R) /\ IsFiniteSet(S \ R) /\ (S \ R) \cup R = S /\ (S \ R) \cap R = {}
    BY Zenon, FS_Subset
<1>2. Cardinality(S) = Cardinality(S \ R) + Cardinality(R) - Cardinality((S \ R) \cap R)
    BY Zenon, <1>1, FS_Union
<1>3. Cardinality((S \ R) \cap R) = 0 /\ Cardinality(R) \in Nat /\ Cardinality(S \ R) \in Nat
    BY Zenon, <1>1, FS_EmptySet, FS_CardinalityType
<1>4. Cardinality(S) = Cardinality(S \ R) + Cardinality(R)
    BY <1>2, <1>3
<1> QED
    BY Zenon, <1>1, <1>3, <1>4

-----------------------------------------------------------------------------
(* What stays the same *)

LEMMA SameBuffers ==
    ASSUME \A b \in Buffers : buffer'[b].assignment = buffer[b].assignment, NEW a
    PROVE  LiveBuffers(a)' = LiveBuffers(a) /\ nBuffers(a)' = nBuffers(a)
<1>1. LiveBuffers(a)' = LiveBuffers(a)
    BY Zenon DEF LiveBuffers
<1> QED
    BY Zenon, <1>1 DEF nBuffers

LEMMA SameHeld ==
    ASSUME \A b \in Buffers : /\ buffer'[b].assignment = buffer[b].assignment
                              /\ buffer'[b].held = buffer[b].held,
           NEW a
    PROVE  HeldBuffers(a)' = HeldBuffers(a) /\ nHeld(a)' = nHeld(a)
<1>1. HeldBuffers(a)' = HeldBuffers(a)
    BY Zenon DEF LiveBuffers, HeldBuffers
<1> QED
    BY Zenon, <1>1 DEF nHeld

LEMMA SameBars ==
    ASSUME \A r \in Bars : bar'[r].assignment = bar[r].assignment, NEW a
    PROVE  LiveBars(a)' = LiveBars(a) /\ nBars(a)' = nBars(a)
<1>1. LiveBars(a)' = LiveBars(a)
    BY Zenon DEF LiveBars
<1> QED
    BY Zenon, <1>1 DEF nBars

LEMMA SameIrqs ==
    ASSUME \A i \in Irqs : irq'[i].assignment = irq[i].assignment, NEW a
    PROVE  LiveIrqs(a)' = LiveIrqs(a) /\ nIrqs(a)' = nIrqs(a)
<1>1. LiveIrqs(a)' = LiveIrqs(a)
    BY Zenon DEF LiveIrqs
<1> QED
    BY Zenon, <1>1 DEF nIrqs

LEMMA SameArmed ==
    ASSUME \A i \in Irqs : irq'[i].assignment = irq[i].assignment /\ irq'[i].armed = irq[i].armed, NEW a
    PROVE  ArmedIrqs(a)' = ArmedIrqs(a) /\ nArmed(a)' = nArmed(a)
<1>1. ArmedIrqs(a)' = ArmedIrqs(a)
    BY Zenon DEF LiveIrqs, ArmedIrqs
<1> QED
    BY Zenon, <1>1 DEF nArmed

LEMMA SameMappings ==
    ASSUME UNCHANGED mmio,
           \A m \in Mappings : mmio[m] # None => bar'[mmio[m]].assignment = bar[mmio[m]].assignment,
           NEW a
    PROVE  MappingsOf(a)' = MappingsOf(a) /\ nMappings(a)' = nMappings(a)
<1>1. MappingsOf(a)' = MappingsOf(a)
    BY Zenon DEF MappingsOf
<1> QED
    BY Zenon, <1>1 DEF nMappings

LEMMA SameSubmissions ==
    ASSUME \A s \in Submissions :
               /\ submission'[s].buffer = submission[s].buffer
               /\ submission[s].buffer # None => buffer'[submission[s].buffer].assignment =
                                                 buffer[submission[s].buffer].assignment,
           NEW a
    PROVE  SubmissionsOf(a)' = SubmissionsOf(a) /\ nSubmissions(a)' = nSubmissions(a)
<1>1. SubmissionsOf(a)' = SubmissionsOf(a)
    BY Zenon DEF SubmissionsOf
<1> QED
    BY Zenon, <1>1 DEF nSubmissions

-----------------------------------------------------------------------------
(* What the owner record becomes *)

(* Every record but a's is left alone, and a's keeps state, owner and exposure. *)
Stays(a) ==
    /\ assignment' \in [Assignments -> AssignmentRecord]
    /\ \A x \in Assignments :
          /\ assignment'[x].state = assignment[x].state /\ assignment'[x].owner = assignment[x].owner
          /\ assignment'[x].exposed = assignment[x].exposed
          /\ x # a => assignment'[x] = assignment[x]

LEMMA Record ==
    ASSUME IInv, NEW a \in Assignments
    PROVE  /\ assignment \in [Assignments -> AssignmentRecord] /\ assignment[a] \in AssignmentRecord
           /\ assignment[a].children \in 0 .. ChildResourceLimit
           /\ assignment[a].access \in 0 .. ActiveAccessLimit
           /\ assignment[a].gate \in BOOLEAN /\ assignment[a].exposed \in BOOLEAN
           /\ ChildResourceLimit \in Nat /\ ActiveAccessLimit \in Nat
<1>1. assignment \in [Assignments -> AssignmentRecord] /\ Parameters
    BY Zenon DEF IInv, TypeOK
<1>2. assignment[a] \in AssignmentRecord
    BY Zenon, <1>1
<1>3. ChildResourceLimit \in Nat /\ ActiveAccessLimit \in Nat
    BY Zenon, <1>1 DEF Parameters
<1> QED
    BY <1>1, <1>2, <1>3 DEF AssignmentRecord

LEMMA ChildAcquiredIs ==
    ASSUME IInv, NEW a \in Assignments, CanAcquireChild(assignment[a]),
           assignment' = [assignment EXCEPT ![a] = ChildAcquired(@)]
    PROVE  /\ Stays(a) /\ assignment'[a].children = assignment[a].children + 1
           /\ assignment'[a].access = assignment[a].access /\ assignment'[a].gate = assignment[a].gate
<1>1. /\ assignment \in [Assignments -> AssignmentRecord] /\ assignment[a] \in AssignmentRecord
      /\ ChildResourceLimit \in Nat
    BY Zenon, Record
<1> QED
    BY <1>1 DEF Stays, ChildAcquired, CanAcquireChild, AssignmentRecord

LEMMA ChildReleasedIs ==
    ASSUME IInv, NEW a \in Assignments, assignment[a].children >= 1,
           assignment' = [assignment EXCEPT ![a] = ChildReleased(@)]
    PROVE  /\ Stays(a) /\ assignment'[a].children = assignment[a].children - 1
           /\ assignment'[a].access = assignment[a].access /\ assignment'[a].gate = assignment[a].gate
<1>1. /\ assignment \in [Assignments -> AssignmentRecord] /\ assignment[a] \in AssignmentRecord
      /\ ChildResourceLimit \in Nat
    BY Zenon, Record
<1> QED
    BY <1>1 DEF Stays, ChildReleased, AssignmentRecord

LEMMA AccessAcquiredIs ==
    ASSUME IInv, NEW a \in Assignments, NEW p, CanAcquireAccess(assignment[a], p),
           assignment' = [assignment EXCEPT ![a] = AccessAcquired(@)]
    PROVE  /\ Stays(a) /\ assignment'[a].children = assignment[a].children
           /\ assignment'[a].access = assignment[a].access + 1 /\ assignment'[a].gate = assignment[a].gate
<1>1. /\ assignment \in [Assignments -> AssignmentRecord] /\ assignment[a] \in AssignmentRecord
      /\ ActiveAccessLimit \in Nat
    BY Zenon, Record
<1> QED
    BY <1>1 DEF Stays, AccessAcquired, CanAcquireAccess, AssignmentRecord

LEMMA AccessReleasedIs ==
    ASSUME IInv, NEW a \in Assignments, assignment[a].access >= 1,
           assignment' = [assignment EXCEPT ![a] = AccessReleased(@)]
    PROVE  /\ Stays(a) /\ assignment'[a].children = assignment[a].children
           /\ assignment'[a].access = assignment[a].access - 1 /\ assignment'[a].gate = assignment[a].gate
<1>1. /\ assignment \in [Assignments -> AssignmentRecord] /\ assignment[a] \in AssignmentRecord
      /\ ActiveAccessLimit \in Nat
    BY Zenon, Record
<1> QED
    BY <1>1 DEF Stays, AccessReleased, AssignmentRecord

(* A live resource pins its function, so the function has an owner. *)
LEMMA Pinned ==
    ASSUME IInv, NEW a \in Assignments
    PROVE  /\ \A b \in LiveBuffers(a) : assignment[a].children >= 1
           /\ \A r \in LiveBars(a) : assignment[a].children >= 1
           /\ \A i \in LiveIrqs(a) : assignment[a].children >= 1
           /\ \A m \in MappingsOf(a) : assignment[a].access >= 1
           /\ \A i \in ArmedIrqs(a) : assignment[a].access >= 1
           /\ \A b \in HeldBuffers(a) : assignment[a].access >= 1
           /\ \A s \in SubmissionsOf(a) : assignment[a].gate
           /\ \A s, t \in SubmissionsOf(a) : s = t
           /\ assignment[a].children >= 1 \/ assignment[a].access >= 1 \/ assignment[a].gate =>
                 assignment[a].state \notin {"NONE", "AVAILABLE"}
<1>1. Parameters /\ CountedAt(a)
    BY Zenon, CountedIs DEF IInv
<1>2. /\ nBuffers(a) \in Nat /\ nBars(a) \in Nat /\ nIrqs(a) \in Nat /\ nMappings(a) \in Nat
      /\ nArmed(a) \in Nat /\ nHeld(a) \in Nat /\ nSubmissions(a) \in Nat
    BY Zenon, <1>1, Numbers
<1>3. /\ \A b \in LiveBuffers(a) : nBuffers(a) >= 1
      /\ \A r \in LiveBars(a) : nBars(a) >= 1
      /\ \A i \in LiveIrqs(a) : nIrqs(a) >= 1
      /\ \A m \in MappingsOf(a) : nMappings(a) >= 1
      /\ \A i \in ArmedIrqs(a) : nArmed(a) >= 1
      /\ \A b \in HeldBuffers(a) : nHeld(a) >= 1
      /\ \A s \in SubmissionsOf(a) : nSubmissions(a) >= 1
    BY Zenon, <1>1, Finite, Positive
       DEF nBuffers, nBars, nIrqs, nMappings, nArmed, nHeld, nSubmissions
<1>4. /\ nBuffers(a) >= 1 \/ nBars(a) >= 1 \/ nIrqs(a) >= 1 => assignment[a].children >= 1
      /\ nMappings(a) >= 1 \/ nArmed(a) >= 1 \/ nHeld(a) >= 1 => assignment[a].access >= 1
      /\ nSubmissions(a) >= 1 => assignment[a].gate
      /\ nSubmissions(a) <= 1
  <2>1. assignment[a].children = nBuffers(a) + nBars(a) + nIrqs(a)
      BY Zenon, <1>1 DEF CountedAt, ChildrenAt, AccessAt, GateAt
  <2>2. assignment[a].access = nMappings(a) + nArmed(a) + nHeld(a)
      BY Zenon, <1>1 DEF CountedAt, ChildrenAt, AccessAt, GateAt
  <2>3. (assignment[a].gate /\ nSubmissions(a) = 1) \/ nSubmissions(a) = 0
      BY Zenon, <1>1 DEF CountedAt, ChildrenAt, AccessAt, GateAt
  <2>4. (nBuffers(a) >= 1 \/ nBars(a) >= 1 \/ nIrqs(a) >= 1) => assignment[a].children >= 1
      BY <1>2, <2>1
  <2>5. (nMappings(a) >= 1 \/ nArmed(a) >= 1 \/ nHeld(a) >= 1) => assignment[a].access >= 1
      BY <1>2, <2>2
  <2>6. 1 <= 1 /\ 0 <= 1 /\ ~(0 >= 1)
      OBVIOUS
  <2> QED
      BY Zenon, <2>3, <2>4, <2>5, <2>6
<1>5. \A s, t \in SubmissionsOf(a) : s = t
    BY Zenon, <1>1, <1>4, Finite, Single DEF nSubmissions
<1>6. assignment[a].state \in {"NONE", "AVAILABLE"} =>
          assignment[a].children = 0 /\ assignment[a].access = 0 /\ ~assignment[a].gate
    BY Zenon DEF IInv, FreeUnpinned
<1>7. assignment[a].children >= 1 \/ assignment[a].access >= 1 \/ assignment[a].gate =>
          assignment[a].state \notin {"NONE", "AVAILABLE"}
  <2>1. ~(0 >= 1)
      OBVIOUS
  <2> QED
      BY Zenon, <1>6, <2>1
<1> QED
    BY Zenon, <1>3, <1>4, <1>5, <1>7


LEMMA DmaIn ==
    ASSUME IInv, NEW d \in dma
    PROVE  /\ d[1] \in Assignments /\ d[2] \in Buffers /\ d = <<d[1], d[2]>>
           /\ buffer[d[2]].assignment = d[1] /\ buffer[d[2]].held /\ d[2] \in HeldBuffers(d[1])
<1>1. dma \subseteq Assignments \X Buffers
    BY Zenon DEF IInv, TypeOK
<1>2. d[1] \in Assignments /\ d[2] \in Buffers /\ d = <<d[1], d[2]>>
    BY <1>1
<1>3. buffer[d[2]].assignment = d[1] /\ buffer[d[2]].state \in {"DEVICE_ACTIVE", "QUARANTINED"}
    BY Zenon DEF IInv, FramesStayPut
<1>4. buffer[d[2]].held
    BY Zenon, <1>2, <1>3 DEF IInv, DmaSound
<1> QED
    BY Zenon, <1>2, <1>3, <1>4 DEF HeldBuffers, LiveBuffers

LEMMA Childless ==
    ASSUME IInv, NEW a \in Assignments, assignment[a].children = 0
    PROVE  LiveBuffers(a) = {} /\ LiveBars(a) = {} /\ LiveIrqs(a) = {} /\ \A d \in dma : d[1] # a
<1>1. ~(0 >= 1)
    OBVIOUS
<1>2. LiveBuffers(a) = {} /\ LiveBars(a) = {} /\ LiveIrqs(a) = {}
    BY Zenon, <1>1, Pinned
<1> QED
    BY Zenon, <1>2, DmaIn DEF HeldBuffers

(* The recovery and the reset, when neither they nor the device move. *)
LEMMA RecoveryKept ==
    ASSUME IInv, UNCHANGED <<recovery, flr, command, dma>>,
           \A x \in Assignments :
               /\ recovery[x] # NoRecovery => assignment'[x].state = "QUARANTINED"
               /\ assignment[x].exposed => assignment'[x].exposed \/ assignment[x].children = 0
    PROVE  RecoverySound' /\ FlrSound'
<1>1. /\ recovery' = recovery /\ flr' = flr /\ command' = command /\ dma' = dma
      /\ RecoverySound /\ FlrSound
    BY Zenon DEF IInv
<1>2. FlrSound'
    BY Zenon, <1>1 DEF FlrSound
<1>3. ASSUME NEW d \in dma
      PROVE  IF recovery[d[1]] = NoRecovery THEN command[d[1]] = "MASTER" \/ assignment'[d[1]].exposed
             ELSE recovery[d[1]].reset_required
  <2>1. d[1] \in Assignments
      BY Zenon, DmaIn
  <2>2. assignment[d[1]].children # 0
      BY Zenon, <2>1, Childless
  <2> QED
      BY Zenon, <1>1, <2>1, <2>2 DEF RecoverySound
<1> QED
    BY Zenon, <1>1, <1>2, <1>3 DEF RecoverySound

(* Steps that leave every resource alone: the record's owner and state, the processes and   *)
(* their handles.                                                                           *)
LEMMA OwnerMoves ==
    ASSUME IInv, UNCHANGED <<resources, flr, hardware, halted>>,
           assignment' \in [Assignments -> AssignmentRecord],
           process' \in [Processes -> {"RUNNING", "STOPPED", "GONE"}],
           capability' \subseteq Handles,
           \A x \in Assignments :
               /\ assignment'[x].children = assignment[x].children
               /\ assignment'[x].access = assignment[x].access /\ assignment'[x].gate = assignment[x].gate
               /\ assignment'[x].state \in {"NONE", "AVAILABLE"} =>
                     assignment[x].children = 0 /\ assignment[x].access = 0 /\ ~assignment[x].gate
               /\ recovery'[x].state = "QUIESCED" => recovery[x].state = "QUIESCED",
           recovery' \in [Assignments -> RecoveryRecord], RecoverySound', FlrSound'
    PROVE  IInv'
<1>1. /\ buffer' = buffer /\ submission' = submission /\ bar' = bar /\ mmio' = mmio /\ irq' = irq
      /\ flr' = flr /\ command' = command /\ dma' = dma /\ halted' = halted
    BY Zenon DEF resources, hardware
<1>2. TypeOK'
  <2>1. TypeOK
      BY Zenon DEF IInv
  <2> QED
      BY Zenon, <1>1, <2>1, Types, TypesAfter
<1>3. Counted'
  <2>1. ASSUME NEW x \in Assignments PROVE CountedAt(x)'
    <3>1. /\ nBuffers(x)' = nBuffers(x) /\ nBars(x)' = nBars(x) /\ nIrqs(x)' = nIrqs(x)
          /\ nMappings(x)' = nMappings(x) /\ nArmed(x)' = nArmed(x) /\ nHeld(x)' = nHeld(x)
          /\ nSubmissions(x)' = nSubmissions(x)
        BY Zenon, <1>1, SameBuffers, SameBars, SameIrqs, SameMappings, SameArmed, SameHeld, SameSubmissions
    <3>2. CountedAt(x)
        BY Zenon, CountedIs DEF IInv
    <3> QED
        BY Zenon, <3>1, <3>2 DEF CountedAt, ChildrenAt, AccessAt, GateAt
  <2> QED
      BY Zenon, <2>1, CountedAfter
<1>4. FreeUnpinned'
    BY Zenon DEF FreeUnpinned
<1>5. ResourcesSound'
    BY Zenon, <1>1 DEF IInv, ResourcesSound, Through
<1>6. DmaSound'
    BY Zenon, <1>1 DEF IInv, DmaSound
<1>8. FramesStayPut'
    BY Zenon, <1>1 DEF IInv, FramesStayPut
<1>9. SubmissionExcludesCpu'
    BY Zenon, <1>1 DEF IInv, SubmissionExcludesCpu, BarsIdle, LiveBars
<1>10. QuiescedIsQuiet'
  <2>1. \A x \in Assignments : /\ MappingsOf(x)' = MappingsOf(x) /\ ArmedIrqs(x)' = ArmedIrqs(x)
                               /\ LiveBuffers(x)' = LiveBuffers(x)
      BY Zenon, <1>1, SameMappings, SameArmed, SameBuffers
  <2>2. QuiescedIsQuiet
      BY Zenon DEF IInv
  <2>3. ASSUME NEW x \in Assignments, recovery'[x].state = "QUIESCED" PROVE QuietAt(x)'
    <3>1. QuietAt(x)
        BY Zenon, <1>1, <2>2, <2>3, QuietIs
    <3> QED
        BY Zenon, <1>1, <2>1, <3>1 DEF QuietAt
  <2> QED
      BY Zenon, <2>3, QuietAfter
<1> QED
    BY Zenon, <1>1, <1>2, <1>3, <1>4, <1>5, <1>6, <1>8, <1>9, <1>10, Afterwards

LEMMA OwnerStep ==
    ASSUME IInv, UNCHANGED <<resources, recovery, flr, hardware, halted>>,
           assignment' \in [Assignments -> AssignmentRecord],
           process' \in [Processes -> {"RUNNING", "STOPPED", "GONE"}],
           capability' \subseteq Handles,
           \A x \in Assignments :
               /\ assignment'[x].children = assignment[x].children
               /\ assignment'[x].access = assignment[x].access /\ assignment'[x].gate = assignment[x].gate
               /\ assignment'[x].state \in {"NONE", "AVAILABLE"} =>
                     assignment[x].children = 0 /\ assignment[x].access = 0 /\ ~assignment[x].gate
               /\ recovery[x] # NoRecovery => assignment'[x].state = "QUARANTINED"
               /\ assignment[x].exposed => assignment'[x].exposed \/ assignment[x].children = 0
    PROVE  IInv'
<1>1. UNCHANGED <<recovery, flr, command, dma>>
    BY Zenon DEF hardware
<1>2. RecoverySound' /\ FlrSound'
    BY Zenon, <1>1, RecoveryKept
<1>3. recovery' \in [Assignments -> RecoveryRecord]
  <2>1. TypeOK
      BY Zenon DEF IInv
  <2> QED
      BY Zenon, <1>1, <2>1, Types
<1> QED
    BY Zenon, <1>1, <1>2, <1>3, OwnerMoves

-----------------------------------------------------------------------------
(* The assignment and its owner *)

LEMMA Typed ==
    ASSUME IInv
    PROVE  /\ Parameters /\ assignment \in [Assignments -> AssignmentRecord]
           /\ process \in [Processes -> {"RUNNING", "STOPPED", "GONE"}] /\ capability \subseteq Handles
           /\ buffer \in [Buffers -> BufferRecord] /\ submission \in [Submissions -> SubmissionRecord]
           /\ bar \in [Bars -> BarRecord] /\ mmio \in [Mappings -> Bars \cup {None}]
           /\ irq \in [Irqs -> IrqRecord] /\ recovery \in [Assignments -> RecoveryRecord]
           /\ flr \in [Callers -> CallRecord] /\ command \in [Assignments -> {"IDLE", "MASTER", "QUIESCED"}]
           /\ dma \subseteq Assignments \X Buffers /\ halted = FALSE
<1>1. Parameters /\ TypeOK /\ ~halted
    BY Zenon DEF IInv
<1>2. halted = FALSE
    BY Zenon, <1>1, Types
<1> QED
    BY Zenon, <1>1, <1>2, Types

LEMMA Recovering1 ==
    ASSUME IInv, NEW x \in Assignments, assignment[x].state # "QUARANTINED"
    PROVE  recovery[x] = NoRecovery
BY Zenon DEF IInv, RecoverySound

(* One record becomes new: what OwnerStep asks of it. *)
LEMMA OneRecord ==
    ASSUME IInv, NEW a \in Assignments, NEW new \in AssignmentRecord,
           assignment' = [assignment EXCEPT ![a] = new],
           UNCHANGED <<resources, recovery, flr, hardware, halted>>,
           process' = process, capability' \subseteq Handles,
           new.children = assignment[a].children, new.access = assignment[a].access,
           new.gate = assignment[a].gate,
           new.state \in {"NONE", "AVAILABLE"} =>
               assignment[a].children = 0 /\ assignment[a].access = 0 /\ ~assignment[a].gate,
           recovery[a] # NoRecovery => new.state = "QUARANTINED",
           assignment[a].exposed => new.exposed \/ assignment[a].children = 0
    PROVE  IInv'
<1>1. /\ assignment \in [Assignments -> AssignmentRecord]
      /\ process' \in [Processes -> {"RUNNING", "STOPPED", "GONE"}]
    BY Zenon, Typed
<1>2. /\ assignment' \in [Assignments -> AssignmentRecord] /\ assignment'[a] = new
      /\ \A x \in Assignments : x # a => assignment'[x] = assignment[x]
    BY <1>1
<1>3. ASSUME NEW x \in Assignments
      PROVE  /\ assignment'[x].children = assignment[x].children
             /\ assignment'[x].access = assignment[x].access /\ assignment'[x].gate = assignment[x].gate
             /\ assignment'[x].state \in {"NONE", "AVAILABLE"} =>
                   assignment[x].children = 0 /\ assignment[x].access = 0 /\ ~assignment[x].gate
             /\ recovery[x] # NoRecovery => assignment'[x].state = "QUARANTINED"
             /\ assignment[x].exposed => assignment'[x].exposed \/ assignment[x].children = 0
  <2>1. CASE x = a
      BY Zenon, <1>2, <2>1
  <2>2. CASE x # a
    <3>1. assignment'[x] = assignment[x]
        BY Zenon, <1>2, <2>2
    <3>2. FreeUnpinned /\ RecoverySound
        BY Zenon DEF IInv
    <3> QED
        BY Zenon, <3>1, <3>2 DEF FreeUnpinned, RecoverySound
  <2> QED
      BY Zenon, <2>1, <2>2
<1> QED
    BY Zenon, <1>1, <1>2, <1>3, OwnerStep

LEMMA OwnershipStep == ASSUME IInv, Ownership PROVE IInv'
<1>1. ASSUME NEW a \in Assignments, AssignmentCreate(a) PROVE IInv'
  <2> DEFINE new == Available
  <2>1. /\ assignment[a].state = "NONE" /\ assignment' = [assignment EXCEPT ![a] = new]
        /\ UNCHANGED <<process, capability, resources, recovery, flr, hardware, halted>>
      BY Zenon, <1>1 DEF AssignmentCreate
  <2>2. assignment[a].children = 0 /\ assignment[a].access = 0 /\ ~assignment[a].gate
      BY Zenon, <2>1 DEF IInv, FreeUnpinned
  <2>3. ChildResourceLimit \in Nat /\ ActiveAccessLimit \in Nat /\ assignment[a].gate \in BOOLEAN
      BY Zenon, Record
  <2>4. new \in AssignmentRecord /\ new.children = 0 /\ new.access = 0 /\ new.gate = FALSE
      BY <2>3 DEF AssignmentRecord, Available
  <2>5. recovery[a] = NoRecovery /\ capability' \subseteq Handles
      BY Zenon, <2>1, Recovering1, Typed
  <2>6. assignment[a].gate = FALSE
      BY Zenon, <2>2, <2>3
  <2> QED
      BY Zenon, <2>1, <2>2, <2>4, <2>5, <2>6, OneRecord
<1>2. ASSUME NEW a \in Assignments, AssignmentDestroy(a) PROVE IInv'
  <2> DEFINE new == Absent
  <2>1. /\ assignment[a].state = "AVAILABLE" /\ assignment' = [assignment EXCEPT ![a] = new]
        /\ UNCHANGED <<process, capability, resources, recovery, flr, hardware, halted>>
      BY Zenon, <1>2 DEF AssignmentDestroy
  <2>2. assignment[a].children = 0 /\ assignment[a].access = 0 /\ ~assignment[a].gate
      BY Zenon, <2>1 DEF IInv, FreeUnpinned
  <2>3. ChildResourceLimit \in Nat /\ ActiveAccessLimit \in Nat /\ assignment[a].gate \in BOOLEAN
      BY Zenon, Record
  <2>4. new \in AssignmentRecord /\ new.children = 0 /\ new.access = 0 /\ new.gate = FALSE
    <3>1. /\ Available \in AssignmentRecord /\ Available.children = 0 /\ Available.access = 0
          /\ Available.gate = FALSE
        BY <2>3 DEF AssignmentRecord, Available
    <3> QED
        BY <3>1 DEF AssignmentRecord, Absent
  <2>5. recovery[a] = NoRecovery /\ capability' \subseteq Handles
      BY Zenon, <2>1, Recovering1, Typed
  <2>6. assignment[a].gate = FALSE
      BY Zenon, <2>2, <2>3
  <2> QED
      BY Zenon, <2>1, <2>2, <2>4, <2>5, <2>6, OneRecord
<1>3. ASSUME NEW a \in Assignments, NEW p \in Processes, Claim(a, p) PROVE IInv'
  <2> DEFINE new == Claimed(assignment[a], p)
  <2>1. assignment \in [Assignments -> AssignmentRecord] /\ assignment[a] \in AssignmentRecord
      BY Zenon, Record
  <2>2. /\ assignment[a].state = "AVAILABLE"
        /\ UNCHANGED <<process, resources, recovery, flr, hardware, halted>>
        /\ capability' = capability \cup {a}
      BY Zenon, <1>3 DEF Claim
  <2>3. assignment' = [assignment EXCEPT ![a] = new]
      BY <1>3, <2>1 DEF Claim
  <2>4. /\ new \in AssignmentRecord /\ new.children = assignment[a].children
        /\ new.access = assignment[a].access /\ new.gate = assignment[a].gate /\ new.state = "ASSIGNED"
        /\ new.exposed = assignment[a].exposed
      BY Zenon, <2>1 DEF AssignmentRecord, Claimed
  <2>5. recovery[a] = NoRecovery
      BY Zenon, <2>2, Recovering1
  <2>6. capability' \subseteq Handles
      BY Zenon, <2>2, Typed DEF Handles
  <2>7. new.state \notin {"NONE", "AVAILABLE"}
      BY <2>4
  <2> HIDE DEF new
  <2> QED
      BY Zenon, <2>2, <2>3, <2>4, <2>5, <2>6, <2>7, OneRecord
<1>4. ASSUME NEW a \in Assignments, NEW st \in {"QUIESCING", "QUARANTINED"},
             assignment[a].state # "QUARANTINED",
             assignment' = [assignment EXCEPT ![a].state = st],
             UNCHANGED <<process, capability, resources, recovery, flr, hardware, halted>>
      PROVE  IInv'
  <2> DEFINE new == [assignment[a] EXCEPT !.state = st]
  <2>1. assignment \in [Assignments -> AssignmentRecord] /\ assignment[a] \in AssignmentRecord
      BY Zenon, Record
  <2>3. assignment' = [assignment EXCEPT ![a] = new]
      BY <1>4, <2>1
  <2>4. /\ new \in AssignmentRecord /\ new.children = assignment[a].children
        /\ new.access = assignment[a].access /\ new.gate = assignment[a].gate /\ new.state = st
        /\ new.exposed = assignment[a].exposed
      BY <1>4, <2>1 DEF AssignmentRecord
  <2>5. recovery[a] = NoRecovery
      BY Zenon, <1>4, Recovering1
  <2>6. capability' \subseteq Handles
      BY Zenon, <1>4, Typed
  <2>7. new.state \notin {"NONE", "AVAILABLE"}
      BY <1>4, <2>4
  <2> HIDE DEF new
  <2> QED
      BY ZenonT(30), <1>4, <2>3, <2>4, <2>5, <2>6, <2>7, OneRecord
<1>5. ASSUME NEW a \in Assignments, BeginQuiesce(a) PROVE IInv'
  <2>1. assignment[a].state # "QUARANTINED"
      BY <1>5 DEF BeginQuiesce, CanBeginQuiesce
  <2> QED
      BY Zenon, <1>4, <1>5, <2>1 DEF BeginQuiesce
<1>6. ASSUME NEW a \in Assignments, ForceQuarantine(a) PROVE IInv'
  <2>1. assignment[a].state # "QUARANTINED"
      BY <1>6 DEF ForceQuarantine
  <2> QED
      BY Zenon, <1>4, <1>6, <2>1 DEF ForceQuarantine
<1>7. ASSUME NEW a \in Assignments, CompleteRelease(a) PROVE IInv'
  <2> DEFINE new == ReleaseDone(assignment[a])
  <2>1. assignment \in [Assignments -> AssignmentRecord] /\ assignment[a] \in AssignmentRecord
      BY Zenon, Record
  <2>2. /\ assignment[a].state = "QUIESCING" /\ assignment[a].children = 0 /\ assignment[a].access = 0
        /\ ~assignment[a].gate
        /\ UNCHANGED <<process, capability, resources, recovery, flr, hardware, halted>>
      BY Zenon, <1>7 DEF CompleteRelease, CanCompleteRelease, Unpinned
  <2>3. assignment' = [assignment EXCEPT ![a] = new]
      BY <1>7, <2>1 DEF CompleteRelease
  <2>4. /\ new \in AssignmentRecord /\ new.children = assignment[a].children
        /\ new.access = assignment[a].access /\ new.gate = assignment[a].gate
      BY Zenon, <2>1 DEF AssignmentRecord, ReleaseDone
  <2>5. recovery[a] = NoRecovery
      BY Zenon, <2>2, Recovering1
  <2>6. capability' \subseteq Handles
      BY Zenon, <2>2, Typed
  <2> HIDE DEF new
  <2> QED
      BY Zenon, <2>2, <2>3, <2>4, <2>5, <2>6, OneRecord
<1>8. ASSUME UNCHANGED <<assignment, resources, recovery, flr, hardware, halted>>,
             process' \in [Processes -> {"RUNNING", "STOPPED", "GONE"}], capability' \subseteq Handles
      PROVE  IInv'
  <2>1. assignment' = assignment /\ assignment' \in [Assignments -> AssignmentRecord]
      BY Zenon, <1>8, Typed
  <2>2. FreeUnpinned /\ RecoverySound
      BY Zenon DEF IInv
  <2> QED
      BY Zenon, <1>8, <2>1, <2>2, OwnerStep DEF FreeUnpinned, RecoverySound
<1>9. ASSUME NEW p \in Processes, ProcessStop(p) \/ ProcessDestroy(p) PROVE IInv'
  <2>1. process \in [Processes -> {"RUNNING", "STOPPED", "GONE"}]
      BY Zenon, Typed
  <2>2. process' \in [Processes -> {"RUNNING", "STOPPED", "GONE"}]
      BY <1>9, <2>1 DEF ProcessStop, ProcessDestroy
  <2>3. UNCHANGED <<assignment, capability, resources, recovery, flr, hardware, halted>>
      BY Zenon, <1>9 DEF ProcessStop, ProcessDestroy
  <2> QED
      BY Zenon, <1>8, <2>2, <2>3, Typed
<1>10. ASSUME NEW o, Revoke(o) PROVE IInv'
  <2>1. process' \in [Processes -> {"RUNNING", "STOPPED", "GONE"}] /\ capability' \subseteq Handles
      BY Zenon, <1>10, Typed DEF Revoke
  <2> QED
      BY Zenon, <1>8, <1>10, <2>1 DEF Revoke
<1> QED
    BY Zenon, <1>1, <1>2, <1>3, <1>5, <1>6, <1>7, <1>9, <1>10 DEF Ownership


-----------------------------------------------------------------------------
(* BARs and interrupts *)

Numbered(x) ==
    /\ nBuffers(x) \in Nat /\ nBars(x) \in Nat /\ nIrqs(x) \in Nat /\ nMappings(x) \in Nat
    /\ nArmed(x) \in Nat /\ nHeld(x) \in Nat

(* The records other than a's are what they were, and so are their pins. *)
LEMMA Recount ==
    ASSUME IInv, NEW a \in Assignments, Stays(a), CountedAt(a)',
           \A x \in Assignments : x # a =>
               /\ nBuffers(x)' = nBuffers(x) /\ nBars(x)' = nBars(x) /\ nIrqs(x)' = nIrqs(x)
               /\ nMappings(x)' = nMappings(x) /\ nArmed(x)' = nArmed(x) /\ nHeld(x)' = nHeld(x)
               /\ nSubmissions(x)' = nSubmissions(x)
    PROVE  Counted'
<1>1. ASSUME NEW x \in Assignments, x # a PROVE CountedAt(x)'
  <2>1. CountedAt(x) /\ assignment'[x] = assignment[x]
      BY Zenon, <1>1, CountedIs DEF IInv, Stays
  <2> QED
      BY Zenon, <1>1, <2>1 DEF CountedAt, ChildrenAt, AccessAt, GateAt
<1> QED
    BY Zenon, <1>1, CountedAfter

LEMMA FreeKept ==
    ASSUME IInv, NEW a \in Assignments, Stays(a), assignment[a].state \notin {"NONE", "AVAILABLE"}
    PROVE  FreeUnpinned'
<1>1. ASSUME NEW x \in Assignments, assignment'[x].state \in {"NONE", "AVAILABLE"}
      PROVE  assignment'[x].children = 0 /\ assignment'[x].access = 0 /\ ~assignment'[x].gate
  <2>1. x # a
      BY Zenon, <1>1 DEF Stays
  <2>2. assignment'[x] = assignment[x]
      BY Zenon, <2>1 DEF Stays
  <2> QED
      BY Zenon, <1>1, <2>2 DEF IInv, FreeUnpinned
<1> QED
    BY Zenon, <1>1 DEF FreeUnpinned

LEMMA StaysKept ==
    ASSUME IInv, NEW a \in Assignments, Stays(a), UNCHANGED <<recovery, flr, command, dma>>
    PROVE  RecoverySound' /\ FlrSound'
<1>1. RecoverySound
    BY Zenon DEF IInv
<1> QED
    BY Zenon, <1>1, RecoveryKept DEF Stays, RecoverySound

LEMMA CpuStep ==
    ASSUME IInv, NEW a \in Assignments, Stays(a), assignment[a].state \notin {"NONE", "AVAILABLE"},
           UNCHANGED <<process, buffer, submission, recovery, flr, hardware>>, halted' = FALSE,
           capability' \subseteq Handles, bar' \in [Bars -> BarRecord],
           mmio' \in [Mappings -> Bars \cup {None}], irq' \in [Irqs -> IrqRecord],
           Counted', ResourcesSound',
           \A r \in Bars : \/ bar'[r].active = 0
                           \/ bar'[r].assignment = bar[r].assignment /\ bar[r].active # 0
                           \/ ~assignment[bar'[r].assignment].gate,
           \A x \in Assignments : assignment[x].state = "QUARANTINED" =>
               MappingsOf(x)' \subseteq MappingsOf(x) /\ ArmedIrqs(x)' \subseteq ArmedIrqs(x)
    PROVE  IInv'
<1>1. /\ buffer' = buffer /\ submission' = submission /\ process' = process
      /\ recovery' = recovery /\ flr' = flr /\ command' = command /\ dma' = dma /\ halted' = halted
    BY Zenon, Typed DEF hardware
<1>2. TypeOK'
  <2>1. TypeOK
      BY Zenon DEF IInv
  <2> QED
      BY Zenon, <1>1, <2>1, Types, TypesAfter DEF Stays
<1>3. FreeUnpinned'
    BY Zenon, FreeKept
<1>4. DmaSound'
    BY Zenon, <1>1 DEF IInv, DmaSound
<1>5. RecoverySound' /\ FlrSound'
    BY Zenon, <1>1, StaysKept
<1>6. FramesStayPut'
    BY Zenon, <1>1 DEF IInv, FramesStayPut
<1>7. SubmissionExcludesCpu'
  <2> SUFFICES ASSUME NEW s \in Submissions, submission[s].state = "ACTIVE"
               PROVE  /\ buffer[submission[s].buffer].mapped = "NO"
                      /\ BarsIdle(buffer[submission[s].buffer].assignment)'
      BY Zenon, <1>1 DEF SubmissionExcludesCpu
  <2> DEFINE b == submission[s].buffer
             x == buffer[b].assignment
  <2>1. buffer[b].mapped = "NO" /\ BarsIdle(x) /\ DmaSound
      BY Zenon DEF IInv, SubmissionExcludesCpu
  <2>2. "ACTIVE" # "NONE"
      OBVIOUS
  <2>3. b # None /\ buffer[b].assignment # None
      BY Zenon, <2>1, <2>2 DEF DmaSound
  <2>4. b \in Buffers /\ x \in Assignments
    <3>1. submission \in [Submissions -> SubmissionRecord] /\ buffer \in [Buffers -> BufferRecord]
        BY Zenon, Typed
    <3>2. b \in Buffers
        BY <2>3, <3>1 DEF SubmissionRecord
    <3> HIDE DEF b
    <3> QED
        BY <2>3, <3>1, <3>2 DEF BufferRecord
  <2>5. assignment[x].gate
      BY Zenon, <2>3, <2>4, Pinned DEF SubmissionsOf
  <2>6. ASSUME NEW r \in Bars, bar'[r].assignment = x PROVE bar'[r].active = 0
      BY Zenon, <2>1, <2>5, <2>6 DEF BarsIdle, LiveBars
  <2>7. x' = x
      BY Zenon, <1>1
  <2>8. BarsIdle(x)'
      BY Zenon, <2>6, <2>7 DEF BarsIdle, LiveBars
  <2> QED
      BY Zenon, <2>1, <2>8
<1>8. QuiescedIsQuiet'
  <2>1. ASSUME NEW x \in Assignments, recovery'[x].state = "QUIESCED" PROVE QuietAt(x)'
    <3>1. QuietAt(x)
        BY Zenon, <1>1, <2>1, QuietIs DEF IInv
    <3>2. recovery[x] # NoRecovery
        BY <1>1, <2>1 DEF NoRecovery
    <3>3. assignment[x].state = "QUARANTINED"
        BY Zenon, <3>2 DEF IInv, RecoverySound
    <3>4. LiveBuffers(x)' = LiveBuffers(x)
        BY Zenon, <1>1, SameBuffers
    <3> QED
        BY Zenon, <1>1, <3>1, <3>3, <3>4 DEF QuietAt
  <2> QED
      BY Zenon, <2>1, QuietAfter
<1> QED
    BY Zenon, <1>1, <1>2, <1>3, <1>4, <1>5, <1>6, <1>7, <1>8, Afterwards


LEMMA AtNow ==
    ASSUME IInv, NEW x \in Assignments
    PROVE  CountedAt(x) /\ Numbered(x)
BY Zenon, CountedIs, Numbers DEF IInv, Numbered

LEMMA BarCreateStep ==
    ASSUME IInv, NEW r \in Bars, NEW a \in Assignments, BarCreate(r, a)
    PROVE  IInv'
<1> DEFINE new == [assignment |-> a, owner |-> assignment[a].owner, active |-> 0]
<1>1. /\ bar[r] = NoBar /\ CanAcquireChild(assignment[a]) /\ assignment[a].state = "ASSIGNED"
      /\ assignment' = [assignment EXCEPT ![a] = ChildAcquired(@)]
      /\ bar' = [bar EXCEPT ![r] = new] /\ capability' = capability \cup {r}
      /\ UNCHANGED <<process, buffer, submission, mmio, irq, recovery, flr, hardware, halted>>
    BY Zenon DEF BarCreate, Authorized
<1>2. /\ Parameters /\ assignment \in [Assignments -> AssignmentRecord] /\ bar \in [Bars -> BarRecord]
      /\ mmio \in [Mappings -> Bars \cup {None}] /\ irq \in [Irqs -> IrqRecord]
      /\ capability \subseteq Handles /\ halted = FALSE /\ ActiveAccessLimit \in Nat
    BY Zenon, Typed, Record
<1>3. /\ Stays(a) /\ assignment'[a].children = assignment[a].children + 1
      /\ assignment'[a].access = assignment[a].access /\ assignment'[a].gate = assignment[a].gate
    BY Zenon, <1>1, ChildAcquiredIs
<1>4. /\ bar' \in [Bars -> BarRecord] /\ bar'[r].assignment = a /\ bar'[r].active = 0
      /\ \A q \in Bars : q # r => bar'[q] = bar[q]
  <2>1. assignment[a].owner \in Processes \cup {None}
      BY <1>2 DEF AssignmentRecord
  <2>2. new \in BarRecord /\ new.assignment = a /\ new.active = 0
      BY <1>2, <2>1 DEF BarRecord
  <2> HIDE DEF new
  <2> QED
      BY <1>1, <1>2, <2>2
<1>5. bar[r].assignment = None /\ bar[r].active = 0 /\ None \notin Assignments
    BY <1>1, <1>2 DEF NoBar, Parameters
<1>6. \A m \in Mappings : mmio[m] # None => mmio[m] # r /\ mmio[m] \in Bars
  <2>1. \A m \in Mappings : mmio[m] # None => mmio[m] \in Bars
      BY Zenon, <1>2
  <2> QED
      BY Zenon, <1>5, <2>1 DEF IInv, ResourcesSound
<1>7. /\ mmio' = mmio /\ irq' = irq /\ buffer' = buffer /\ submission' = submission
      /\ halted' = FALSE
    BY Zenon, <1>1, <1>2
<1>8. \A x \in Assignments :
          /\ nBuffers(x)' = nBuffers(x) /\ nIrqs(x)' = nIrqs(x) /\ ArmedIrqs(x)' = ArmedIrqs(x)
          /\ nArmed(x)' = nArmed(x) /\ nHeld(x)' = nHeld(x) /\ nSubmissions(x)' = nSubmissions(x)
    BY Zenon, <1>7, SameBuffers, SameIrqs, SameArmed, SameHeld, SameSubmissions
<1>9. \A x \in Assignments : MappingsOf(x)' = MappingsOf(x) /\ nMappings(x)' = nMappings(x)
  <2>1. \A m \in Mappings : mmio[m] # None => bar'[mmio[m]].assignment = bar[mmio[m]].assignment
      BY Zenon, <1>4, <1>6
  <2> QED
      BY Zenon, <1>7, <2>1, SameMappings
<1>10. \A x \in Assignments : x # a => nBars(x)' = nBars(x)
  <2>1. ASSUME NEW x \in Assignments, x # a PROVE LiveBars(x)' = LiveBars(x)
      BY Zenon, <1>4, <1>5, <2>1 DEF LiveBars
  <2> QED
      BY Zenon, <2>1 DEF nBars
<1>11. nBars(a)' = nBars(a) + 1
  <2>1. LiveBars(a)' = LiveBars(a) \cup {r} /\ r \notin LiveBars(a)
      BY Zenon, <1>4, <1>5 DEF LiveBars
  <2> QED
      BY Zenon, <1>2, <2>1, Finite, Added DEF nBars
<1>12. Counted'
  <2>1. CountedAt(a) /\ Numbered(a)
      BY Zenon, AtNow
  <2>2. ChildrenAt(a)'
      BY <1>3, <1>8, <1>11, <2>1 DEF CountedAt, ChildrenAt, Numbered
  <2>3. AccessAt(a)' /\ GateAt(a)'
      BY Zenon, <1>3, <1>8, <1>9, <2>1 DEF CountedAt, AccessAt, GateAt
  <2>4. CountedAt(a)'
      BY Zenon, <2>2, <2>3 DEF CountedAt
  <2> QED
      BY Zenon, <1>3, <1>8, <1>9, <1>10, <2>4, Recount
<1>13. ResourcesSound'
  <2>1. ResourcesSound
      BY Zenon DEF IInv
  <2>2. \A q \in Bars : Through(q)' = Through(q)
      BY Zenon, <1>7 DEF Through
  <2>3. ASSUME NEW q \in Bars
        PROVE  bar'[q].active = Cardinality(Through(q)') /\ (bar'[q].assignment = None => bar'[q] = NoBar)
    <3>1. CASE q = r
        BY Zenon, <1>4, <1>5, <2>1, <2>2, <3>1 DEF ResourcesSound
    <3>2. CASE q # r
        BY Zenon, <1>4, <2>1, <2>2, <3>2 DEF ResourcesSound
    <3> QED
        BY Zenon, <3>1, <3>2
  <2>4. \A m \in Mappings : mmio'[m] # None => bar'[mmio'[m]].assignment # None
      BY Zenon, <1>4, <1>6, <1>7, <2>1 DEF ResourcesSound
  <2> QED
      BY Zenon, <1>7, <2>1, <2>3, <2>4 DEF ResourcesSound
<1>14. \A q \in Bars : \/ bar'[q].active = 0
                       \/ bar'[q].assignment = bar[q].assignment /\ bar[q].active # 0
    BY Zenon, <1>4
<1>15. capability' \subseteq Handles /\ assignment[a].state \notin {"NONE", "AVAILABLE"}
  <2>1. assignment[a].state \notin {"NONE", "AVAILABLE"}
      BY <1>1
  <2> QED
      BY Zenon, <1>1, <1>2, <2>1 DEF Handles
<1> QED
    BY Zenon, <1>1, <1>2, <1>3, <1>4, <1>7, <1>8, <1>9, <1>12, <1>13, <1>14, <1>15, CpuStep


LEMMA BarIn ==
    ASSUME IInv, NEW r \in Bars, bar[r] # NoBar
    PROVE  /\ bar[r].assignment \in Assignments /\ r \in LiveBars(bar[r].assignment)
           /\ assignment[bar[r].assignment].children >= 1
           /\ assignment[bar[r].assignment].state \notin {"NONE", "AVAILABLE"}
<1>1. bar \in [Bars -> BarRecord]
    BY Zenon, Typed
<1>2. bar[r].assignment # None
    BY Zenon DEF IInv, ResourcesSound
<1>3. bar[r].assignment \in Assignments
    BY <1>1, <1>2 DEF BarRecord
<1>4. r \in LiveBars(bar[r].assignment)
    BY Zenon DEF LiveBars
<1> QED
    BY Zenon, <1>3, <1>4, Pinned

LEMMA IrqIn ==
    ASSUME IInv, NEW i \in Irqs, irq[i] # NoIrq
    PROVE  /\ irq[i].assignment \in Assignments /\ i \in LiveIrqs(irq[i].assignment)
           /\ assignment[irq[i].assignment].children >= 1
           /\ assignment[irq[i].assignment].state \notin {"NONE", "AVAILABLE"}
<1>1. irq \in [Irqs -> IrqRecord]
    BY Zenon, Typed
<1>2. irq[i].assignment # None
    BY Zenon DEF IInv, ResourcesSound
<1>3. irq[i].assignment \in Assignments
    BY <1>1, <1>2 DEF IrqRecord
<1>4. i \in LiveIrqs(irq[i].assignment)
    BY Zenon DEF LiveIrqs
<1> QED
    BY Zenon, <1>3, <1>4, Pinned

LEMMA MappingIn ==
    ASSUME IInv, NEW m \in Mappings, mmio[m] # None
    PROVE  /\ mmio[m] \in Bars /\ bar[mmio[m]] # NoBar /\ m \in MappingsOf(bar[mmio[m]].assignment)
           /\ bar[mmio[m]].assignment \in Assignments
           /\ assignment[bar[mmio[m]].assignment].access >= 1
           /\ bar[mmio[m]].active \in Nat /\ bar[mmio[m]].active >= 1
<1>1. mmio \in [Mappings -> Bars \cup {None}] /\ Parameters
    BY Zenon, Typed
<1>2. mmio[m] \in Bars
    BY Zenon, <1>1
<1>3. bar[mmio[m]].assignment # None /\ bar[mmio[m]].active = Cardinality(Through(mmio[m]))
    BY Zenon, <1>2 DEF IInv, ResourcesSound
<1>4. bar[mmio[m]] # NoBar
    BY <1>3 DEF NoBar
<1>5. bar[mmio[m]].assignment \in Assignments
    BY Zenon, <1>2, <1>4, BarIn
<1>6. m \in MappingsOf(bar[mmio[m]].assignment) /\ m \in Through(mmio[m])
    BY Zenon DEF MappingsOf, Through
<1>7. IsFiniteSet(Through(mmio[m]))
    BY Zenon, <1>1, Finite
<1>8. bar[mmio[m]].active \in Nat /\ bar[mmio[m]].active >= 1
    BY Zenon, <1>3, <1>6, <1>7, Positive
<1>9. assignment[bar[mmio[m]].assignment].access >= 1
    BY Zenon, <1>5, <1>6, Pinned
<1> QED
    BY Zenon, <1>2, <1>4, <1>5, <1>6, <1>8, <1>9

LEMMA Unused ==
    ASSUME IInv, NEW r \in Bars, bar[r].active = 0
    PROVE  \A m \in Mappings : mmio[m] # r
<1>1. ~(0 >= 1)
    OBVIOUS
<1>2. None \notin Bars
    BY Zenon, Typed DEF Parameters
<1> QED
    BY Zenon, <1>1, <1>2, MappingIn

LEMMA BarDestroyStep ==
    ASSUME IInv, NEW r \in Bars, NEW a \in Assignments, a = bar[r].assignment, BarDestroy(r)
    PROVE  IInv'
<1>1. /\ bar[r] # NoBar /\ Matches(bar[r]) /\ bar[r].active = 0
      /\ Must(CanReleaseChild(assignment[a], bar[r].owner))
      /\ assignment' = [assignment EXCEPT ![a] = ChildReleased(@)]
      /\ bar' = [bar EXCEPT ![r] = NoBar] /\ capability' = capability
      /\ UNCHANGED <<process, buffer, submission, mmio, irq, recovery, flr, hardware>>
    BY Zenon DEF BarDestroy
<1>2. /\ r \in LiveBars(a) /\ assignment[a].children >= 1
      /\ assignment[a].state \notin {"NONE", "AVAILABLE"}
    BY Zenon, <1>1, BarIn
<1>3. /\ Parameters /\ bar \in [Bars -> BarRecord]
      /\ mmio \in [Mappings -> Bars \cup {None}] /\ irq \in [Irqs -> IrqRecord]
      /\ capability \subseteq Handles /\ ActiveAccessLimit \in Nat
    BY Zenon, Typed, Record
<1>4. assignment[a].owner = bar[r].owner
    BY Zenon, <1>1 DEF Matches
<1>5. halted' = FALSE
  <2>1. ~(0 >= 1)
      OBVIOUS
  <2>2. CanReleaseChild(assignment[a], bar[r].owner)
      BY Zenon, <1>2, <1>4, <2>1 DEF CanReleaseChild, OwnedBy
  <2> QED
      BY Zenon, <1>1, <2>2 DEF Must
<1>6. /\ Stays(a) /\ assignment'[a].children = assignment[a].children - 1
      /\ assignment'[a].access = assignment[a].access /\ assignment'[a].gate = assignment[a].gate
    BY Zenon, <1>1, <1>2, ChildReleasedIs
<1>7. /\ bar' \in [Bars -> BarRecord] /\ bar'[r] = NoBar
      /\ \A q \in Bars : q # r => bar'[q] = bar[q]
  <2>1. NoBar \in BarRecord
      BY <1>3 DEF BarRecord, NoBar
  <2> QED
      BY <1>1, <1>3, <2>1
<1>8. NoBar.assignment = None /\ NoBar.active = 0 /\ None \notin Assignments
    BY <1>3 DEF NoBar, Parameters
<1>9. \A m \in Mappings : mmio[m] # None => mmio[m] # r /\ mmio[m] \in Bars
    BY Zenon, <1>1, Unused, MappingIn
<1>10. mmio' = mmio /\ irq' = irq /\ buffer' = buffer /\ submission' = submission
    BY Zenon, <1>1
<1>11. \A x \in Assignments :
          /\ nBuffers(x)' = nBuffers(x) /\ nIrqs(x)' = nIrqs(x) /\ ArmedIrqs(x)' = ArmedIrqs(x)
          /\ nArmed(x)' = nArmed(x) /\ nHeld(x)' = nHeld(x) /\ nSubmissions(x)' = nSubmissions(x)
    BY Zenon, <1>10, SameBuffers, SameIrqs, SameArmed, SameHeld, SameSubmissions
<1>12. \A x \in Assignments : MappingsOf(x)' = MappingsOf(x) /\ nMappings(x)' = nMappings(x)
  <2>1. \A m \in Mappings : mmio[m] # None => bar'[mmio[m]].assignment = bar[mmio[m]].assignment
      BY Zenon, <1>7, <1>9
  <2> QED
      BY Zenon, <1>10, <2>1, SameMappings
<1>13. \A x \in Assignments : x # a => nBars(x)' = nBars(x)
  <2>1. ASSUME NEW x \in Assignments, x # a PROVE LiveBars(x)' = LiveBars(x)
      BY Zenon, <1>7, <1>8, <2>1 DEF LiveBars
  <2> QED
      BY Zenon, <2>1 DEF nBars
<1>14. nBars(a)' = nBars(a) - 1
  <2>1. LiveBars(a)' = LiveBars(a) \ {r}
      BY Zenon, <1>7, <1>8 DEF LiveBars
  <2> QED
      BY Zenon, <1>2, <1>3, <2>1, Finite, Removed DEF nBars
<1>15. Counted'
  <2>1. CountedAt(a) /\ Numbered(a)
      BY Zenon, AtNow
  <2>2. ChildrenAt(a)'
      BY <1>6, <1>11, <1>14, <2>1 DEF CountedAt, ChildrenAt, Numbered
  <2>3. AccessAt(a)' /\ GateAt(a)'
      BY Zenon, <1>6, <1>11, <1>12, <2>1 DEF CountedAt, AccessAt, GateAt
  <2>4. CountedAt(a)'
      BY Zenon, <2>2, <2>3 DEF CountedAt
  <2> QED
      BY Zenon, <1>6, <1>11, <1>12, <1>13, <2>4, Recount
<1>16. ResourcesSound'
  <2>1. ResourcesSound
      BY Zenon DEF IInv
  <2>2. \A q \in Bars : Through(q)' = Through(q)
      BY Zenon, <1>10 DEF Through
  <2>3. ASSUME NEW q \in Bars
        PROVE  bar'[q].active = Cardinality(Through(q)') /\ (bar'[q].assignment = None => bar'[q] = NoBar)
    <3>1. CASE q = r
        BY Zenon, <1>1, <1>7, <1>8, <2>1, <2>2, <3>1 DEF ResourcesSound
    <3>2. CASE q # r
        BY Zenon, <1>7, <2>1, <2>2, <3>2 DEF ResourcesSound
    <3> QED
        BY Zenon, <3>1, <3>2
  <2>4. \A m \in Mappings : mmio'[m] # None => bar'[mmio'[m]].assignment # None
      BY Zenon, <1>7, <1>9, <1>10, <2>1 DEF ResourcesSound
  <2> QED
      BY Zenon, <1>10, <2>1, <2>3, <2>4 DEF ResourcesSound
<1>17. \A q \in Bars : \/ bar'[q].active = 0
                       \/ bar'[q].assignment = bar[q].assignment /\ bar[q].active # 0
    BY Zenon, <1>7, <1>8
<1> QED
    BY Zenon, <1>1, <1>2, <1>3, <1>5, <1>6, <1>7, <1>10, <1>11, <1>12, <1>15, <1>16, <1>17, CpuStep

LEMMA MmioMapStep ==
    ASSUME IInv, NEW m \in Mappings, NEW r \in Bars, NEW a \in Assignments, a = bar[r].assignment,
           MmioMap(m, r)
    PROVE  IInv'
<1>1. /\ mmio[m] = None /\ bar[r] # NoBar /\ ~assignment[a].gate
      /\ CanAcquireAccess(assignment[a], bar[r].owner)
      /\ assignment' = [assignment EXCEPT ![a] = AccessAcquired(@)]
      /\ bar' = [bar EXCEPT ![r].active = @ + 1] /\ mmio' = [mmio EXCEPT ![m] = r]
      /\ UNCHANGED <<process, capability, buffer, submission, irq, recovery, flr, hardware, halted>>
    BY Zenon DEF MmioMap, AccessAcquirable
<1>2. /\ Parameters /\ bar \in [Bars -> BarRecord] /\ mmio \in [Mappings -> Bars \cup {None}]
      /\ irq \in [Irqs -> IrqRecord] /\ capability \subseteq Handles /\ halted = FALSE
      /\ ActiveAccessLimit \in Nat /\ assignment[a].access \in 0 .. ActiveAccessLimit
    BY Zenon, Typed, Record
<1>3. /\ Stays(a) /\ assignment'[a].children = assignment[a].children
      /\ assignment'[a].access = assignment[a].access + 1 /\ assignment'[a].gate = assignment[a].gate
    BY Zenon, <1>1, AccessAcquiredIs
<1>4. /\ assignment[a].state = "ASSIGNED" /\ assignment[a].access < ActiveAccessLimit
      /\ assignment[a].state \notin {"NONE", "AVAILABLE"} /\ assignment[a].state # "QUARANTINED"
    BY <1>1 DEF CanAcquireAccess, AssignedTo
<1>5. CountedAt(a) /\ Numbered(a)
    BY Zenon, AtNow
<1>6. bar[r].active = Cardinality(Through(r)) /\ bar[r].active \in Nat /\ bar[r].active <= nMappings(a)
  <2>1. Through(r) \subseteq MappingsOf(a)
    <3>1. None \notin Bars
        BY Zenon, <1>2 DEF Parameters
    <3> QED
        BY Zenon, <3>1 DEF Through, MappingsOf
  <2>2. Cardinality(Through(r)) <= nMappings(a) /\ Cardinality(Through(r)) \in Nat
      BY Zenon, <1>2, <2>1, Finite, FS_Subset, FS_CardinalityType DEF nMappings
  <2>3. bar[r].active = Cardinality(Through(r))
      BY Zenon DEF IInv, ResourcesSound
  <2> QED
      BY Zenon, <2>2, <2>3
<1>7. bar[r].active + 1 \in 0 .. ActiveAccessLimit /\ bar[r].active + 1 # 0
    BY <1>2, <1>4, <1>5, <1>6 DEF CountedAt, AccessAt, Numbered
<1>8. /\ bar' \in [Bars -> BarRecord] /\ bar'[r].active = bar[r].active + 1
      /\ \A q \in Bars : bar'[q].assignment = bar[q].assignment /\ (q # r => bar'[q] = bar[q])
    BY <1>1, <1>2, <1>7 DEF BarRecord
<1>9. /\ mmio' \in [Mappings -> Bars \cup {None}] /\ mmio'[m] = r
      /\ \A k \in Mappings : k # m => mmio'[k] = mmio[k]
    BY <1>1, <1>2
<1>10. irq' = irq /\ buffer' = buffer /\ submission' = submission /\ capability' = capability /\ halted' = FALSE
    BY Zenon, <1>1, <1>2
<1>11. \A x \in Assignments :
          /\ nBuffers(x)' = nBuffers(x) /\ nBars(x)' = nBars(x) /\ nIrqs(x)' = nIrqs(x)
          /\ ArmedIrqs(x)' = ArmedIrqs(x) /\ nArmed(x)' = nArmed(x) /\ nHeld(x)' = nHeld(x)
          /\ nSubmissions(x)' = nSubmissions(x)
    BY Zenon, <1>8, <1>10, SameBuffers, SameBars, SameIrqs, SameArmed, SameHeld, SameSubmissions
<1>12. \A k \in Mappings : mmio[k] # None => mmio[k] \in Bars
    BY Zenon, <1>2
<1>13. \A x \in Assignments : x # a => MappingsOf(x)' = MappingsOf(x) /\ nMappings(x)' = nMappings(x)
  <2>1. ASSUME NEW x \in Assignments, x # a PROVE MappingsOf(x)' = MappingsOf(x)
    <3>1. ASSUME NEW k \in Mappings
          PROVE  (mmio'[k] # None /\ bar'[mmio'[k]].assignment = x) <=>
                 (mmio[k] # None /\ bar[mmio[k]].assignment = x)
      <4>1. CASE k = m
          BY Zenon, <1>1, <1>8, <1>9, <2>1, <4>1
      <4>2. CASE k # m
          BY Zenon, <1>8, <1>9, <1>12, <4>2
      <4> QED
          BY Zenon, <4>1, <4>2
    <3> QED
        BY Zenon, <3>1 DEF MappingsOf
  <2> QED
      BY Zenon, <2>1 DEF nMappings
<1>14. nMappings(a)' = nMappings(a) + 1
  <2>1. MappingsOf(a)' = MappingsOf(a) \cup {m} /\ m \notin MappingsOf(a)
    <3>1. None \notin Bars
        BY Zenon, <1>2 DEF Parameters
    <3>2. m \notin MappingsOf(a) /\ m \in MappingsOf(a)'
        BY Zenon, <1>1, <1>8, <1>9, <3>1 DEF MappingsOf
    <3>3. ASSUME NEW k \in Mappings, k # m
          PROVE  (mmio'[k] # None /\ bar'[mmio'[k]].assignment = a) <=>
                 (mmio[k] # None /\ bar[mmio[k]].assignment = a)
        BY Zenon, <1>8, <1>9, <1>12, <3>3
    <3>4. \A k \in Mappings : k # m => (k \in MappingsOf(a)' <=> k \in MappingsOf(a))
        BY Zenon, <3>3 DEF MappingsOf
    <3>5. MappingsOf(a)' \subseteq Mappings /\ MappingsOf(a) \subseteq Mappings
        BY Zenon DEF MappingsOf
    <3> QED
        BY Zenon, <3>2, <3>4, <3>5
  <2> QED
      BY Zenon, <1>2, <2>1, Finite, Added DEF nMappings
<1>15. Counted'
  <2>1. AccessAt(a)'
      BY <1>3, <1>5, <1>11, <1>14 DEF CountedAt, AccessAt, Numbered
  <2>2. ChildrenAt(a)' /\ GateAt(a)'
      BY Zenon, <1>3, <1>5, <1>11 DEF CountedAt, ChildrenAt, GateAt
  <2>3. CountedAt(a)'
      BY Zenon, <2>1, <2>2 DEF CountedAt
  <2> QED
      BY Zenon, <1>3, <1>11, <1>13, <2>3, Recount
<1>16. ResourcesSound'
  <2>1. ResourcesSound
      BY Zenon DEF IInv
  <2>2. Through(r)' = Through(r) \cup {m} /\ m \notin Through(r)
    <3>1. None \notin Bars
        BY Zenon, <1>2 DEF Parameters
    <3> QED
        BY Zenon, <1>1, <1>9, <3>1 DEF Through
  <2>3. Cardinality(Through(r)') = Cardinality(Through(r)) + 1
      BY Zenon, <1>2, <2>2, Finite, Added
  <2>4. \A q \in Bars : q # r => Through(q)' = Through(q)
    <3>1. None \notin Bars
        BY Zenon, <1>2 DEF Parameters
    <3> QED
        BY Zenon, <1>1, <1>9, <3>1 DEF Through
  <2>5. bar[r].assignment # None
      BY Zenon, <1>1, <2>1 DEF ResourcesSound
  <2>6. ASSUME NEW q \in Bars
        PROVE  bar'[q].active = Cardinality(Through(q)') /\ (bar'[q].assignment = None => bar'[q] = NoBar)
    <3>1. CASE q = r
        BY Zenon, <1>6, <1>8, <2>3, <2>5, <3>1
    <3>2. CASE q # r
        BY Zenon, <1>8, <2>1, <2>4, <3>2 DEF ResourcesSound
    <3> QED
        BY Zenon, <3>1, <3>2
  <2>7. \A k \in Mappings : mmio'[k] # None => bar'[mmio'[k]].assignment # None
      BY Zenon, <1>8, <1>9, <1>12, <2>1, <2>5 DEF ResourcesSound
  <2> QED
      BY Zenon, <1>10, <2>1, <2>6, <2>7 DEF ResourcesSound
<1>17. \A q \in Bars : \/ bar'[q].active = 0
                       \/ bar'[q].assignment = bar[q].assignment /\ bar[q].active # 0
                       \/ ~assignment[bar'[q].assignment].gate
    BY Zenon, <1>1, <1>8
<1>18. \A x \in Assignments : assignment[x].state = "QUARANTINED" =>
           MappingsOf(x)' \subseteq MappingsOf(x) /\ ArmedIrqs(x)' \subseteq ArmedIrqs(x)
    BY Zenon, <1>4, <1>11, <1>13
<1>19. irq' \in [Irqs -> IrqRecord] /\ capability' \subseteq Handles
    BY Zenon, <1>2, <1>10
<1> QED
    BY Zenon, <1>1, <1>3, <1>4, <1>8, <1>9, <1>10, <1>15, <1>16, <1>17, <1>18, <1>19, CpuStep

LEMMA MmioUnmapStep ==
    ASSUME IInv, NEW m \in Mappings, NEW r \in Bars, r = mmio[m], NEW a \in Assignments,
           a = bar[r].assignment, MmioUnmap(m)
    PROVE  IInv'
<1>1. /\ mmio[m] # None /\ Matches(bar[r])
      /\ Must(bar[r].active # 0 /\ CanReleaseAccess(assignment[a], bar[r].owner))
      /\ assignment' = [assignment EXCEPT ![a] = AccessReleased(@)]
      /\ bar' = [bar EXCEPT ![r].active = @ - 1] /\ mmio' = [mmio EXCEPT ![m] = None]
      /\ UNCHANGED <<process, capability, buffer, submission, irq, recovery, flr, hardware>>
    BY Zenon DEF MmioUnmap
<1>2. /\ Parameters /\ bar \in [Bars -> BarRecord] /\ mmio \in [Mappings -> Bars \cup {None}]
      /\ irq \in [Irqs -> IrqRecord] /\ capability \subseteq Handles
      /\ ActiveAccessLimit \in Nat
    BY Zenon, Typed, Record
<1>3. /\ bar[r] # NoBar /\ m \in MappingsOf(a) /\ assignment[a].access >= 1
      /\ bar[r].active \in Nat /\ bar[r].active >= 1
    BY Zenon, <1>1, MappingIn
<1>4. assignment[a].state \notin {"NONE", "AVAILABLE"} /\ assignment[a].owner = bar[r].owner
    BY Zenon, <1>1, <1>3, Pinned DEF Matches
<1>5. halted' = FALSE
  <2>1. ~(0 >= 1)
      OBVIOUS
  <2>2. bar[r].active # 0 /\ CanReleaseAccess(assignment[a], bar[r].owner)
      BY Zenon, <1>3, <1>4, <2>1 DEF CanReleaseAccess, OwnedBy
  <2> QED
      BY Zenon, <1>1, <2>2 DEF Must
<1>6. /\ Stays(a) /\ assignment'[a].children = assignment[a].children
      /\ assignment'[a].access = assignment[a].access - 1 /\ assignment'[a].gate = assignment[a].gate
    BY Zenon, <1>1, <1>3, AccessReleasedIs
<1>7. bar[r].active - 1 \in 0 .. ActiveAccessLimit /\ bar[r].active # 0
  <2>1. bar[r].active \in 0 .. ActiveAccessLimit
      BY <1>2 DEF BarRecord
  <2> QED
      BY <1>2, <1>3, <2>1
<1>8. /\ bar' \in [Bars -> BarRecord] /\ bar'[r].active = bar[r].active - 1
      /\ \A q \in Bars : bar'[q].assignment = bar[q].assignment /\ (q # r => bar'[q] = bar[q])
    BY <1>1, <1>2, <1>7 DEF BarRecord
<1>9. /\ mmio' \in [Mappings -> Bars \cup {None}] /\ mmio'[m] = None
      /\ \A k \in Mappings : k # m => mmio'[k] = mmio[k]
    BY <1>1, <1>2
<1>10. irq' = irq /\ buffer' = buffer /\ submission' = submission /\ capability' = capability
    BY Zenon, <1>1
<1>11. \A x \in Assignments :
          /\ nBuffers(x)' = nBuffers(x) /\ nBars(x)' = nBars(x) /\ nIrqs(x)' = nIrqs(x)
          /\ ArmedIrqs(x)' = ArmedIrqs(x) /\ nArmed(x)' = nArmed(x) /\ nHeld(x)' = nHeld(x)
          /\ nSubmissions(x)' = nSubmissions(x)
    BY Zenon, <1>8, <1>10, SameBuffers, SameBars, SameIrqs, SameArmed, SameHeld, SameSubmissions
<1>12. (\A k \in Mappings : mmio[k] # None => mmio[k] \in Bars) /\ None \notin Bars
    BY Zenon, <1>2 DEF Parameters
<1>13. \A x \in Assignments : MappingsOf(x)' = MappingsOf(x) \ {m}
  <2>1. ASSUME NEW x \in Assignments PROVE MappingsOf(x)' = MappingsOf(x) \ {m}
    <3>1. ASSUME NEW k \in Mappings
          PROVE  (mmio'[k] # None /\ bar'[mmio'[k]].assignment = x) <=>
                 (mmio[k] # None /\ bar[mmio[k]].assignment = x /\ k # m)
      <4>1. CASE k = m
          BY Zenon, <1>9, <4>1
      <4>2. CASE k # m
          BY Zenon, <1>8, <1>9, <1>12, <4>2
      <4> QED
          BY Zenon, <4>1, <4>2
    <3>2. \A k \in Mappings : k \in MappingsOf(x)' <=> k \in MappingsOf(x) /\ k # m
        BY Zenon, <3>1 DEF MappingsOf
    <3>3. MappingsOf(x)' \subseteq Mappings /\ MappingsOf(x) \subseteq Mappings
        BY Zenon DEF MappingsOf
    <3> QED
        BY Zenon, <3>2, <3>3
  <2> QED
      BY Zenon, <2>1
<1>14. \A x \in Assignments : x # a => nMappings(x)' = nMappings(x)
  <2>1. ASSUME NEW x \in Assignments, x # a PROVE MappingsOf(x)' = MappingsOf(x)
    <3>1. m \notin MappingsOf(x)
        BY Zenon, <2>1 DEF MappingsOf
    <3> QED
        BY Zenon, <1>13, <3>1
  <2> QED
      BY Zenon, <2>1 DEF nMappings
<1>15. nMappings(a)' = nMappings(a) - 1
    BY Zenon, <1>2, <1>3, <1>13, Finite, Removed DEF nMappings
<1>16. Counted'
  <2>1. CountedAt(a) /\ Numbered(a)
      BY Zenon, AtNow
  <2>2. AccessAt(a)'
      BY <1>6, <1>11, <1>15, <2>1 DEF CountedAt, AccessAt, Numbered
  <2>3. ChildrenAt(a)' /\ GateAt(a)'
      BY Zenon, <1>6, <1>11, <2>1 DEF CountedAt, ChildrenAt, GateAt
  <2>4. CountedAt(a)'
      BY Zenon, <2>2, <2>3 DEF CountedAt
  <2> QED
      BY Zenon, <1>6, <1>11, <1>14, <2>4, Recount
<1>17. ResourcesSound'
  <2>1. ResourcesSound
      BY Zenon DEF IInv
  <2>2. Through(r)' = Through(r) \ {m} /\ m \in Through(r)
      BY Zenon, <1>9, <1>12 DEF Through
  <2>3. Cardinality(Through(r)') = Cardinality(Through(r)) - 1
      BY Zenon, <1>2, <2>2, Finite, Removed
  <2>4. \A q \in Bars : q # r => Through(q)' = Through(q)
      BY Zenon, <1>9, <1>12 DEF Through
  <2>5. bar[r].assignment # None
      BY Zenon, <1>3, <2>1 DEF ResourcesSound
  <2>6. ASSUME NEW q \in Bars
        PROVE  bar'[q].active = Cardinality(Through(q)') /\ (bar'[q].assignment = None => bar'[q] = NoBar)
    <3>1. CASE q = r
        BY Zenon, <1>8, <2>1, <2>3, <2>5, <3>1 DEF ResourcesSound
    <3>2. CASE q # r
        BY Zenon, <1>8, <2>1, <2>4, <3>2 DEF ResourcesSound
    <3> QED
        BY Zenon, <3>1, <3>2
  <2>7. \A k \in Mappings : mmio'[k] # None => bar'[mmio'[k]].assignment # None
      BY ZenonT(30), <1>8, <1>9, <1>12, <2>1 DEF ResourcesSound
  <2> QED
      BY Zenon, <1>10, <2>1, <2>6, <2>7 DEF ResourcesSound
<1>18. \A q \in Bars : \/ bar'[q].active = 0
                       \/ bar'[q].assignment = bar[q].assignment /\ bar[q].active # 0
    BY Zenon, <1>7, <1>8
<1>19. \A x \in Assignments : assignment[x].state = "QUARANTINED" =>
           MappingsOf(x)' \subseteq MappingsOf(x) /\ ArmedIrqs(x)' \subseteq ArmedIrqs(x)
    BY Zenon, <1>11, <1>13
<1>20. irq' \in [Irqs -> IrqRecord] /\ capability' \subseteq Handles
    BY Zenon, <1>2, <1>10
<1> QED
    BY Zenon, <1>1, <1>4, <1>5, <1>6, <1>8, <1>9, <1>16, <1>17, <1>18, <1>19, <1>20, CpuStep

(* What an interrupt's step leaves alone. *)
LEMMA BarsKept ==
    ASSUME IInv, UNCHANGED <<bar, mmio>>, \A i \in Irqs : irq'[i].assignment = None => irq'[i] = NoIrq
    PROVE  /\ ResourcesSound'
           /\ \A x \in Assignments : nBars(x)' = nBars(x) /\ nMappings(x)' = nMappings(x) /\ MappingsOf(x)' = MappingsOf(x)
           /\ bar' \in [Bars -> BarRecord] /\ mmio' \in [Mappings -> Bars \cup {None}]
           /\ \A q \in Bars : \/ bar'[q].active = 0
                              \/ bar'[q].assignment = bar[q].assignment /\ bar[q].active # 0
<1>1. bar' = bar /\ mmio' = mmio
    OBVIOUS
<1>2. ResourcesSound'
    BY Zenon, <1>1 DEF IInv, ResourcesSound, Through
<1>3. \A x \in Assignments : nBars(x)' = nBars(x) /\ nMappings(x)' = nMappings(x) /\ MappingsOf(x)' = MappingsOf(x)
    BY Zenon, <1>1, SameBars, SameMappings
<1> QED
    BY Zenon, <1>1, <1>2, <1>3, Typed

LEMMA IrqCreateStep ==
    ASSUME IInv, NEW i \in Irqs, NEW a \in Assignments, IrqCreate(i, a)
    PROVE  IInv'
<1> DEFINE new == [assignment |-> a, owner |-> assignment[a].owner, armed |-> FALSE]
<1>1. /\ irq[i] = NoIrq /\ CanAcquireChild(assignment[a]) /\ assignment[a].state = "ASSIGNED"
      /\ assignment' = [assignment EXCEPT ![a] = ChildAcquired(@)]
      /\ irq' = [irq EXCEPT ![i] = new] /\ capability' = capability \cup {i}
      /\ UNCHANGED <<process, buffer, submission, bar, mmio, recovery, flr, hardware, halted>>
    BY Zenon DEF IrqCreate, Authorized
<1>2. /\ Parameters /\ assignment \in [Assignments -> AssignmentRecord] /\ irq \in [Irqs -> IrqRecord]
      /\ capability \subseteq Handles /\ halted = FALSE
    BY Zenon, Typed
<1>3. /\ Stays(a) /\ assignment'[a].children = assignment[a].children + 1
      /\ assignment'[a].access = assignment[a].access /\ assignment'[a].gate = assignment[a].gate
    BY Zenon, <1>1, ChildAcquiredIs
<1>4. /\ irq' \in [Irqs -> IrqRecord] /\ irq'[i].assignment = a /\ irq'[i].armed = FALSE
      /\ \A q \in Irqs : q # i => irq'[q] = irq[q]
  <2>1. assignment[a].owner \in Processes \cup {None}
      BY <1>2 DEF AssignmentRecord
  <2>2. new \in IrqRecord /\ new.assignment = a /\ new.armed = FALSE
      BY <1>2, <2>1 DEF IrqRecord
  <2> HIDE DEF new
  <2> QED
      BY <1>1, <1>2, <2>2
<1>5. irq[i].assignment = None /\ irq[i].armed = FALSE /\ None \notin Assignments
    BY <1>1, <1>2 DEF NoIrq, Parameters
<1>6. \A q \in Irqs : irq'[q].assignment = None => irq'[q] = NoIrq
    BY Zenon, <1>4, <1>5 DEF IInv, ResourcesSound
<1>7. buffer' = buffer /\ submission' = submission /\ halted' = FALSE
    BY Zenon, <1>1, <1>2
<1>8. \A x \in Assignments :
          /\ nBuffers(x)' = nBuffers(x) /\ nHeld(x)' = nHeld(x) /\ nSubmissions(x)' = nSubmissions(x)
    BY Zenon, <1>7, SameBuffers, SameHeld, SameSubmissions
<1>9. /\ ResourcesSound'
      /\ \A x \in Assignments : nBars(x)' = nBars(x) /\ nMappings(x)' = nMappings(x) /\ MappingsOf(x)' = MappingsOf(x)
      /\ bar' \in [Bars -> BarRecord] /\ mmio' \in [Mappings -> Bars \cup {None}]
      /\ \A q \in Bars : \/ bar'[q].active = 0
                         \/ bar'[q].assignment = bar[q].assignment /\ bar[q].active # 0
    BY Zenon, <1>1, <1>6, BarsKept
<1>10. \A x \in Assignments : ArmedIrqs(x)' = ArmedIrqs(x) /\ nArmed(x)' = nArmed(x)
  <2>1. ASSUME NEW x \in Assignments PROVE ArmedIrqs(x)' = ArmedIrqs(x)
    <3>1. ASSUME NEW q \in Irqs PROVE q \in ArmedIrqs(x)' <=> q \in ArmedIrqs(x)
      <4>1. CASE q = i
          BY Zenon, <1>4, <1>5, <4>1 DEF ArmedIrqs
      <4>2. CASE q # i
          BY Zenon, <1>4, <4>2 DEF ArmedIrqs, LiveIrqs
      <4> QED
          BY Zenon, <4>1, <4>2
    <3>2. ArmedIrqs(x)' \subseteq Irqs /\ ArmedIrqs(x) \subseteq Irqs
        BY Zenon DEF ArmedIrqs, LiveIrqs
    <3> QED
        BY Zenon, <3>1, <3>2
  <2> QED
      BY Zenon, <2>1 DEF nArmed
<1>11. \A x \in Assignments : x # a => nIrqs(x)' = nIrqs(x)
  <2>1. ASSUME NEW x \in Assignments, x # a PROVE LiveIrqs(x)' = LiveIrqs(x)
      BY Zenon, <1>4, <1>5, <2>1 DEF LiveIrqs
  <2> QED
      BY Zenon, <2>1 DEF nIrqs
<1>12. nIrqs(a)' = nIrqs(a) + 1
  <2>1. LiveIrqs(a)' = LiveIrqs(a) \cup {i} /\ i \notin LiveIrqs(a)
      BY Zenon, <1>4, <1>5 DEF LiveIrqs
  <2> QED
      BY Zenon, <1>2, <2>1, Finite, Added DEF nIrqs
<1>13. Counted'
  <2>1. CountedAt(a) /\ Numbered(a)
      BY Zenon, AtNow
  <2>2. ChildrenAt(a)'
      BY <1>3, <1>8, <1>9, <1>12, <2>1 DEF CountedAt, ChildrenAt, Numbered
  <2>3. AccessAt(a)' /\ GateAt(a)'
      BY Zenon, <1>3, <1>8, <1>9, <1>10, <2>1 DEF CountedAt, AccessAt, GateAt
  <2>4. CountedAt(a)'
      BY Zenon, <2>2, <2>3 DEF CountedAt
  <2> QED
      BY Zenon, <1>3, <1>8, <1>9, <1>10, <1>11, <2>4, Recount
<1>14. capability' \subseteq Handles /\ assignment[a].state \notin {"NONE", "AVAILABLE"}
  <2>1. assignment[a].state \notin {"NONE", "AVAILABLE"}
      BY <1>1
  <2> QED
      BY Zenon, <1>1, <1>2, <2>1 DEF Handles
<1> QED
    BY Zenon, <1>1, <1>3, <1>4, <1>7, <1>9, <1>10, <1>13, <1>14, CpuStep


LEMMA IrqArmStep ==
    ASSUME IInv, NEW i \in Irqs, NEW a \in Assignments, a = irq[i].assignment, IrqArm(i)
    PROVE  IInv'
<1>1. /\ irq[i] # NoIrq /\ ~irq[i].armed /\ CanAcquireAccess(assignment[a], irq[i].owner)
      /\ assignment' = [assignment EXCEPT ![a] = AccessAcquired(@)]
      /\ irq' = [irq EXCEPT ![i].armed = TRUE]
      /\ UNCHANGED <<process, capability, buffer, submission, bar, mmio, recovery, flr, hardware, halted>>
    BY Zenon DEF IrqArm
<1>2. /\ Parameters /\ irq \in [Irqs -> IrqRecord] /\ capability \subseteq Handles /\ halted = FALSE
    BY Zenon, Typed
<1>3. /\ Stays(a) /\ assignment'[a].children = assignment[a].children
      /\ assignment'[a].access = assignment[a].access + 1 /\ assignment'[a].gate = assignment[a].gate
    BY Zenon, <1>1, AccessAcquiredIs
<1>4. assignment[a].state \notin {"NONE", "AVAILABLE"} /\ assignment[a].state # "QUARANTINED"
    BY <1>1 DEF CanAcquireAccess, AssignedTo
<1>5. halted' = FALSE
    BY Zenon, <1>1, <1>2
<1>6. irq' \in [Irqs -> IrqRecord] /\ irq'[i].armed = TRUE
    BY Zenon, <1>1, <1>2 DEF IrqRecord
<1>7. \A q \in Irqs : irq'[q].assignment = irq[q].assignment /\ (q # i => irq'[q] = irq[q])
    BY <1>1, <1>2 DEF IrqRecord
<1>8. \A q \in Irqs : irq'[q].assignment = None => irq'[q] = NoIrq
  <2>1. None \notin Assignments
      BY Zenon, <1>2 DEF Parameters
  <2> QED
      BY Zenon, <1>7, <2>1 DEF IInv, ResourcesSound
<1>9. buffer' = buffer /\ submission' = submission
    BY Zenon, <1>1
<1>10. \A x \in Assignments :
           /\ nBuffers(x)' = nBuffers(x) /\ nHeld(x)' = nHeld(x) /\ nSubmissions(x)' = nSubmissions(x)
           /\ nIrqs(x)' = nIrqs(x)
    BY Zenon, <1>7, <1>9, SameBuffers, SameHeld, SameSubmissions, SameIrqs
<1>11. /\ ResourcesSound'
       /\ \A x \in Assignments : nBars(x)' = nBars(x) /\ nMappings(x)' = nMappings(x) /\ MappingsOf(x)' = MappingsOf(x)
       /\ bar' \in [Bars -> BarRecord] /\ mmio' \in [Mappings -> Bars \cup {None}]
       /\ \A q \in Bars : \/ bar'[q].active = 0
                          \/ bar'[q].assignment = bar[q].assignment /\ bar[q].active # 0
    BY Zenon, <1>1, <1>8, BarsKept
<1>12. \A x \in Assignments : x # a => ArmedIrqs(x)' = ArmedIrqs(x) /\ nArmed(x)' = nArmed(x)
  <2>1. ASSUME NEW x \in Assignments, x # a PROVE ArmedIrqs(x)' = ArmedIrqs(x)
    <3>1. ASSUME NEW q \in Irqs PROVE q \in ArmedIrqs(x)' <=> q \in ArmedIrqs(x)
      <4>1. CASE q = i
          BY Zenon, <1>7, <2>1, <4>1 DEF ArmedIrqs, LiveIrqs
      <4>2. CASE q # i
          BY Zenon, <1>7, <4>2 DEF ArmedIrqs, LiveIrqs
      <4> QED
          BY Zenon, <4>1, <4>2
    <3>2. ArmedIrqs(x)' \subseteq Irqs /\ ArmedIrqs(x) \subseteq Irqs
        BY Zenon DEF ArmedIrqs, LiveIrqs
    <3> QED
        BY Zenon, <3>1, <3>2
  <2> QED
      BY Zenon, <2>1 DEF nArmed
<1>13. ArmedIrqs(a)' = ArmedIrqs(a) \cup {i} /\ i \notin ArmedIrqs(a) /\ nArmed(a)' = nArmed(a) + 1
  <2>1. \A q \in Irqs : q # i => (q \in ArmedIrqs(a)' <=> q \in ArmedIrqs(a))
      BY Zenon, <1>7 DEF ArmedIrqs, LiveIrqs
  <2>2. i \notin ArmedIrqs(a) /\ i \in ArmedIrqs(a)'
      BY Zenon, <1>1, <1>6, <1>7 DEF ArmedIrqs, LiveIrqs
  <2>3. ArmedIrqs(a)' \subseteq Irqs /\ ArmedIrqs(a) \subseteq Irqs
      BY Zenon DEF ArmedIrqs, LiveIrqs
  <2>4. ArmedIrqs(a)' = ArmedIrqs(a) \cup {i}
      BY Zenon, <2>1, <2>2, <2>3
  <2> QED
      BY Zenon, <1>2, <2>2, <2>4, Finite, Added DEF nArmed
<1>14. Counted'
  <2>1. CountedAt(a) /\ Numbered(a)
      BY Zenon, AtNow
  <2>2. AccessAt(a)'
      BY SMTT(20), <1>3, <1>10, <1>11, <1>13, <2>1 DEF CountedAt, AccessAt, Numbered
  <2>3. ChildrenAt(a)' /\ GateAt(a)'
      BY Zenon, <1>3, <1>10, <1>11, <2>1 DEF CountedAt, ChildrenAt, GateAt
  <2>4. CountedAt(a)'
      BY Zenon, <2>2, <2>3 DEF CountedAt
  <2> QED
      BY ZenonT(30), <1>3, <1>10, <1>11, <1>12, <2>4, Recount
<1>15. \A x \in Assignments : assignment[x].state = "QUARANTINED" =>
           MappingsOf(x)' \subseteq MappingsOf(x) /\ ArmedIrqs(x)' \subseteq ArmedIrqs(x)
    BY Zenon, <1>4, <1>11, <1>12, <1>13
<1> QED
    BY Zenon, <1>1, <1>2, <1>3, <1>4, <1>5, <1>6, <1>11, <1>14, <1>15, CpuStep

LEMMA IrqForceDisarmStep ==
    ASSUME IInv, NEW i \in Irqs, NEW a \in Assignments, a = irq[i].assignment, IrqForceDisarm(i)
    PROVE  IInv'
<1>1. /\ irq[i].armed /\ Matches(irq[i])
      /\ Must(CanReleaseAccess(assignment[a], irq[i].owner))
      /\ assignment' = [assignment EXCEPT ![a] = AccessReleased(@)]
      /\ irq' = [irq EXCEPT ![i].armed = FALSE]
      /\ UNCHANGED <<process, capability, buffer, submission, bar, mmio, recovery, flr, hardware>>
    BY Zenon DEF IrqForceDisarm
<1>2. /\ Parameters /\ irq \in [Irqs -> IrqRecord] /\ capability \subseteq Handles
    BY Zenon, Typed
<1>4. i \in ArmedIrqs(a) /\ assignment[a].access >= 1 /\ assignment[a].state \notin {"NONE", "AVAILABLE"}
  <2>1. i \in ArmedIrqs(a)
      BY Zenon, <1>1 DEF ArmedIrqs, LiveIrqs
  <2> QED
      BY Zenon, <2>1, Pinned
<1>3. /\ Stays(a) /\ assignment'[a].children = assignment[a].children
      /\ assignment'[a].access = assignment[a].access - 1 /\ assignment'[a].gate = assignment[a].gate
    BY Zenon, <1>1, <1>4, AccessReleasedIs
<1>5. halted' = FALSE
  <2>1. ~(0 >= 1)
      OBVIOUS
  <2>2. assignment[a].owner = irq[i].owner
      BY Zenon, <1>1 DEF Matches
  <2>3. CanReleaseAccess(assignment[a], irq[i].owner)
      BY Zenon, <1>4, <2>1, <2>2 DEF CanReleaseAccess, OwnedBy
  <2> QED
      BY Zenon, <1>1, <2>3 DEF Must
<1>6. irq' \in [Irqs -> IrqRecord] /\ irq'[i].armed = FALSE
    BY Zenon, <1>1, <1>2 DEF IrqRecord
<1>7. \A q \in Irqs : irq'[q].assignment = irq[q].assignment /\ (q # i => irq'[q] = irq[q])
    BY <1>1, <1>2 DEF IrqRecord
<1>8. \A q \in Irqs : irq'[q].assignment = None => irq'[q] = NoIrq
  <2>1. None \notin Assignments
      BY Zenon, <1>2 DEF Parameters
  <2> QED
      BY Zenon, <1>7, <2>1 DEF IInv, ResourcesSound
<1>9. buffer' = buffer /\ submission' = submission
    BY Zenon, <1>1
<1>10. \A x \in Assignments :
           /\ nBuffers(x)' = nBuffers(x) /\ nHeld(x)' = nHeld(x) /\ nSubmissions(x)' = nSubmissions(x)
           /\ nIrqs(x)' = nIrqs(x)
    BY Zenon, <1>7, <1>9, SameBuffers, SameHeld, SameSubmissions, SameIrqs
<1>11. /\ ResourcesSound'
       /\ \A x \in Assignments : nBars(x)' = nBars(x) /\ nMappings(x)' = nMappings(x) /\ MappingsOf(x)' = MappingsOf(x)
       /\ bar' \in [Bars -> BarRecord] /\ mmio' \in [Mappings -> Bars \cup {None}]
       /\ \A q \in Bars : \/ bar'[q].active = 0
                          \/ bar'[q].assignment = bar[q].assignment /\ bar[q].active # 0
    BY Zenon, <1>1, <1>8, BarsKept
<1>12. \A x \in Assignments : x # a => ArmedIrqs(x)' = ArmedIrqs(x) /\ nArmed(x)' = nArmed(x)
  <2>1. ASSUME NEW x \in Assignments, x # a PROVE ArmedIrqs(x)' = ArmedIrqs(x)
    <3>1. ASSUME NEW q \in Irqs PROVE q \in ArmedIrqs(x)' <=> q \in ArmedIrqs(x)
      <4>1. CASE q = i
          BY Zenon, <1>7, <2>1, <4>1 DEF ArmedIrqs, LiveIrqs
      <4>2. CASE q # i
          BY Zenon, <1>7, <4>2 DEF ArmedIrqs, LiveIrqs
      <4> QED
          BY Zenon, <4>1, <4>2
    <3>2. ArmedIrqs(x)' \subseteq Irqs /\ ArmedIrqs(x) \subseteq Irqs
        BY Zenon DEF ArmedIrqs, LiveIrqs
    <3> QED
        BY Zenon, <3>1, <3>2
  <2> QED
      BY Zenon, <2>1 DEF nArmed
<1>13. ArmedIrqs(a)' = ArmedIrqs(a) \ {i} /\ i \in ArmedIrqs(a) /\ nArmed(a)' = nArmed(a) - 1
  <2>1. \A q \in Irqs : q # i => (q \in ArmedIrqs(a)' <=> q \in ArmedIrqs(a))
      BY Zenon, <1>7 DEF ArmedIrqs, LiveIrqs
  <2>2. i \in ArmedIrqs(a) /\ i \notin ArmedIrqs(a)'
      BY Zenon, <1>1, <1>6, <1>7 DEF ArmedIrqs, LiveIrqs
  <2>3. ArmedIrqs(a)' \subseteq Irqs /\ ArmedIrqs(a) \subseteq Irqs
      BY Zenon DEF ArmedIrqs, LiveIrqs
  <2>4. ArmedIrqs(a)' = ArmedIrqs(a) \ {i}
      BY Zenon, <2>1, <2>2, <2>3
  <2> QED
      BY Zenon, <1>2, <2>2, <2>4, Finite, Removed DEF nArmed
<1>14. Counted'
  <2>1. CountedAt(a) /\ Numbered(a)
      BY Zenon, AtNow
  <2>2. AccessAt(a)'
      BY <1>3, <1>10, <1>11, <1>13, <2>1 DEF CountedAt, AccessAt, Numbered
  <2>3. ChildrenAt(a)' /\ GateAt(a)'
      BY Zenon, <1>3, <1>10, <1>11, <2>1 DEF CountedAt, ChildrenAt, GateAt
  <2>4. CountedAt(a)'
      BY Zenon, <2>2, <2>3 DEF CountedAt
  <2> QED
      BY ZenonT(30), <1>3, <1>10, <1>11, <1>12, <2>4, Recount
<1>15. \A x \in Assignments : assignment[x].state = "QUARANTINED" =>
           MappingsOf(x)' \subseteq MappingsOf(x) /\ ArmedIrqs(x)' \subseteq ArmedIrqs(x)
    BY Zenon, <1>4, <1>11, <1>12, <1>13
<1> QED
    BY Zenon, <1>1, <1>2, <1>3, <1>4, <1>5, <1>6, <1>11, <1>14, <1>15, CpuStep

LEMMA IrqDestroyStep ==
    ASSUME IInv, NEW i \in Irqs, NEW a \in Assignments, a = irq[i].assignment, IrqDestroy(i)
    PROVE  IInv'
<1>1. /\ irq[i] # NoIrq /\ Matches(irq[i]) /\ ~irq[i].armed
      /\ Must(CanReleaseChild(assignment[a], irq[i].owner))
      /\ assignment' = [assignment EXCEPT ![a] = ChildReleased(@)]
      /\ irq' = [irq EXCEPT ![i] = NoIrq]
      /\ UNCHANGED <<process, capability, buffer, submission, bar, mmio, recovery, flr, hardware>>
    BY Zenon DEF IrqDestroy
<1>2. /\ Parameters /\ irq \in [Irqs -> IrqRecord] /\ capability \subseteq Handles
    BY Zenon, Typed
<1>3. /\ i \in LiveIrqs(a) /\ assignment[a].children >= 1
      /\ assignment[a].state \notin {"NONE", "AVAILABLE"}
    BY Zenon, <1>1, IrqIn
<1>4. /\ Stays(a) /\ assignment'[a].children = assignment[a].children - 1
      /\ assignment'[a].access = assignment[a].access /\ assignment'[a].gate = assignment[a].gate
    BY Zenon, <1>1, <1>3, ChildReleasedIs
<1>5. halted' = FALSE
  <2>1. ~(0 >= 1)
      OBVIOUS
  <2>2. assignment[a].owner = irq[i].owner
      BY Zenon, <1>1 DEF Matches
  <2>3. CanReleaseChild(assignment[a], irq[i].owner)
      BY Zenon, <1>3, <2>1, <2>2 DEF CanReleaseChild, OwnedBy
  <2> QED
      BY Zenon, <1>1, <2>3 DEF Must
<1>6. /\ irq' \in [Irqs -> IrqRecord] /\ irq'[i] = NoIrq /\ NoIrq.assignment = None /\ NoIrq.armed = FALSE
      /\ \A q \in Irqs : q # i => irq'[q] = irq[q]
  <2>1. NoIrq \in IrqRecord /\ NoIrq.assignment = None /\ NoIrq.armed = FALSE
      BY DEF IrqRecord, NoIrq
  <2> QED
      BY <1>1, <1>2, <2>1
<1>7. None \notin Assignments
    BY Zenon, <1>2 DEF Parameters
<1>8. \A q \in Irqs : irq'[q].assignment = None => irq'[q] = NoIrq
    BY Zenon, <1>6 DEF IInv, ResourcesSound
<1>9. buffer' = buffer /\ submission' = submission
    BY Zenon, <1>1
<1>10. \A x \in Assignments :
           nBuffers(x)' = nBuffers(x) /\ nHeld(x)' = nHeld(x) /\ nSubmissions(x)' = nSubmissions(x)
    BY Zenon, <1>9, SameBuffers, SameHeld, SameSubmissions
<1>11. /\ ResourcesSound'
       /\ \A x \in Assignments : nBars(x)' = nBars(x) /\ nMappings(x)' = nMappings(x) /\ MappingsOf(x)' = MappingsOf(x)
       /\ bar' \in [Bars -> BarRecord] /\ mmio' \in [Mappings -> Bars \cup {None}]
       /\ \A q \in Bars : \/ bar'[q].active = 0
                          \/ bar'[q].assignment = bar[q].assignment /\ bar[q].active # 0
    BY Zenon, <1>1, <1>8, BarsKept
<1>12. \A x \in Assignments : ArmedIrqs(x)' = ArmedIrqs(x) /\ nArmed(x)' = nArmed(x)
  <2>1. ASSUME NEW x \in Assignments PROVE ArmedIrqs(x)' = ArmedIrqs(x)
    <3>1. ASSUME NEW q \in Irqs PROVE q \in ArmedIrqs(x)' <=> q \in ArmedIrqs(x)
      <4>1. CASE q = i
          BY Zenon, <1>1, <1>6, <4>1 DEF ArmedIrqs
      <4>2. CASE q # i
          BY Zenon, <1>6, <4>2 DEF ArmedIrqs, LiveIrqs
      <4> QED
          BY Zenon, <4>1, <4>2
    <3>2. ArmedIrqs(x)' \subseteq Irqs /\ ArmedIrqs(x) \subseteq Irqs
        BY Zenon DEF ArmedIrqs, LiveIrqs
    <3> QED
        BY Zenon, <3>1, <3>2
  <2> QED
      BY Zenon, <2>1 DEF nArmed
<1>13. \A x \in Assignments : x # a => nIrqs(x)' = nIrqs(x)
  <2>1. ASSUME NEW x \in Assignments, x # a PROVE LiveIrqs(x)' = LiveIrqs(x)
      BY Zenon, <1>6, <1>7, <2>1 DEF LiveIrqs
  <2> QED
      BY Zenon, <2>1 DEF nIrqs
<1>14. nIrqs(a)' = nIrqs(a) - 1
  <2>1. LiveIrqs(a)' = LiveIrqs(a) \ {i}
      BY Zenon, <1>6, <1>7 DEF LiveIrqs
  <2> QED
      BY Zenon, <1>2, <1>3, <2>1, Finite, Removed DEF nIrqs
<1>15. Counted'
  <2>1. CountedAt(a) /\ Numbered(a)
      BY Zenon, AtNow
  <2>2. ChildrenAt(a)'
      BY <1>4, <1>10, <1>11, <1>14, <2>1 DEF CountedAt, ChildrenAt, Numbered
  <2>3. AccessAt(a)' /\ GateAt(a)'
      BY Zenon, <1>4, <1>10, <1>11, <1>12, <2>1 DEF CountedAt, AccessAt, GateAt
  <2>4. CountedAt(a)'
      BY Zenon, <2>2, <2>3 DEF CountedAt
  <2> QED
      BY ZenonT(30), <1>4, <1>10, <1>11, <1>12, <1>13, <2>4, Recount
<1> QED
    BY Zenon, <1>1, <1>2, <1>3, <1>4, <1>5, <1>6, <1>11, <1>12, <1>15, CpuStep

LEMMA CpuAccessStep == ASSUME IInv, CpuAccess PROVE IInv'
<1>1. ASSUME NEW r \in Bars, BarDestroy(r) PROVE IInv'
  <2>1. bar[r].assignment \in Assignments
      BY Zenon, <1>1, BarIn DEF BarDestroy
  <2> QED
      BY Zenon, <1>1, <2>1, BarDestroyStep
<1>2. ASSUME NEW r \in Bars, NEW a \in Assignments, BarCreate(r, a) PROVE IInv'
    BY Zenon, <1>2, BarCreateStep
<1>3. ASSUME NEW r \in Bars, NEW m \in Mappings, MmioMap(m, r) PROVE IInv'
  <2>1. bar[r].assignment \in Assignments
      BY Zenon, <1>3, BarIn DEF MmioMap
  <2> QED
      BY Zenon, <1>3, <2>1, MmioMapStep
<1>4. ASSUME NEW m \in Mappings, MmioUnmap(m) PROVE IInv'
  <2>1. mmio[m] \in Bars /\ bar[mmio[m]].assignment \in Assignments
      BY Zenon, <1>4, MappingIn DEF MmioUnmap
  <2> QED
      BY Zenon, <1>4, <2>1, MmioUnmapStep
<1>5. ASSUME NEW i \in Irqs, irq[i] # NoIrq, IrqArm(i) \/ IrqForceDisarm(i) \/ IrqDestroy(i) PROVE IInv'
  <2>1. irq[i].assignment \in Assignments
      BY Zenon, <1>5, IrqIn
  <2> QED
      BY Zenon, <1>5, <2>1, IrqArmStep, IrqForceDisarmStep, IrqDestroyStep
<1>6. ASSUME NEW i \in Irqs, IrqArm(i) \/ IrqForceDisarm(i) \/ IrqDestroy(i) PROVE irq[i] # NoIrq
  <2>1. NoIrq.armed = FALSE
      BY DEF NoIrq
  <2> QED
      BY Zenon, <1>6, <2>1 DEF IrqArm, IrqForceDisarm, IrqDestroy
<1>7. ASSUME NEW i \in Irqs, NEW a \in Assignments, IrqCreate(i, a) PROVE IInv'
    BY Zenon, <1>7, IrqCreateStep
<1> QED
    BY Zenon, <1>1, <1>2, <1>3, <1>4, <1>5, <1>6, <1>7 DEF CpuAccess


-----------------------------------------------------------------------------
(* DMA buffers and submissions *)

LEMMA SubmissionIn ==
    ASSUME IInv, NEW s \in Submissions, submission[s].buffer # None
    PROVE  /\ submission[s].buffer \in Buffers /\ buffer[submission[s].buffer].assignment \in Assignments
           /\ buffer[submission[s].buffer].held
           /\ s \in SubmissionsOf(buffer[submission[s].buffer].assignment)
           /\ assignment[buffer[submission[s].buffer].assignment].gate
<1>1. submission \in [Submissions -> SubmissionRecord] /\ buffer \in [Buffers -> BufferRecord]
    BY Zenon, Typed
<1>2. submission[s].buffer \in Buffers
    BY <1>1 DEF SubmissionRecord
<1>3. buffer[submission[s].buffer].assignment # None /\ buffer[submission[s].buffer].held
    BY Zenon DEF IInv, DmaSound
<1>4. \A b \in Buffers : buffer[b].assignment # None => buffer[b].assignment \in Assignments
    BY <1>1 DEF BufferRecord
<1>5. s \in SubmissionsOf(buffer[submission[s].buffer].assignment)
    BY Zenon DEF SubmissionsOf
<1> QED
    BY Zenon, <1>2, <1>3, <1>4, <1>5, Pinned

LEMMA ActiveIn ==
    ASSUME IInv, NEW s \in Submissions, submission[s].state = "ACTIVE"
    PROVE  submission[s].buffer # None
<1>1. "ACTIVE" # "NONE"
    OBVIOUS
<1> QED
    BY Zenon, <1>1 DEF IInv, DmaSound

LEMMA BufferIn ==
    ASSUME IInv, NEW b \in Buffers, buffer[b].assignment # None
    PROVE  /\ buffer[b].assignment \in Assignments /\ b \in LiveBuffers(buffer[b].assignment)
           /\ assignment[buffer[b].assignment].children >= 1
           /\ assignment[buffer[b].assignment].state \notin {"NONE", "AVAILABLE"}
<1>1. buffer \in [Buffers -> BufferRecord]
    BY Zenon, Typed
<1>2. buffer[b].assignment \in Assignments
    BY <1>1 DEF BufferRecord
<1>3. b \in LiveBuffers(buffer[b].assignment)
    BY Zenon DEF LiveBuffers
<1> QED
    BY Zenon, <1>2, <1>3, Pinned

LEMMA Untouched ==
    ASSUME IInv, NEW b \in Buffers, ~buffer[b].held
    PROVE  (\A s \in Submissions : submission[s].buffer # b) /\ \A d \in dma : d[2] # b
<1>1. None \notin Buffers
    BY Zenon, Typed DEF Parameters
<1> QED
    BY Zenon, <1>1, SubmissionIn, DmaIn

(* The processor keeps what it has; buffers and submissions move, perhaps the recovery. *)
LEMMA QuiescedIn ==
    ASSUME IInv, NEW x \in Assignments, recovery[x].state = "QUIESCED"
    PROVE  QuietAt(x) /\ assignment[x].state = "QUARANTINED" /\ recovery[x] # NoRecovery
<1>1. QuietAt(x)
    BY Zenon, QuietIs DEF IInv
<1>2. recovery[x] # NoRecovery
    BY DEF NoRecovery
<1> QED
    BY Zenon, <1>1, <1>2 DEF IInv, RecoverySound

LEMMA DmaMoves ==
    ASSUME IInv, NEW a \in Assignments, Stays(a), assignment[a].state \notin {"NONE", "AVAILABLE"},
           UNCHANGED <<process, bar, mmio, irq, command, dma>>, halted' = FALSE,
           capability' \subseteq Handles, buffer' \in [Buffers -> BufferRecord],
           submission' \in [Submissions -> SubmissionRecord],
           recovery' \in [Assignments -> RecoveryRecord], flr' \in [Callers -> CallRecord],
           Counted', DmaSound', FramesStayPut', SubmissionExcludesCpu', RecoverySound', FlrSound',
           \A x \in Assignments : recovery'[x].state = "QUIESCED" => recovery[x].state = "QUIESCED",
           \A x \in Assignments : recovery[x].state = "QUIESCED" =>
               \A b \in LiveBuffers(x)' :
                   /\ b \in LiveBuffers(x) /\ buffer'[b].mapped \in {buffer[b].mapped, "NO"}
                   /\ buffer'[b].state \in {buffer[b].state, "READY"}
    PROVE  IInv'
<1>1. /\ bar' = bar /\ mmio' = mmio /\ irq' = irq /\ process' = process
      /\ command' = command /\ dma' = dma /\ halted' = halted
    BY Zenon, Typed
<1>2. TypeOK'
  <2>1. TypeOK
      BY Zenon DEF IInv
  <2> QED
      BY Zenon, <1>1, <2>1, Types, TypesAfter DEF Stays
<1>3. FreeUnpinned'
    BY Zenon, FreeKept
<1>4. ResourcesSound'
  <2>1. ResourcesSound
      BY Zenon DEF IInv
  <2>2. \A r \in Bars : Through(r)' = Through(r)
      BY Zenon, <1>1 DEF Through
  <2> QED
      BY Zenon, <1>1, <2>1, <2>2 DEF ResourcesSound
<1>5. QuiescedIsQuiet'
  <2>1. ASSUME NEW x \in Assignments, recovery'[x].state = "QUIESCED" PROVE QuietAt(x)'
    <3>1. recovery[x].state = "QUIESCED"
        BY Zenon, <2>1
    <3>2. QuietAt(x)
        BY Zenon, <3>1, QuietIs DEF IInv
    <3>5. MappingsOf(x)' = {} /\ ArmedIrqs(x)' = {}
        BY Zenon, <1>1, <3>2, SameMappings, SameArmed DEF QuietAt
    <3>6. "READY" # "DEVICE_ACTIVE"
        OBVIOUS
    <3>7. ASSUME NEW b \in LiveBuffers(x)' PROVE buffer'[b].mapped = "NO" /\ buffer'[b].state # "DEVICE_ACTIVE"
        BY Zenon, <3>1, <3>2, <3>6 DEF QuietAt
    <3> QED
        BY Zenon, <1>1, <3>2, <3>5, <3>7 DEF QuietAt
  <2> QED
      BY Zenon, <2>1, QuietAfter
<1> QED
    BY Zenon, <1>1, <1>2, <1>3, <1>4, <1>5, Afterwards

LEMMA DmaStep ==
    ASSUME IInv, NEW a \in Assignments, Stays(a), assignment[a].state \notin {"NONE", "AVAILABLE"},
           UNCHANGED <<process, bar, mmio, irq, recovery, flr, hardware>>, halted' = FALSE,
           capability' \subseteq Handles, buffer' \in [Buffers -> BufferRecord],
           submission' \in [Submissions -> SubmissionRecord],
           Counted', DmaSound', FramesStayPut', SubmissionExcludesCpu',
           \A x \in Assignments : assignment[x].state = "QUARANTINED" =>
               \A b \in LiveBuffers(x)' :
                   /\ b \in LiveBuffers(x) /\ buffer'[b].mapped \in {buffer[b].mapped, "NO"}
                   /\ buffer'[b].state \in {buffer[b].state, "READY"}
    PROVE  IInv'
<1>1. UNCHANGED <<recovery, flr, command, dma>>
    BY Zenon DEF hardware
<1>2. RecoverySound' /\ FlrSound'
    BY Zenon, <1>1, StaysKept
<1>3. recovery' \in [Assignments -> RecoveryRecord] /\ flr' \in [Callers -> CallRecord]
    BY Zenon, Typed
<1> QED
    BY Zenon, <1>1, <1>2, <1>3, QuiescedIn, DmaMoves

(* Nobody looks at b: what the others are is not affected by it. *)
LEMMA OtherBuffers ==
    ASSUME IInv, NEW b \in Buffers, UNCHANGED <<bar, submission, dma>>,
           \A q \in Buffers : q # b => buffer'[q] = buffer[q],
           \A s \in Submissions : submission[s].buffer # b, \A d \in dma : d[2] # b,
           buffer'[b].held <=> buffer'[b].state \in {"DEVICE_ACTIVE", "QUARANTINED"}
    PROVE  DmaSound' /\ FramesStayPut' /\ SubmissionExcludesCpu'
<1>1. submission' = submission /\ dma' = dma /\ bar' = bar
    OBVIOUS
<1>2. \A s \in Submissions : submission[s].buffer # None =>
          submission[s].buffer \in Buffers /\ buffer'[submission[s].buffer] = buffer[submission[s].buffer]
    BY Zenon, SubmissionIn
<1>3. DmaSound'
  <2>1. DmaSound
      BY Zenon DEF IInv
  <2>2. ASSUME NEW q \in Buffers
        PROVE  buffer'[q].held <=> buffer'[q].state \in {"DEVICE_ACTIVE", "QUARANTINED"}
    <3>1. CASE q = b
        BY Zenon, <3>1
    <3>2. CASE q # b
      <4>1. buffer'[q] = buffer[q]
          BY Zenon, <3>2
      <4> QED
          BY Zenon, <2>1, <4>1 DEF DmaSound
    <3> QED
        BY Zenon, <3>1, <3>2
  <2>3. ASSUME NEW s \in Submissions, submission[s].buffer # None
        PROVE  buffer'[submission[s].buffer].assignment # None /\ buffer'[submission[s].buffer].held
    <3>1. buffer'[submission[s].buffer] = buffer[submission[s].buffer]
        BY Zenon, <1>2, <2>3
    <3> QED
        BY Zenon, <2>1, <2>3, <3>1 DEF DmaSound
  <2> QED
      BY Zenon, <1>1, <2>1, <2>2, <2>3 DEF DmaSound
<1>4. FramesStayPut'
    BY Zenon, <1>1, DmaIn DEF IInv, FramesStayPut
<1>5. SubmissionExcludesCpu'
  <2>1. ASSUME NEW s \in Submissions, submission[s].state = "ACTIVE"
        PROVE  /\ buffer'[submission[s].buffer].mapped = "NO"
               /\ \A r \in Bars : bar[r].assignment = buffer'[submission[s].buffer].assignment => bar[r].active = 0
    <3>1. buffer'[submission[s].buffer] = buffer[submission[s].buffer]
        BY Zenon, <1>2, <2>1, ActiveIn
    <3> QED
        BY ZenonT(30), <2>1, <3>1 DEF IInv, SubmissionExcludesCpu, BarsIdle, LiveBars
  <2> QED
      BY Zenon, <1>1, <2>1 DEF SubmissionExcludesCpu, BarsIdle, LiveBars
<1> QED
    BY Zenon, <1>3, <1>4, <1>5

(* What a buffer's step leaves alone. *)
LEMMA CpuKept ==
    ASSUME UNCHANGED <<bar, mmio, irq>>, NEW x
    PROVE  /\ nBars(x)' = nBars(x) /\ nIrqs(x)' = nIrqs(x) /\ nMappings(x)' = nMappings(x)
           /\ nArmed(x)' = nArmed(x)
<1>1. bar' = bar /\ mmio' = mmio /\ irq' = irq
    OBVIOUS
<1> QED
    BY Zenon, <1>1, SameBars, SameIrqs, SameMappings, SameArmed


LEMMA BufferCreateStep ==
    ASSUME IInv, NEW b \in Buffers, NEW a \in Assignments, BufferCreate(b, a)
    PROVE  IInv'
<1> DEFINE new == [NoBuffer EXCEPT !.assignment = a, !.owner = assignment[a].owner, !.state = "READY"]
<1>1. /\ buffer[b] = NoBuffer /\ CanAcquireChild(assignment[a]) /\ assignment[a].state = "ASSIGNED"
      /\ assignment' = [assignment EXCEPT ![a] = ChildAcquired(@)]
      /\ buffer' = [buffer EXCEPT ![b] = new] /\ capability' = capability \cup {b}
      /\ UNCHANGED <<process, submission, bar, mmio, irq, recovery, flr, hardware, halted>>
    BY Zenon DEF BufferCreate, Authorized
<1>2. /\ Parameters /\ assignment \in [Assignments -> AssignmentRecord] /\ buffer \in [Buffers -> BufferRecord]
      /\ submission \in [Submissions -> SubmissionRecord] /\ capability \subseteq Handles /\ halted = FALSE
    BY Zenon, Typed
<1>3. /\ Stays(a) /\ assignment'[a].children = assignment[a].children + 1
      /\ assignment'[a].access = assignment[a].access /\ assignment'[a].gate = assignment[a].gate
    BY Zenon, <1>1, ChildAcquiredIs
<1>4. /\ buffer' \in [Buffers -> BufferRecord] /\ buffer'[b].assignment = a /\ buffer'[b].held = FALSE
      /\ buffer'[b].state \notin {"DEVICE_ACTIVE", "QUARANTINED"}
      /\ \A q \in Buffers : q # b => buffer'[q] = buffer[q]
  <2>1. assignment[a].owner \in Processes \cup {None}
      BY <1>2 DEF AssignmentRecord
  <2>2. NoBuffer \in BufferRecord /\ NoBuffer.held = FALSE
      BY DEF NoBuffer, BufferRecord
  <2>3. new \in BufferRecord /\ new.assignment = a /\ new.held = FALSE /\ new.state = "READY"
      BY Zenon, <2>1, <2>2 DEF BufferRecord
  <2> HIDE DEF new
  <2> QED
      BY <1>1, <1>2, <2>3
<1>5. buffer[b].assignment = None /\ buffer[b].held = FALSE /\ None \notin Assignments
    BY <1>1, <1>2 DEF NoBuffer, Parameters
<1>6. (\A s \in Submissions : submission[s].buffer # b) /\ \A d \in dma : d[2] # b
    BY Zenon, <1>5, Untouched
<1>7. DmaSound' /\ FramesStayPut' /\ SubmissionExcludesCpu'
  <2>1. UNCHANGED <<bar, submission, dma>>
      BY Zenon, <1>1 DEF hardware
  <2> QED
      BY Zenon, <1>4, <1>6, <2>1, OtherBuffers
<1>8. \A x \in Assignments : HeldBuffers(x)' = HeldBuffers(x) /\ nHeld(x)' = nHeld(x)
  <2>1. ASSUME NEW x \in Assignments PROVE HeldBuffers(x)' = HeldBuffers(x)
    <3>1. ASSUME NEW q \in Buffers PROVE q \in HeldBuffers(x)' <=> q \in HeldBuffers(x)
      <4>1. CASE q = b
          BY Zenon, <1>4, <1>5, <4>1 DEF HeldBuffers
      <4>2. CASE q # b
          BY Zenon, <1>4, <4>2 DEF HeldBuffers, LiveBuffers
      <4> QED
          BY Zenon, <4>1, <4>2
    <3>2. HeldBuffers(x)' \subseteq Buffers /\ HeldBuffers(x) \subseteq Buffers
        BY Zenon DEF HeldBuffers, LiveBuffers
    <3> QED
        BY Zenon, <3>1, <3>2
  <2> QED
      BY Zenon, <2>1 DEF nHeld
<1>9. \A x \in Assignments : x # a => LiveBuffers(x)' = LiveBuffers(x) /\ nBuffers(x)' = nBuffers(x)
  <2>1. ASSUME NEW x \in Assignments, x # a PROVE LiveBuffers(x)' = LiveBuffers(x)
      BY Zenon, <1>4, <1>5, <2>1 DEF LiveBuffers
  <2> QED
      BY Zenon, <2>1 DEF nBuffers
<1>10. nBuffers(a)' = nBuffers(a) + 1
  <2>1. LiveBuffers(a)' = LiveBuffers(a) \cup {b} /\ b \notin LiveBuffers(a)
      BY Zenon, <1>4, <1>5 DEF LiveBuffers
  <2> QED
      BY Zenon, <1>2, <2>1, Finite, Added DEF nBuffers
<1>11. \A x \in Assignments : nSubmissions(x)' = nSubmissions(x)
  <2>1. \A s \in Submissions :
            /\ submission'[s].buffer = submission[s].buffer
            /\ submission[s].buffer # None => buffer'[submission[s].buffer].assignment =
                                              buffer[submission[s].buffer].assignment
      BY Zenon, <1>1, <1>4, <1>6, SubmissionIn
  <2> QED
      BY Zenon, <2>1, SameSubmissions
<1>12. \A x \in Assignments : /\ nBars(x)' = nBars(x) /\ nIrqs(x)' = nIrqs(x)
                              /\ nMappings(x)' = nMappings(x) /\ nArmed(x)' = nArmed(x)
    BY Zenon, <1>1, CpuKept
<1>13. Counted'
  <2>1. CountedAt(a) /\ Numbered(a)
      BY Zenon, AtNow
  <2>2. ChildrenAt(a)'
      BY <1>3, <1>10, <1>12, <2>1 DEF CountedAt, ChildrenAt, Numbered
  <2>3. AccessAt(a)' /\ GateAt(a)'
      BY Zenon, <1>3, <1>8, <1>11, <1>12, <2>1 DEF CountedAt, AccessAt, GateAt
  <2>4. CountedAt(a)'
      BY Zenon, <2>2, <2>3 DEF CountedAt
  <2> QED
      BY Zenon, <1>3, <1>8, <1>9, <1>11, <1>12, <2>4, Recount
<1>14. assignment[a].state \notin {"NONE", "AVAILABLE"} /\ assignment[a].state # "QUARANTINED"
    BY <1>1
<1>15. ASSUME NEW x \in Assignments, assignment[x].state = "QUARANTINED", NEW q \in LiveBuffers(x)'
       PROVE  /\ q \in LiveBuffers(x) /\ buffer'[q].mapped \in {buffer[q].mapped, "NO"}
              /\ buffer'[q].state \in {buffer[q].state, "READY"}
  <2>1. x # a
      BY Zenon, <1>14, <1>15
  <2>2. q # b /\ q \in Buffers /\ q \in LiveBuffers(x)
      BY Zenon, <1>4, <1>9, <1>15, <2>1 DEF LiveBuffers
  <2>3. buffer'[q] = buffer[q]
      BY Zenon, <1>4, <2>2
  <2> QED
      BY Zenon, <2>2, <2>3
<1>16. capability' \subseteq Handles /\ halted' = FALSE /\ submission' \in [Submissions -> SubmissionRecord]
    BY Zenon, <1>1, <1>2 DEF Handles
<1> QED
    BY Zenon, <1>1, <1>3, <1>4, <1>7, <1>13, <1>14, <1>15, <1>16, DmaStep

(* Neither the record nor who holds what changes. *)
LEMMA MappedStep ==
    ASSUME IInv, NEW b \in Buffers, NEW left \in {"NO", "PARTLY", "YES"}, buffer[b].assignment # None,
           buffer' = [buffer EXCEPT ![b].mapped = left],
           UNCHANGED <<assignment, process, capability, submission, bar, mmio, irq, recovery, flr, hardware, halted>>,
           \A s \in Submissions : submission[s].state = "ACTIVE" => submission[s].buffer # b,
           recovery[buffer[b].assignment].state # "QUIESCED"
    PROVE  IInv'
<1>1. /\ assignment \in [Assignments -> AssignmentRecord] /\ buffer \in [Buffers -> BufferRecord]
      /\ submission \in [Submissions -> SubmissionRecord] /\ capability \subseteq Handles /\ halted = FALSE
      /\ recovery \in [Assignments -> RecoveryRecord] /\ flr \in [Callers -> CallRecord]
    BY Zenon, Typed
<1>2. /\ buffer' \in [Buffers -> BufferRecord] /\ buffer'[b].mapped = left
      /\ \A q \in Buffers : /\ buffer'[q].assignment = buffer[q].assignment /\ buffer'[q].held = buffer[q].held
                            /\ buffer'[q].state = buffer[q].state /\ (q # b => buffer'[q] = buffer[q])
    BY <1>1 DEF BufferRecord
<1>3. /\ assignment' = assignment /\ submission' = submission /\ bar' = bar /\ mmio' = mmio /\ irq' = irq
      /\ recovery' = recovery /\ flr' = flr /\ command' = command /\ dma' = dma
    BY Zenon DEF hardware
<1>4. PICK a \in Assignments : a = buffer[b].assignment /\ assignment[a].state \notin {"NONE", "AVAILABLE"}
    BY Zenon, BufferIn
<1>5. Stays(a)
    BY Zenon, <1>1, <1>3 DEF Stays
<1>6. \A s \in Submissions : submission[s].buffer # None => submission[s].buffer \in Buffers
    BY Zenon, SubmissionIn
<1>7. \A x \in Assignments :
          /\ nBuffers(x)' = nBuffers(x) /\ nBars(x)' = nBars(x) /\ nIrqs(x)' = nIrqs(x)
          /\ nMappings(x)' = nMappings(x) /\ nArmed(x)' = nArmed(x) /\ nHeld(x)' = nHeld(x)
          /\ nSubmissions(x)' = nSubmissions(x) /\ LiveBuffers(x)' = LiveBuffers(x)
    BY Zenon, <1>2, <1>3, <1>6, SameBuffers, SameHeld, SameSubmissions, CpuKept
<1>8. Counted'
  <2>1. ASSUME NEW x \in Assignments PROVE CountedAt(x)'
    <3>1. CountedAt(x)
        BY Zenon, AtNow
    <3> QED
        BY Zenon, <1>3, <1>7, <3>1 DEF CountedAt, ChildrenAt, AccessAt, GateAt
  <2> QED
      BY Zenon, <2>1, CountedAfter
<1>9. DmaSound'
  <2>1. DmaSound
      BY Zenon DEF IInv
  <2>2. \A q \in Buffers : buffer'[q].held <=> buffer'[q].state \in {"DEVICE_ACTIVE", "QUARANTINED"}
    <3>1. \A q \in Buffers : buffer[q].held <=> buffer[q].state \in {"DEVICE_ACTIVE", "QUARANTINED"}
        BY Zenon, <2>1 DEF DmaSound
    <3> QED
        BY Zenon, <1>2, <3>1
  <2>3. ASSUME NEW s \in Submissions, submission[s].buffer # None
        PROVE  buffer'[submission[s].buffer].assignment # None /\ buffer'[submission[s].buffer].held
    <3>1. buffer[submission[s].buffer].assignment # None /\ buffer[submission[s].buffer].held
        BY Zenon, <2>1, <2>3 DEF DmaSound
    <3> QED
        BY Zenon, <1>2, <1>6, <2>3, <3>1
  <2> QED
      BY Zenon, <1>3, <2>1, <2>2, <2>3 DEF DmaSound
<1>10. FramesStayPut'
  <2>1. FramesStayPut
      BY Zenon DEF IInv
  <2> QED
      BY Zenon, <1>2, <1>3, <2>1, DmaIn DEF FramesStayPut
<1>11. SubmissionExcludesCpu'
  <2>1. ASSUME NEW s \in Submissions, submission[s].state = "ACTIVE"
        PROVE  /\ buffer'[submission[s].buffer].mapped = "NO"
               /\ \A r \in Bars : bar[r].assignment = buffer'[submission[s].buffer].assignment => bar[r].active = 0
    <3>1. buffer'[submission[s].buffer] = buffer[submission[s].buffer]
        BY Zenon, <1>2, <1>6, <2>1, ActiveIn
    <3> QED
        BY Zenon, <2>1, <3>1 DEF IInv, SubmissionExcludesCpu, BarsIdle, LiveBars
  <2> QED
      BY Zenon, <1>3, <2>1 DEF SubmissionExcludesCpu, BarsIdle, LiveBars
<1>12. RecoverySound' /\ FlrSound'
    BY Zenon, <1>3, <1>5, StaysKept
<1>13. ASSUME NEW x \in Assignments, recovery[x].state = "QUIESCED", NEW q \in LiveBuffers(x)'
       PROVE  /\ q \in LiveBuffers(x) /\ buffer'[q].mapped \in {buffer[q].mapped, "NO"}
              /\ buffer'[q].state \in {buffer[q].state, "READY"}
  <2>1. q \in LiveBuffers(x)
      BY Zenon, <1>7, <1>13
  <2>2. q \in Buffers /\ q # b
      BY Zenon, <1>13, <2>1 DEF LiveBuffers
  <2>3. buffer'[q] = buffer[q]
      BY Zenon, <1>2, <2>2
  <2> QED
      BY Zenon, <2>1, <2>3
<1>14. /\ recovery' \in [Assignments -> RecoveryRecord] /\ flr' \in [Callers -> CallRecord]
       /\ submission' \in [Submissions -> SubmissionRecord] /\ capability' \subseteq Handles /\ halted' = FALSE
    BY Zenon, <1>1, <1>3
<1> QED
    BY Zenon, <1>2, <1>3, <1>4, <1>5, <1>8, <1>9, <1>10, <1>11, <1>12, <1>13, <1>14, DmaMoves

LEMMA BufferMapStep == ASSUME IInv, NEW b \in Buffers, BufferMap(b) PROVE IInv'
<1>1. /\ buffer[b].assignment # None /\ buffer[b].state = "READY"
      /\ assignment[buffer[b].assignment].state = "ASSIGNED"
      /\ buffer' = [buffer EXCEPT ![b].mapped = "YES"]
      /\ UNCHANGED <<assignment, process, capability, submission, bar, mmio, irq, recovery, flr, hardware, halted>>
    BY Zenon DEF BufferMap, BufferValid, OwnerAuthorized, AssignedTo
<1>2. "READY" \notin {"DEVICE_ACTIVE", "QUARANTINED"} /\ "ASSIGNED" # "QUARANTINED" /\ "YES" \in {"NO", "PARTLY", "YES"}
    OBVIOUS
<1>3. ~buffer[b].held
    BY Zenon, <1>1, <1>2 DEF IInv, DmaSound
<1>4. recovery[buffer[b].assignment].state # "QUIESCED"
    BY Zenon, <1>1, <1>2, BufferIn, QuiescedIn
<1> QED
    BY Zenon, <1>1, <1>2, <1>3, <1>4, Untouched, MappedStep

LEMMA BufferForceUnmapStep == ASSUME IInv, NEW b \in Buffers, BufferForceUnmap(b) PROVE IInv'
<1>1. /\ buffer[b].assignment # None /\ buffer[b].mapped = "YES"
      /\ UNCHANGED <<assignment, process, capability, submission, bar, mmio, irq, recovery, flr, hardware, halted>>
    BY Zenon DEF BufferForceUnmap, BufferValid
<1>2. PICK left \in {"NO", "PARTLY"} : buffer' = [buffer EXCEPT ![b].mapped = left]
    BY Zenon DEF BufferForceUnmap
<1>3. "YES" # "NO" /\ left \in {"NO", "PARTLY", "YES"}
    OBVIOUS
<1>4. recovery[buffer[b].assignment].state # "QUIESCED"
    BY Zenon, <1>1, <1>3, BufferIn, QuiescedIn DEF QuietAt
<1>5. \A s \in Submissions : submission[s].state = "ACTIVE" => submission[s].buffer # b
    BY Zenon, <1>1, <1>3 DEF IInv, SubmissionExcludesCpu
<1> QED
    BY Zenon, <1>1, <1>2, <1>3, <1>4, <1>5, MappedStep

LEMMA BufferDestroyStep ==
    ASSUME IInv, NEW b \in Buffers, NEW a \in Assignments, a = buffer[b].assignment, BufferDestroy(b)
    PROVE  IInv'
<1>1. /\ Matches(buffer[b]) /\ ~buffer[b].held
      /\ Must(CanReleaseChild(assignment[a], buffer[b].owner))
      /\ assignment' = [assignment EXCEPT ![a] = ChildReleased(@)]
      /\ buffer' = [buffer EXCEPT ![b] = NoBuffer]
      /\ UNCHANGED <<process, capability, submission, bar, mmio, irq, recovery, flr, hardware>>
    BY Zenon DEF BufferDestroy, CanDestroyBuffer, BufferValid
<1>2. /\ Parameters /\ buffer \in [Buffers -> BufferRecord]
      /\ submission \in [Submissions -> SubmissionRecord] /\ capability \subseteq Handles
    BY Zenon, Typed
<1>3. /\ b \in LiveBuffers(a) /\ assignment[a].children >= 1
      /\ assignment[a].state \notin {"NONE", "AVAILABLE"} /\ None \notin Assignments
    BY Zenon, <1>2, Pinned DEF LiveBuffers, Parameters
<1>4. /\ Stays(a) /\ assignment'[a].children = assignment[a].children - 1
      /\ assignment'[a].access = assignment[a].access /\ assignment'[a].gate = assignment[a].gate
    BY Zenon, <1>1, <1>3, ChildReleasedIs
<1>5. halted' = FALSE
  <2>1. ~(0 >= 1)
      OBVIOUS
  <2>2. assignment[a].owner = buffer[b].owner
      BY Zenon, <1>1 DEF Matches
  <2>3. CanReleaseChild(assignment[a], buffer[b].owner)
      BY Zenon, <1>3, <2>1, <2>2 DEF CanReleaseChild, OwnedBy
  <2> QED
      BY Zenon, <1>1, <2>3 DEF Must
<1>6. /\ buffer' \in [Buffers -> BufferRecord] /\ buffer'[b].assignment = None /\ buffer'[b].held = FALSE
      /\ buffer'[b].state \notin {"DEVICE_ACTIVE", "QUARANTINED"}
      /\ \A q \in Buffers : q # b => buffer'[q] = buffer[q]
  <2>1. /\ NoBuffer \in BufferRecord /\ NoBuffer.held = FALSE /\ NoBuffer.assignment = None
        /\ NoBuffer.state \notin {"DEVICE_ACTIVE", "QUARANTINED"}
      BY DEF NoBuffer, BufferRecord
  <2> QED
      BY <1>1, <1>2, <2>1
<1>7. (\A s \in Submissions : submission[s].buffer # b) /\ \A d \in dma : d[2] # b
    BY Zenon, <1>1, Untouched
<1>8. DmaSound' /\ FramesStayPut' /\ SubmissionExcludesCpu'
  <2>1. UNCHANGED <<bar, submission, dma>>
      BY Zenon, <1>1 DEF hardware
  <2> QED
      BY Zenon, <1>6, <1>7, <2>1, OtherBuffers
<1>9. \A x \in Assignments : HeldBuffers(x)' = HeldBuffers(x) /\ nHeld(x)' = nHeld(x)
  <2>1. ASSUME NEW x \in Assignments PROVE HeldBuffers(x)' = HeldBuffers(x)
    <3>1. ASSUME NEW q \in Buffers PROVE q \in HeldBuffers(x)' <=> q \in HeldBuffers(x)
      <4>1. CASE q = b
          BY Zenon, <1>1, <1>6, <4>1 DEF HeldBuffers
      <4>2. CASE q # b
          BY Zenon, <1>6, <4>2 DEF HeldBuffers, LiveBuffers
      <4> QED
          BY Zenon, <4>1, <4>2
    <3>2. HeldBuffers(x)' \subseteq Buffers /\ HeldBuffers(x) \subseteq Buffers
        BY Zenon DEF HeldBuffers, LiveBuffers
    <3> QED
        BY Zenon, <3>1, <3>2
  <2> QED
      BY Zenon, <2>1 DEF nHeld
<1>10. \A x \in Assignments : LiveBuffers(x)' = LiveBuffers(x) \ {b}
    BY Zenon, <1>3, <1>6 DEF LiveBuffers
<1>11. \A x \in Assignments : x # a => nBuffers(x)' = nBuffers(x)
  <2>1. ASSUME NEW x \in Assignments, x # a PROVE LiveBuffers(x)' = LiveBuffers(x)
    <3>1. b \notin LiveBuffers(x)
        BY Zenon, <2>1 DEF LiveBuffers
    <3> QED
        BY Zenon, <1>10, <3>1
  <2> QED
      BY Zenon, <2>1 DEF nBuffers
<1>12. nBuffers(a)' = nBuffers(a) - 1
    BY Zenon, <1>2, <1>3, <1>10, Finite, Removed DEF nBuffers
<1>13. \A x \in Assignments : nSubmissions(x)' = nSubmissions(x)
  <2>1. \A s \in Submissions :
            /\ submission'[s].buffer = submission[s].buffer
            /\ submission[s].buffer # None => buffer'[submission[s].buffer].assignment =
                                              buffer[submission[s].buffer].assignment
      BY Zenon, <1>1, <1>6, <1>7, SubmissionIn
  <2> QED
      BY Zenon, <2>1, SameSubmissions
<1>14. \A x \in Assignments : /\ nBars(x)' = nBars(x) /\ nIrqs(x)' = nIrqs(x)
                              /\ nMappings(x)' = nMappings(x) /\ nArmed(x)' = nArmed(x)
    BY Zenon, <1>1, CpuKept
<1>15. Counted'
  <2>1. CountedAt(a) /\ Numbered(a)
      BY Zenon, AtNow
  <2>2. ChildrenAt(a)'
      BY SMTT(20), <1>4, <1>12, <1>14, <2>1 DEF CountedAt, ChildrenAt, Numbered
  <2>3. AccessAt(a)' /\ GateAt(a)'
      BY Zenon, <1>4, <1>9, <1>13, <1>14, <2>1 DEF CountedAt, AccessAt, GateAt
  <2>4. CountedAt(a)'
      BY Zenon, <2>2, <2>3 DEF CountedAt
  <2> QED
      BY ZenonT(30), <1>4, <1>9, <1>11, <1>13, <1>14, <2>4, Recount
<1>16. ASSUME NEW x \in Assignments, NEW q \in LiveBuffers(x)'
       PROVE  /\ q \in LiveBuffers(x) /\ buffer'[q].mapped \in {buffer[q].mapped, "NO"}
              /\ buffer'[q].state \in {buffer[q].state, "READY"}
  <2>1. q # b /\ q \in Buffers /\ q \in LiveBuffers(x)
      BY Zenon, <1>10, <1>16 DEF LiveBuffers
  <2>2. buffer'[q] = buffer[q]
      BY Zenon, <1>6, <2>1
  <2> QED
      BY Zenon, <2>1, <2>2
<1>17. capability' \subseteq Handles /\ submission' \in [Submissions -> SubmissionRecord]
    BY Zenon, <1>1, <1>2
<1> QED
    BY Zenon, <1>1, <1>3, <1>4, <1>5, <1>6, <1>8, <1>15, <1>16, <1>17, DmaStep

LEMMA Fewer ==
    ASSUME NEW a \in Assignments, NEW k \in Nat, AccessAt(a), nHeld(a) = nHeld(a)' + k, nHeld(a)' \in Nat,
           nMappings(a)' = nMappings(a), nMappings(a) \in Nat, nArmed(a)' = nArmed(a), nArmed(a) \in Nat,
           assignment'[a].access = assignment[a].access - k
    PROVE  AccessAt(a)'
BY DEF AccessAt

LEMMA GateClosed ==
    ASSUME NEW r \in AssignmentRecord, NEW g \in BOOLEAN
    PROVE  /\ [r EXCEPT !.gate = g] \in AssignmentRecord /\ [r EXCEPT !.gate = g].gate = g
           /\ [r EXCEPT !.gate = g].state = r.state /\ [r EXCEPT !.gate = g].owner = r.owner
           /\ [r EXCEPT !.gate = g].exposed = r.exposed
           /\ [r EXCEPT !.gate = g].children = r.children /\ [r EXCEPT !.gate = g].access = r.access
BY DEF AssignmentRecord

LEMMA AccessGiven ==
    ASSUME NEW r \in AssignmentRecord, r.access >= 1, ActiveAccessLimit \in Nat
    PROVE  /\ AccessReleased(r) \in AssignmentRecord /\ AccessReleased(r).state = r.state
           /\ AccessReleased(r).owner = r.owner /\ AccessReleased(r).exposed = r.exposed
           /\ AccessReleased(r).children = r.children /\ AccessReleased(r).access = r.access - 1
BY DEF AccessReleased, AssignmentRecord

LEMMA AccessTaken ==
    ASSUME NEW r \in AssignmentRecord, r.access < ActiveAccessLimit, ActiveAccessLimit \in Nat
    PROVE  /\ AccessAcquired(r) \in AssignmentRecord /\ AccessAcquired(r).state = r.state
           /\ AccessAcquired(r).owner = r.owner /\ AccessAcquired(r).exposed = r.exposed
           /\ AccessAcquired(r).children = r.children /\ AccessAcquired(r).access = r.access + 1
BY DEF AccessAcquired, AssignmentRecord

(* a's record becomes new, which has the same state, owner and exposure. *)
LEMMA Replaced ==
    ASSUME IInv, NEW a \in Assignments, NEW new \in AssignmentRecord,
           assignment' = [assignment EXCEPT ![a] = new], new.state = assignment[a].state,
           new.owner = assignment[a].owner, new.exposed = assignment[a].exposed
    PROVE  Stays(a) /\ assignment'[a] = new
<1>1. assignment \in [Assignments -> AssignmentRecord]
    BY Zenon, Typed
<1>2. /\ assignment' \in [Assignments -> AssignmentRecord] /\ assignment'[a] = new
      /\ \A x \in Assignments : x # a => assignment'[x] = assignment[x]
    BY <1>1
<1> QED
    BY Zenon, <1>2 DEF Stays

(* The submissions S end and the device gives the buffers R of function a back.             *)
LEMMA ReleaseStep ==
    ASSUME IInv, NEW a \in Assignments, NEW S, S \subseteq SubmissionsOf(a),
           NEW R, R \subseteq HeldBuffers(a),
           \A s \in Submissions : submission[s].buffer \in R => s \in S,
           \A d \in dma : d[2] \notin R,
           Stays(a), assignment'[a].children = assignment[a].children,
           assignment'[a].access = assignment[a].access - Cardinality(R),
           S = {} => assignment'[a].gate = assignment[a].gate, S # {} => assignment'[a].gate = FALSE,
           buffer' = [b \in Buffers |-> IF b \in R THEN [buffer[b] EXCEPT !.held = FALSE, !.state = "READY"]
                                        ELSE buffer[b]],
           submission' = [s \in Submissions |-> IF s \in S THEN NoSubmission ELSE submission[s]],
           UNCHANGED <<process, capability, bar, mmio, irq, command, dma>>, halted' = FALSE,
           assignment[a].state \notin {"NONE", "AVAILABLE"},
           recovery' \in [Assignments -> RecoveryRecord], flr' \in [Callers -> CallRecord],
           RecoverySound', FlrSound',
           \A x \in Assignments : recovery'[x].state = "QUIESCED" => recovery[x].state = "QUIESCED"
    PROVE  IInv'
<1>1. /\ Parameters /\ buffer \in [Buffers -> BufferRecord]
      /\ submission \in [Submissions -> SubmissionRecord] /\ capability \subseteq Handles
    BY Zenon, Typed
<1>2. /\ bar' = bar /\ mmio' = mmio /\ irq' = irq /\ dma' = dma /\ capability' = capability
    BY Zenon
<1>3. R \subseteq Buffers /\ S \subseteq Submissions /\ None \notin Buffers
    BY Zenon, <1>1 DEF HeldBuffers, LiveBuffers, SubmissionsOf, Parameters
<1>4. ASSUME NEW b \in Buffers
      PROVE  /\ buffer'[b] \in BufferRecord
             /\ buffer'[b].assignment = buffer[b].assignment /\ buffer'[b].mapped = buffer[b].mapped
             /\ b \in R => buffer'[b].held = FALSE /\ buffer'[b].state = "READY"
             /\ b \notin R => buffer'[b] = buffer[b]
  <2>1. buffer[b] \in BufferRecord
      BY Zenon, <1>1
  <2>2. buffer'[b] = IF b \in R THEN [buffer[b] EXCEPT !.held = FALSE, !.state = "READY"] ELSE buffer[b]
      BY Zenon
  <2> QED
      BY Zenon, <2>1, <2>2 DEF BufferRecord
<1>5. ASSUME NEW s \in Submissions
      PROVE  /\ submission'[s] \in SubmissionRecord
             /\ s \in S => submission'[s].buffer = None /\ submission'[s].state = "NONE"
             /\ s \notin S => submission'[s] = submission[s]
  <2>1. /\ NoSubmission \in SubmissionRecord /\ NoSubmission.buffer = None /\ NoSubmission.state = "NONE"
        /\ submission[s] \in SubmissionRecord
      BY Zenon, <1>1 DEF NoSubmission, SubmissionRecord
  <2> QED
      BY Zenon, <2>1
<1>6. buffer' \in [Buffers -> BufferRecord] /\ submission' \in [Submissions -> SubmissionRecord]
    BY Zenon, <1>4, <1>5
<1>7. \A s \in Submissions : submission[s].buffer # None => submission[s].buffer \in Buffers
    BY Zenon, SubmissionIn
<1>8. \A x \in Assignments :
          /\ nBuffers(x)' = nBuffers(x) /\ nBars(x)' = nBars(x) /\ nIrqs(x)' = nIrqs(x)
          /\ nMappings(x)' = nMappings(x) /\ nArmed(x)' = nArmed(x) /\ LiveBuffers(x)' = LiveBuffers(x)
    BY Zenon, <1>2, <1>4, SameBuffers, CpuKept
<1>9. \A x \in Assignments : HeldBuffers(x)' = HeldBuffers(x) \ R
    BY Zenon, <1>4, <1>8 DEF HeldBuffers, LiveBuffers
<1>10. ASSUME NEW x \in Assignments PROVE SubmissionsOf(x)' = SubmissionsOf(x) \ S
  <2>1. ASSUME NEW s \in Submissions PROVE s \in SubmissionsOf(x)' <=> s \in SubmissionsOf(x) \ S
    <3>1. CASE s \in S
        BY Zenon, <1>5, <3>1 DEF SubmissionsOf
    <3>2. CASE s \notin S
        BY Zenon, <1>4, <1>5, <1>7, <3>2 DEF SubmissionsOf
    <3> QED
        BY Zenon, <3>1, <3>2
  <2>2. SubmissionsOf(x)' \subseteq Submissions /\ SubmissionsOf(x) \subseteq Submissions
      BY Zenon DEF SubmissionsOf
  <2> QED
      BY Zenon, <2>1, <2>2
<1>11. ASSUME NEW x \in Assignments, x # a
       PROVE  nHeld(x)' = nHeld(x) /\ nSubmissions(x)' = nSubmissions(x)
  <2>1. HeldBuffers(x) \ R = HeldBuffers(x)
      BY Zenon, <1>11 DEF HeldBuffers, LiveBuffers
  <2>2. SubmissionsOf(x) \ S = SubmissionsOf(x)
      BY Zenon, <1>11 DEF SubmissionsOf
  <2> QED
      BY Zenon, <1>9, <1>10, <2>1, <2>2 DEF nHeld, nSubmissions
<1>12. Counted'
  <2>1. CountedAt(a) /\ Numbered(a)
      BY Zenon, AtNow
  <2>2. ChildrenAt(a)'
      BY Zenon, <1>8, <2>1 DEF CountedAt, ChildrenAt
  <2>3. /\ nHeld(a) = nHeld(a)' + Cardinality(R) /\ nHeld(a)' \in Nat /\ Cardinality(R) \in Nat
      BY Zenon, <1>1, <1>9, Finite, Parted DEF nHeld
  <2>4. AccessAt(a)'
    <3>1. AccessAt(a)
        BY Zenon, <2>1 DEF CountedAt
    <3>2. nMappings(a)' = nMappings(a) /\ nArmed(a)' = nArmed(a) /\ nMappings(a) \in Nat /\ nArmed(a) \in Nat
        BY Zenon, <1>8, <2>1 DEF Numbered
    <3> QED
        BY Zenon, <2>3, <3>1, <3>2, Fewer
  <2>5. GateAt(a)'
    <3>1. CASE S = {}
      <4>1. nSubmissions(a)' = nSubmissions(a)
          BY Zenon, <1>10, <3>1 DEF nSubmissions
      <4> QED
          BY Zenon, <2>1, <3>1, <4>1 DEF CountedAt, GateAt
    <3>2. CASE S # {}
      <4>1. SubmissionsOf(a)' = {}
        <5>1. PICK s \in S : TRUE
            BY Zenon, <3>2
        <5>2. s \in SubmissionsOf(a) /\ \A t \in SubmissionsOf(a) : t = s
            BY Zenon, <5>1, Pinned
        <5>3. SubmissionsOf(a) \ S = {}
            BY Zenon, <5>1, <5>2
        <5> QED
            BY Zenon, <1>10, <5>3
      <4>2. nSubmissions(a)' = 0
          BY Zenon, <4>1, FS_EmptySet DEF nSubmissions
      <4> QED
          BY Zenon, <3>2, <4>2 DEF GateAt
    <3> QED
        BY Zenon, <3>1, <3>2
  <2>6. CountedAt(a)'
      BY Zenon, <2>2, <2>4, <2>5 DEF CountedAt
  <2> QED
      BY Zenon, <1>8, <1>11, <2>6, Recount
<1>13. DmaSound'
  <2>1. DmaSound
      BY Zenon DEF IInv
  <2>2. ASSUME NEW b \in Buffers
        PROVE  buffer'[b].held <=> buffer'[b].state \in {"DEVICE_ACTIVE", "QUARANTINED"}
    <3>1. CASE b \in R
      <4>1. "READY" \notin {"DEVICE_ACTIVE", "QUARANTINED"}
          BY Zenon
      <4> QED
          BY Zenon, <1>4, <3>1, <4>1
    <3>2. CASE b \notin R
        BY Zenon, <1>4, <2>1, <3>2 DEF DmaSound
    <3> QED
        BY Zenon, <3>1, <3>2
  <2>3. ASSUME NEW s \in Submissions
        PROVE  /\ submission'[s].buffer = None => submission'[s].state = "NONE"
               /\ submission'[s].buffer # None =>
                     buffer'[submission'[s].buffer].assignment # None /\ buffer'[submission'[s].buffer].held
    <3>1. CASE s \in S
        BY Zenon, <1>5, <3>1
    <3>2. CASE s \notin S
        BY Zenon, <1>4, <1>5, <1>7, <2>1, <3>2 DEF DmaSound
    <3> QED
        BY Zenon, <3>1, <3>2
  <2> QED
      BY Zenon, <2>2, <2>3 DEF DmaSound
<1>14. FramesStayPut'
  <2>1. FramesStayPut
      BY Zenon DEF IInv
  <2>2. \A d \in dma : buffer'[d[2]] = buffer[d[2]]
      BY Zenon, <1>4, DmaIn
  <2> QED
      BY Zenon, <1>2, <2>1, <2>2 DEF FramesStayPut
<1>15. SubmissionExcludesCpu'
  <2>1. ASSUME NEW s \in Submissions, submission'[s].state = "ACTIVE"
        PROVE  /\ buffer'[submission'[s].buffer].mapped = "NO"
               /\ BarsIdle(buffer[submission[s].buffer].assignment)'
    <3>1. "ACTIVE" # "NONE"
        BY Zenon
    <3>2. submission'[s] = submission[s] /\ submission[s].state = "ACTIVE" /\ submission[s].buffer \in Buffers
        BY Zenon, <1>5, <1>7, <2>1, <3>1, ActiveIn
    <3>3. /\ buffer'[submission[s].buffer].assignment = buffer[submission[s].buffer].assignment
          /\ buffer'[submission[s].buffer].mapped = buffer[submission[s].buffer].mapped
        BY Zenon, <1>4, <3>2
    <3>4. buffer[submission[s].buffer].mapped = "NO" /\ BarsIdle(buffer[submission[s].buffer].assignment)
        BY Zenon, <3>2 DEF IInv, SubmissionExcludesCpu
    <3> QED
        BY ZenonT(30), <1>2, <3>2, <3>3, <3>4 DEF BarsIdle, LiveBars
  <2> QED
      BY Zenon, <2>1 DEF SubmissionExcludesCpu
<1>16. ASSUME NEW x \in Assignments, NEW b \in LiveBuffers(x)'
       PROVE  /\ b \in LiveBuffers(x) /\ buffer'[b].mapped \in {buffer[b].mapped, "NO"}
              /\ buffer'[b].state \in {buffer[b].state, "READY"}
  <2>1. b \in LiveBuffers(x) /\ b \in Buffers
      BY Zenon, <1>8, <1>16 DEF LiveBuffers
  <2> QED
      BY Zenon, <1>4, <2>1
<1> QED
    BY Zenon, <1>1, <1>2, <1>6, <1>12, <1>13, <1>14, <1>15, <1>16, DmaMoves

LEMMA SubmissionCompleteStep ==
    ASSUME IInv, NEW s \in Submissions, NEW b \in Buffers, b = submission[s].buffer,
           NEW a \in Assignments, a = buffer[b].assignment, SubmissionComplete(s)
    PROVE  IInv'
<1>1. /\ submission[s].state = "ACTIVE" /\ <<a, b>> \notin dma
      /\ AssignedTo(assignment[a], buffer[b].owner)
      /\ Must(/\ CanReleaseAccess(assignment[a], buffer[b].owner)
              /\ CanReleaseGate(assignment[a], buffer[b].owner))
      /\ assignment' = [assignment EXCEPT ![a] = [AccessReleased(@) EXCEPT !.gate = FALSE]]
      /\ buffer' = [buffer EXCEPT ![b].held = FALSE, ![b].state = "READY"]
      /\ submission' = [submission EXCEPT ![s] = NoSubmission]
      /\ UNCHANGED <<process, capability, bar, mmio, irq, recovery, flr, hardware>>
    BY Zenon DEF SubmissionComplete, OwnerAuthorized
<1>2. /\ Parameters /\ buffer \in [Buffers -> BufferRecord]
      /\ submission \in [Submissions -> SubmissionRecord]
      /\ recovery \in [Assignments -> RecoveryRecord] /\ flr \in [Callers -> CallRecord]
    BY Zenon, Typed
<1>3. b # None /\ b \in HeldBuffers(a) /\ s \in SubmissionsOf(a) /\ assignment[a].gate
    BY Zenon, <1>1, ActiveIn, SubmissionIn DEF HeldBuffers, LiveBuffers
<1>4. assignment[a].access >= 1
    BY Zenon, <1>3, Pinned
<1>5. "ASSIGNED" \notin {"NONE", "AVAILABLE"} /\ "ASSIGNED" # "QUIESCING"
    OBVIOUS
<1>6. halted' = FALSE
  <2>1. ~(0 >= 1)
      OBVIOUS
  <2> QED
      BY Zenon, <1>1, <1>3, <1>4, <1>5, <2>1 DEF Must, CanReleaseAccess, CanReleaseGate, OwnedBy, AssignedTo
<1>7. /\ Stays(a) /\ assignment'[a].children = assignment[a].children
      /\ assignment'[a].access = assignment[a].access - 1 /\ assignment'[a].gate = FALSE
  <2>1. /\ assignment \in [Assignments -> AssignmentRecord] /\ assignment[a] \in AssignmentRecord
        /\ ActiveAccessLimit \in Nat
      BY Zenon, Record
  <2>2. AccessReleased(assignment[a]) \in AssignmentRecord
      BY Zenon, <1>4, <2>1, AccessGiven
  <2>3. FALSE \in BOOLEAN
      OBVIOUS
  <2>4. PICK mid \in AssignmentRecord : mid = AccessReleased(assignment[a])
      BY Zenon, <2>2
  <2>5. PICK new \in AssignmentRecord : new = [mid EXCEPT !.gate = FALSE]
      BY Zenon, <2>3, GateClosed
  <2>6. assignment' = [assignment EXCEPT ![a] = new]
      BY Zenon, <1>1, <2>4, <2>5
  <2>7. /\ mid.state = assignment[a].state /\ mid.owner = assignment[a].owner
        /\ mid.exposed = assignment[a].exposed /\ mid.children = assignment[a].children
        /\ mid.access = assignment[a].access - 1
      BY Zenon, <1>4, <2>1, <2>4, AccessGiven
  <2>8. /\ new.gate = FALSE /\ new.state = mid.state /\ new.owner = mid.owner /\ new.exposed = mid.exposed
        /\ new.children = mid.children /\ new.access = mid.access
      BY Zenon, <2>3, <2>5, GateClosed
  <2> QED
      BY ZenonT(30), <2>6, <2>7, <2>8, Replaced
<1>8. assignment[a].state \notin {"NONE", "AVAILABLE"}
    BY Zenon, <1>1, <1>5 DEF AssignedTo
<1>9. buffer' = [q \in Buffers |-> IF q \in {b} THEN [buffer[q] EXCEPT !.held = FALSE, !.state = "READY"]
                                   ELSE buffer[q]]
    BY Zenon, <1>1, <1>2
<1>10. submission' = [t \in Submissions |-> IF t \in {s} THEN NoSubmission ELSE submission[t]]
    BY Zenon, <1>1, <1>2
<1>11. Cardinality({b}) = 1 /\ {s} # {} /\ {s} \subseteq SubmissionsOf(a) /\ {b} \subseteq HeldBuffers(a)
    BY Zenon, <1>3, FS_Singleton
<1>12. \A t \in Submissions : submission[t].buffer \in {b} => t \in {s}
    BY Zenon, <1>3, SubmissionIn, Pinned
<1>13. ASSUME NEW d \in dma PROVE d[2] \notin {b}
    BY Zenon, <1>1, <1>13, DmaIn
<1>14. /\ UNCHANGED <<recovery, flr, command, dma>>
       /\ UNCHANGED <<process, capability, bar, mmio, irq, command, dma>>
    BY Zenon, <1>1 DEF hardware
<1>15. RecoverySound' /\ FlrSound'
    BY Zenon, <1>7, <1>14, StaysKept
<1>16. /\ {s} = {} => assignment'[a].gate = assignment[a].gate
       /\ {s} # {} => assignment'[a].gate = FALSE
    BY Zenon, <1>7, <1>11
<1>17. assignment'[a].access = assignment[a].access - Cardinality({b})
    BY Zenon, <1>7, <1>11
<1>18. /\ recovery' \in [Assignments -> RecoveryRecord] /\ flr' \in [Callers -> CallRecord]
       /\ \A x \in Assignments : recovery'[x].state = "QUIESCED" => recovery[x].state = "QUIESCED"
    BY Zenon, <1>2, <1>14
<1> QED
    BY ZenonT(30), <1>6, <1>7, <1>8, <1>9, <1>10, <1>11, <1>12, <1>13, <1>14, <1>15, <1>16, <1>17, <1>18, ReleaseStep

LEMMA More ==
    ASSUME NEW a \in Assignments, AccessAt(a), nHeld(a)' = nHeld(a) + 1, nHeld(a) \in Nat,
           nMappings(a)' = nMappings(a), nMappings(a) \in Nat, nArmed(a)' = nArmed(a), nArmed(a) \in Nat,
           assignment'[a].access = assignment[a].access + 1
    PROVE  AccessAt(a)'
BY DEF AccessAt

LEMMA SubmissionBeginStep ==
    ASSUME IInv, NEW s \in Submissions, NEW b \in Buffers, NEW a \in Assignments, a = buffer[b].assignment,
           SubmissionBegin(s, b)
    PROVE  IInv'
<1>1. /\ submission[s] = NoSubmission /\ buffer[b].state = "READY" /\ buffer[b].mapped = "NO" /\ BarsIdle(a)
      /\ assignment[a].state = "ASSIGNED" /\ ~assignment[a].gate /\ assignment[a].access < ActiveAccessLimit
      /\ assignment' = [assignment EXCEPT ![a] = [AccessAcquired(@) EXCEPT !.gate = TRUE]]
      /\ buffer' = [buffer EXCEPT ![b].held = TRUE, ![b].state = "DEVICE_ACTIVE"]
      /\ submission' = [submission EXCEPT ![s] = [buffer |-> b, state |-> "ACTIVE"]]
      /\ UNCHANGED <<process, capability, bar, mmio, irq, recovery, flr, hardware, halted>>
    BY Zenon DEF SubmissionBegin, CanSubmit, Authorized, CanAcquireGate, CanAcquireAccess
<1>2. /\ Parameters /\ buffer \in [Buffers -> BufferRecord] /\ halted = FALSE /\ capability \subseteq Handles
      /\ submission \in [Submissions -> SubmissionRecord] /\ b \in Buffers /\ None \notin Buffers
    BY Zenon, Typed DEF Parameters
<1>3. ~buffer[b].held /\ submission[s].buffer = None
  <2>1. "READY" \notin {"DEVICE_ACTIVE", "QUARANTINED"} /\ NoSubmission.buffer = None
      BY DEF NoSubmission
  <2>2. ~buffer[b].held
      BY Zenon, <1>1, <2>1 DEF IInv, DmaSound
  <2> QED
      BY Zenon, <1>1, <2>1, <2>2
<1>4. (\A t \in Submissions : submission[t].buffer # b) /\ \A d \in dma : d[2] # b
    BY Zenon, <1>3, Untouched
<1>5. /\ Stays(a) /\ assignment'[a].children = assignment[a].children
      /\ assignment'[a].access = assignment[a].access + 1 /\ assignment'[a].gate = TRUE
  <2>1. assignment[a] \in AssignmentRecord /\ ActiveAccessLimit \in Nat
      BY Zenon, Record
  <2>2. AccessAcquired(assignment[a]) \in AssignmentRecord
      BY Zenon, <1>1, <2>1, AccessTaken
  <2>3. TRUE \in BOOLEAN
      OBVIOUS
  <2>4. PICK mid \in AssignmentRecord : mid = AccessAcquired(assignment[a])
      BY Zenon, <2>2
  <2>5. PICK new \in AssignmentRecord : new = [mid EXCEPT !.gate = TRUE]
      BY Zenon, <2>3, GateClosed
  <2>6. assignment' = [assignment EXCEPT ![a] = new]
      BY Zenon, <1>1, <2>4, <2>5
  <2>7. /\ mid.state = assignment[a].state /\ mid.owner = assignment[a].owner
        /\ mid.exposed = assignment[a].exposed /\ mid.children = assignment[a].children
        /\ mid.access = assignment[a].access + 1
      BY Zenon, <1>1, <2>1, <2>4, AccessTaken
  <2>8. /\ new.gate = TRUE /\ new.state = mid.state /\ new.owner = mid.owner /\ new.exposed = mid.exposed
        /\ new.children = mid.children /\ new.access = mid.access
      BY Zenon, <2>3, <2>5, GateClosed
  <2>9. Stays(a) /\ assignment'[a] = new
    <3>1. /\ new.state = assignment[a].state /\ new.owner = assignment[a].owner
          /\ new.exposed = assignment[a].exposed
        BY Zenon, <2>7, <2>8
    <3> QED
        BY Zenon, <2>6, <3>1, Replaced
  <2> QED
      BY Zenon, <2>7, <2>8, <2>9
<1>6. /\ buffer' \in [Buffers -> BufferRecord] /\ buffer'[b].held = TRUE /\ buffer'[b].state = "DEVICE_ACTIVE"
      /\ buffer'[b].assignment = buffer[b].assignment /\ buffer'[b].mapped = buffer[b].mapped
      /\ \A q \in Buffers : q # b => buffer'[q] = buffer[q]
    BY <1>1, <1>2 DEF BufferRecord
<1>7. /\ submission' \in [Submissions -> SubmissionRecord] /\ submission'[s].buffer = b
      /\ submission'[s].state = "ACTIVE" /\ \A t \in Submissions : t # s => submission'[t] = submission[t]
    BY <1>1, <1>2 DEF SubmissionRecord
<1>8. \A q \in Buffers : buffer'[q].assignment = buffer[q].assignment
    BY Zenon, <1>6
<1>9. \A x \in Assignments :
          /\ nBuffers(x)' = nBuffers(x) /\ nBars(x)' = nBars(x) /\ nIrqs(x)' = nIrqs(x)
          /\ nMappings(x)' = nMappings(x) /\ nArmed(x)' = nArmed(x) /\ LiveBuffers(x)' = LiveBuffers(x)
    BY Zenon, <1>1, <1>8, SameBuffers, CpuKept
<1>10. b \in LiveBuffers(a) /\ \A x \in Assignments : x # a => b \notin LiveBuffers(x)
    BY Zenon DEF LiveBuffers
<1>11. HeldBuffers(a)' = HeldBuffers(a) \cup {b}
  <2>1. ASSUME NEW q \in LiveBuffers(a) PROVE buffer'[q].held <=> buffer[q].held \/ q = b
    <3>1. q \in Buffers
        BY Zenon DEF LiveBuffers
    <3>2. CASE q = b
        BY Zenon, <1>6, <3>2
    <3>3. CASE q # b
        BY Zenon, <1>6, <3>1, <3>3
    <3> QED
        BY Zenon, <3>2, <3>3
  <2> QED
      BY Zenon, <1>9, <1>10, <2>1 DEF HeldBuffers
<1>12. nHeld(a)' = nHeld(a) + 1
  <2>1. b \notin HeldBuffers(a) /\ IsFiniteSet(HeldBuffers(a))
      BY Zenon, <1>2, <1>3, Finite DEF HeldBuffers
  <2> QED
      BY Zenon, <1>11, <2>1, Added DEF nHeld
<1>13. ASSUME NEW x \in Assignments, x # a PROVE nHeld(x)' = nHeld(x)
  <2>1. \A q \in LiveBuffers(x) : q \in Buffers /\ q # b
      BY Zenon, <1>10, <1>13 DEF LiveBuffers
  <2>2. HeldBuffers(x)' = HeldBuffers(x)
      BY Zenon, <1>6, <1>9, <2>1 DEF HeldBuffers
  <2> QED
      BY Zenon, <2>2 DEF nHeld
<1>14. ASSUME NEW x \in Assignments, x # a PROVE nSubmissions(x)' = nSubmissions(x)
  <2>1. ASSUME NEW t \in Submissions PROVE t \in SubmissionsOf(x)' <=> t \in SubmissionsOf(x)
    <3>1. CASE t = s
        BY Zenon, <1>3, <1>6, <1>7, <1>14, <3>1 DEF SubmissionsOf
    <3>2. CASE t # s
      <4>1. submission'[t] = submission[t]
          BY Zenon, <1>7, <3>2
      <4>2. submission[t].buffer # None => submission[t].buffer \in Buffers
          BY Zenon, SubmissionIn
      <4> QED
          BY Zenon, <1>8, <4>1, <4>2 DEF SubmissionsOf
    <3> QED
        BY Zenon, <3>1, <3>2
  <2>2. SubmissionsOf(x)' \subseteq Submissions /\ SubmissionsOf(x) \subseteq Submissions
      BY Zenon DEF SubmissionsOf
  <2>3. SubmissionsOf(x)' = SubmissionsOf(x)
      BY Zenon, <2>1, <2>2
  <2> QED
      BY Zenon, <2>3 DEF nSubmissions
<1>15. nSubmissions(a)' = 1
  <2>1. ASSUME NEW t \in Submissions, t # s PROVE t \notin SubmissionsOf(a)'
    <3>1. submission'[t] = submission[t] /\ t \notin SubmissionsOf(a)
        BY Zenon, <1>1, <1>7, <2>1, Pinned
    <3>2. submission[t].buffer # None => submission[t].buffer \in Buffers
        BY Zenon, SubmissionIn
    <3> QED
        BY Zenon, <1>8, <3>1, <3>2 DEF SubmissionsOf
  <2>2. s \in SubmissionsOf(a)' /\ SubmissionsOf(a)' \subseteq Submissions
      BY Zenon, <1>2, <1>6, <1>7 DEF SubmissionsOf
  <2>3. SubmissionsOf(a)' = {s}
      BY Zenon, <2>1, <2>2
  <2> QED
      BY Zenon, <2>3, FS_Singleton DEF nSubmissions
<1>16. Counted'
  <2>1. CountedAt(a) /\ Numbered(a)
      BY Zenon, AtNow
  <2>2. ChildrenAt(a)'
      BY Zenon, <1>5, <1>9, <2>1 DEF CountedAt, ChildrenAt
  <2>3. AccessAt(a)'
      BY Zenon, <1>5, <1>9, <1>12, <2>1, More DEF CountedAt, Numbered
  <2>4. GateAt(a)'
      BY Zenon, <1>5, <1>15 DEF GateAt
  <2>5. CountedAt(a)'
      BY Zenon, <2>2, <2>3, <2>4 DEF CountedAt
  <2> QED
      BY ZenonT(30), <1>5, <1>9, <1>13, <1>14, <2>5, Recount
<1>17. DmaSound'
  <2>1. DmaSound
      BY Zenon DEF IInv
  <2>2. ASSUME NEW q \in Buffers
        PROVE  buffer'[q].held <=> buffer'[q].state \in {"DEVICE_ACTIVE", "QUARANTINED"}
    <3>1. CASE q = b
        BY Zenon, <1>6, <3>1
    <3>2. CASE q # b
        BY Zenon, <1>6, <2>1, <3>2 DEF DmaSound
    <3> QED
        BY Zenon, <3>1, <3>2
  <2>3. ASSUME NEW t \in Submissions
        PROVE  /\ submission'[t].buffer = None => submission'[t].state = "NONE"
               /\ submission'[t].buffer # None =>
                     buffer'[submission'[t].buffer].assignment # None /\ buffer'[submission'[t].buffer].held
    <3>1. CASE t = s
      <4>1. a # None
          BY Zenon, <1>2 DEF Parameters
      <4> QED
          BY Zenon, <1>2, <1>6, <1>7, <3>1, <4>1
    <3>2. CASE t # s
      <4>1. submission'[t] = submission[t]
          BY Zenon, <1>7, <3>2
      <4>2. submission[t].buffer # None => /\ submission[t].buffer \in Buffers
                                           /\ buffer'[submission[t].buffer] = buffer[submission[t].buffer]
          BY Zenon, <1>4, <1>6, SubmissionIn
      <4> QED
          BY Zenon, <2>1, <4>1, <4>2 DEF DmaSound
    <3> QED
        BY Zenon, <3>1, <3>2
  <2> QED
      BY Zenon, <2>2, <2>3 DEF DmaSound
<1>18. FramesStayPut'
  <2>1. FramesStayPut /\ dma' = dma
      BY Zenon, <1>1 DEF IInv, hardware
  <2>2. \A d \in dma : buffer'[d[2]] = buffer[d[2]]
      BY Zenon, <1>4, <1>6, DmaIn
  <2> QED
      BY Zenon, <2>1, <2>2 DEF FramesStayPut
<1>19. SubmissionExcludesCpu'
  <2>1. bar' = bar
      BY Zenon, <1>1
  <2>2. ASSUME NEW t \in Submissions, submission'[t].state = "ACTIVE"
        PROVE  /\ buffer'[submission'[t].buffer].mapped = "NO"
               /\ BarsIdle(buffer[submission[t].buffer].assignment)'
    <3>1. CASE t = s
      <4>1. submission'[t].buffer = b /\ buffer'[b].assignment = a /\ buffer'[b].mapped = "NO"
          BY Zenon, <1>1, <1>6, <1>7, <3>1
      <4> QED
          BY Zenon, <1>1, <2>1, <4>1 DEF BarsIdle, LiveBars
    <3>2. CASE t # s
      <4>1. submission'[t] = submission[t] /\ submission[t].state = "ACTIVE"
          BY Zenon, <1>7, <2>2, <3>2
      <4>2. submission[t].buffer \in Buffers /\ buffer'[submission[t].buffer] = buffer[submission[t].buffer]
          BY Zenon, <1>4, <1>6, <4>1, ActiveIn, SubmissionIn
      <4>3. buffer[submission[t].buffer].mapped = "NO" /\ BarsIdle(buffer[submission[t].buffer].assignment)
          BY Zenon, <4>1 DEF IInv, SubmissionExcludesCpu
      <4> QED
          BY Zenon, <2>1, <4>1, <4>2, <4>3 DEF BarsIdle, LiveBars
    <3> QED
        BY Zenon, <3>1, <3>2
  <2> QED
      BY Zenon, <2>2 DEF SubmissionExcludesCpu
<1>20. ASSUME NEW x \in Assignments, assignment[x].state = "QUARANTINED", NEW q \in LiveBuffers(x)'
       PROVE  /\ q \in LiveBuffers(x) /\ buffer'[q].mapped \in {buffer[q].mapped, "NO"}
              /\ buffer'[q].state \in {buffer[q].state, "READY"}
  <2>1. "ASSIGNED" # "QUARANTINED"
      OBVIOUS
  <2>2. q \in LiveBuffers(x) /\ q \in Buffers /\ q # b
      BY Zenon, <1>1, <1>9, <1>10, <1>20, <2>1 DEF LiveBuffers
  <2> QED
      BY Zenon, <1>6, <2>2
<1>21. halted' = FALSE /\ capability' \subseteq Handles /\ assignment[a].state \notin {"NONE", "AVAILABLE"}
  <2>1. "ASSIGNED" \notin {"NONE", "AVAILABLE"}
      OBVIOUS
  <2> QED
      BY Zenon, <1>1, <1>2, <2>1
<1> QED
    BY Zenon, <1>1, <1>5, <1>6, <1>7, <1>16, <1>17, <1>18, <1>19, <1>20, <1>21, DmaStep
=============================================================================
