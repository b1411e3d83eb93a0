---------------------------- MODULE PciIrqProofs ----------------------------
(***************************************************************************)
(* DeliverySound of module PciIrq for every set of interrupt resources and *)
(* inputs, every wiring (devices that share an input included) and every   *)
(* number of vectors and sequence numbers.                                 *)
(***************************************************************************)
EXTENDS PciIrq, WellFoundedInduction, TLAPS

(* What the record of a resource, the sequence in its mailbox, the one its *)
(* driver consumed last and its endpoint have to do with each other.       *)
RecordSound(r, m, g, c) ==
    /\ r \in IrqRecord /\ m \in 0..SequenceLimit /\ g \in 0..SequenceLimit /\ c \in BOOLEAN
    /\ r.state = "INVALID" => r = NoIrq /\ g = 0
    /\ r.state # "INVALID" => r.id # 0
    /\ r.state \in {"INVALID", "DISARMED", "ARMED"} => r.pending = 0
    /\ r.state = "ARMED" => ~r.masked
    /\ r.next # 0 => r.next > g /\ r.next > r.pending
    /\ m # 0 => m = r.pending /\ m > g
    /\ r.pending # 0 /\ ~c => r.pending \in {m, g}

RecordsSound == \A i \in Irqs : RecordSound(irq[i], mailbox[i], got[i], closed[i])

(* A bound input has one binding, which knows its mask bit. *)
BindingsAgree ==
    /\ \A i \in Irqs : Bound(i) => /\ binding[i].id # 0 /\ binding[i].vector \in Vectors
                                   /\ masked[GsiOf[i]] = binding[i].masked
    /\ \A i, j \in Irqs : Bound(i) /\ Bound(j) /\ GsiOf[i] = GsiOf[j] => i = j

(* An unmasked input belongs to an armed resource, and conversely. *)
UnmaskedIsArmed ==
    \A g \in Gsis : ~masked[g] =>
        \E i \in Irqs : /\ GsiOf[i] = g /\ BindingValid(i)
                        /\ irq[i].state = "ARMED" /\ ~irq[i].masked

Serving(i) == irq[i].state = "ARMED" /\ assignment[i] = "ASSIGNED" /\ irq[i].next # 0

ArmedIsUnmasked == \A i \in Irqs : Serving(i) => Bound(i) /\ ~masked[GsiOf[i]]

IInv == TypeOK /\ RecordsSound /\ BindingsAgree /\ UnmaskedIsArmed /\ ArmedIsUnmasked

LEMMA Implied == IInv => DeliverySound
BY Zenon DEF IInv, RecordsSound, RecordSound, UnmaskedIsArmed, ArmedIsUnmasked, Serving,
       DeliverySound, SourceFollowsDelivery, OneEventOutstanding

LEMMA InitInv == Init => IInv
<1> SUFFICES ASSUME Init PROVE IInv
    BY Zenon
<1> USE PciIrqAssumption
<1>1. NoIrq \in IrqRecord /\ Unbound \in BindingRecord
    BY DEF NoIrq, IrqRecord, Unbound, BindingRecord
<1>2. TypeOK
    BY <1>1 DEF Init, TypeOK
<1>3. RecordSound(NoIrq, 0, 0, FALSE)
    BY <1>1 DEF RecordSound, NoIrq
<1>4. RecordsSound
    BY Zenon, <1>3 DEF Init, RecordsSound
<1>5. \A i \in Irqs : ~Bound(i) /\ ~Serving(i)
    BY Zenon DEF Init, Bound, Serving, NoIrq
<1> QED
    BY Zenon, <1>2, <1>4, <1>5 DEF IInv, BindingsAgree, UnmaskedIsArmed, ArmedIsUnmasked, Init

-----------------------------------------------------------------------------
(* Steps of one resource *)

(* Only the record, mailbox, driver and endpoint of one resource change, *)
(* and they are sound again.                                             *)
LEMMA RecordStep ==
    ASSUME IInv, NEW i \in Irqs, NEW r, NEW m, NEW g, NEW c, RecordSound(r, m, g, c),
           irq' = [irq EXCEPT ![i] = r], mailbox' = [mailbox EXCEPT ![i] = m],
           got' = [got EXCEPT ![i] = g], closed' = [closed EXCEPT ![i] = c]
    PROVE  /\ RecordsSound'
           /\ irq' \in [Irqs -> IrqRecord] /\ mailbox' \in [Irqs -> 0..SequenceLimit]
           /\ got' \in [Irqs -> 0..SequenceLimit] /\ closed' \in [Irqs -> BOOLEAN]
<1>1. /\ irq \in [Irqs -> IrqRecord] /\ mailbox \in [Irqs -> 0..SequenceLimit]
      /\ got \in [Irqs -> 0..SequenceLimit] /\ closed \in [Irqs -> BOOLEAN]
    BY Zenon DEF IInv, TypeOK
<1>2. /\ r \in IrqRecord /\ m \in 0..SequenceLimit /\ g \in 0..SequenceLimit /\ c \in BOOLEAN
    BY Zenon DEF RecordSound
<1>3. ASSUME NEW j \in Irqs PROVE RecordSound(irq'[j], mailbox'[j], got'[j], closed'[j])
  <2>1. CASE j = i
    <3>1. irq'[j] = r /\ mailbox'[j] = m /\ got'[j] = g /\ closed'[j] = c
        BY Zenon, <1>1, <2>1
    <3> QED
        BY Zenon, <3>1
  <2>2. CASE j # i
    <3>1. irq'[j] = irq[j] /\ mailbox'[j] = mailbox[j] /\ got'[j] = got[j] /\ closed'[j] = closed[j]
        BY Zenon, <1>1, <2>2
    <3> QED
        BY Zenon, <3>1 DEF IInv, RecordsSound
  <2> QED
      BY Zenon, <2>1, <2>2
<1> QED
    BY Zenon, <1>1, <1>2, <1>3 DEF RecordsSound

(* The router masks or unmasks the input of a valid binding while it changes *)
(* the record of its resource: unmasked if armed, masked if not serving.     *)
LEMMA SourceStep ==
    ASSUME IInv, NEW i \in Irqs, BindingValid(i), NEW on \in BOOLEAN, SourceMask(i, on),
           irq' \in [Irqs -> IrqRecord], \A j \in Irqs : j # i => irq'[j] = irq[j],
           irq'[i].id = irq[i].id,
           \A j \in Irqs : j # i => assignment'[j] = assignment[j],
           IF on THEN ~Serving(i)' ELSE irq'[i].state = "ARMED" /\ ~irq'[i].masked
    PROVE  /\ BindingsAgree' /\ UnmaskedIsArmed' /\ ArmedIsUnmasked'
           /\ binding' \in [Irqs -> BindingRecord] /\ masked' \in [Gsis -> BOOLEAN]
<1> USE PciIrqAssumption
<1>1. binding \in [Irqs -> BindingRecord] /\ masked \in [Gsis -> BOOLEAN] /\ GsiOf[i] \in Gsis
    BY Zenon DEF IInv, TypeOK
<1>2. /\ masked' \in [Gsis -> BOOLEAN] /\ masked'[GsiOf[i]] = on
      /\ \A g \in Gsis : g # GsiOf[i] => masked'[g] = masked[g]
    BY Zenon, <1>1 DEF SourceMask
<1>3. /\ binding' \in [Irqs -> BindingRecord]
      /\ binding'[i].id = binding[i].id /\ binding'[i].vector = binding[i].vector
      /\ binding'[i].masked = on
      /\ \A j \in Irqs : j # i => binding'[j] = binding[j]
    BY Zenon, <1>1 DEF SourceMask, BindingRecord
<1>4. Bound(i) /\ binding[i].id # 0 /\ irq[i].id = binding[i].id
    BY Zenon DEF BindingValid, IInv, BindingsAgree
<1>5. \A j \in Irqs : Bound(j)' <=> Bound(j)
  <2>1. Unbound.id = 0
      BY Zenon DEF Unbound
  <2>2. binding'[i] # Unbound
      BY Zenon, <2>1, <1>3, <1>4
  <2> QED
      BY Zenon, <2>2, <1>3, <1>4 DEF Bound
<1>6. \A j \in Irqs : j # i /\ Bound(j) => masked'[GsiOf[j]] = masked[GsiOf[j]]
    BY Zenon, <1>2, <1>4 DEF IInv, BindingsAgree
<1>7. BindingsAgree'
  <2>1. ASSUME NEW j \in Irqs, Bound(j)'
        PROVE  /\ binding'[j].id # 0 /\ binding'[j].vector \in Vectors
               /\ masked'[GsiOf[j]] = binding'[j].masked
      BY Zenon, <2>1, <1>2, <1>3, <1>4, <1>5, <1>6 DEF IInv, BindingsAgree
  <2> QED
      BY Zenon, <2>1, <1>5 DEF IInv, BindingsAgree, Vectors
<1>8. UnmaskedIsArmed'
  <2> SUFFICES ASSUME NEW g \in Gsis, ~masked'[g]
               PROVE  \E j \in Irqs : /\ GsiOf[j] = g /\ BindingValid(j)'
                                      /\ irq'[j].state = "ARMED" /\ ~irq'[j].masked
      BY Zenon DEF UnmaskedIsArmed
  <2>1. CASE g = GsiOf[i]
    <3>1. on = FALSE /\ BindingValid(i)'
        BY Zenon, <2>1, <1>2, <1>3, <1>4, <1>5 DEF BindingValid
    <3> QED
        BY Zenon, <2>1, <3>1
  <2>2. CASE g # GsiOf[i]
    <3>1. PICK j \in Irqs : /\ GsiOf[j] = g /\ BindingValid(j)
                            /\ irq[j].state = "ARMED" /\ ~irq[j].masked
        BY Zenon, <2>2, <1>2 DEF IInv, UnmaskedIsArmed
    <3>2. j # i /\ Bound(j)
        BY Zenon, <2>2, <3>1 DEF BindingValid
    <3>3. BindingValid(j)'
        BY Zenon, <3>1, <3>2, <1>3, <1>5, <1>6 DEF BindingValid
    <3> QED
        BY Zenon, <3>1, <3>2, <3>3
  <2> QED
      BY Zenon, <2>1, <2>2
<1>9. ArmedIsUnmasked'
  <2> SUFFICES ASSUME NEW j \in Irqs, Serving(j)' PROVE Bound(j)' /\ ~masked'[GsiOf[j]]
      BY Zenon DEF ArmedIsUnmasked
  <2>1. CASE j = i
      BY Zenon, <2>1, <1>2, <1>4, <1>5
  <2>2. CASE j # i
    <3>1. Bound(j) /\ ~masked[GsiOf[j]]
        BY Zenon, <2>2 DEF Serving, IInv, ArmedIsUnmasked
    <3> QED
        BY Zenon, <2>2, <3>1, <1>5, <1>6
  <2> QED
      BY Zenon, <2>1, <2>2
<1> QED
    BY Zenon, <1>2, <1>3, <1>7, <1>8, <1>9

(* A lease is given back while the resource does not serve. *)
LEMMA ReleaseStep ==
    ASSUME IInv, NEW i \in Irqs, Bound(i), LeaseRelease(i),
           \A j \in Irqs : j # i => irq'[j] = irq[j] /\ assignment'[j] = assignment[j],
           ~Serving(i)'
    PROVE  /\ BindingsAgree' /\ UnmaskedIsArmed' /\ ArmedIsUnmasked'
           /\ binding' \in [Irqs -> BindingRecord] /\ masked' \in [Gsis -> BOOLEAN]
           /\ inflight' \in [Gsis -> BOOLEAN]
<1> USE PciIrqAssumption
<1>1. /\ binding \in [Irqs -> BindingRecord] /\ masked \in [Gsis -> BOOLEAN] /\ GsiOf[i] \in Gsis
      /\ inflight \in [Gsis -> BOOLEAN] /\ Unbound \in BindingRecord
    BY DEF IInv, TypeOK, Unbound, BindingRecord
<1>2. /\ masked' \in [Gsis -> BOOLEAN] /\ masked'[GsiOf[i]] = TRUE
      /\ \A g \in Gsis : g # GsiOf[i] => masked'[g] = masked[g]
    BY Zenon, <1>1 DEF LeaseRelease
<1>3. /\ binding' \in [Irqs -> BindingRecord] /\ binding'[i] = Unbound
      /\ \A j \in Irqs : j # i => binding'[j] = binding[j]
    BY Zenon, <1>1 DEF LeaseRelease
<1>4. inflight' \in [Gsis -> BOOLEAN]
  <2>1. PICK irr \in {FALSE, inflight[GsiOf[i]]} : inflight' = [inflight EXCEPT ![GsiOf[i]] = irr]
      BY Zenon DEF LeaseRelease
  <2>2. irr \in BOOLEAN
      BY Zenon, <1>1
  <2> QED
      BY Zenon, <1>1, <2>1, <2>2
<1>5. \A j \in Irqs : Bound(j)' <=> (Bound(j) /\ j # i)
    BY Zenon, <1>3 DEF Bound
<1>6. \A j \in Irqs : j # i /\ Bound(j) => masked'[GsiOf[j]] = masked[GsiOf[j]]
    BY Zenon, <1>2 DEF IInv, BindingsAgree
<1>7. BindingsAgree'
  <2>1. ASSUME NEW j \in Irqs, Bound(j)'
        PROVE  /\ binding'[j].id # 0 /\ binding'[j].vector \in Vectors
               /\ masked'[GsiOf[j]] = binding'[j].masked
      BY Zenon, <2>1, <1>3, <1>5, <1>6 DEF IInv, BindingsAgree
  <2> QED
      BY Zenon, <2>1, <1>5 DEF IInv, BindingsAgree, Vectors
<1>8. UnmaskedIsArmed'
  <2> SUFFICES ASSUME NEW g \in Gsis, ~masked'[g]
               PROVE  \E j \in Irqs : /\ GsiOf[j] = g /\ BindingValid(j)'
                                      /\ irq'[j].state = "ARMED" /\ ~irq'[j].masked
      BY Zenon DEF UnmaskedIsArmed
  <2>1. g # GsiOf[i]
      BY Zenon, <1>2
  <2>2. PICK j \in Irqs : /\ GsiOf[j] = g /\ BindingValid(j)
                          /\ irq[j].state = "ARMED" /\ ~irq[j].masked
      BY Zenon, <2>1, <1>2 DEF IInv, UnmaskedIsArmed
  <2>3. j # i /\ Bound(j)
      BY Zenon, <2>1, <2>2 DEF BindingValid
  <2>4. BindingValid(j)'
      BY Zenon, <2>2, <2>3, <1>3, <1>5, <1>6 DEF BindingValid
  <2> QED
      BY Zenon, <2>2, <2>3, <2>4
<1>9. ArmedIsUnmasked'
  <2> SUFFICES ASSUME NEW j \in Irqs, Serving(j)' PROVE Bound(j)' /\ ~masked'[GsiOf[j]]
      BY Zenon DEF ArmedIsUnmasked
  <2>1. j # i
      BY Zenon
  <2>2. Bound(j) /\ ~masked[GsiOf[j]]
      BY Zenon, <2>1 DEF Serving, IInv, ArmedIsUnmasked
  <2> QED
      BY Zenon, <2>1, <2>2, <1>5, <1>6
<1> QED
    BY Zenon, <1>2, <1>3, <1>4, <1>7, <1>8, <1>9

-----------------------------------------------------------------------------
(* The whole invariant over a step of one resource *)

(* The record and mailbox of a resource change while its input is masked or unmasked. *)
LEMMA RoutedStep ==
    ASSUME IInv, NEW i \in Irqs, BindingValid(i), NEW on \in BOOLEAN, SourceMask(i, on),
           NEW r, NEW m, NEW a \in {"ASSIGNED", "QUARANTINED", "FAILED"},
           RecordSound(r, m, got[i], closed[i]), r.id = irq[i].id,
           IF on THEN ~(r.state = "ARMED" /\ a = "ASSIGNED" /\ r.next # 0)
           ELSE r.state = "ARMED" /\ ~r.masked,
           irq' = [irq EXCEPT ![i] = r], mailbox' = [mailbox EXCEPT ![i] = m],
           assignment' = [assignment EXCEPT ![i] = a],
           UNCHANGED <<driver, issued>>,
           inflight' \in [Gsis -> BOOLEAN], asserted' \subseteq Irqs, pended' \subseteq Vectors
    PROVE  IInv'
<1>1. TypeOK
    BY Zenon DEF IInv
<1>2. got' = [got EXCEPT ![i] = got[i]] /\ closed' = [closed EXCEPT ![i] = closed[i]]
    BY Zenon, <1>1 DEF TypeOK, driver
<1>3. /\ RecordsSound'
      /\ irq' \in [Irqs -> IrqRecord] /\ mailbox' \in [Irqs -> 0..SequenceLimit]
      /\ got' \in [Irqs -> 0..SequenceLimit] /\ closed' \in [Irqs -> BOOLEAN]
    BY Zenon, <1>2, RecordStep
<1>4. /\ irq'[i] = r /\ assignment'[i] = a
      /\ \A j \in Irqs : j # i => irq'[j] = irq[j] /\ assignment'[j] = assignment[j]
    BY Zenon, <1>1 DEF TypeOK
<1>5. /\ BindingsAgree' /\ UnmaskedIsArmed' /\ ArmedIsUnmasked'
      /\ binding' \in [Irqs -> BindingRecord] /\ masked' \in [Gsis -> BOOLEAN]
    BY <1>3, <1>4, SourceStep DEF Serving
<1>6. TypeOK'
    BY Zenon, <1>1, <1>3, <1>5 DEF TypeOK, driver
<1> QED
    BY Zenon, <1>3, <1>5, <1>6 DEF IInv

(* The same while its lease is given back. *)
LEMMA ReleasedStep ==
    ASSUME IInv, NEW i \in Irqs, Bound(i), LeaseRelease(i),
           NEW r, NEW m, NEW a \in {"ASSIGNED", "QUARANTINED", "FAILED"},
           RecordSound(r, m, got[i], closed[i]), r.state # "ARMED",
           irq' = [irq EXCEPT ![i] = r], mailbox' = [mailbox EXCEPT ![i] = m],
           assignment' = [assignment EXCEPT ![i] = a],
           UNCHANGED <<driver, asserted, pended, issued>>
    PROVE  IInv'
<1>1. TypeOK
    BY Zenon DEF IInv
<1>2. got' = [got EXCEPT ![i] = got[i]] /\ closed' = [closed EXCEPT ![i] = closed[i]]
    BY Zenon, <1>1 DEF TypeOK, driver
<1>3. /\ RecordsSound'
      /\ irq' \in [Irqs -> IrqRecord] /\ mailbox' \in [Irqs -> 0..SequenceLimit]
      /\ got' \in [Irqs -> 0..SequenceLimit] /\ closed' \in [Irqs -> BOOLEAN]
    BY Zenon, <1>2, RecordStep
<1>4. /\ irq'[i] = r
      /\ \A j \in Irqs : j # i => irq'[j] = irq[j] /\ assignment'[j] = assignment[j]
    BY Zenon, <1>1 DEF TypeOK
<1>5. /\ BindingsAgree' /\ UnmaskedIsArmed' /\ ArmedIsUnmasked'
      /\ binding' \in [Irqs -> BindingRecord] /\ masked' \in [Gsis -> BOOLEAN]
      /\ inflight' \in [Gsis -> BOOLEAN]
    BY Zenon, <1>4, ReleaseStep DEF Serving
<1>6. TypeOK'
    BY Zenon, <1>1, <1>3, <1>5 DEF TypeOK, driver
<1> QED
    BY Zenon, <1>3, <1>5, <1>6 DEF IInv

(* The same while bindings and masks stay, the resource not being armed. *)
LEMMA UnroutedStep ==
    ASSUME IInv, NEW i \in Irqs, irq[i].state # "ARMED" \/ ~Bound(i),
           NEW r, NEW m, NEW g, NEW c, NEW a \in {"ASSIGNED", "QUARANTINED", "FAILED"},
           RecordSound(r, m, g, c), r.state # "ARMED",
           irq' = [irq EXCEPT ![i] = r], mailbox' = [mailbox EXCEPT ![i] = m],
           got' = [got EXCEPT ![i] = g], closed' = [closed EXCEPT ![i] = c],
           assignment' = [assignment EXCEPT ![i] = a],
           held' \in [Irqs -> BOOLEAN], receiver' \in [Irqs -> {"NONE", "PENDING", "TERMINAL"}],
           issued' \in 0..IdLimit, UNCHANGED <<binding, masked, hardware>>
    PROVE  IInv'
<1>1. TypeOK
    BY Zenon DEF IInv
<1>2. /\ RecordsSound'
      /\ irq' \in [Irqs -> IrqRecord] /\ mailbox' \in [Irqs -> 0..SequenceLimit]
      /\ got' \in [Irqs -> 0..SequenceLimit] /\ closed' \in [Irqs -> BOOLEAN]
    BY Zenon, RecordStep
<1>3. /\ irq'[i] = r
      /\ \A j \in Irqs : j # i => irq'[j] = irq[j] /\ assignment'[j] = assignment[j]
    BY Zenon, <1>1 DEF TypeOK
<1>4. \A j \in Irqs : Bound(j)' <=> Bound(j)
    BY Zenon DEF Bound
<1>5. BindingsAgree'
    BY Zenon, <1>4 DEF IInv, BindingsAgree, Vectors
<1>6. \A j \in Irqs : irq[j].state = "ARMED" /\ BindingValid(j) => j # i /\ BindingValid(j)'
    BY Zenon, <1>3, <1>4 DEF BindingValid
<1>7. UnmaskedIsArmed'
    BY <1>3, <1>6 DEF IInv, UnmaskedIsArmed
<1>8. ArmedIsUnmasked'
    BY Zenon, <1>3, <1>4 DEF IInv, ArmedIsUnmasked, Serving
<1>9. TypeOK'
    BY Zenon, <1>1, <1>2 DEF TypeOK, hardware
<1> QED
    BY Zenon, <1>2, <1>5, <1>7, <1>8, <1>9 DEF IInv

(* Neither records nor bindings nor masks change. *)
LEMMA QuietStep ==
    ASSUME IInv, UNCHANGED <<irq, binding, mailbox, closed, got, masked>>,
           assignment' \in [Irqs -> {"ASSIGNED", "QUARANTINED", "FAILED"}],
           \A i \in Irqs : irq[i].state = "ARMED" /\ assignment'[i] = "ASSIGNED" =>
                               assignment[i] = "ASSIGNED",
           held' \in [Irqs -> BOOLEAN], receiver' \in [Irqs -> {"NONE", "PENDING", "TERMINAL"}],
           inflight' \in [Gsis -> BOOLEAN], asserted' \subseteq Irqs, pended' \subseteq Vectors,
           issued' \in 0..IdLimit
    PROVE  IInv'
<1>1. TypeOK /\ RecordsSound
    BY Zenon DEF IInv
<1>2. TypeOK'
    BY Zenon, <1>1 DEF TypeOK
<1>3. RecordsSound'
    BY Zenon, <1>1 DEF RecordsSound
<1>4. \A i \in Irqs : /\ Bound(i)' <=> Bound(i)
                      /\ BindingValid(i)' <=> BindingValid(i)
                      /\ Serving(i)' => Serving(i)
    BY Zenon DEF Bound, BindingValid, Serving
<1>5. BindingsAgree'
    BY Zenon, <1>4 DEF IInv, BindingsAgree, Vectors
<1>6. UnmaskedIsArmed' /\ ArmedIsUnmasked'
    BY Zenon, <1>4 DEF IInv, UnmaskedIsArmed, ArmedIsUnmasked
<1> QED
    BY Zenon, <1>2, <1>3, <1>5, <1>6 DEF IInv

-----------------------------------------------------------------------------
(* What the operations make of a record *)

(* A resource that is not armed or waiting for its driver has an empty mailbox. *)
LEMMA RecordFacts ==
    ASSUME IInv, NEW i \in Irqs
    PROVE  /\ RecordSound(irq[i], mailbox[i], got[i], closed[i])
           /\ irq[i] \in IrqRecord /\ irq = [irq EXCEPT ![i] = irq[i]]
           /\ mailbox = [mailbox EXCEPT ![i] = mailbox[i]] /\ got = [got EXCEPT ![i] = got[i]]
           /\ closed = [closed EXCEPT ![i] = closed[i]]
           /\ assignment = [assignment EXCEPT ![i] = assignment[i]]
           /\ assignment[i] \in {"ASSIGNED", "QUARANTINED", "FAILED"}
           /\ irq[i].pending = 0 => mailbox[i] = 0
<1>1. RecordSound(irq[i], mailbox[i], got[i], closed[i])
    BY Zenon DEF IInv, RecordsSound
<1>2. irq[i].pending = 0 => mailbox[i] = 0
    BY Zenon, <1>1 DEF RecordSound
<1> QED
    BY Zenon, <1>1, <1>2 DEF IInv, TypeOK

LEMMA Zeros == 0 \in 0..SequenceLimit /\ 0 \in 0..StormThreshold
BY PciIrqAssumption

LEMMA ArmedSound ==
    ASSUME IInv, NEW i \in Irqs, irq[i].state # "INVALID", mailbox[i] = 0
    PROVE  LET r == [Armed(i) EXCEPT !.pending = 0]
           IN  /\ RecordSound(r, 0, got[i], closed[i])
               /\ r.id = irq[i].id /\ r.state = "ARMED" /\ ~r.masked
               /\ irq[i].pending = 0 => r = Armed(i)
<1> DEFINE r == [Armed(i) EXCEPT !.pending = 0]
<1>1. RecordSound(irq[i], 0, got[i], closed[i]) /\ irq[i] \in IrqRecord
    BY Zenon, RecordFacts
<1>2. /\ r \in IrqRecord /\ r.id = irq[i].id /\ r.state = "ARMED" /\ r.masked = FALSE
      /\ r.pending = 0 /\ r.next = irq[i].next
      /\ irq[i].pending = 0 => r = Armed(i)
    BY Zenon, <1>1, Zeros DEF Armed, IrqRecord
<1> HIDE DEF r
<1>3. RecordSound(r, 0, got[i], closed[i])
    BY <1>1, <1>2, PciIrqAssumption DEF RecordSound, IrqRecord
<1> QED
    BY Zenon, <1>2, <1>3 DEF r

(* Disarming discards the event that the driver has not consumed. *)
LEMMA DisarmSound ==
    ASSUME IInv, NEW i \in Irqs, ResourceDisarm(i)
    PROVE  \E r, m : /\ irq' = [irq EXCEPT ![i] = r] /\ mailbox' = [mailbox EXCEPT ![i] = m]
                     /\ RecordSound(r, m, got[i], closed[i])
                     /\ r.id = irq[i].id /\ r.state # "ARMED"
<1>1. /\ RecordSound(irq[i], mailbox[i], got[i], closed[i]) /\ irq[i] \in IrqRecord
      /\ irq = [irq EXCEPT ![i] = irq[i]] /\ mailbox = [mailbox EXCEPT ![i] = mailbox[i]]
    BY Zenon, RecordFacts
<1>2. CASE ~Delivering(i)
  <2>1. irq' = [irq EXCEPT ![i] = irq[i]] /\ mailbox' = [mailbox EXCEPT ![i] = mailbox[i]]
      BY Zenon, <1>1, <1>2 DEF ResourceDisarm
  <2>2. irq[i].state # "ARMED"
      BY Zenon, <1>2 DEF Delivering
  <2> QED
      BY Zenon, <1>1, <2>1, <2>2
<1>3. CASE Delivering(i)
  <2> DEFINE r == Disarmed(i)
  <2>1. irq' = [irq EXCEPT ![i] = r] /\ mailbox' = [mailbox EXCEPT ![i] = 0]
      BY Zenon, <1>3 DEF ResourceDisarm
  <2>2. /\ r \in IrqRecord /\ r.id = irq[i].id /\ r.state = "DISARMED" /\ r.pending = 0
        /\ r.next = irq[i].next /\ irq[i].state # "INVALID"
      BY Zenon, <1>1, <1>3, Zeros DEF Disarmed, IrqRecord, Delivering
  <2> HIDE DEF r
  <2>3. RecordSound(r, 0, got[i], closed[i])
      BY <1>1, <2>2, PciIrqAssumption DEF RecordSound, IrqRecord
  <2>4. r.state # "ARMED"
      BY Zenon, <2>2
  <2> QED
      BY Zenon, <2>1, <2>2, <2>3, <2>4
<1> QED
    BY Zenon, <1>2, <1>3

(* An interrupt publishes at most one event, of a new sequence number; a serving *)
(* resource stops serving until the event is acknowledged.                       *)
LEMMA SignalSound ==
    ASSUME IInv, NEW i \in Irqs, Signal(i)
    PROVE  \E r, m : /\ irq' = [irq EXCEPT ![i] = r] /\ mailbox' = [mailbox EXCEPT ![i] = m]
                     /\ RecordSound(r, m, got[i], closed[i]) /\ r.id = irq[i].id
                     /\ ~(r.state = "ARMED" /\ assignment[i] = "ASSIGNED" /\ r.next # 0)
<1> DEFINE q == irq[i]
           publish == /\ assignment[i] = "ASSIGNED" /\ q.state = "ARMED"
                      /\ ~q.masked /\ q.pending = 0 /\ q.next # 0
<1>1. /\ RecordSound(q, mailbox[i], got[i], closed[i]) /\ q \in IrqRecord
      /\ mailbox = [mailbox EXCEPT ![i] = mailbox[i]]
      /\ q.pending = 0 => mailbox[i] = 0
    BY Zenon, RecordFacts
<1>2. NextSequence(q.next) \in 0..SequenceLimit /\ (NextSequence(q.next) # 0 => NextSequence(q.next) = q.next + 1)
    BY <1>1, PciIrqAssumption DEF NextSequence, IrqRecord
<1>3. CASE publish /\ EventAccepted(i)
  <2> DEFINE r == Published(q)
  <2>1. irq' = [irq EXCEPT ![i] = r] /\ mailbox' = [mailbox EXCEPT ![i] = q.next]
      BY Zenon, <1>3 DEF Signal
  <2>2. /\ r \in IrqRecord /\ r.id = q.id /\ r.state = "PENDING" /\ r.pending = q.next
        /\ r.next = NextSequence(q.next)
      BY Zenon, <1>1, <1>2 DEF Published, IrqRecord
  <2>3. q.next # 0 /\ q.state # "INVALID"
      BY Zenon, <1>3
  <2> HIDE DEF r, q
  <2>4. RecordSound(r, q.next, got[i], closed[i])
      BY <1>1, <1>2, <2>2, <2>3, PciIrqAssumption DEF RecordSound, IrqRecord
  <2> QED
      BY Zenon, <2>1, <2>2, <2>4 DEF q
<1>4. CASE publish /\ ~EventAccepted(i)
  <2> DEFINE r == Unpublished(q)
  <2>1. irq' = [irq EXCEPT ![i] = r] /\ mailbox' = [mailbox EXCEPT ![i] = mailbox[i]]
      BY Zenon, <1>1, <1>4 DEF Signal
  <2>2. /\ r \in IrqRecord /\ r.id = q.id /\ r.state = "STORMED" /\ r.pending = 0
        /\ r.next = NextSequence(q.next)
      BY Zenon, <1>1, <1>2, Zeros DEF Unpublished, IrqRecord
  <2>3. q.next # 0 /\ q.state # "INVALID" /\ mailbox[i] = 0
      BY Zenon, <1>1, <1>4
  <2> HIDE DEF r, q
  <2>4. RecordSound(r, mailbox[i], got[i], closed[i])
      BY <1>1, <1>2, <2>2, <2>3, PciIrqAssumption DEF RecordSound, IrqRecord
  <2> QED
      BY Zenon, <2>1, <2>2, <2>4 DEF q
<1>5. CASE ~publish /\ assignment[i] = "ASSIGNED" /\ q.state \in {"PENDING", "STORMED"}
  <2> DEFINE r == Suppressed(q)
  <2>1. irq' = [irq EXCEPT ![i] = r] /\ mailbox' = [mailbox EXCEPT ![i] = mailbox[i]]
      BY Zenon, <1>1, <1>5 DEF Signal
  <2>2. /\ r \in IrqRecord /\ r.id = q.id /\ r.state \in {"PENDING", "STORMED"}
        /\ r.pending = q.pending /\ r.next = q.next
    <3> DEFINE n == IF q.suppressed < StormThreshold THEN q.suppressed + 1 ELSE q.suppressed
               s == IF n >= StormThreshold THEN "STORMED" ELSE q.state
    <3>1. r = [q EXCEPT !.suppressed = n, !.masked = TRUE, !.state = s]
        BY Zenon DEF Suppressed
    <3>2. n \in 0..StormThreshold /\ s \in {"PENDING", "STORMED"}
        BY <1>1, <1>5, PciIrqAssumption DEF IrqRecord
    <3> HIDE DEF r, n, s, q
    <3> QED
        BY Zenon, <1>1, <3>1, <3>2 DEF IrqRecord
  <2>3. q.state \in {"PENDING", "STORMED"}
      BY Zenon, <1>5
  <2> HIDE DEF r, q
  <2>4. RecordSound(r, mailbox[i], got[i], closed[i])
      BY Zenon, <1>1, <2>2, <2>3, PciIrqAssumption DEF RecordSound, IrqRecord
  <2>5. r.state # "ARMED"
      BY Zenon, <2>2
  <2> QED
      BY Zenon, <2>1, <2>2, <2>4, <2>5 DEF q
<1>6. CASE ~publish /\ ~(assignment[i] = "ASSIGNED" /\ q.state \in {"PENDING", "STORMED"})
  <2>1. irq' = [irq EXCEPT ![i] = q] /\ mailbox' = [mailbox EXCEPT ![i] = mailbox[i]]
      BY Zenon, <1>1, <1>6 DEF Signal
  <2>2. ~(q.state = "ARMED" /\ assignment[i] = "ASSIGNED" /\ q.next # 0)
      BY Zenon, <1>1, <1>6 DEF RecordSound
  <2> QED
      BY Zenon, <1>1, <2>1, <2>2
<1> QED
    BY Zenon, <1>3, <1>4, <1>5, <1>6

-----------------------------------------------------------------------------
(* The actions *)

LEMMA CreateInv ==
    ASSUME IInv, NEW i \in Irqs, Create(i)
    PROVE  IInv'
<1> DEFINE r == NewIrq(issued + 1)
<1>1. /\ RecordSound(irq[i], mailbox[i], got[i], closed[i])
      /\ mailbox = [mailbox EXCEPT ![i] = mailbox[i]] /\ got = [got EXCEPT ![i] = got[i]]
      /\ closed = [closed EXCEPT ![i] = closed[i]]
      /\ assignment = [assignment EXCEPT ![i] = assignment[i]]
      /\ assignment[i] \in {"ASSIGNED", "QUARANTINED", "FAILED"}
    BY Zenon, RecordFacts
<1>2. irq[i].state = "INVALID" /\ TypeOK /\ issued \in 0..IdLimit /\ issued < IdLimit
    BY Zenon DEF Create, IInv, TypeOK
<1>3. got[i] = 0 /\ mailbox[i] = 0
    BY Zenon, <1>1, <1>2 DEF RecordSound
<1>4. issued + 1 \in 0..IdLimit /\ issued + 1 # 0 /\ 1 \in 0..SequenceLimit
    BY <1>2, PciIrqAssumption
<1>5. /\ r \in IrqRecord /\ r.id = issued + 1 /\ r.state = "DISARMED" /\ r.pending = 0 /\ r.next = 1
    BY Zenon, <1>4, Zeros DEF NewIrq, NoIrq, IrqRecord
<1>6. /\ irq' = [irq EXCEPT ![i] = r] /\ issued' = issued + 1
      /\ held' = [held EXCEPT ![i] = TRUE]
      /\ UNCHANGED <<assignment, binding, mailbox, closed, receiver, got, masked, hardware>>
    BY Zenon DEF Create
<1> HIDE DEF r
<1>7. RecordSound(r, mailbox[i], got[i], closed[i])
    BY <1>1, <1>3, <1>4, <1>5 DEF RecordSound
<1>8. held' \in [Irqs -> BOOLEAN] /\ receiver' \in [Irqs -> {"NONE", "PENDING", "TERMINAL"}]
    BY Zenon, <1>2, <1>6 DEF TypeOK
<1>9. irq[i].state # "ARMED" /\ r.state # "ARMED"
    BY Zenon, <1>2, <1>5
<1>10. /\ issued' \in 0..IdLimit /\ mailbox' = [mailbox EXCEPT ![i] = mailbox[i]]
       /\ got' = [got EXCEPT ![i] = got[i]] /\ closed' = [closed EXCEPT ![i] = closed[i]]
       /\ assignment' = [assignment EXCEPT ![i] = assignment[i]]
    BY Zenon, <1>1, <1>4, <1>6
<1>11. /\ assignment[i] \in {"ASSIGNED", "QUARANTINED", "FAILED"}
       /\ irq' = [irq EXCEPT ![i] = r] /\ UNCHANGED <<binding, masked, hardware>>
    BY Zenon, <1>1, <1>6
<1> QED
    BY Zenon, <1>7, <1>8, <1>9, <1>10, <1>11, UnroutedStep

LEMMA DestroyInv ==
    ASSUME IInv, NEW i \in Irqs, Destroy(i)
    PROVE  IInv'
<1>1. /\ mailbox = [mailbox EXCEPT ![i] = mailbox[i]]
      /\ assignment = [assignment EXCEPT ![i] = assignment[i]]
      /\ assignment[i] \in {"ASSIGNED", "QUARANTINED", "FAILED"}
    BY Zenon, RecordFacts
<1>2. irq[i].state # "ARMED" /\ NoIrq.state # "ARMED" /\ mailbox[i] = 0 /\ TypeOK
    BY Zenon DEF Destroy, NoIrq, IInv
<1>3. NoIrq \in IrqRecord
    BY PciIrqAssumption DEF NoIrq, IrqRecord
<1>4. RecordSound(NoIrq, mailbox[i], 0, FALSE)
    BY Zenon, <1>2, <1>3, Zeros DEF RecordSound, NoIrq
<1>5. /\ irq' = [irq EXCEPT ![i] = NoIrq] /\ closed' = [closed EXCEPT ![i] = FALSE]
      /\ got' = [got EXCEPT ![i] = 0]
      /\ UNCHANGED <<assignment, held, binding, mailbox, receiver, masked, hardware, issued>>
    BY Zenon DEF Destroy
<1>6. /\ held' \in [Irqs -> BOOLEAN] /\ receiver' \in [Irqs -> {"NONE", "PENDING", "TERMINAL"}]
      /\ issued' \in 0..IdLimit
    BY Zenon, <1>2, <1>5 DEF TypeOK
<1> QED
    BY Zenon, <1>1, <1>2, <1>4, <1>5, <1>6, UnroutedStep

(* The bindings do not look at the mailbox, the driver or the endpoint. *)
LEMMA MailboxStep ==
    ASSUME IInv, NEW i \in Irqs, NEW m, NEW g, NEW c, RecordSound(irq[i], m, g, c),
           mailbox' = [mailbox EXCEPT ![i] = m],
           got' = [got EXCEPT ![i] = g], closed' = [closed EXCEPT ![i] = c],
           receiver' \in [Irqs -> {"NONE", "PENDING", "TERMINAL"}],
           UNCHANGED <<assignment, held, irq, binding, masked, hardware, issued>>
    PROVE  IInv'
<1>1. irq' = [irq EXCEPT ![i] = irq[i]]
    BY Zenon, RecordFacts
<1>2. /\ RecordsSound'
      /\ irq' \in [Irqs -> IrqRecord] /\ mailbox' \in [Irqs -> 0..SequenceLimit]
      /\ got' \in [Irqs -> 0..SequenceLimit] /\ closed' \in [Irqs -> BOOLEAN]
    BY Zenon, <1>1, RecordStep
<1>3. TypeOK'
    BY Zenon, <1>2 DEF IInv, TypeOK, hardware
<1>4. \A j \in Irqs : /\ Bound(j)' <=> Bound(j)
                      /\ BindingValid(j)' <=> BindingValid(j)
                      /\ Serving(j)' <=> Serving(j)
    BY Zenon DEF Bound, BindingValid, Serving
<1>5. BindingsAgree'
    BY Zenon, <1>4 DEF IInv, BindingsAgree, Vectors
<1>6. UnmaskedIsArmed' /\ ArmedIsUnmasked'
    BY Zenon, <1>4 DEF IInv, UnmaskedIsArmed, ArmedIsUnmasked
<1> QED
    BY Zenon, <1>2, <1>3, <1>5, <1>6 DEF IInv

LEMMA OwnerExitInv ==
    ASSUME IInv, NEW i \in Irqs, OwnerExit(i)
    PROVE  IInv'
<1>1. RecordSound(irq[i], mailbox[i], got[i], closed[i]) /\ got = [got EXCEPT ![i] = got[i]]
    BY Zenon, RecordFacts
<1>2. RecordSound(irq[i], 0, got[i], TRUE)
    BY Zenon, <1>1, Zeros DEF RecordSound
<1>3. receiver' \in [Irqs -> {"NONE", "PENDING", "TERMINAL"}]
    BY Zenon DEF OwnerExit, IInv, TypeOK
<1> QED
    BY Zenon, <1>1, <1>2, <1>3, MailboxStep DEF OwnerExit

LEMMA ReceiveInv ==
    ASSUME IInv, NEW i \in Irqs, Receive(i)
    PROVE  IInv'
<1>1. /\ RecordSound(irq[i], mailbox[i], got[i], closed[i]) /\ closed = [closed EXCEPT ![i] = closed[i]]
      /\ mailbox[i] # 0
    BY Zenon, RecordFacts DEF Receive
<1>2. RecordSound(irq[i], 0, mailbox[i], closed[i])
  <2>1. irq[i].state # "INVALID"
      BY Zenon, <1>1 DEF RecordSound
  <2> QED
      BY Zenon, <1>1, <2>1, Zeros DEF RecordSound
<1>3. receiver' \in [Irqs -> {"NONE", "PENDING", "TERMINAL"}]
    BY Zenon DEF Receive, IInv, TypeOK
<1> QED
    BY Zenon, <1>1, <1>2, <1>3, MailboxStep DEF Receive

LEMMA ArmInv ==
    ASSUME IInv, NEW i \in Irqs, Arm(i)
    PROVE  IInv'
<1> DEFINE r == [Armed(i) EXCEPT !.pending = 0]
<1>1. /\ RecordSound(irq[i], mailbox[i], got[i], closed[i])
      /\ mailbox = [mailbox EXCEPT ![i] = mailbox[i]]
      /\ assignment = [assignment EXCEPT ![i] = assignment[i]]
      /\ assignment[i] \in {"ASSIGNED", "QUARANTINED", "FAILED"}
    BY Zenon, RecordFacts
<1>2. irq[i].pending = 0 /\ mailbox[i] = 0 /\ irq[i].state # "INVALID"
    BY Zenon, <1>1 DEF Arm, RecordSound
<1>3. /\ RecordSound(r, 0, got[i], closed[i]) /\ r.id = irq[i].id /\ r.state = "ARMED"
      /\ ~r.masked /\ r = Armed(i)
    BY Zenon, <1>2, ArmedSound
<1> HIDE DEF r
<1>4. /\ BindingValid(i) /\ SourceMask(i, FALSE) /\ irq' = [irq EXCEPT ![i] = r]
      /\ mailbox' = [mailbox EXCEPT ![i] = 0] /\ assignment' = [assignment EXCEPT ![i] = assignment[i]]
      /\ UNCHANGED <<driver, issued>>
    BY Zenon, <1>1, <1>2, <1>3 DEF Arm
<1>5. inflight' \in [Gsis -> BOOLEAN] /\ asserted' \subseteq Irqs /\ pended' \subseteq Vectors
    BY Zenon DEF Arm, IInv, TypeOK, hardware
<1> QED
    BY Zenon, <1>1, <1>3, <1>4, <1>5, RoutedStep

LEMMA RecoverStormInv ==
    ASSUME IInv, NEW i \in Irqs, RecoverStorm(i)
    PROVE  IInv'
<1> DEFINE r == [Armed(i) EXCEPT !.pending = 0]
<1>1. /\ mailbox = [mailbox EXCEPT ![i] = mailbox[i]]
      /\ assignment = [assignment EXCEPT ![i] = assignment[i]]
      /\ assignment[i] \in {"ASSIGNED", "QUARANTINED", "FAILED"}
    BY Zenon, RecordFacts
<1>2. irq[i].pending = 0 /\ mailbox[i] = 0 /\ irq[i].state # "INVALID"
    BY Zenon DEF RecoverStorm
<1>3. /\ RecordSound(r, 0, got[i], closed[i]) /\ r.id = irq[i].id /\ r.state = "ARMED"
      /\ ~r.masked /\ r = Armed(i)
    BY Zenon, <1>2, ArmedSound
<1> HIDE DEF r
<1>4. /\ BindingValid(i) /\ SourceMask(i, FALSE) /\ irq' = [irq EXCEPT ![i] = r]
      /\ mailbox' = [mailbox EXCEPT ![i] = 0] /\ assignment' = [assignment EXCEPT ![i] = assignment[i]]
      /\ UNCHANGED <<driver, issued>>
    BY Zenon, <1>1, <1>2, <1>3 DEF RecoverStorm
<1>5. inflight' \in [Gsis -> BOOLEAN] /\ asserted' \subseteq Irqs /\ pended' \subseteq Vectors
    BY Zenon DEF RecoverStorm, IInv, TypeOK, hardware
<1> QED
    BY Zenon, <1>1, <1>3, <1>4, <1>5, RoutedStep

LEMMA DisarmInv ==
    ASSUME IInv, NEW i \in Irqs, Disarm(i)
    PROVE  IInv'
<1>1. PICK r, m : /\ irq' = [irq EXCEPT ![i] = r] /\ mailbox' = [mailbox EXCEPT ![i] = m]
                  /\ RecordSound(r, m, got[i], closed[i])
                  /\ r.id = irq[i].id /\ r.state # "ARMED"
    BY Zenon, DisarmSound DEF Disarm
<1>2. /\ assignment' = [assignment EXCEPT ![i] = assignment[i]]
      /\ assignment[i] \in {"ASSIGNED", "QUARANTINED", "FAILED"}
    BY Zenon, RecordFacts DEF Disarm
<1>3. inflight' \in [Gsis -> BOOLEAN] /\ asserted' \subseteq Irqs /\ pended' \subseteq Vectors
    BY Zenon DEF Disarm, IInv, TypeOK, hardware
<1>4. BindingValid(i) /\ SourceMask(i, TRUE) /\ UNCHANGED <<driver, issued>>
    BY Zenon DEF Disarm
<1> QED
    BY Zenon, <1>1, <1>2, <1>3, <1>4, RoutedStep

LEMMA UnbindInv ==
    ASSUME IInv, NEW i \in Irqs, Unbind(i)
    PROVE  IInv'
<1>1. /\ RecordSound(irq[i], mailbox[i], got[i], closed[i])
      /\ irq' = [irq EXCEPT ![i] = irq[i]] /\ mailbox' = [mailbox EXCEPT ![i] = mailbox[i]]
      /\ assignment' = [assignment EXCEPT ![i] = assignment[i]]
      /\ assignment[i] \in {"ASSIGNED", "QUARANTINED", "FAILED"}
    BY Zenon, RecordFacts DEF Unbind
<1>2. /\ Bound(i) /\ LeaseRelease(i) /\ irq[i].state # "ARMED"
      /\ UNCHANGED <<driver, asserted, pended, issued>>
    BY Zenon DEF Unbind, BindingValid
<1> QED
    BY Zenon, <1>1, <1>2, ReleasedStep

LEMMA ForceUnbindInv ==
    ASSUME IInv, NEW i \in Irqs, ForceUnbind(i)
    PROVE  IInv'
<1>1. PICK r, m : /\ irq' = [irq EXCEPT ![i] = r] /\ mailbox' = [mailbox EXCEPT ![i] = m]
                  /\ RecordSound(r, m, got[i], closed[i])
                  /\ r.id = irq[i].id /\ r.state # "ARMED"
    BY Zenon, DisarmSound DEF ForceUnbind
<1>2. /\ assignment' = [assignment EXCEPT ![i] = assignment[i]]
      /\ assignment[i] \in {"ASSIGNED", "QUARANTINED", "FAILED"}
    BY Zenon, RecordFacts DEF ForceUnbind
<1>3. Bound(i) /\ LeaseRelease(i) /\ UNCHANGED <<driver, asserted, pended, issued>>
    BY Zenon DEF ForceUnbind, BindingValid
<1> QED
    BY Zenon, <1>1, <1>2, <1>3, ReleasedStep

LEMMA RecoverInv ==
    ASSUME IInv, NEW i \in Irqs, Recover(i)
    PROVE  IInv'
<1>1. PICK r, m : /\ irq' = [irq EXCEPT ![i] = r] /\ mailbox' = [mailbox EXCEPT ![i] = m]
                  /\ RecordSound(r, m, got[i], closed[i])
                  /\ r.id = irq[i].id /\ r.state # "ARMED"
    BY Zenon, DisarmSound DEF Recover
<1>2. /\ assignment' = [assignment EXCEPT ![i] = "QUARANTINED"]
      /\ UNCHANGED <<driver, asserted, pended, issued>>
    BY Zenon DEF Recover
<1>3. CASE Bound(i)
  <2>1. LeaseRelease(i)
      BY Zenon, <1>3 DEF Recover
  <2> QED
      BY Zenon, <1>1, <1>2, <1>3, <2>1, ReleasedStep
<1>4. CASE ~Bound(i)
  <2>1. UNCHANGED <<binding, masked, inflight>>
      BY Zenon, <1>4 DEF Recover
  <2>2. /\ got' = [got EXCEPT ![i] = got[i]] /\ closed' = [closed EXCEPT ![i] = closed[i]]
        /\ held' = held /\ receiver' = receiver
      BY Zenon, <1>2, RecordFacts DEF driver
  <2>3. /\ held' \in [Irqs -> BOOLEAN] /\ receiver' \in [Irqs -> {"NONE", "PENDING", "TERMINAL"}]
        /\ issued' \in 0..IdLimit
      BY Zenon, <1>2, <2>2 DEF IInv, TypeOK
  <2>4. UNCHANGED <<binding, masked, hardware>>
      BY Zenon, <1>2, <2>1 DEF hardware
  <2> QED
      BY Zenon, <1>1, <1>2, <1>4, <2>2, <2>3, <2>4, UnroutedStep
<1> QED
    BY Zenon, <1>3, <1>4

LEMMA RecoverFailsInv ==
    ASSUME IInv, NEW i \in Irqs, RecoverFails(i)
    PROVE  IInv'
<1>1. assignment' = [assignment EXCEPT ![i] = "FAILED"] /\ UNCHANGED <<driver, hardware, issued>>
    BY Zenon DEF RecoverFails
<1>2. CASE UNCHANGED <<irq, mailbox, binding, masked>>
  <2>1. /\ assignment' \in [Irqs -> {"ASSIGNED", "QUARANTINED", "FAILED"}]
        /\ \A j \in Irqs : assignment'[j] = "ASSIGNED" => assignment[j] = "ASSIGNED"
      BY Zenon, <1>1 DEF IInv, TypeOK
  <2>2. /\ held' \in [Irqs -> BOOLEAN] /\ receiver' \in [Irqs -> {"NONE", "PENDING", "TERMINAL"}]
        /\ inflight' \in [Gsis -> BOOLEAN] /\ asserted' \subseteq Irqs /\ pended' \subseteq Vectors
        /\ issued' \in 0..IdLimit /\ UNCHANGED <<closed, got>>
      BY Zenon, <1>1 DEF IInv, TypeOK, driver, hardware
  <2> QED
      BY Zenon, <1>2, <2>1, <2>2, QuietStep
<1>3. CASE BindingValid(i) /\ ResourceDisarm(i) /\ SourceMask(i, TRUE)
  <2>1. PICK r, m : /\ irq' = [irq EXCEPT ![i] = r] /\ mailbox' = [mailbox EXCEPT ![i] = m]
                    /\ RecordSound(r, m, got[i], closed[i])
                    /\ r.id = irq[i].id /\ r.state # "ARMED"
      BY Zenon, <1>3, DisarmSound
  <2>2. inflight' \in [Gsis -> BOOLEAN] /\ asserted' \subseteq Irqs /\ pended' \subseteq Vectors
      BY Zenon, <1>1 DEF IInv, TypeOK, hardware
  <2> QED
      BY Zenon, <1>1, <1>3, <2>1, <2>2, RoutedStep
<1> QED
    BY Zenon, <1>2, <1>3 DEF RecoverFails

LEMMA DispatchBoundInv ==
    ASSUME IInv, NEW i \in Irqs, DispatchBound(i)
    PROVE  IInv'
<1>1. PICK r, m : /\ irq' = [irq EXCEPT ![i] = r] /\ mailbox' = [mailbox EXCEPT ![i] = m]
                  /\ RecordSound(r, m, got[i], closed[i]) /\ r.id = irq[i].id
                  /\ ~(r.state = "ARMED" /\ assignment[i] = "ASSIGNED" /\ r.next # 0)
    BY Zenon, SignalSound DEF DispatchBound, Handle
<1>2. /\ assignment' = [assignment EXCEPT ![i] = assignment[i]]
      /\ assignment[i] \in {"ASSIGNED", "QUARANTINED", "FAILED"}
    BY Zenon, RecordFacts DEF DispatchBound
<1>3. inflight' \in [Gsis -> BOOLEAN]
    BY Zenon, PciIrqAssumption DEF DispatchBound, IInv, TypeOK
<1>4. asserted' \subseteq Irqs /\ pended' \subseteq Vectors
    BY Zenon DEF DispatchBound, IInv, TypeOK
<1>5. BindingValid(i) /\ SourceMask(i, TRUE) /\ UNCHANGED <<driver, issued>>
    BY Zenon DEF DispatchBound, Handle
<1> QED
    BY Zenon, <1>1, <1>2, <1>3, <1>4, <1>5, RoutedStep

LEMMA AcknowledgeInv ==
    ASSUME IInv, NEW i \in Irqs, NEW s \in 0..SequenceLimit, Acknowledge(i, s)
    PROVE  IInv'
<1>1. /\ RecordSound(irq[i], mailbox[i], got[i], closed[i]) /\ irq[i] \in IrqRecord
      /\ mailbox = [mailbox EXCEPT ![i] = mailbox[i]] /\ got = [got EXCEPT ![i] = got[i]]
      /\ closed = [closed EXCEPT ![i] = closed[i]]
      /\ assignment = [assignment EXCEPT ![i] = assignment[i]]
    BY Zenon, RecordFacts
<1>0. assignment[i] \in {"ASSIGNED", "QUARANTINED", "FAILED"}
    BY Zenon, RecordFacts
<1>2. /\ irq[i].state \in {"PENDING", "STORMED"} /\ mailbox[i] = 0 /\ BindingValid(i)
      /\ UNCHANGED <<assignment, mailbox, driver, hardware, issued>>
    BY Zenon DEF Acknowledge, AckApplied, AckAccepted
<1>3. /\ inflight' \in [Gsis -> BOOLEAN] /\ asserted' \subseteq Irqs /\ pended' \subseteq Vectors
      /\ held' \in [Irqs -> BOOLEAN] /\ receiver' \in [Irqs -> {"NONE", "PENDING", "TERMINAL"}]
      /\ issued' \in 0..IdLimit
    BY Zenon, <1>2 DEF IInv, TypeOK, hardware, driver
<1>4. /\ mailbox' = [mailbox EXCEPT ![i] = 0] /\ assignment' = [assignment EXCEPT ![i] = assignment[i]]
      /\ got' = [got EXCEPT ![i] = got[i]] /\ closed' = [closed EXCEPT ![i] = closed[i]]
    BY Zenon, <1>1, <1>2 DEF driver
<1>5. CASE irq[i].state = "PENDING"
  <2> DEFINE r == [Armed(i) EXCEPT !.pending = 0]
  <2>1. irq[i].state # "INVALID"
      BY Zenon, <1>5
  <2>2. /\ RecordSound(r, 0, got[i], closed[i]) /\ r.id = irq[i].id /\ r.state = "ARMED"
        /\ ~r.masked
      BY Zenon, <1>2, <2>1, ArmedSound
  <2>3. irq' = [irq EXCEPT ![i] = r] /\ SourceMask(i, FALSE)
    <3>1. irq \in [Irqs -> IrqRecord]
        BY Zenon DEF IInv, TypeOK
    <3> QED
        BY Zenon, <1>5, <3>1 DEF Acknowledge, AckApplied
  <2> HIDE DEF r
  <2>4. BindingValid(i) /\ UNCHANGED <<driver, issued>> /\ mailbox[i] = 0
      BY Zenon, <1>2
  <2> QED
      BY Zenon, <1>0, <1>3, <1>4, <2>2, <2>3, <2>4, RoutedStep
<1>6. CASE irq[i].state = "STORMED"
  <2> DEFINE r == [irq[i] EXCEPT !.pending = 0]
  <2>1. /\ r \in IrqRecord /\ r.id = irq[i].id /\ r.state = irq[i].state /\ r.pending = 0
        /\ r.next = irq[i].next
      BY Zenon, <1>1, Zeros DEF IrqRecord
  <2>2. irq' = [irq EXCEPT ![i] = r] /\ UNCHANGED <<binding, masked>>
    <3>1. irq \in [Irqs -> IrqRecord]
        BY Zenon DEF IInv, TypeOK
    <3> QED
        BY Zenon, <1>6, <3>1 DEF Acknowledge, AckApplied
  <2> HIDE DEF r
  <2>3. RecordSound(r, 0, got[i], closed[i])
      BY <1>1, <1>2, <1>6, <2>1, PciIrqAssumption DEF RecordSound, IrqRecord
  <2>4. irq[i].state # "ARMED" /\ r.state # "ARMED" /\ UNCHANGED <<binding, masked, hardware>>
      BY Zenon, <1>2, <1>6, <2>1, <2>2
  <2> QED
      BY Zenon, <1>0, <1>3, <1>4, <2>2, <2>3, <2>4, UnroutedStep
<1> QED
    BY Zenon, <1>2, <1>5, <1>6

LEMMA LowestFreeVector ==
    ASSUME FreeVectors # {}
    PROVE  LowestFree \in Vectors
<1>1. FreeVectors \subseteq Nat /\ FreeVectors \subseteq Vectors
    BY PciIrqAssumption DEF FreeVectors, Vectors
<1>2. \E v \in FreeVectors : \A w \in FreeVectors : v <= w
  <2>1. \E v \in FreeVectors : \A w \in FreeVectors : ~(<<w, v>> \in OpToRel(<, Nat))
      BY Zenon, <1>1, NatLessThanWellFounded, WFMin
  <2>2. \A v, w \in FreeVectors : ~(<<w, v>> \in OpToRel(<, Nat)) => v <= w
      BY <1>1 DEF OpToRel
  <2> QED
      BY Zenon, <2>1, <2>2
<1>3. LowestFree = CHOOSE v \in FreeVectors : \A w \in FreeVectors : v <= w
    BY Zenon DEF LowestFree
<1>4. LowestFree \in FreeVectors
    BY Zenon, <1>2, <1>3
<1> QED
    BY Zenon, <1>1, <1>4

LEMMA BindLegacyInv ==
    ASSUME IInv, NEW i \in Irqs, BindLegacyIntx(i)
    PROVE  IInv'
<1> DEFINE b == [id |-> irq[i].id, vector |-> LowestFree, masked |-> TRUE]
<1>1. TypeOK /\ RecordsSound /\ irq[i].state = "DISARMED" /\ ~Bound(i) /\ masked[GsiOf[i]]
      /\ \A j \in Irqs : ~(Bound(j) /\ GsiOf[j] = GsiOf[i])
      /\ FreeVectors # {}
    BY Zenon DEF IInv, BindLegacyIntx, CanBind, GsiInUse, LeaseAcquirable
<1>2. UNCHANGED <<assignment, irq, mailbox, driver, masked, hardware, issued>>
    BY Zenon DEF BindLegacyIntx
<1>3. irq[i].id # 0 /\ irq[i].id \in 0..IdLimit
    BY Zenon, <1>1 DEF RecordsSound, RecordSound, IrqRecord
<1>4. LowestFree \in Vectors /\ LowestFree \in 0..VectorCount
  <2>1. LowestFree \in Vectors
      BY Zenon, <1>1, LowestFreeVector
  <2>2. Vectors \subseteq 0..VectorCount
      BY PciIrqAssumption DEF Vectors
  <2> QED
      BY Zenon, <2>1, <2>2
<1>5. /\ b \in BindingRecord /\ b.id # 0 /\ b.vector \in Vectors /\ b.masked = TRUE
      /\ b # Unbound
    BY Zenon, <1>3, <1>4 DEF BindingRecord, Unbound
<1>6. binding' = [binding EXCEPT ![i] = b]
    BY Zenon DEF BindLegacyIntx
<1> HIDE DEF b
<1>7. binding' \in [Irqs -> BindingRecord] /\ binding'[i] = b
      /\ \A j \in Irqs : j # i => binding'[j] = binding[j]
    BY Zenon, <1>1, <1>5, <1>6 DEF TypeOK
<1>8. TypeOK'
    BY Zenon, <1>1, <1>2, <1>7 DEF TypeOK, driver, hardware
<1>9. RecordsSound'
    BY Zenon, <1>1, <1>2 DEF RecordsSound, driver
<1>10. \A j \in Irqs : Bound(j)' <=> (Bound(j) \/ j = i)
    BY Zenon, <1>5, <1>7 DEF Bound
<1>11. BindingsAgree'
  <2>1. masked[GsiOf[i]] = TRUE
      BY Zenon, <1>1, PciIrqAssumption DEF TypeOK
  <2>2. ASSUME NEW j \in Irqs, Bound(j)'
        PROVE  /\ binding'[j].id # 0 /\ binding'[j].vector \in Vectors
               /\ masked'[GsiOf[j]] = binding'[j].masked
    <3>1. CASE j = i
        BY Zenon, <3>1, <2>1, <1>2, <1>5, <1>7
    <3>2. CASE j # i
        BY Zenon, <3>2, <2>2, <1>2, <1>7, <1>10 DEF IInv, BindingsAgree
    <3> QED
        BY Zenon, <3>1, <3>2
  <2>3. ASSUME NEW j \in Irqs, NEW k \in Irqs, Bound(j)', Bound(k)', GsiOf[j] = GsiOf[k]
        PROVE  j = k
      BY Zenon, <2>3, <1>1, <1>10 DEF IInv, BindingsAgree
  <2> QED
      BY Zenon, <2>2, <2>3 DEF BindingsAgree, Vectors
<1>12. UnmaskedIsArmed'
  <2> SUFFICES ASSUME NEW g \in Gsis, ~masked[g]
               PROVE  \E j \in Irqs : /\ GsiOf[j] = g /\ BindingValid(j)'
                                      /\ irq[j].state = "ARMED" /\ ~irq[j].masked
      BY Zenon, <1>2 DEF UnmaskedIsArmed
  <2>1. PICK j \in Irqs : /\ GsiOf[j] = g /\ BindingValid(j)
                          /\ irq[j].state = "ARMED" /\ ~irq[j].masked
      BY Zenon DEF IInv, UnmaskedIsArmed
  <2>2. j # i /\ Bound(j)
      BY Zenon, <2>1, <1>1 DEF BindingValid
  <2>3. BindingValid(j)'
      BY Zenon, <2>1, <2>2, <1>2, <1>7, <1>10 DEF BindingValid
  <2> QED
      BY Zenon, <2>1, <2>3
<1>13. ArmedIsUnmasked'
    BY Zenon, <1>2, <1>10 DEF IInv, ArmedIsUnmasked, Serving
<1> QED
    BY Zenon, <1>8, <1>9, <1>11, <1>12, <1>13 DEF IInv

(* The vectors an input can send are the router's. *)
LEMMA VectorsOnInput ==
    ASSUME IInv, NEW g \in Gsis
    PROVE  VectorsOn(g) \subseteq Vectors
BY Zenon DEF VectorsOn, IInv, BindingsAgree, Vectors

LEMMA HardwareInv ==
    ASSUME IInv, UNCHANGED <<assignment, irq, binding, mailbox, driver, masked, issued>>,
           inflight' \in [Gsis -> BOOLEAN], asserted' \subseteq Irqs, pended' \subseteq Vectors
    PROVE  IInv'
<1>1. /\ assignment' = assignment
      /\ assignment' \in [Irqs -> {"ASSIGNED", "QUARANTINED", "FAILED"}]
      /\ held' \in [Irqs -> BOOLEAN] /\ receiver' \in [Irqs -> {"NONE", "PENDING", "TERMINAL"}]
      /\ issued' \in 0..IdLimit /\ UNCHANGED <<irq, binding, mailbox, closed, got, masked>>
    BY Zenon DEF IInv, TypeOK, driver
<1>2. \A i \in Irqs : irq[i].state = "ARMED" /\ assignment'[i] = "ASSIGNED" =>
                          assignment[i] = "ASSIGNED"
    BY Zenon, <1>1
<1> QED
    BY Zenon, <1>1, <1>2, QuietStep

LEMMA LineInv ==
    ASSUME IInv, NEW i \in Irqs, AssertLine(i) \/ Withdraw(i)
    PROVE  IInv'
<1>1. /\ UNCHANGED <<assignment, irq, binding, mailbox, driver, masked, issued>>
      /\ inflight' = inflight
    BY Zenon DEF AssertLine, Withdraw
<1>2. /\ inflight \in [Gsis -> BOOLEAN] /\ asserted \subseteq Irqs /\ pended \subseteq Vectors
      /\ GsiOf[i] \in Gsis
    BY Zenon, PciIrqAssumption DEF IInv, TypeOK
<1>3. asserted' \subseteq Irqs
    BY Zenon, <1>2 DEF AssertLine, Withdraw
<1>4. pended' \subseteq Vectors
  <2>1. VectorsOn(GsiOf[i]) \subseteq Vectors
      BY Zenon, <1>2, VectorsOnInput
  <2>2. pended' \subseteq pended \cup VectorsOn(GsiOf[i])
      BY Zenon DEF AssertLine, Withdraw
  <2> QED
      BY Zenon, <1>2, <2>1, <2>2
<1> QED
    BY Zenon, <1>1, <1>2, <1>3, <1>4, HardwareInv

LEMMA DeliverInv ==
    ASSUME IInv, NEW g \in Gsis, Deliver(g)
    PROVE  IInv'
<1>1. /\ UNCHANGED <<assignment, irq, binding, mailbox, driver, masked, issued>>
      /\ asserted' = asserted /\ pended' = pended \cup VectorsOn(g)
      /\ inflight' = [inflight EXCEPT ![g] = TRUE]
    BY Zenon DEF Deliver
<1>2. inflight \in [Gsis -> BOOLEAN] /\ asserted \subseteq Irqs /\ pended \subseteq Vectors
    BY Zenon DEF IInv, TypeOK
<1>3. pended' \subseteq Vectors /\ asserted' \subseteq Irqs
    BY Zenon, <1>1, <1>2, VectorsOnInput
<1>4. inflight' \in [Gsis -> BOOLEAN]
    BY Zenon, <1>1, <1>2
<1> QED
    BY Zenon, <1>1, <1>3, <1>4, HardwareInv

LEMMA StrayInv ==
    ASSUME IInv, NEW v \in Vectors, DispatchStray(v)
    PROVE  IInv'
<1>1. /\ UNCHANGED <<assignment, irq, binding, mailbox, driver, masked, issued>>
      /\ asserted' = asserted /\ pended' = pended \ {v}
      /\ inflight' = [g \in Gsis |-> inflight[g] /\ v \notin VectorsOn(g)]
    BY Zenon DEF DispatchStray
<1>2. asserted \subseteq Irqs /\ pended \subseteq Vectors
    BY Zenon DEF IInv, TypeOK
<1>3. pended' \subseteq Vectors /\ asserted' \subseteq Irqs
    BY Zenon, <1>1, <1>2
<1>4. inflight' \in [Gsis -> BOOLEAN]
    BY Zenon, <1>1
<1> QED
    BY Zenon, <1>1, <1>3, <1>4, HardwareInv

(* The owner's capabilities, its waiting thread and the claim of a free assignment. *)
LEMMA OwnerInv ==
    ASSUME IInv, NEW i \in Irqs,
           Revoke(i) \/ Wait(i) \/ Timeout(i) \/ Resume(i) \/ Reclaim(i)
    PROVE  IInv'
<1>1. TypeOK /\ UNCHANGED <<irq, binding, mailbox, closed, got, masked, hardware, issued>>
    BY Zenon DEF IInv, Revoke, Wait, Timeout, Resume, Reclaim, driver
<1>2. inflight' \in [Gsis -> BOOLEAN] /\ asserted' \subseteq Irqs /\ pended' \subseteq Vectors
      /\ issued' \in 0..IdLimit
    BY Zenon, <1>1 DEF TypeOK, hardware
<1>3. held' \in [Irqs -> BOOLEAN]
    BY Zenon, <1>1 DEF TypeOK, Revoke, Wait, Timeout, Resume, Reclaim, driver
<1>4. receiver' \in [Irqs -> {"NONE", "PENDING", "TERMINAL"}]
    BY <1>1 DEF TypeOK, Revoke, Wait, Timeout, Resume, Reclaim, driver
<1>5. /\ assignment' \in [Irqs -> {"ASSIGNED", "QUARANTINED", "FAILED"}]
      /\ \A j \in Irqs : irq[j].state = "ARMED" /\ assignment'[j] = "ASSIGNED" =>
                             assignment[j] = "ASSIGNED"
    BY Zenon, <1>1 DEF TypeOK, Revoke, Wait, Timeout, Resume, Reclaim
<1> QED
    BY Zenon, <1>1, <1>2, <1>3, <1>4, <1>5, QuietStep

-----------------------------------------------------------------------------
LEMMA NextInv == IInv /\ [Next]_vars => IInv'
<1> SUFFICES ASSUME IInv, [Next]_vars PROVE IInv'
    BY Zenon
<1>1. CASE UNCHANGED vars
  <2>1. UNCHANGED <<assignment, irq, binding, mailbox, driver, masked, issued>>
        /\ UNCHANGED <<inflight, asserted, pended>>
      BY Zenon, <1>1 DEF vars, driver
  <2>2. inflight' \in [Gsis -> BOOLEAN] /\ asserted' \subseteq Irqs /\ pended' \subseteq Vectors
      BY Zenon, <2>1 DEF IInv, TypeOK
  <2> QED
      BY Zenon, <2>1, <2>2, HardwareInv
<1>2. ASSUME NEW i \in Irqs,
             \/ Create(i) \/ Revoke(i) \/ Destroy(i) \/ OwnerExit(i) \/ Reclaim(i)
             \/ BindLegacyIntx(i) \/ Arm(i) \/ Disarm(i) \/ Unbind(i) \/ ForceUnbind(i)
             \/ Recover(i) \/ RecoverFails(i)
             \/ AssertLine(i) \/ Withdraw(i) \/ DispatchBound(i)
             \/ RecoverStorm(i) \/ Wait(i) \/ Receive(i) \/ Timeout(i) \/ Resume(i)
      PROVE  IInv'
    BY Zenon, <1>2, CreateInv, DestroyInv, OwnerExitInv, BindLegacyInv, ArmInv, DisarmInv,
       UnbindInv, ForceUnbindInv, RecoverInv, RecoverFailsInv, LineInv, DispatchBoundInv,
       RecoverStormInv, ReceiveInv, OwnerInv
<1>3. ASSUME NEW i \in Irqs, NEW s \in 0..SequenceLimit, Acknowledge(i, s) PROVE IInv'
    BY Zenon, <1>3, AcknowledgeInv
<1>4. ASSUME NEW g \in Gsis, Deliver(g) PROVE IInv'
    BY Zenon, <1>4, DeliverInv
<1>5. ASSUME NEW v \in Vectors, DispatchStray(v) PROVE IInv'
    BY Zenon, <1>5, StrayInv
<1> QED
    BY Zenon, <1>1, <1>2, <1>3, <1>4, <1>5 DEF Next

(* The strengthening is inductive (every call of pci_irq_router.c and      *)
(* pci_irq_resource.c, the vectors of interrupts.c and the driver's steps). *)
THEOREM Inductive == Spec => []IInv
<1>1. Init => IInv
    BY Zenon, InitInv
<1>2. IInv /\ [Next]_vars => IInv'
    BY Zenon, NextInv
<1> QED
    BY <1>1, <1>2, PTL DEF Spec

(* IOAPIC masking follows the delivery state of the resource, and one      *)
(* event is outstanding until the driver has consumed it, whatever binding, *)
(* storms, recoveries and exits of owners interleave (pci_irq_router.c,    *)
(* pci_irq_resource.c).                                                    *)
THEOREM DeliveryIsSound == Spec => []DeliverySound
<1>1. IInv => DeliverySound
    BY Zenon, Implied
<1> QED
    BY <1>1, Inductive, PTL
=============================================================================
