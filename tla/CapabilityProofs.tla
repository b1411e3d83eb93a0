-------------------------- MODULE CapabilityProofs --------------------------
(***************************************************************************)
(* Proofs about Capability, for any number of tables, slots, objects,      *)
(* generations and identities.                                             *)
(*                                                                         *)
(* The argument: an issuer is always above every generation it has issued, *)
(* so a new grant never repeats a handle; and an occupied slot is exactly  *)
(* one recorded grant, made in the current incarnation of its table.  A    *)
(* handle that resolves therefore names that grant and no other.           *)
(***************************************************************************)
EXTENDS Capability, FiniteSetTheorems, TLAPS

\* What the proof needs of the types.
ProofTypes ==
    /\ slots \in [Tables -> [Indices -> Slot]]
    /\ g_next_generation \in [Indices -> Nat \ {0}]
    /\ object_id \in [Objects -> Nat] /\ next_id \in Nat
    /\ grants \subseteq Grant /\ era \in [Tables -> Nat]

\* The grant an occupied slot was filled by.
SlotGrant(t, i) ==
    [generation |-> slots[t][i].generation, index |-> i, table |-> t, era |-> era[t],
     object |-> slots[t][i].object, id |-> slots[t][i].object_id, rights |-> slots[t][i].rights]

IssuersAhead == \A g \in grants : g.generation < g_next_generation[g.index]

SlotsAreGrants == \A t \in Tables, i \in Indices : slots[t][i].occupied => SlotGrant(t, i) \in grants

IInv == ProofTypes /\ IssuersAhead /\ HandlesNeverRepeat /\ SlotsAreGrants

\* delete_slot leaves an unoccupied slot record, whatever generation it keeps.
LEMMA FreeSlotType == \A n \in Nat : FreeSlot(n) \in Slot /\ ~FreeSlot(n).occupied
  BY DEF FreeSlot, Slot

\* The tables of a fresh boot satisfy the invariant.
LEMMA InitIInv == Init => IInv
  BY FreeSlotType
     DEF Init, IInv, ProofTypes, IssuersAhead, HandlesNeverRepeat, SlotsAreGrants

\* Emptying some slots of a table, whatever its incarnation, keeps the invariant.
LEMMA EmptyingKeepsIInv ==
    ASSUME IInv, NEW t \in Tables, NEW D \in SUBSET Indices,
           Delete(t, D)
    PROVE  IInv'
  <1> USE FreeSlotType
  <1>1. ProofTypes'
    BY DEF Delete, IInv, ProofTypes, objectVars, Slot, FreeSlot
  <1>2. IssuersAhead' /\ HandlesNeverRepeat'
    BY DEF Delete, IInv, IssuersAhead, HandlesNeverRepeat
  <1>3. SlotsAreGrants'
    <2> SUFFICES ASSUME NEW u \in Tables, NEW i \in Indices, slots'[u][i].occupied
                 PROVE  SlotGrant(u, i)' \in grants'
      BY DEF SlotsAreGrants
    <2>1. slots'[u][i] = slots[u][i]
      BY DEF Delete, IInv, ProofTypes, FreeSlot
    <2> QED
      BY <2>1 DEF Delete, IInv, SlotsAreGrants, SlotGrant
  <1> QED
    BY <1>1, <1>2, <1>3 DEF IInv

\* insert_resolved keeps the invariant: the pair it issues is above every earlier one
\* of its index.
LEMMA InsertKeepsIInv ==
    ASSUME IInv, NEW t \in Tables, NEW o \in Objects, NEW rights \in SUBSET Rights,
           Insert(t, o, rights)
    PROVE  IInv'
  <1>1. PICK i \in Eligible(t) :
          /\ slots' = [slots EXCEPT ![t][i] =
                       [object |-> o, object_id |-> object_id[o], rights |-> rights,
                        generation |-> g_next_generation[i], occupied |-> TRUE]]
          /\ g_next_generation' = [g_next_generation EXCEPT ![i] = g_next_generation[i] + 1]
          /\ grants' = grants \cup {[generation |-> g_next_generation[i], index |-> i,
                                     table |-> t, era |-> era[t], object |-> o,
                                     id |-> object_id[o], rights |-> rights]}
    BY ZenonT(30) DEF Insert, NextGeneration
  <1>2. i \in Indices /\ object_id' = object_id /\ next_id' = next_id /\ era' = era
    BY DEF Insert, Eligible, objectVars
  <1> DEFINE new == [generation |-> g_next_generation[i], index |-> i, table |-> t,
                     era |-> era[t], object |-> o, id |-> object_id[o], rights |-> rights]
  <1>3. ProofTypes'
    <2>1. new \in Grant
      BY <1>2 DEF IInv, ProofTypes, Grant
    <2>2. slots' \in [Tables -> [Indices -> Slot]]
      BY <1>1, <1>2 DEF IInv, ProofTypes, Slot
    <2> QED
      BY <1>1, <1>2, <2>1, <2>2 DEF IInv, ProofTypes
  <1>4. \A g \in grants : g.index \in Indices /\ g.generation \in Nat
    BY DEF IInv, ProofTypes, Grant
  <1>5. IssuersAhead'
    BY <1>1, <1>2, <1>4 DEF IInv, IssuersAhead, ProofTypes
  <1>6. HandlesNeverRepeat'
    <2>1. \A g \in grants : g.index = i => g.generation # g_next_generation[i]
      BY <1>2, <1>4 DEF IInv, IssuersAhead, ProofTypes
    <2> QED
      BY <1>1, <2>1 DEF IInv, HandlesNeverRepeat
  <1>7. SlotsAreGrants'
    <2> SUFFICES ASSUME NEW u \in Tables, NEW j \in Indices, slots'[u][j].occupied
                 PROVE  SlotGrant(u, j)' \in grants'
      BY DEF SlotsAreGrants
    <2>1. CASE u = t /\ j = i
      BY <1>1, <1>2, <2>1 DEF IInv, ProofTypes, SlotGrant
    <2>2. CASE ~(u = t /\ j = i)
      <3>1. slots'[u][j] = slots[u][j]
        BY <1>1, <1>2, <2>2 DEF IInv, ProofTypes
      <3> QED
        BY <1>1, <1>2, <3>1 DEF IInv, SlotsAreGrants, SlotGrant
    <2> QED
      BY <2>1, <2>2
  <1> QED
    BY <1>3, <1>5, <1>6, <1>7 DEF IInv

\* Every operation on tables and objects keeps the invariant.
LEMMA NextIInv == IInv /\ [Next]_vars => IInv'
  <1> SUFFICES ASSUME IInv, [Next]_vars PROVE IInv'
    OBVIOUS
  <1> USE FreeSlotType
  <1>1. CASE UNCHANGED vars
    BY <1>1 DEF vars, IInv, ProofTypes, IssuersAhead, HandlesNeverRepeat, SlotsAreGrants, SlotGrant
  <1>2. ASSUME NEW o \in Objects, ObjectCreate(o) \/ ObjectSeal(o) \/ ObjectDestroy(o)
        PROVE  IInv'
    BY <1>2 DEF ObjectCreate, ObjectSeal, ObjectDestroy,
                IInv, ProofTypes, IssuersAhead, HandlesNeverRepeat, SlotsAreGrants, SlotGrant
  <1>3. ASSUME NEW t \in Tables, TableInit(t) \/ TableDestroy(t) PROVE IInv'
    <2>1. ProofTypes'
      <3>1. [i \in Indices |-> FreeSlot(0)] \in [Indices -> Slot]
        OBVIOUS
      <3>2. slots' \in [Tables -> [Indices -> Slot]]
        <4>1. slots' = [slots EXCEPT ![t] = [i \in Indices |-> FreeSlot(0)]]
          BY <1>3 DEF TableInit, TableDestroy
        <4> QED
          BY <3>1, <4>1 DEF IInv, ProofTypes
      <3>3. era' \in [Tables -> Nat]
        BY <1>3 DEF TableInit, TableDestroy, IInv, ProofTypes
      <3> QED
        BY <1>3, <3>2, <3>3 DEF TableInit, TableDestroy, IInv, ProofTypes, objectVars
    <2>2. IssuersAhead' /\ HandlesNeverRepeat'
      BY <1>3 DEF TableInit, TableDestroy, IInv, IssuersAhead, HandlesNeverRepeat
    <2>3. SlotsAreGrants'
      <3> SUFFICES ASSUME NEW u \in Tables, NEW i \in Indices, slots'[u][i].occupied
                   PROVE  SlotGrant(u, i)' \in grants'
        BY DEF SlotsAreGrants
      <3>1. u # t /\ slots'[u] = slots[u] /\ era'[u] = era[u] /\ grants' = grants
        BY <1>3 DEF TableInit, TableDestroy, IInv, ProofTypes
      <3> QED
        BY <3>1 DEF IInv, SlotsAreGrants, SlotGrant
    <2> QED
      BY <2>1, <2>2, <2>3 DEF IInv
  <1>4. ASSUME NEW t \in Tables, RevokeAll(t) \/ \E o \in Objects : RevokeObject(t, o)
        PROVE  IInv'
    <2>1. PICK D \in SUBSET Indices : Delete(t, D)
      BY ZenonT(30), <1>4 DEF RevokeAll, RevokeObject, DeleteSelected, Naming, Occupied
    <2> QED
      BY <2>1, EmptyingKeepsIInv
  <1>5. ASSUME NEW t \in Tables, NEW g \in 1 .. GenerationMax, NEW i \in Indices, Revoke(t, g, i)
        PROVE  IInv'
    BY <1>5, EmptyingKeepsIInv DEF Revoke
  <1> QED
    BY <1>1, <1>2, <1>3, <1>4, <1>5, InsertKeepsIInv DEF Next

\* IInv is an inductive invariant of the capability tables.
THEOREM Inductive == Spec => []IInv
  BY InitIInv, NextIInv, PTL DEF Spec

\* No handle is issued twice: capability_insert never returns a (generation, index)
\* pair that an earlier insertion returned, in any table, for any object.
THEOREM HandlesUnique == Spec => []HandlesNeverRepeat
  <1>1. IInv => HandlesNeverRepeat
    BY DEF IInv
  <1> QED
    BY <1>1, Inductive, PTL

\* A handle that resolve_slot accepts is the grant it was issued for: same table
\* incarnation, same object incarnation, same rights.
THEOREM StaleHandles == Spec => []StaleHandlesStayDead
  <1>1. IInv => StaleHandlesStayDead
    <2> SUFFICES ASSUME IInv, NEW t \in Tables, NEW i \in Indices, NEW g \in grants,
                        g.index = i, Resolves(t, g.generation, i)
                 PROVE  /\ g.table = t /\ g.era = era[t]
                        /\ g.object = slots[t][i].object /\ g.id = object_id[g.object]
                        /\ g.rights = slots[t][i].rights
      BY DEF StaleHandlesStayDead
    <2>1. SlotGrant(t, i) \in grants
      BY DEF Resolves, SlotRefs, IInv, SlotsAreGrants
    <2>2. g = SlotGrant(t, i)
      BY <2>1 DEF Resolves, IInv, HandlesNeverRepeat, SlotGrant
    <2> QED
      BY <2>2 DEF SlotGrant, Resolves, SlotRefs
  <1> QED
    BY <1>1, Inductive, PTL

-----------------------------------------------------------------------------
(* Reference counts *)

(***************************************************************************)
(* RefsExact is inductive once the two parts of TableValid are separated:  *)
(* the counts are cardinalities, and an occupied slot names a live object. *)
(* That the object's count is not zero then follows from the first.        *)
(***************************************************************************)
CountsExact ==
    /\ \A o \in Objects : refs[o] = Cardinality(AllNaming(o))
    /\ \A t \in live : count[t] = Cardinality(Occupied(t))

Names(t, i) ==
    LET s == slots[t][i]
    IN  /\ s.object \in Objects /\ s.generation # 0 /\ s.rights # {}
        /\ s.object_id # 0 /\ s.object_id = object_id[s.object]

SlotsName == \A t \in live, i \in Indices : slots[t][i].occupied => Names(t, i)

RInv == TypeOK /\ CountsExact /\ SlotsName

\* The sets that are counted are finite, so their cardinalities are numbers.
LEMMA Counted ==
    /\ IsFiniteSet(Indices)
    /\ \A t : IsFiniteSet(Occupied(t)) /\ Cardinality(Occupied(t)) \in Nat
    /\ \A o : IsFiniteSet(AllNaming(o)) /\ Cardinality(AllNaming(o)) \in Nat
  <1>1. IsFiniteSet(Indices)
    BY CapabilityAssumption, FS_Interval DEF Indices
  <1>2. IsFiniteSet(Tables \X Indices)
    BY <1>1, CapabilityAssumption, FS_Product
  <1>3. ASSUME NEW t PROVE IsFiniteSet(Occupied(t)) /\ Cardinality(Occupied(t)) \in Nat
    BY <1>1, FS_Subset, FS_CardinalityType DEF Occupied
  <1>4. ASSUME NEW o PROVE IsFiniteSet(AllNaming(o)) /\ Cardinality(AllNaming(o)) \in Nat
    BY <1>2, FS_Subset, FS_CardinalityType DEF AllNaming
  <1> QED
    BY <1>1, <1>3, <1>4

\* An object that an occupied slot of a live table names has references.
LEMMA NamedIsReferenced ==
    ASSUME RInv, NEW t \in live, NEW i \in Indices, slots[t][i].occupied
    PROVE  slots[t][i].object \in Objects /\ refs[slots[t][i].object] # 0
  <1> DEFINE o == slots[t][i].object
  <1>1. o \in Objects /\ t \in Tables
    BY DEF RInv, TypeOK, SlotsName, Names
  <1>2. <<t, i>> \in AllNaming(o)
    BY <1>1 DEF AllNaming
  <1>3. Cardinality(AllNaming(o)) # 0
    BY <1>2, Counted, FS_EmptySet
  <1> QED
    BY <1>1, <1>3 DEF RInv, CountsExact

\* Every slot of an initialised or destroyed table is free, and the rest is as it was.
LEMMA TableStepRInv ==
    ASSUME RInv, NEW t \in Tables, TableInit(t) \/ TableDestroy(t)
    PROVE  RInv'
  <1> USE FreeSlotType
  <1>1. /\ slots' = [slots EXCEPT ![t] = [i \in Indices |-> FreeSlot(0)]]
        /\ UNCHANGED <<g_next_generation, object_id, sealed, next_id, refs, grants>>
        /\ live' \subseteq Tables /\ live' \ {t} = live \ {t}
        /\ t \in live => \A i \in Indices : ~slots[t][i].occupied
    <2>1. CASE TableInit(t)
      BY <2>1 DEF TableInit, objectVars, RInv, TypeOK
    <2>2. CASE TableDestroy(t)
      <3>1. Occupied(t) = {}
        BY ZenonT(30), <2>2, Counted, FS_EmptySet DEF TableDestroy, TableValid
      <3> QED
        BY <2>2, <3>1 DEF TableDestroy, objectVars, RInv, TypeOK, Occupied
    <2> QED
      BY <2>1, <2>2
  <1>2. /\ \A i \in Indices : ~slots'[t][i].occupied
        /\ \A u \in Tables \ {t} : slots'[u] = slots[u] /\ count'[u] = count[u]
        /\ t \in live' => count'[t] = 0
    <2>1. /\ \A i \in Indices : ~slots'[t][i].occupied
          /\ \A u \in Tables \ {t} : slots'[u] = slots[u]
      BY <1>1 DEF RInv, TypeOK
    <2>2. (\A u \in Tables \ {t} : count'[u] = count[u]) /\ (t \in live' => count'[t] = 0)
      BY DEF TableInit, TableDestroy, RInv, TypeOK
    <2> QED
      BY <2>1, <2>2
  <1>3. TypeOK'
    <2>1. [i \in Indices |-> FreeSlot(0)] \in [Indices -> Slot]
      OBVIOUS
    <2>2. slots' \in [Tables -> [Indices -> Slot]]
      BY <1>1, <2>1 DEF RInv, TypeOK
    <2>3. count' \in [Tables -> Nat] /\ era' \in [Tables -> Nat]
      BY SMTT(30) DEF TableInit, TableDestroy, RInv, TypeOK
    <2> QED
      BY <1>1, <2>2, <2>3 DEF RInv, TypeOK
  <1>4. CountsExact'
    <2>1. ASSUME NEW o \in Objects PROVE AllNaming(o)' = AllNaming(o)
      BY <1>1, <1>2 DEF AllNaming, RInv, TypeOK
    <2>2. ASSUME NEW u \in live' PROVE count'[u] = Cardinality(Occupied(u)')
      <3>1. CASE u = t
        <4>1. Occupied(u)' = {}
          BY <1>2, <3>1 DEF Occupied
        <4> QED
          BY <1>2, <2>2, <3>1, <4>1, FS_EmptySet
      <3>2. CASE u # t
        <4>1. u \in live /\ u \in Tables /\ slots'[u] = slots[u] /\ count'[u] = count[u]
          BY <1>1, <1>2, <2>2, <3>2 DEF RInv, TypeOK
        <4>2. Occupied(u)' = Occupied(u)
          BY <4>1 DEF Occupied
        <4> QED
          BY <4>1, <4>2 DEF RInv, CountsExact
      <3> QED
        BY <3>1, <3>2
    <2> QED
      BY <1>1, <2>1, <2>2 DEF RInv, CountsExact
  <1>5. SlotsName'
    <2> SUFFICES ASSUME NEW u \in live', NEW j \in Indices, slots'[u][j].occupied
                 PROVE  Names(u, j)'
      BY DEF SlotsName
    <2>1. u \in live /\ slots'[u] = slots[u]
      BY <1>1, <1>2
    <2> QED
      BY <1>1, <2>1 DEF RInv, SlotsName, Names
  <1> QED
    BY <1>3, <1>4, <1>5 DEF RInv

\* insert_resolved adds one slot to the set it counts.
LEMMA InsertRInv ==
    ASSUME RInv, NEW t \in Tables, NEW o \in Objects, NEW rights \in SUBSET Rights,
           Insert(t, o, rights)
    PROVE  RInv'
  <1> DEFINE new(i) == [object |-> o, object_id |-> object_id[o], rights |-> rights,
                        generation |-> g_next_generation[i], occupied |-> TRUE]
  <1>1. PICK i \in Eligible(t) :
          /\ slots' = [slots EXCEPT ![t][i] = new(i)]
          /\ g_next_generation' = [g_next_generation EXCEPT ![i] = g_next_generation[i] + 1]
          /\ grants' = grants \cup {[generation |-> g_next_generation[i], index |-> i,
                                     table |-> t, era |-> era[t], object |-> o,
                                     id |-> object_id[o], rights |-> rights]}
    BY ZenonT(30) DEF Insert, NextGeneration
  <1>2. /\ refs' = [refs EXCEPT ![o] = @ + 1] /\ count' = [count EXCEPT ![t] = @ + 1]
        /\ UNCHANGED <<live, object_id, sealed, next_id, era>>
        /\ t \in live /\ rights # {} /\ object_id[o] # 0
    BY DEF Insert, objectVars, TableValid
  <1>3. i \in Indices /\ ~slots[t][i].occupied /\ new(i) \in Slot
    BY DEF Eligible, Occupied, RInv, TypeOK, Slot
  <1>4. /\ slots' \in [Tables -> [Indices -> Slot]] /\ slots'[t][i] = new(i)
        /\ \A u \in Tables, j \in Indices : <<u, j>> # <<t, i>> => slots'[u][j] = slots[u][j]
    BY <1>1, <1>3 DEF RInv, TypeOK
  <1>5. TypeOK'
    <2>1. [generation |-> g_next_generation[i], index |-> i, table |-> t, era |-> era[t],
           object |-> o, id |-> object_id[o], rights |-> rights] \in Grant
      BY <1>3 DEF RInv, TypeOK, Grant
    <2>2. grants' \subseteq Grant /\ g_next_generation' \in [Indices -> Nat \ {0}]
      BY <1>1, <1>3, <2>1 DEF RInv, TypeOK
    <2>3. refs' \in [Objects -> Nat] /\ count' \in [Tables -> Nat]
      BY <1>2 DEF RInv, TypeOK
    <2> QED
      BY <1>2, <1>4, <2>2, <2>3 DEF RInv, TypeOK
  <1>6. CountsExact'
    <2>1. AllNaming(o)' = AllNaming(o) \cup {<<t, i>>} /\ <<t, i>> \notin AllNaming(o)
      BY <1>2, <1>3, <1>4 DEF AllNaming
    <2>2. ASSUME NEW p \in Objects \ {o} PROVE AllNaming(p)' = AllNaming(p)
      BY <1>2, <1>3, <1>4 DEF AllNaming
    <2>3. Cardinality(AllNaming(o)') = Cardinality(AllNaming(o)) + 1
      BY ZenonT(30), <2>1, Counted, FS_AddElement
    <2>4. Occupied(t)' = Occupied(t) \cup {i} /\ i \notin Occupied(t)
      BY <1>3, <1>4 DEF Occupied
    <2>5. Cardinality(Occupied(t)') = Cardinality(Occupied(t)) + 1
      BY ZenonT(30), <2>4, Counted, FS_AddElement
    <2>6. ASSUME NEW u \in live, u # t PROVE Occupied(u)' = Occupied(u)
      BY <1>4, <2>6 DEF Occupied, RInv, TypeOK
    <2>7. \A p \in Objects : refs'[p] = Cardinality(AllNaming(p)')
      BY <1>2, <2>2, <2>3 DEF RInv, CountsExact, TypeOK
    <2>8. \A u \in live' : count'[u] = Cardinality(Occupied(u)')
      BY <1>2, <2>5, <2>6 DEF RInv, CountsExact, TypeOK
    <2> QED
      BY Zenon, <2>7, <2>8 DEF CountsExact
  <1>7. SlotsName'
    <2> SUFFICES ASSUME NEW u \in live, NEW j \in Indices, slots'[u][j].occupied
                 PROVE  Names(u, j)'
      BY <1>2 DEF SlotsName
    <2>1. CASE u = t /\ j = i
      BY <2>1, <1>2, <1>3, <1>4 DEF Names, RInv, TypeOK
    <2>2. CASE ~(u = t /\ j = i)
      <3>1. slots'[u][j] = slots[u][j]
        BY <1>4, <2>2 DEF RInv, TypeOK
      <3> QED
        BY <1>2, <3>1 DEF RInv, SlotsName, Names
    <2> QED
      BY <2>1, <2>2
  <1> QED
    BY <1>5, <1>6, <1>7 DEF RInv

\* delete_slot for a set of occupied slots takes exactly those slots out of the sets
\* that are counted, so no count falls below zero.
LEMMA DeleteRInv ==
    ASSUME RInv, NEW t \in live, NEW D \in SUBSET Occupied(t), Delete(t, D)
    PROVE  RInv'
  <1> USE FreeSlotType
  <1>1. t \in Tables /\ D \subseteq Indices /\ IsFiniteSet(D)
    BY Counted, FS_Subset DEF RInv, TypeOK, Occupied
  <1>2. UNCHANGED <<live, g_next_generation, object_id, sealed, next_id, grants, era>>
    BY DEF Delete, objectVars
  <1>3. /\ slots' \in [Tables -> [Indices -> Slot]]
        /\ \A i \in Indices : IF i \in D THEN ~slots'[t][i].occupied ELSE slots'[t][i] = slots[t][i]
        /\ \A u \in Tables \ {t} : slots'[u] = slots[u]
    <2> DEFINE new == [i \in Indices |-> IF i \in D THEN FreeSlot(slots[t][i].generation)
                                         ELSE slots[t][i]]
    <2>1. slots[t] \in [Indices -> Slot] /\ \A i \in Indices : slots[t][i].generation \in Nat
      BY <1>1 DEF RInv, TypeOK, Slot
    <2>2. new \in [Indices -> Slot]
      BY <2>1
    <2>3. slots' = [slots EXCEPT ![t] = new]
      BY DEF Delete
    <2> QED
      BY <1>1, <2>1, <2>2, <2>3 DEF RInv, TypeOK
  <1>4. ASSUME NEW o \in Objects
        PROVE  /\ refs'[o] = Cardinality(AllNaming(o)')
               /\ refs'[o] \in Nat
    <2> DEFINE S == Naming(t, D, o)
    <2>1. S \subseteq D /\ IsFiniteSet(S)
      BY <1>1, FS_Subset DEF Naming
    <2>2. Cardinality({t} \X S) = Cardinality(S) /\ IsFiniteSet({t} \X S)
      <3>1. Cardinality({t}) = 1 /\ IsFiniteSet({t})
        BY ZenonT(30), FS_Singleton
      <3>2. Cardinality({t} \X S) = Cardinality({t}) * Cardinality(S) /\ IsFiniteSet({t} \X S)
        BY <2>1, <3>1, FS_Product
      <3>3. Cardinality(S) \in Nat
        BY <2>1, FS_CardinalityType
      <3> QED
        BY <3>1, <3>2, <3>3
    <2>3. {t} \X S \subseteq AllNaming(o)
      BY <1>1, <2>1 DEF AllNaming, Naming, Occupied
    <2>4. AllNaming(o)' = AllNaming(o) \ ({t} \X S)
      BY <1>1, <1>2, <1>3 DEF AllNaming, Naming, Occupied
    <2>5. /\ Cardinality(AllNaming(o)') = Cardinality(AllNaming(o)) - Cardinality(S)
          /\ IsFiniteSet(AllNaming(o)')
      <3> DEFINE A == AllNaming(o)
                 P == {t} \X S
      <3> HIDE DEF A, P, S
      <3>1. A \cap P = P
        BY <2>3 DEF A, P
      <3>2. IsFiniteSet(A)
        BY Counted DEF A
      <3>3. IsFiniteSet(A \ P) /\ Cardinality(A \ P) = Cardinality(A) - Cardinality(A \cap P)
        BY ONLY <3>2, FS_Difference
      <3> QED
        BY ZenonT(30), <2>2, <2>4, <3>1, <3>3 DEF A, P
    <2>6. refs'[o] = refs[o] - Cardinality(S)
      BY DEF Delete
    <2> QED
      BY <2>5, <2>6, FS_CardinalityType DEF RInv, CountsExact
  <1>5. ASSUME NEW u \in live
        PROVE  count'[u] = Cardinality(Occupied(u)') /\ count'[u] \in Nat
    <2>1. CASE u = t
      <3>1. Occupied(t)' = Occupied(t) \ D /\ Occupied(t) \cap D = D
        BY <1>1, <1>3 DEF Occupied
      <3>2. Cardinality(Occupied(t)') = Cardinality(Occupied(t)) - Cardinality(D)
        BY ZenonT(30), <3>1, Counted, FS_Difference
      <3>3. IsFiniteSet(Occupied(t)')
        BY ZenonT(30), <3>1, Counted, FS_Difference
      <3>4. count'[t] = count[t] - Cardinality(D)
        BY <1>1 DEF Delete, RInv, TypeOK
      <3> QED
        BY <2>1, <3>2, <3>3, <3>4, FS_CardinalityType DEF RInv, CountsExact
    <2>2. CASE u # t
      <3>1. u \in Tables /\ slots'[u] = slots[u] /\ count'[u] = count[u]
        BY <1>3, <2>2 DEF Delete, RInv, TypeOK
      <3>2. Occupied(u)' = Occupied(u)
        BY <3>1 DEF Occupied
      <3> QED
        BY <3>1, <3>2, Counted DEF RInv, CountsExact
    <2> QED
      BY <2>1, <2>2
  <1>6. TypeOK'
    <2>1. refs' \in [Objects -> Nat]
      <3>1. refs' = [o \in Objects |-> refs'[o]]
        BY DEF Delete
      <3> QED
        BY <1>4, <3>1
    <2>2. count' \in [Tables -> Nat]
      <3>1. count' = [count EXCEPT ![t] = count'[t]]
        BY <1>1 DEF Delete, RInv, TypeOK
      <3> QED
        BY <1>1, <1>5, <3>1 DEF RInv, TypeOK
    <2> QED
      BY <1>2, <1>3, <2>1, <2>2 DEF RInv, TypeOK
  <1>7. CountsExact'
    BY <1>2, <1>4, <1>5 DEF CountsExact
  <1>8. SlotsName'
    <2> SUFFICES ASSUME NEW u \in live, NEW j \in Indices, slots'[u][j].occupied
                 PROVE  Names(u, j)'
      BY <1>2 DEF SlotsName
    <2>1. slots'[u][j] = slots[u][j]
      BY <1>3 DEF RInv, TypeOK
    <2> QED
      BY <1>2, <2>1 DEF RInv, SlotsName, Names
  <1> QED
    BY <1>6, <1>7, <1>8 DEF RInv

\* Objects are created in storage that no slot names, and destroyed only when their
\* count, which is the number of slots that name them, is zero.
LEMMA ObjectStepRInv ==
    ASSUME RInv, NEW o \in Objects, ObjectCreate(o) \/ ObjectSeal(o) \/ ObjectDestroy(o)
    PROVE  RInv'
  <1>1. UNCHANGED <<live, slots, count, g_next_generation, refs, grants, era>>
    BY DEF ObjectCreate, ObjectSeal, ObjectDestroy
  <1>2. TypeOK'
    <2>1. /\ object_id' \in [Objects -> Nat]
          /\ sealed' \in [Objects -> BOOLEAN]
          /\ next_id' \in Nat \ {0}
      <3>1. CASE ObjectCreate(o)
        BY <3>1 DEF ObjectCreate, RInv, TypeOK
      <3>2. CASE ObjectSeal(o)
        BY <3>2 DEF ObjectSeal, RInv, TypeOK
      <3>3. CASE ObjectDestroy(o)
        BY <3>3 DEF ObjectDestroy, RInv, TypeOK
      <3> QED
        BY <3>1, <3>2, <3>3
    <2> QED
      BY <1>1, <2>1 DEF RInv, TypeOK
  <1>3. CountsExact'
    BY ZenonT(30), <1>1 DEF RInv, CountsExact, AllNaming, Occupied
  <1>4. SlotsName'
    <2> SUFFICES ASSUME NEW t \in live, NEW i \in Indices, slots[t][i].occupied
                 PROVE  Names(t, i)'
      BY <1>1 DEF SlotsName
    <2>1. Names(t, i) /\ refs[slots[t][i].object] # 0
      BY NamedIsReferenced DEF RInv, SlotsName
    <2>2. object_id'[slots[t][i].object] = object_id[slots[t][i].object]
      BY <2>1 DEF ObjectCreate, ObjectSeal, ObjectDestroy, Destroyable, Names, RInv, TypeOK
    <2> QED
      BY <1>1, <2>1, <2>2 DEF Names
  <1> QED
    BY <1>2, <1>3, <1>4 DEF RInv

\* RInv holds of a fresh boot.
LEMMA InitRInv == Init => RInv
  <1> SUFFICES ASSUME Init PROVE RInv
    OBVIOUS
  <1>1. TypeOK
    BY FreeSlotType DEF Init, TypeOK
  <1>2. CountsExact
    <2>1. \A o \in Objects : AllNaming(o) = {}
      BY DEF Init, AllNaming
    <2> QED
      BY <2>1, FS_EmptySet DEF Init, CountsExact
  <1>3. SlotsName
    BY DEF Init, SlotsName
  <1> QED
    BY <1>1, <1>2, <1>3 DEF RInv

\* Every operation on tables and objects keeps the counts exact.
LEMMA NextRInv == RInv /\ [Next]_vars => RInv'
  <1> SUFFICES ASSUME RInv, [Next]_vars PROVE RInv'
    OBVIOUS
  <1>1. CASE UNCHANGED vars
    BY <1>1 DEF vars, RInv, TypeOK, CountsExact, AllNaming, Occupied, SlotsName, Names
  <1>2. ASSUME NEW t \in Tables, RevokeAll(t) \/ \E o \in Objects : RevokeObject(t, o)
        PROVE  RInv'
    <2>1. PICK D \in SUBSET Occupied(t) : Delete(t, D)
      BY ZenonT(30), <1>2 DEF RevokeAll, RevokeObject, DeleteSelected, Naming
    <2>2. t \in live
      BY <1>2 DEF RevokeAll, RevokeObject, DeleteSelected, TableValid
    <2> QED
      BY <2>1, <2>2, DeleteRInv
  <1>3. ASSUME NEW t \in Tables, NEW g \in 1 .. GenerationMax, NEW i \in Indices, Revoke(t, g, i)
        PROVE  RInv'
    <2>1. t \in live /\ {i} \in SUBSET Occupied(t) /\ Delete(t, {i})
      BY <1>3 DEF Revoke, Resolves, SlotRefs, Occupied
    <2> QED
      BY <2>1, DeleteRInv
  <1> QED
    BY ZenonT(30), <1>1, <1>2, <1>3, ObjectStepRInv, TableStepRInv, InsertRInv DEF Next

\* capability_refs of every object is the number of slots that name it, in whatever
\* table, and capability_table_valid never fails on a live table: no order of grants,
\* revocations, table and object lives makes it refuse a call or frees a named object.
THEOREM RefsAreExact == Spec => []RefsExact
  <1>1. RInv => RefsExact
    <2> SUFFICES ASSUME RInv, NEW t \in live PROVE TableValid(t)
      BY DEF RInv, CountsExact, RefsExact
    <2>1. ASSUME NEW i \in Occupied(t) PROVE SlotRefs(slots[t][i])
      <3>1. i \in Indices /\ slots[t][i].occupied
        BY DEF Occupied
      <3>2. Names(t, i) /\ refs[slots[t][i].object] # 0
        BY <3>1, NamedIsReferenced DEF RInv, SlotsName
      <3> QED
        BY <3>1, <3>2 DEF Names, SlotRefs
    <2> QED
      BY <2>1 DEF RInv, CountsExact, TableValid
  <1> QED
    BY <1>1, InitRInv, NextRInv, PTL DEF Spec
=============================================================================
