----------------------------- MODULE Capability -----------------------------
(***************************************************************************)
(* Capability tables (kernel/capability.c): per-process tables of slots,   *)
(* one boot-global generation issuer per slot index, and a reference count *)
(* in every object that a slot names.  Objects are storage that is created *)
(* with a fresh identity, may be sealed against new grants (a closed       *)
(* endpoint, a dead thread, an address space being destroyed) and may be   *)
(* destroyed and created again once no slot refers to it.                  *)
(***************************************************************************)
EXTENDS Integers, FiniteSets

CONSTANTS
    Tables,         \* storage for capability tables
    Capacity,       \* slots per table (CAPABILITY_TABLE_CAPACITY)
    Objects, Rights,
    Nothing,        \* the object of a free slot
    GenerationMax,  \* last generation an index may issue (CAPABILITY_GENERATION_MAX)
    IdLimit,        \* bound on object identities
    EraLimit        \* bound on the times one table's storage is initialised

ASSUME CapabilityAssumption ==
    /\ Capacity \in Nat \ {0} /\ GenerationMax \in Nat \ {0}
    /\ IdLimit \in Nat /\ EraLimit \in Nat
    /\ Nothing \notin Objects /\ IsFiniteSet(Tables)

VARIABLES
    live,               \* g_tables: initialised tables
    slots, count,       \* CapabilityTable.slots, CapabilityTable.count
    g_next_generation,
    object_id, refs,    \* identity (0: not live) and capability_refs of an object
    sealed,             \* the object no longer accepts grants
    next_id,
    grants,             \* history: every grant ever made
    era                 \* history: incarnation of each table's storage

vars == <<live, slots, count, g_next_generation, object_id, refs, sealed, next_id, grants, era>>
objectVars == <<object_id, sealed, next_id>>

Indices == 0 .. Capacity - 1
FreeSlot(generation) == [object |-> Nothing, object_id |-> 0, rights |-> {},
                         generation |-> generation, occupied |-> FALSE]

\* The slot still names the incarnation of the object that it was granted for.
SlotRefs(s) ==
    /\ s.occupied /\ s.generation # 0 /\ s.rights # {}
    /\ object_id[s.object] = s.object_id /\ s.object_id # 0
    /\ refs[s.object] # 0

Occupied(t) == {i \in Indices : slots[t][i].occupied}

TableValid(t) ==
    /\ t \in live /\ count[t] = Cardinality(Occupied(t))
    /\ \A i \in Occupied(t) : SlotRefs(slots[t][i])

\* A handle is a generation and a slot index.
\* Defect: the generation is not compared.
ResolvesByIndex(t, generation, i) == t \in live /\ generation # 0 /\ SlotRefs(slots[t][i])

Resolves(t, generation, i) ==
    /\ t \in live /\ generation # 0
    /\ slots[t][i].generation = generation /\ SlotRefs(slots[t][i])

\* The object capability_lookup_rights returns, as a set with at most one member.
Lookup(t, generation, i, required) ==
    IF Resolves(t, generation, i) /\ required \subseteq slots[t][i].rights
    THEN {slots[t][i].object} ELSE {}

-----------------------------------------------------------------------------
(* Objects *)

ObjectCreate(o) ==
    /\ object_id[o] = 0 /\ next_id <= IdLimit
    /\ object_id' = [object_id EXCEPT ![o] = next_id]
    /\ sealed' = [sealed EXCEPT ![o] = FALSE]
    /\ next_id' = next_id + 1
    /\ UNCHANGED <<live, slots, count, g_next_generation, refs, grants, era>>

ObjectSeal(o) ==
    /\ object_id[o] # 0
    /\ sealed' = [sealed EXCEPT ![o] = TRUE]
    /\ UNCHANGED <<live, slots, count, g_next_generation, object_id, refs, next_id, grants, era>>

\* Defect: references are not counted.
DestroyableUnchecked(o) == object_id[o] # 0
Destroyable(o) == object_id[o] # 0 /\ refs[o] = 0

ObjectDestroy(o) ==
    /\ Destroyable(o)
    /\ object_id' = [object_id EXCEPT ![o] = 0]
    /\ UNCHANGED <<live, slots, count, g_next_generation, refs, sealed, next_id, grants, era>>

-----------------------------------------------------------------------------
(* Tables *)

TableInit(t) ==
    /\ t \notin live /\ era[t] < EraLimit
    /\ live' = live \cup {t}
    /\ slots' = [slots EXCEPT ![t] = [i \in Indices |-> FreeSlot(0)]]
    /\ count' = [count EXCEPT ![t] = 0]
    /\ era' = [era EXCEPT ![t] = @ + 1]
    /\ UNCHANGED <<g_next_generation, objectVars, refs, grants>>

TableDestroy(t) ==
    /\ TableValid(t) /\ count[t] = 0
    /\ live' = live \ {t}
    /\ slots' = [slots EXCEPT ![t] = [i \in Indices |-> FreeSlot(0)]]
    /\ UNCHANGED <<count, g_next_generation, objectVars, refs, grants, era>>

\* Indices that are free and whose issuer is not exhausted; the lowest is used.
Eligible(t) == {i \in Indices \ Occupied(t) : g_next_generation[i] <= GenerationMax}

\* Defect: the last generation of an index is issued again and again.
NextGenerationStuck(g) == IF g = GenerationMax THEN g ELSE g + 1
NextGeneration(g) == g + 1

Insert(t, o, rights) ==
    /\ TableValid(t) /\ rights # {}
    /\ object_id[o] # 0 /\ ~sealed[o]
    /\ \E i \in Eligible(t) :
        LET g == g_next_generation[i] IN
        /\ \A j \in Eligible(t) : i <= j
        /\ slots' = [slots EXCEPT ![t][i] =
                       [object |-> o, object_id |-> object_id[o], rights |-> rights,
                        generation |-> g, occupied |-> TRUE]]
        /\ g_next_generation' = [g_next_generation EXCEPT ![i] = NextGeneration(g)]
        /\ refs' = [refs EXCEPT ![o] = @ + 1]
        /\ count' = [count EXCEPT ![t] = @ + 1]
        /\ grants' = grants \cup {[generation |-> g, index |-> i, table |-> t, era |-> era[t],
                                   object |-> o, id |-> object_id[o], rights |-> rights]}
        /\ UNCHANGED <<live, objectVars, era>>

\* Slots of D that refer to o.
Naming(t, D, o) == {i \in D : slots[t][i].object = o}

\* delete_slot for every slot of D.
Delete(t, D) ==
    /\ slots' = [slots EXCEPT ![t] = [i \in Indices |->
                    IF i \in D THEN FreeSlot(slots[t][i].generation) ELSE slots[t][i]]]
    /\ refs' = [o \in Objects |-> refs[o] - Cardinality(Naming(t, D, o))]
    /\ count' = [count EXCEPT ![t] = @ - Cardinality(D)]
    /\ UNCHANGED <<live, g_next_generation, objectVars, grants, era>>

Revoke(t, generation, i) ==
    /\ TableValid(t) /\ Resolves(t, generation, i)
    /\ Delete(t, {i})

\* delete_selected checks every object's multiplicity before it deletes any slot.
DeleteSelected(t, D) ==
    /\ TableValid(t)
    /\ \A o \in Objects : refs[o] >= Cardinality(Naming(t, D, o))
    /\ Delete(t, D)

RevokeAll(t) == DeleteSelected(t, Occupied(t))

RevokeObject(t, o) == DeleteSelected(t, Naming(t, Occupied(t), o))

Init ==
    /\ live = {} /\ slots = [t \in Tables |-> [i \in Indices |-> FreeSlot(0)]]
    /\ count = [t \in Tables |-> 0] /\ era = [t \in Tables |-> 0]
    /\ g_next_generation = [i \in Indices |-> 1]
    /\ object_id = [o \in Objects |-> 0] /\ refs = [o \in Objects |-> 0]
    /\ sealed = [o \in Objects |-> FALSE]
    /\ next_id = 1 /\ grants = {}

Next ==
    \/ \E o \in Objects : ObjectCreate(o) \/ ObjectSeal(o) \/ ObjectDestroy(o)
    \/ \E t \in Tables : TableInit(t) \/ TableDestroy(t) \/ RevokeAll(t)
    \/ \E t \in Tables, o \in Objects :
          \/ RevokeObject(t, o)
          \/ \E rights \in SUBSET Rights : Insert(t, o, rights)
    \/ \E t \in Tables, g \in 1 .. GenerationMax, i \in Indices : Revoke(t, g, i)

Spec == Init /\ [][Next]_vars

-----------------------------------------------------------------------------
(* Properties *)

Slot == [object : Objects \cup {Nothing}, object_id : Nat, rights : SUBSET Rights,
         generation : Nat, occupied : BOOLEAN]
Grant == [generation : Nat, index : Indices, table : Tables, era : Nat,
          object : Objects, id : Nat, rights : SUBSET Rights]

\* Every variable keeps its type.
TypeOK ==
    /\ live \subseteq Tables
    /\ slots \in [Tables -> [Indices -> Slot]]
    /\ count \in [Tables -> Nat]
    /\ g_next_generation \in [Indices -> Nat \ {0}]
    /\ object_id \in [Objects -> Nat] /\ refs \in [Objects -> Nat]
    /\ sealed \in [Objects -> BOOLEAN]
    /\ next_id \in Nat \ {0}
    /\ grants \subseteq Grant /\ era \in [Tables -> Nat]

\* "Slot/table/object reuse never repeats an issued handle in this boot": two
\* grants with the same generation and index are one and the same grant.
HandlesNeverRepeat ==
    \A g, h \in grants :
        g.generation = h.generation /\ g.index = h.index => g = h

\* A handle resolves only in the table incarnation it was granted in, to the
\* object incarnation it was granted for, with the rights it was granted.
StaleHandlesStayDead ==
    \A t \in Tables, i \in Indices, g \in grants :
        (g.index = i /\ Resolves(t, g.generation, i)) =>
            /\ g.table = t /\ g.era = era[t]
            /\ g.object = slots[t][i].object /\ g.id = object_id[g.object]
            /\ g.rights = slots[t][i].rights

AllNaming(o) == {x \in Tables \X Indices :
                    x[1] \in live /\ slots[x[1]][x[2]].occupied /\ slots[x[1]][x[2]].object = o}

\* capability_refs is exactly the number of slots, over all tables, that name the
\* object, so an object with an occupied slot is never destroyed under it.
RefsExact ==
    /\ TypeOK
    /\ \A o \in Objects : refs[o] = Cardinality(AllNaming(o))
    /\ \A t \in live : TableValid(t)
=============================================================================
