-------------------------- MODULE ExitQueueProofs ---------------------------
(***************************************************************************)
(* The exit queue of module ExitQueue implements the events of module      *)
(* ExitEvents and keeps its watches, for every capacity and every set of   *)
(* processes and receivers.                                                *)
(***************************************************************************)
EXTENDS ExitQueue, FiniteSetTheorems, SequenceTheorems, WellFoundedInduction, TLAPS

(* What the constants have to be; the identities are counters. *)
Parameters ==
    /\ Capacity \in Nat \ {0} /\ ProcessIdLimit \in Nat /\ QueueIdLimit \in Nat
    /\ None \notin Processes /\ None \notin Receivers

Slot == [state : {"FREE", "WATCHING", "PENDING"}, process : Processes \cup {None},
         id : 0 .. ProcessIdLimit]
Process == [id : 0 .. ProcessIdLimit, exited : BOOLEAN, queue : 0 .. QueueIdLimit]

(* Position x of the order ring, at most one lap ahead. *)
Turn(x) == IF x < Capacity THEN x ELSE x - Capacity

(* The n entries of o from h on name different pending slots of s, and the *)
(* next one goes to l.                                                     *)
RingSound(s, o, h, l, n) ==
    /\ l = Turn(h + n)
    /\ \A k \in 0 .. n - 1 : s[o[Turn(h + k)]].state = "PENDING"
    /\ \A j, k \in 0 .. n - 1 : o[Turn(h + j)] = o[Turn(h + k)] => j = k

Events(s, o, h, n) == [k \in 1 .. n |-> s[o[Turn(h + (k - 1))]].id]

(* Processes p and the slots s of the queue with identity q know each other. *)
WatchSound(s, p, q) ==
    /\ \A i \in Index : s[i].state = "WATCHING" =>
          /\ s[i].process \in Processes /\ s[i].id = p[s[i].process].id /\ s[i].id # 0
          /\ p[s[i].process].queue = q /\ q # 0
    /\ \A i, j \in Index : s[i].state = "WATCHING" /\ s[j].state = "WATCHING"
                           /\ s[i].process = s[j].process => i = j
    /\ \A x \in Processes : p[x].queue # 0 =>
          \E i \in Index : s[i].state = "WATCHING" /\ s[i].process = x
    /\ \A i \in Index : s[i].state = "PENDING" => s[i].process = None /\ s[i].id # 0

(* An identity names one process. *)
IdsSound(p, m) ==
    /\ \A x \in Processes : p[x].id <= m
    /\ \A x, y \in Processes : p[x].id = p[y].id /\ p[x].id # 0 => x = y

In(s, st) == {i \in Index : s[i].state = st}

CountSound(s, w, n) ==
    /\ w = Cardinality(In(s, "WATCHING")) /\ n = Cardinality(In(s, "PENDING"))
    /\ w + n <= Capacity

(* A queue that does not exist is empty. *)
IdleSound ==
    id = 0 => /\ watch_count = 0 /\ pending_count = 0 /\ waiting_receiver = None
              /\ \A i \in Index : slots[i].state = "FREE"

WaitSound ==
    /\ waiting_receiver # None => wait_result[waiting_receiver] # "NONE"
    /\ NoSleepingReceiver

IInv ==
    /\ Parameters /\ TypeOK
    /\ RingSound(slots, pending_order, pending_head, pending_tail, pending_count)
    /\ WatchSound(slots, process, id) /\ (closed => watch_count = 0)
    /\ IdsSound(process, process_ids)
    /\ CountSound(slots, watch_count, pending_count)
    /\ IdleSound /\ WaitSound

-----------------------------------------------------------------------------
(* Positions and counts *)

LEMMA Wraps ==
    ASSUME Parameters, NEW x \in 0 .. 2 * Capacity - 1
    PROVE  x % Capacity = Turn(x)
<1>1. CASE x < Capacity
    BY <1>1 DEF Turn, Parameters
<1>2. CASE x >= Capacity
    BY <1>2 DEF Turn, Parameters
<1> QED
    BY <1>1, <1>2 DEF Parameters

LEMMA Positions ==
    ASSUME Parameters, NEW h \in Index
    PROVE  /\ \A k \in 0 .. Capacity : Turn(h + k) \in Index /\ (h + k) % Capacity = Turn(h + k)
           /\ \A j, k \in 0 .. Capacity - 1 : Turn(h + j) = Turn(h + k) => j = k
           /\ Turn(h + 0) = h
<1>1. ASSUME NEW k \in 0 .. Capacity
      PROVE  Turn(h + k) \in Index /\ (h + k) % Capacity = Turn(h + k)
  <2>1. Turn(h + k) \in Index /\ h + k \in 0 .. 2 * Capacity - 1
      BY DEF Turn, Index, Parameters
  <2> QED
      BY Zenon, <2>1, Wraps
<1>2. \A j, k \in 0 .. Capacity - 1 : Turn(h + j) = Turn(h + k) => j = k
    BY DEF Turn, Index, Parameters
<1>3. Turn(h + 0) = h
    BY DEF Turn, Index, Parameters
<1> QED
    BY Zenon, <1>1, <1>2, <1>3

LEMMA NextPosition ==
    ASSUME Parameters, NEW h \in Index, NEW k \in 0 .. Capacity - 1
    PROVE  Turn(Turn(h + k) + 1) = Turn(h + (k + 1)) /\ Turn(Turn(h + 1) + k) = Turn(h + (k + 1))
BY DEF Turn, Index, Parameters

LEMMA IndexFinite == Parameters => IsFiniteSet(Index) /\ Cardinality(Index) = Capacity
BY FS_Interval DEF Parameters, Index

LEMMA InFinite ==
    ASSUME Parameters, NEW s, NEW st
    PROVE  /\ IsFiniteSet(In(s, st)) /\ Cardinality(In(s, st)) \in Nat
           /\ Cardinality(In(s, st)) = 0 <=> In(s, st) = {}
<1>1. In(s, st) \subseteq Index
    BY Zenon DEF In
<1>2. IsFiniteSet(In(s, st))
    BY Zenon, <1>1, IndexFinite, FS_Subset
<1> QED
    BY Zenon, <1>2, FS_CardinalityType, FS_EmptySet

(* What one slot adds to the count of the slots in a state. *)
One(r, st) == IF r.state = st THEN 1 ELSE 0

Recounted(s, u, st, less, more) ==
    Cardinality(In(u, st)) = Cardinality(In(s, st)) - less + more

LEMMA CountUpdate ==
    ASSUME Parameters, NEW s \in [Index -> Slot], NEW i \in Index, NEW r \in Slot, NEW st
    PROVE  Recounted(s, [s EXCEPT ![i] = r], st, One(s[i], st), One(r, st))
<1> DEFINE u == [s EXCEPT ![i] = r]
           rest == In(s, st) \ {i}
<1>1. In(s, st) = IF s[i].state = st THEN rest \cup {i} ELSE rest
    BY Zenon DEF In
<1>2. In(u, st) = IF r.state = st THEN rest \cup {i} ELSE rest
    BY Zenon DEF In
<1>3. IsFiniteSet(rest) /\ Cardinality(rest) \in Nat
  <2>1. rest \subseteq Index
      BY Zenon DEF In
  <2> QED
      BY Zenon, <2>1, IndexFinite, FS_Subset, FS_CardinalityType
<1>4. Cardinality(rest \cup {i}) = Cardinality(rest) + 1
  <2>1. i \notin rest
      BY Zenon
  <2> HIDE DEF rest
  <2> QED
      BY Zenon, <1>3, <2>1, FS_AddElement
<1> HIDE DEF rest, u
<1>5. Cardinality(In(s, st)) = Cardinality(rest) + One(s[i], st)
    BY <1>1, <1>3, <1>4 DEF One
<1>6. Cardinality(In(u, st)) = Cardinality(rest) + One(r, st)
    BY <1>2, <1>3, <1>4 DEF One
<1>7. One(s[i], st) \in Nat /\ One(r, st) \in Nat
    BY Zenon DEF One
<1> QED
    BY <1>3, <1>5, <1>6, <1>7 DEF u, Recounted

-----------------------------------------------------------------------------
(* The order ring *)

LEMMA EventsListed ==
    ASSUME Parameters, NEW s, NEW o, NEW h, NEW n \in 0 .. Capacity,
           s \in [Index -> Slot], o \in [Index -> Index], h \in Index
    PROVE  /\ Events(s, o, h, n) \in Seq(0 .. ProcessIdLimit) /\ Len(Events(s, o, h, n)) = n
           /\ DOMAIN Events(s, o, h, n) = 1 .. n
           /\ \A k \in 1 .. n : Events(s, o, h, n)[k] = s[o[Turn(h + (k - 1))]].id
<1>1. n \in Nat
    BY DEF Parameters
<1>2. ASSUME NEW k \in 1 .. n PROVE s[o[Turn(h + (k - 1))]].id \in 0 .. ProcessIdLimit
  <2>1. k - 1 \in 0 .. Capacity
      BY DEF Parameters
  <2>2. Turn(h + (k - 1)) \in Index
      BY Zenon, <2>1, Positions
  <2>3. s[o[Turn(h + (k - 1))]] \in Slot
      BY Zenon, <2>2
  <2> QED
      BY Zenon, <2>3 DEF Slot
<1>3. Events(s, o, h, n) \in [1 .. n -> 0 .. ProcessIdLimit]
    BY Zenon, <1>2 DEF Events
<1>4. Events(s, o, h, n) \in Seq(0 .. ProcessIdLimit) /\ Len(Events(s, o, h, n)) = n
  <2>1. \A T, f : f \in [1 .. n -> T] => f \in Seq(T) /\ Len(f) = n
      BY <1>1
  <2> QED
      BY Zenon, <1>3, <2>1
<1>5. /\ DOMAIN Events(s, o, h, n) = 1 .. n
      /\ \A k \in 1 .. n : Events(s, o, h, n)[k] = s[o[Turn(h + (k - 1))]].id
    BY Zenon DEF Events
<1> QED
    BY Zenon, <1>4, <1>5

(* Slots that are not pending do not matter to the ring. *)
SamePending(s, u) == \A i \in Index : s[i].state = "PENDING" => u[i] = s[i]

LEMMA RingElsewhere ==
    ASSUME NEW s, NEW u, NEW o, NEW h, NEW l, NEW n, Parameters, n \in 0 .. Capacity,
           o \in [Index -> Index], h \in Index, RingSound(s, o, h, l, n),
           SamePending(s, u)
    PROVE  RingSound(u, o, h, l, n) /\ Events(u, o, h, n) = Events(s, o, h, n)
<1>1. ASSUME NEW k \in 0 .. n - 1 PROVE u[o[Turn(h + k)]] = s[o[Turn(h + k)]]
  <2>1. k \in 0 .. Capacity
      BY DEF Parameters
  <2>2. o[Turn(h + k)] \in Index
      BY Zenon, <2>1, Positions
  <2> QED
      BY Zenon, <2>2 DEF RingSound, SamePending
<1>2. \A k \in 1 .. n : k - 1 \in 0 .. n - 1
    BY DEF Parameters
<1>3. \A k \in 1 .. n : u[o[Turn(h + (k - 1))]].id = s[o[Turn(h + (k - 1))]].id
    BY Zenon, <1>1, <1>2
<1>4. Events(u, o, h, n) = Events(s, o, h, n)
    BY Zenon, <1>3 DEF Events
<1> QED
    BY Zenon, <1>1, <1>4 DEF RingSound

(* A slot that becomes pending is entered at the tail. *)
Pushed(s, u, o, v, h, l, n, event) ==
    /\ RingSound(u, v, h, Turn(l + 1), n + 1) /\ l \in Index /\ Turn(l + 1) \in Index
    /\ Events(u, v, h, n + 1) = Append(Events(s, o, h, n), event)

LEMMA RingPush ==
    ASSUME NEW s, NEW o, NEW h, NEW l, NEW n, NEW i \in Index, NEW r, Parameters,
           n \in 0 .. Capacity - 1, s \in [Index -> Slot], o \in [Index -> Index], h \in Index,
           RingSound(s, o, h, l, n), s[i].state # "PENDING", r \in Slot, r.state = "PENDING"
    PROVE  Pushed(s, [s EXCEPT ![i] = r], o, [o EXCEPT ![l] = i], h, l, n, r.id)
<1> DEFINE u == [s EXCEPT ![i] = r]
           v == [o EXCEPT ![l] = i]
<1>0. /\ n \in 0 .. Capacity /\ n + 1 \in 0 .. Capacity /\ n \in Nat
      /\ n \in 0 .. Capacity - 1 /\ 1 \in 0 .. Capacity
    BY DEF Parameters
<1>1. /\ \A k \in 0 .. n - 1 : k \in 0 .. Capacity - 1 /\ k \in 0 .. Capacity /\ k # n
      /\ \A k \in 0 .. (n + 1) - 1 : k \in 0 .. n - 1 \/ k = n
    BY DEF Parameters
<1>2. l = Turn(h + n) /\ l \in Index /\ Turn(l + 1) \in Index
    BY Zenon, <1>0, Positions DEF RingSound
<1>3. Turn(l + 1) = Turn(h + (n + 1))
  <2>1. l = Turn(h + n)
      BY Zenon, <1>2
  <2>2. Turn(Turn(h + n) + 1) = Turn(h + (n + 1))
      BY Zenon, <1>0, NextPosition
  <2> QED
      BY Zenon, <2>1, <2>2
<1>4. v[Turn(h + n)] = i /\ u[i] = r
    BY Zenon, <1>2
<1>5. ASSUME NEW k \in 0 .. n - 1
      PROVE  /\ v[Turn(h + k)] = o[Turn(h + k)] /\ v[Turn(h + k)] # i
             /\ u[v[Turn(h + k)]] = s[o[Turn(h + k)]] /\ s[o[Turn(h + k)]].state = "PENDING"
  <2>1. Turn(h + k) \in Index /\ Turn(h + k) # l
      BY Zenon, <1>1, <1>2, Positions
  <2>2. o[Turn(h + k)] \in Index /\ s[o[Turn(h + k)]].state = "PENDING"
      BY Zenon, <2>1 DEF RingSound
  <2> QED
      BY Zenon, <2>1, <2>2
<1> HIDE DEF u, v
<1>6. RingSound(u, v, h, Turn(l + 1), n + 1)
  <2>1. \A k \in 0 .. (n + 1) - 1 : u[v[Turn(h + k)]].state = "PENDING"
      BY Zenon, <1>1, <1>4, <1>5
  <2>2. ASSUME NEW j \in 0 .. (n + 1) - 1, NEW k \in 0 .. (n + 1) - 1,
               v[Turn(h + j)] = v[Turn(h + k)]
        PROVE  j = k
      BY Zenon, <1>1, <1>4, <1>5, <2>2 DEF RingSound
  <2> QED
      BY Zenon, <1>3, <2>1, <2>2 DEF RingSound
<1>7. Events(u, v, h, n + 1) = Append(Events(s, o, h, n), r.id)
  <2> DEFINE e == Events(s, o, h, n)
             f == Events(u, v, h, n + 1)
  <2>1. u \in [Index -> Slot] /\ v \in [Index -> Index]
      BY Zenon, <1>2 DEF u, v
  <2>2. /\ f \in Seq(0 .. ProcessIdLimit) /\ Len(f) = n + 1 /\ DOMAIN f = 1 .. n + 1
        /\ \A k \in 1 .. n + 1 : f[k] = u[v[Turn(h + (k - 1))]].id
      BY <1>0, <2>1, EventsListed
  <2>3. /\ e \in Seq(0 .. ProcessIdLimit) /\ Len(e) = n
        /\ \A k \in 1 .. n : e[k] = s[o[Turn(h + (k - 1))]].id
      BY <1>0, EventsListed
  <2> HIDE DEF e, f
  <2>4. r.id \in 0 .. ProcessIdLimit
      BY Zenon DEF Slot
  <2>5. /\ Append(e, r.id) \in Seq(0 .. ProcessIdLimit) /\ Len(Append(e, r.id)) = n + 1
        /\ \A k \in 1 .. n : Append(e, r.id)[k] = e[k]
        /\ Append(e, r.id)[n + 1] = r.id
      BY <1>0, <2>3, <2>4, AppendProperties
  <2>6. /\ \A k \in 1 .. n : k - 1 \in 0 .. n - 1
        /\ \A k \in 1 .. n + 1 : k \in 1 .. n \/ k = n + 1
        /\ (n + 1) - 1 = n /\ n + 1 \in 1 .. n + 1 /\ \A k \in 1 .. n : k \in 1 .. n + 1
      BY <1>0
  <2>7. ASSUME NEW k \in 1 .. n + 1 PROVE f[k] = Append(e, r.id)[k]
    <3>1. CASE k \in 1 .. n
      <4>1. u[v[Turn(h + (k - 1))]] = s[o[Turn(h + (k - 1))]]
          BY Zenon, <3>1, <1>5, <2>6
      <4>2. f[k] = u[v[Turn(h + (k - 1))]].id /\ Append(e, r.id)[k] = s[o[Turn(h + (k - 1))]].id
          BY Zenon, <3>1, <2>2, <2>3, <2>5
      <4> QED
          BY Zenon, <4>1, <4>2
    <3>2. CASE k = n + 1
        BY Zenon, <3>2, <1>4, <2>2, <2>5, <2>6
    <3> QED
        BY Zenon, <3>1, <3>2, <2>6
  <2>8. f = Append(e, r.id)
      BY Zenon, <2>2, <2>5, <2>7, SeqEqual
  <2> QED
      BY Zenon, <2>8 DEF e, f
<1> QED
    BY Zenon, <1>2, <1>6, <1>7 DEF u, v, Pushed

(* The slot at the head is given back. *)
Popped(s, u, o, v, h, l, n) ==
    /\ RingSound(u, v, Turn(h + 1), l, n - 1) /\ Turn(h + 1) \in Index
    /\ v \in [Index -> Index] /\ o[h] \in Index /\ s[o[h]].state = "PENDING"
    /\ Events(s, o, h, n) # <<>> /\ Head(Events(s, o, h, n)) = s[o[h]].id
    /\ Events(u, v, Turn(h + 1), n - 1) = Tail(Events(s, o, h, n))

LEMMA RingPop ==
    ASSUME NEW s, NEW o, NEW h, NEW l, NEW n, NEW r, Parameters, r \in Slot,
           n \in 1 .. Capacity, s \in [Index -> Slot], o \in [Index -> Index], h \in Index,
           RingSound(s, o, h, l, n)
    PROVE  Popped(s, [s EXCEPT ![o[h]] = r], o, [o EXCEPT ![h] = 0], h, l, n)
<1> DEFINE u == [s EXCEPT ![o[h]] = r]
           v == [o EXCEPT ![h] = 0]
           g == Turn(h + 1)
<1>0. /\ n \in 0 .. Capacity /\ n - 1 \in 0 .. Capacity /\ n \in Nat /\ n - 1 \in Nat
      /\ 1 \in 0 .. Capacity /\ 0 \in 0 .. n - 1 /\ 0 \in 0 .. Capacity - 1 /\ 0 \in Index
    BY DEF Parameters, Index
<1>1. /\ \A k \in 0 .. (n - 1) - 1 : /\ k + 1 \in 0 .. n - 1 /\ k + 1 # 0
                                     /\ k + 1 \in 0 .. Capacity - 1 /\ k + 1 \in 0 .. Capacity
      /\ \A j, k \in 0 .. (n - 1) - 1 : j + 1 = k + 1 => j = k
    BY DEF Parameters
<1>2. Turn(h + 0) = h /\ g \in Index
    BY Zenon, <1>0, Positions
<1>3. \A k \in 0 .. n - 1 : Turn(g + k) = Turn(h + (k + 1))
    BY DEF Turn, Index, Parameters
<1>4. l = Turn(g + (n - 1))
  <2>1. l = Turn(h + n)
      BY Zenon DEF RingSound
  <2> QED
      BY <2>1 DEF Turn, Index, Parameters
<1>5. o[h] \in Index /\ s[o[h]].state = "PENDING"
    BY Zenon, <1>0, <1>2 DEF RingSound
<1>6. v \in [Index -> Index] /\ u \in [Index -> Slot]
    BY Zenon, <1>0, <1>5
<1>7. ASSUME NEW k \in 0 .. (n - 1) - 1
      PROVE  v[Turn(g + k)] = o[Turn(h + (k + 1))] /\ u[v[Turn(g + k)]] = s[o[Turn(h + (k + 1))]]
  <2>1. Turn(g + k) = Turn(h + (k + 1)) /\ Turn(h + (k + 1)) \in Index /\ Turn(h + (k + 1)) # h
    <3>1. k \in 0 .. n - 1
        BY <1>0
    <3> QED
        BY Zenon, <3>1, <1>0, <1>1, <1>2, <1>3, Positions
  <2>2. o[Turn(h + (k + 1))] # o[h] /\ o[Turn(h + (k + 1))] \in Index
      BY Zenon, <1>0, <1>1, <1>2, <2>1 DEF RingSound
  <2> QED
      BY Zenon, <2>1, <2>2
<1> HIDE DEF u, v, g
<1>8. RingSound(u, v, g, l, n - 1)
  <2>1. ASSUME NEW k \in 0 .. (n - 1) - 1 PROVE u[v[Turn(g + k)]].state = "PENDING"
    <3>1. s[o[Turn(h + (k + 1))]].state = "PENDING"
        BY Zenon, <1>1 DEF RingSound
    <3> QED
        BY Zenon, <3>1, <1>7
  <2>2. ASSUME NEW j \in 0 .. (n - 1) - 1, NEW k \in 0 .. (n - 1) - 1,
               v[Turn(g + j)] = v[Turn(g + k)]
        PROVE  j = k
    <3>1. o[Turn(h + (j + 1))] = o[Turn(h + (k + 1))]
        BY Zenon, <2>2, <1>7
    <3>2. j + 1 = k + 1
        BY Zenon, <3>1, <1>1 DEF RingSound
    <3> QED
        BY Zenon, <3>2, <1>1
  <2> QED
      BY Zenon, <1>4, <2>1, <2>2 DEF RingSound
<1> DEFINE e == Events(s, o, h, n)
           f == Events(u, v, g, n - 1)
<1>9. /\ f \in Seq(0 .. ProcessIdLimit) /\ Len(f) = n - 1
      /\ \A k \in 1 .. n - 1 : f[k] = u[v[Turn(g + (k - 1))]].id
  <2>1. \A m \in 0 .. Capacity :
            /\ Events(u, v, g, m) \in Seq(0 .. ProcessIdLimit) /\ Len(Events(u, v, g, m)) = m
            /\ \A k \in 1 .. m : Events(u, v, g, m)[k] = u[v[Turn(g + (k - 1))]].id
      BY <1>2, <1>6, EventsListed
  <2> QED
      BY Zenon, <1>0, <2>1
<1>10. /\ e \in Seq(0 .. ProcessIdLimit) /\ Len(e) = n
       /\ \A k \in 1 .. n : e[k] = s[o[Turn(h + (k - 1))]].id
    BY <1>0, EventsListed
<1> HIDE DEF e, f
<1>11. /\ \A k \in 1 .. n - 1 : /\ k - 1 \in 0 .. (n - 1) - 1 /\ (k - 1) + 1 = k
                                /\ k + 1 \in 1 .. n /\ (k + 1) - 1 = k
       /\ 1 \in 1 .. n /\ 1 - 1 = 0
    BY <1>0
<1>12. e # <<>> /\ Head(e) = e[1]
    BY <1>0, <1>10
<1>13. /\ Tail(e) \in Seq(0 .. ProcessIdLimit) /\ Len(Tail(e)) = n - 1
       /\ \A k \in 1 .. n - 1 : Tail(e)[k] = e[k + 1]
    BY <1>0, <1>10, <1>12
<1>14. ASSUME NEW k \in 1 .. n - 1 PROVE f[k] = Tail(e)[k]
  <2>1. u[v[Turn(g + (k - 1))]] = s[o[Turn(h + ((k - 1) + 1))]]
      BY Zenon, <1>7, <1>11
  <2>2. f[k] = s[o[Turn(h + k)]].id
      BY Zenon, <1>9, <1>11, <2>1
  <2>3. Tail(e)[k] = s[o[Turn(h + k)]].id
      BY Zenon, <1>10, <1>11, <1>13
  <2> QED
      BY Zenon, <2>2, <2>3
<1>15. f = Tail(e)
    BY Zenon, <1>9, <1>13, <1>14, SeqEqual
<1>16. Head(e) = s[o[h]].id
    BY Zenon, <1>2, <1>10, <1>11, <1>12
<1> QED
    BY Zenon, <1>2, <1>5, <1>6, <1>8, <1>12, <1>15, <1>16 DEF u, v, g, e, f, Popped

-----------------------------------------------------------------------------
(* Watches *)

(* A watch ends: its slot r is free or pending, and its process forgets the queue. *)
LEMMA WatchRemoved ==
    ASSUME NEW s \in [Index -> Slot], NEW p \in [Processes -> Process], NEW q,
           NEW x \in Processes, NEW i \in Index, NEW r, NEW rec, WatchSound(s, p, q),
           s[i].state = "WATCHING", s[i].process = x, r.state # "WATCHING",
           r.state = "PENDING" => r.process = None /\ r.id # 0, rec.queue = 0
    PROVE  WatchSound([s EXCEPT ![i] = r], [p EXCEPT ![x] = rec], q)
<1> DEFINE u == [s EXCEPT ![i] = r]
           v == [p EXCEPT ![x] = rec]
<1>1. /\ u[i] = r /\ v[x] = rec
      /\ \A j \in Index : j # i => u[j] = s[j]
      /\ \A y \in Processes : y # x => v[y] = p[y]
    BY Zenon
<1> HIDE DEF u, v
<1>2. ASSUME NEW j \in Index, u[j].state = "WATCHING"
      PROVE  j # i /\ u[j] = s[j] /\ s[j].state = "WATCHING" /\ s[j].process \in Processes \ {x}
  <2>1. j # i /\ u[j] = s[j] /\ s[j].state = "WATCHING"
      BY Zenon, <1>1, <1>2
  <2> QED
      BY Zenon, <2>1 DEF WatchSound
<1>3. ASSUME NEW j \in Index, u[j].state = "WATCHING"
      PROVE  /\ u[j].process \in Processes /\ u[j].id = v[u[j].process].id /\ u[j].id # 0
             /\ v[u[j].process].queue = q /\ q # 0
  <2>1. u[j] = s[j] /\ v[s[j].process] = p[s[j].process] /\ s[j].state = "WATCHING"
      BY Zenon, <1>1, <1>2, <1>3
  <2> QED
      BY <2>1 DEF WatchSound
<1>4. ASSUME NEW j \in Index, NEW k \in Index, u[j].state = "WATCHING", u[k].state = "WATCHING",
             u[j].process = u[k].process
      PROVE  j = k
  <2>1. s[j].state = "WATCHING" /\ s[k].state = "WATCHING" /\ s[j].process = s[k].process
      BY Zenon, <1>2, <1>4
  <2> QED
      BY Zenon, <2>1 DEF WatchSound
<1>5. ASSUME NEW y \in Processes, v[y].queue # 0
      PROVE  \E j \in Index : u[j].state = "WATCHING" /\ u[j].process = y
  <2>1. y # x /\ p[y].queue # 0
      BY Zenon, <1>1, <1>5
  <2>2. PICK j \in Index : s[j].state = "WATCHING" /\ s[j].process = y
      BY Zenon, <2>1 DEF WatchSound
  <2> QED
      BY Zenon, <1>1, <2>1, <2>2
<1>6. ASSUME NEW j \in Index, u[j].state = "PENDING" PROVE u[j].process = None /\ u[j].id # 0
    BY <1>1, <1>6 DEF WatchSound
<1>7. WatchSound(u, v, q)
    BY Zenon, <1>3, <1>4, <1>5, <1>6 DEF WatchSound
<1> QED
    BY Zenon, <1>7 DEF u, v

(* A process that has no watch is given one. *)
LEMMA WatchAdded ==
    ASSUME NEW s \in [Index -> Slot], NEW p \in [Processes -> Process], NEW q,
           NEW x \in Processes, NEW i \in Index, NEW r, NEW rec, WatchSound(s, p, q),
           s[i].state = "FREE", p[x].queue = 0, q # 0,
           r.state = "WATCHING", r.process = x, r.id = rec.id, r.id # 0, rec.queue = q
    PROVE  WatchSound([s EXCEPT ![i] = r], [p EXCEPT ![x] = rec], q)
<1> DEFINE u == [s EXCEPT ![i] = r]
           v == [p EXCEPT ![x] = rec]
<1>1. /\ u[i] = r /\ v[x] = rec
      /\ \A j \in Index : j # i => u[j] = s[j]
      /\ \A y \in Processes : y # x => v[y] = p[y]
    BY Zenon
<1> HIDE DEF u, v
<1>2. ASSUME NEW j \in Index, s[j].state = "WATCHING"
      PROVE  j # i /\ u[j] = s[j] /\ s[j].process \in Processes \ {x}
  <2>1. "FREE" # "WATCHING"
      BY Zenon
  <2>2. j # i /\ s[j].process \in Processes \ {x}
      BY Zenon, <1>2, <2>1 DEF WatchSound
  <2> QED
      BY Zenon, <1>1, <2>2
<1>3. ASSUME NEW j \in Index, u[j].state = "WATCHING"
      PROVE  /\ u[j].process \in Processes /\ u[j].id = v[u[j].process].id /\ u[j].id # 0
             /\ v[u[j].process].queue = q /\ q # 0
  <2>1. CASE j = i
      BY Zenon, <1>1, <2>1
  <2>2. CASE j # i
    <3>1. s[j].state = "WATCHING" /\ u[j] = s[j]
        BY Zenon, <1>1, <1>3, <2>2
    <3>2. v[s[j].process] = p[s[j].process]
        BY Zenon, <1>1, <1>2, <3>1
    <3> QED
        BY <3>1, <3>2 DEF WatchSound
  <2> QED
      BY Zenon, <2>1, <2>2
<1>4. ASSUME NEW j \in Index, NEW k \in Index, u[j].state = "WATCHING", u[k].state = "WATCHING",
             u[j].process = u[k].process
      PROVE  j = k
  <2>1. ASSUME NEW m \in Index, u[m].state = "WATCHING", m # i
        PROVE  s[m].state = "WATCHING" /\ u[m] = s[m] /\ s[m].process # x
      BY Zenon, <1>1, <1>2, <2>1
  <2>2. CASE j # i /\ k # i
    <3>1. s[j].state = "WATCHING" /\ s[k].state = "WATCHING" /\ s[j].process = s[k].process
        BY Zenon, <1>4, <2>1, <2>2
    <3> QED
        BY Zenon, <3>1 DEF WatchSound
  <2>3. CASE j = i /\ k # i
      BY Zenon, <1>1, <1>4, <2>1, <2>3
  <2>4. CASE j # i /\ k = i
      BY Zenon, <1>1, <1>4, <2>1, <2>4
  <2> QED
      BY Zenon, <2>2, <2>3, <2>4
<1>5. ASSUME NEW y \in Processes, v[y].queue # 0
      PROVE  \E j \in Index : u[j].state = "WATCHING" /\ u[j].process = y
  <2>1. CASE y = x
      BY Zenon, <1>1, <2>1
  <2>2. CASE y # x
    <3>1. PICK j \in Index : s[j].state = "WATCHING" /\ s[j].process = y
        BY <1>1, <1>5, <2>2 DEF WatchSound
    <3> QED
        BY Zenon, <1>2, <3>1
  <2> QED
      BY Zenon, <2>1, <2>2
<1>6. ASSUME NEW j \in Index, u[j].state = "PENDING" PROVE u[j].process = None /\ u[j].id # 0
  <2>1. "PENDING" # "WATCHING"
      BY Zenon
  <2> QED
      BY <1>1, <1>6, <2>1 DEF WatchSound
<1>7. WatchSound(u, v, q)
    BY Zenon, <1>3, <1>4, <1>5, <1>6 DEF WatchSound
<1> QED
    BY Zenon, <1>7 DEF u, v

(* A process that has no watch comes, goes or exits. *)
LEMMA WatchElsewhere ==
    ASSUME NEW s, NEW p \in [Processes -> Process], NEW q, NEW x \in Processes, NEW rec,
           WatchSound(s, p, q), p[x].queue = 0, rec.queue = 0
    PROVE  WatchSound(s, [p EXCEPT ![x] = rec], q)
<1> DEFINE v == [p EXCEPT ![x] = rec]
<1>1. v[x] = rec /\ \A y \in Processes : y # x => v[y] = p[y]
    BY Zenon
<1> HIDE DEF v
<1>2. ASSUME NEW j \in Index, s[j].state = "WATCHING"
      PROVE  s[j].process \in Processes \ {x} /\ v[s[j].process] = p[s[j].process]
    BY <1>1, <1>2 DEF WatchSound
<1>3. ASSUME NEW y \in Processes, v[y].queue # 0 PROVE p[y].queue # 0
    BY Zenon, <1>1, <1>3
<1>4. WatchSound(s, v, q)
    BY ZenonT(30), <1>2, <1>3 DEF WatchSound
<1> QED
    BY Zenon, <1>4 DEF v

(* A process keeps its identity or gives it up. *)
LEMMA IdsKept ==
    ASSUME NEW p \in [Processes -> Process], NEW m \in Nat, NEW x \in Processes, NEW rec,
           IdsSound(p, m), rec.id \in {0, p[x].id}
    PROVE  IdsSound([p EXCEPT ![x] = rec], m)
<1> DEFINE v == [p EXCEPT ![x] = rec]
<1>1. v[x] = rec /\ \A y \in Processes : y # x => v[y] = p[y]
    BY Zenon
<1> HIDE DEF v
<1>2. \A y \in Processes : v[y].id \in {0, p[y].id}
    BY Zenon, <1>1
<1>3. 0 <= m
    OBVIOUS
<1>4. \A y \in Processes : v[y].id <= m
    BY Zenon, <1>2, <1>3 DEF IdsSound
<1>5. ASSUME NEW y \in Processes, NEW z \in Processes, v[y].id = v[z].id, v[y].id # 0
      PROVE  y = z
    BY Zenon, <1>2, <1>5 DEF IdsSound
<1>6. IdsSound(v, m)
    BY Zenon, <1>4, <1>5 DEF IdsSound
<1> QED
    BY Zenon, <1>6 DEF v

(* A new process has an identity that no process had. *)
LEMMA IdsIssued ==
    ASSUME NEW p \in [Processes -> Process], NEW m \in Nat, NEW x \in Processes, NEW rec,
           IdsSound(p, m), rec.id = m + 1
    PROVE  IdsSound([p EXCEPT ![x] = rec], m + 1)
<1> DEFINE v == [p EXCEPT ![x] = rec]
<1>1. v[x] = rec /\ \A y \in Processes : y # x => v[y] = p[y]
    BY Zenon
<1> HIDE DEF v
<1>2. \A y \in Processes : p[y].id \in Int /\ p[y].id <= m
    BY DEF IdsSound, Process
<1>3. \A y \in Processes : p[y].id <= m + 1 /\ p[y].id # m + 1
    BY <1>2
<1>4. m + 1 <= m + 1
    OBVIOUS
<1>5. \A y \in Processes : v[y].id <= m + 1
    BY Zenon, <1>1, <1>3, <1>4
<1>6. ASSUME NEW y \in Processes, NEW z \in Processes, v[y].id = v[z].id, v[y].id # 0
      PROVE  y = z
    BY Zenon, <1>1, <1>3, <1>6 DEF IdsSound
<1>7. IdsSound(v, m + 1)
    BY Zenon, <1>5, <1>6 DEF IdsSound
<1> QED
    BY Zenon, <1>7 DEF v

-----------------------------------------------------------------------------
(* What the invariant says *)

LEMMA Typed ==
    ASSUME TypeOK
    PROVE  /\ slots \in [Index -> Slot] /\ process \in [Processes -> Process]
           /\ pending_order \in [Index -> Index] /\ pending_head \in Index /\ pending_tail \in Index
           /\ pending_count \in 0 .. Capacity /\ watch_count \in 0 .. Capacity
BY Zenon DEF TypeOK, Slot, Process

LEMMA OrderIs ==
    ASSUME Parameters, TypeOK
    PROVE  \A k \in 0 .. Capacity : Order(k) = pending_order[Turn(pending_head + k)]
BY Zenon, Typed, Positions DEF Order

WatchedIn(s) == {s[i].id : i \in In(s, "WATCHING")}

(* The abstract state in terms of the slots and the order ring. *)
Viewed ==
    Parameters /\ TypeOK =>
        /\ WatchedIds = WatchedIn(slots)
        /\ EventOrder = Events(slots, pending_order, pending_head, pending_count)

LEMMA ViewIs == Viewed
<1> SUFFICES ASSUME Parameters, TypeOK
             PROVE  /\ WatchedIds = WatchedIn(slots)
                    /\ EventOrder = Events(slots, pending_order, pending_head, pending_count)
    BY Zenon DEF Viewed
<1>1. WatchedIds = WatchedIn(slots)
    BY Zenon DEF WatchedIds, WatchedIn, Watching, In
<1>2. pending_count \in 0 .. Capacity
    BY Zenon, Typed
<1>3. \A k \in 1 .. pending_count : k - 1 \in 0 .. Capacity
    BY <1>2 DEF Parameters
<1>4. \A k \in 1 .. pending_count : Order(k - 1) = pending_order[Turn(pending_head + (k - 1))]
    BY Zenon, <1>3, OrderIs
<1>5. EventOrder = Events(slots, pending_order, pending_head, pending_count)
    BY Zenon, <1>4 DEF EventOrder, Events
<1> QED
    BY Zenon, <1>1, <1>5

LEMMA ViewIsNext == Viewed'
BY ViewIs, PTL

(* A watched process has one slot, which carries its identity. *)
LEMMA WatchOfIs ==
    ASSUME IInv, NEW p \in Processes, process[p].queue # 0
    PROVE  /\ process[p].queue = id /\ Live /\ ~closed /\ process[p].id # 0
           /\ \E i \in Index : /\ WatchOf(p) = {i} /\ slots[i].state = "WATCHING"
                               /\ slots[i].process = p /\ slots[i].id = process[p].id
<1>1. WatchSound(slots, process, id) /\ Parameters
    BY Zenon DEF IInv
<1>2. PICK i \in Index : slots[i].state = "WATCHING" /\ slots[i].process = p
    BY Zenon, <1>1 DEF WatchSound
<1>3. slots[i].id = process[p].id /\ process[p].id # 0 /\ process[p].queue = id /\ id # 0
    BY <1>1, <1>2 DEF WatchSound
<1>4. WatchOf(p) = {i}
    BY Zenon, <1>1, <1>2, <1>3 DEF WatchOf, Watching, WatchSound
<1>5. ~closed
  <2>1. In(slots, "WATCHING") # {}
      BY Zenon, <1>2 DEF In
  <2>2. watch_count # 0
      BY Zenon, <1>1, <2>1, InFinite DEF IInv, CountSound
  <2> QED
      BY Zenon, <2>2 DEF IInv
<1> QED
    BY Zenon, <1>2, <1>3, <1>4, <1>5 DEF Live

LEMMA ValidWhenLive ==
    ASSUME IInv, Live
    PROVE  QueueValid
<1>1. /\ Parameters /\ TypeOK /\ WatchSound(slots, process, id) /\ WaitSound
      /\ RingSound(slots, pending_order, pending_head, pending_tail, pending_count)
      /\ CountSound(slots, watch_count, pending_count)
    BY Zenon DEF IInv
<1>2. Watching = In(slots, "WATCHING") /\ Pending = In(slots, "PENDING")
    BY Zenon DEF Watching, Pending, In
<1>3. /\ watch_count = Cardinality(Watching) /\ pending_count = Cardinality(Pending)
      /\ watch_count + pending_count <= Capacity
    BY Zenon, <1>1, <1>2 DEF CountSound
<1>4. ASSUME NEW i \in Watching
      PROVE  LET p == slots[i].process
             IN  p # None /\ InUse(p) /\ process[p].id = slots[i].id /\ process[p].queue = id
    BY Zenon, <1>1 DEF Watching, WatchSound, InUse, Parameters
<1>5. \A i \in Pending : slots[i].process = None /\ slots[i].id # 0
    BY Zenon, <1>1 DEF Pending, WatchSound
<1>6. pending_tail = (pending_head + pending_count) % Capacity
    BY Zenon, <1>1, Typed, Positions DEF RingSound
<1>7. ASSUME NEW k \in 0 .. pending_count - 1
      PROVE  Order(k) \in Pending /\ \A l \in 0 .. k - 1 : Order(l) # Order(k)
  <2>1. pending_count \in 0 .. Capacity
      BY Zenon, <1>1, Typed
  <2>2. /\ k \in 0 .. Capacity
        /\ \A l \in 0 .. k - 1 : l \in 0 .. Capacity /\ l \in 0 .. pending_count - 1 /\ l # k
      BY <1>1, <2>1 DEF Parameters
  <2>3. Order(k) = pending_order[Turn(pending_head + k)] /\ Order(k) \in Index
      BY Zenon, <1>1, <2>2, OrderIs, Typed, Positions
  <2>4. Order(k) \in Pending
      BY Zenon, <1>1, <2>3 DEF RingSound, Pending
  <2>5. ASSUME NEW l \in 0 .. k - 1 PROVE Order(l) # Order(k)
    <3>1. Order(l) = pending_order[Turn(pending_head + l)]
        BY Zenon, <1>1, <2>2, OrderIs
    <3> QED
        BY Zenon, <1>1, <2>2, <2>3, <3>1 DEF RingSound
  <2> QED
      BY Zenon, <2>4, <2>5
<1>8. waiting_receiver # None => wait_result[waiting_receiver] # "NONE"
    BY Zenon, <1>1 DEF WaitSound
<1> QED
    BY Zenon, <1>3, <1>4, <1>5, <1>6, <1>7, <1>8 DEF QueueValid

LEMMA Implied == IInv => WatchersCanPublish /\ NoSleepingReceiver
<1> SUFFICES ASSUME IInv PROVE WatchersCanPublish /\ NoSleepingReceiver
    BY Zenon
<1>1. TypeOK /\ NoSleepingReceiver
    BY Zenon DEF IInv, WaitSound
<1>2. ASSUME NEW p \in Processes, process[p].queue # 0
      PROVE  process[p].queue = id /\ ~closed /\ Cardinality(WatchOf(p)) = 1
  <2>1. process[p].queue = id /\ ~closed /\ \E i : WatchOf(p) = {i}
      BY Zenon, <1>2, WatchOfIs
  <2>2. \A i : Cardinality({i}) = 1
      BY Zenon, FS_Singleton
  <2> QED
      BY Zenon, <2>1, <2>2
<1> QED
    BY Zenon, <1>1, <1>2, ValidWhenLive DEF WatchersCanPublish

LEMMA Empty ==
    ASSUME Parameters
    PROVE  LET s == [i \in Index |-> FreeSlot]
           IN  /\ s \in [Index -> Slot] /\ CountSound(s, 0, 0) /\ WatchedIn(s) = {}
               /\ \A i \in Index : s[i].state = "FREE"
               /\ \A o, h : Events(s, o, h, 0) = <<>>
               /\ \A o : \A h \in Index : RingSound(s, o, h, h, 0)
<1> DEFINE s == [i \in Index |-> FreeSlot]
<1>1. FreeSlot \in Slot /\ FreeSlot.state = "FREE"
    BY DEF FreeSlot, Slot, Parameters
<1>2. s \in [Index -> Slot] /\ \A i \in Index : s[i].state = "FREE"
    BY Zenon, <1>1
<1> HIDE DEF s
<1>3. "FREE" # "WATCHING" /\ "FREE" # "PENDING"
    BY Zenon
<1>4. In(s, "WATCHING") = {} /\ In(s, "PENDING") = {}
    BY Zenon, <1>2, <1>3 DEF In
<1>5. CountSound(s, 0, 0)
  <2>1. 0 + 0 <= Capacity
      BY DEF Parameters
  <2> QED
      BY Zenon, <1>4, <2>1, FS_EmptySet DEF CountSound
<1>6. WatchedIn(s) = {}
    BY Zenon, <1>4 DEF WatchedIn
<1>7. \A o, h : Events(s, o, h, 0) = <<>>
    BY DEF Events
<1>8. ASSUME NEW o, NEW h \in Index PROVE RingSound(s, o, h, h, 0)
  <2>1. h = Turn(h + 0)
      BY Zenon, Positions
  <2>2. 0 .. 0 - 1 = {}
      OBVIOUS
  <2> QED
      BY Zenon, <2>1, <2>2 DEF RingSound
<1> QED
    BY Zenon, <1>2, <1>5, <1>6, <1>7, <1>8 DEF s

LEMMA InitInv == Parameters /\ Init => IInv /\ Abstract!Init
<1> SUFFICES ASSUME Parameters, Init PROVE IInv /\ Abstract!Init
    BY Zenon
<1> DEFINE s == [i \in Index |-> FreeSlot]
<1>1. /\ slots = s /\ process = [p \in Processes |-> NoProcess] /\ id = 0 /\ closed = FALSE
      /\ pending_order = [i \in Index |-> 0]
      /\ pending_head = 0 /\ pending_tail = 0 /\ watch_count = 0 /\ pending_count = 0
      /\ process_ids = 0 /\ queue_ids = 0
      /\ waiting_receiver = None /\ wait_result = [r \in Receivers |-> "NONE"]
      /\ delivered = <<>>
    BY Zenon DEF Init
<1>2. 0 \in Index /\ 0 \in 0 .. Capacity /\ 0 \in 0 .. ProcessIdLimit /\ 0 \in 0 .. QueueIdLimit /\ 0 <= 0
    BY DEF Index, Parameters
<1>3. NoProcess \in Process /\ NoProcess.id = 0 /\ NoProcess.queue = 0
    BY Zenon, <1>2 DEF NoProcess, Process
<1>4. /\ s \in [Index -> Slot] /\ CountSound(s, 0, 0) /\ WatchedIn(s) = {}
      /\ \A i \in Index : s[i].state = "FREE"
      /\ \A o, h : Events(s, o, h, 0) = <<>>
      /\ \A o : \A h \in Index : RingSound(s, o, h, h, 0)
    BY Zenon, Empty
<1> HIDE DEF s
<1>5. delivered \in Seq(1 .. ProcessIdLimit)
    BY <1>1
<1>6. TypeOK
    BY Zenon, <1>1, <1>2, <1>3, <1>4, <1>5 DEF TypeOK, Slot, Process
<1>7. "FREE" # "WATCHING" /\ "FREE" # "PENDING"
    OBVIOUS
<1>8. WatchSound(slots, process, id)
    BY Zenon, <1>1, <1>3, <1>4, <1>7 DEF WatchSound
<1>9. IdsSound(process, process_ids)
    BY Zenon, <1>1, <1>2, <1>3 DEF IdsSound
<1>10. IdleSound /\ WaitSound
    BY Zenon, <1>1, <1>4 DEF IdleSound, WaitSound, NoSleepingReceiver
<1>11. /\ RingSound(slots, pending_order, pending_head, pending_tail, pending_count)
       /\ CountSound(slots, watch_count, pending_count)
    BY Zenon, <1>1, <1>2, <1>4
<1>12. IInv
    BY Zenon, <1>1, <1>6, <1>8, <1>9, <1>10, <1>11 DEF IInv
<1>13. WatchedIds = {} /\ EventOrder = <<>>
    BY Zenon, <1>1, <1>4, <1>6, ViewIs DEF Viewed
<1> QED
    BY Zenon, <1>1, <1>12, <1>13 DEF Abstract!Init

-----------------------------------------------------------------------------
(* Steps *)

aVars == <<WatchedIds, EventOrder, delivered>>

Step == IInv' /\ [Abstract!Next]_aVars

LEMMA Facts ==
    ASSUME IInv
    PROVE  /\ Parameters /\ TypeOK /\ WatchSound(slots, process, id) /\ (closed => watch_count = 0)
           /\ RingSound(slots, pending_order, pending_head, pending_tail, pending_count)
           /\ IdsSound(process, process_ids)
           /\ CountSound(slots, watch_count, pending_count)
           /\ IdleSound /\ WaitSound
BY Zenon DEF IInv

(* Nothing of the queue changes but, possibly, who waits for it. *)
LEMMA QuietStep ==
    ASSUME IInv, UNCHANGED <<queueVars, delivered>>,
           TypeOK', WatchSound(slots, process', id), IdsSound(process', process_ids'),
           WaitSound', id = 0 => waiting_receiver' = None
    PROVE  Step
<1>1. UNCHANGED <<id, closed, slots, pending_order, pending_head, pending_tail,
                  watch_count, pending_count>>
    BY Zenon DEF queueVars
<1>2. IdleSound'
    BY Zenon, <1>1, Facts DEF IdleSound
<1>3. RingSound(slots, pending_order, pending_head, pending_tail, pending_count)'
    BY Zenon, <1>1, Facts DEF RingSound
<1>4. WatchSound(slots, process, id)' /\ IdsSound(process, process_ids)'
    BY Zenon, <1>1
<1>5. CountSound(slots, watch_count, pending_count)' /\ (closed => watch_count = 0)'
    BY Zenon, <1>1, Facts DEF CountSound
<1>6. IInv'
    BY Zenon, <1>2, <1>3, <1>4, <1>5, Facts DEF IInv
<1>7. UNCHANGED aVars
    BY Zenon, <1>1 DEF aVars, WatchedIds, EventOrder, Watching, Order
<1> QED
    BY Zenon, <1>6, <1>7 DEF Step

LEMMA WaitStep ==
    ASSUME IInv, NEW r \in Receivers \cup {None}, NEW w,
           w \in [Receivers -> {"NONE", "PENDING", "COMPLETED", "PEER_CLOSED"}],
           waiting_receiver' = r, wait_result' = w,
           UNCHANGED <<process, process_ids, queueVars, queue_ids, delivered>>,
           WaitSound', id = 0 => r = None
    PROVE  Step
<1>1. UNCHANGED <<id, closed, slots, pending_order, pending_head, pending_tail,
                  watch_count, pending_count>>
    BY Zenon DEF queueVars
<1>2. TypeOK'
    BY Zenon, <1>1, Facts DEF TypeOK
<1>3. WatchSound(slots, process', id) /\ IdsSound(process', process_ids')
    BY Zenon, Facts
<1> QED
    BY Zenon, <1>2, <1>3, QuietStep

LEMMA ProcessStep ==
    ASSUME IInv, NEW x \in Processes, NEW rec \in Process, process[x].queue = 0, rec.queue = 0,
           process' = [process EXCEPT ![x] = rec], process_ids' \in 0 .. ProcessIdLimit,
           IdsSound(process', process_ids'),
           UNCHANGED <<queueVars, queue_ids, waiting_receiver, wait_result, delivered>>
    PROVE  Step
<1>1. UNCHANGED <<id, closed, slots, pending_order, pending_head, pending_tail,
                  watch_count, pending_count>>
    BY Zenon DEF queueVars
<1>2. process \in [Processes -> Process] /\ TypeOK
    BY Zenon, Facts, Typed
<1>3. process' \in [Processes -> Process]
    BY Zenon, <1>2
<1>4. TypeOK'
    BY Zenon, <1>1, <1>2, <1>3 DEF TypeOK, Process
<1>5. WatchSound(slots, process', id)
    BY Zenon, <1>2, Facts, WatchElsewhere
<1>6. WaitSound' /\ (id = 0 => waiting_receiver' = None)
    BY Zenon, <1>1, Facts DEF WaitSound, NoSleepingReceiver, IdleSound
<1> QED
    BY Zenon, <1>4, <1>5, <1>6, QuietStep

LEMMA ProcessOps ==
    ASSUME IInv, NEW p \in Processes, ProcessCreate(p) \/ ProcessDestroy(p) \/ ExitUnwatched(p)
    PROVE  Step
<1>1. /\ process \in [Processes -> Process] /\ TypeOK /\ Parameters
      /\ process_ids \in Nat /\ process_ids \in 0 .. ProcessIdLimit /\ process[p] \in Process
  <2>1. process \in [Processes -> Process] /\ TypeOK /\ Parameters
      BY Zenon, Facts, Typed
  <2>2. process_ids \in 0 .. ProcessIdLimit /\ process[p] \in Process
      BY Zenon, <2>1 DEF TypeOK
  <2>3. process_ids \in Nat
      BY <2>1, <2>2 DEF Parameters
  <2> QED
      BY Zenon, <2>1, <2>2, <2>3
<1>2. CASE ProcessCreate(p)
  <2> DEFINE rec == [NoProcess EXCEPT !.id = process_ids + 1]
  <2>1. /\ process[p].id = 0 /\ process_ids < ProcessIdLimit /\ process_ids' = process_ids + 1
        /\ process' = [process EXCEPT ![p] = rec]
        /\ UNCHANGED <<queueVars, queue_ids, waiting_receiver, wait_result, delivered>>
      BY Zenon, <1>2 DEF ProcessCreate, InUse
  <2>2. process_ids + 1 \in 0 .. ProcessIdLimit
      BY <1>1, <2>1 DEF Parameters
  <2>3. rec \in Process /\ rec.id = process_ids + 1 /\ rec.queue = 0
    <3>1. NoProcess \in Process /\ NoProcess.queue = 0
        BY <1>1 DEF NoProcess, Process, Parameters
    <3> QED
        BY Zenon, <2>2, <3>1 DEF Process
  <2> HIDE DEF rec
  <2>4. IdsSound(process', process_ids')
      BY Zenon, <1>1, <2>1, <2>3, Facts, IdsIssued
  <2>5. process[p].queue = 0
      BY Zenon, <2>1, WatchOfIs
  <2> QED
      BY Zenon, <2>1, <2>2, <2>3, <2>4, <2>5, ProcessStep
<1>3. CASE ProcessDestroy(p)
  <2>1. /\ process[p].queue = 0 /\ process' = [process EXCEPT ![p] = NoProcess]
        /\ UNCHANGED <<process_ids, queueVars, queue_ids, waiting_receiver, wait_result, delivered>>
      BY Zenon, <1>3 DEF ProcessDestroy
  <2>2. NoProcess \in Process /\ NoProcess.id = 0 /\ NoProcess.queue = 0
      BY <1>1 DEF NoProcess, Process, Parameters
  <2>3. IdsSound(process', process_ids')
      BY Zenon, <1>1, <2>1, <2>2, Facts, IdsKept
  <2> QED
      BY Zenon, <1>1, <2>1, <2>2, <2>3, ProcessStep
<1>4. CASE ExitUnwatched(p)
  <2> DEFINE rec == [process[p] EXCEPT !.exited = TRUE]
  <2>1. /\ process[p].queue = 0 /\ process' = [process EXCEPT ![p] = rec]
        /\ UNCHANGED <<process_ids, queueVars, queue_ids, waiting_receiver, wait_result, delivered>>
      BY Zenon, <1>4 DEF ExitUnwatched
  <2>2. rec \in Process /\ rec.id = process[p].id /\ rec.queue = process[p].queue
      BY Zenon, <1>1 DEF Process
  <2> HIDE DEF rec
  <2>3. IdsSound(process', process_ids')
      BY Zenon, <1>1, <2>1, <2>2, Facts, IdsKept
  <2> QED
      BY Zenon, <1>1, <2>1, <2>2, <2>3, ProcessStep
<1> QED
    BY Zenon, <1>2, <1>3, <1>4

LEMMA ParkStep ==
    ASSUME IInv, NEW r \in Receivers, Park(r)
    PROVE  Step
<1> DEFINE w == [wait_result EXCEPT ![r] = "PENDING"]
<1>1. /\ waiting_receiver' = r /\ wait_result' = w /\ Live /\ pending_count = 0 /\ ~closed
      /\ UNCHANGED <<process, process_ids, queueVars, queue_ids, delivered>>
    BY Zenon DEF Park, QueueValid
<1>2. wait_result \in [Receivers -> {"NONE", "PENDING", "COMPLETED", "PEER_CLOSED"}]
    BY Zenon, Facts DEF TypeOK
<1>3. w \in [Receivers -> {"NONE", "PENDING", "COMPLETED", "PEER_CLOSED"}] /\ w[r] = "PENDING"
    BY Zenon, <1>2
<1> HIDE DEF w
<1>4. pending_count' = 0 /\ ~closed' /\ "PENDING" # "NONE"
    BY <1>1 DEF queueVars
<1>5. WaitSound'
    BY Zenon, <1>1, <1>3, <1>4 DEF WaitSound, NoSleepingReceiver
<1> QED
    BY Zenon, <1>1, <1>3, <1>5, WaitStep DEF Live

LEMMA WaitOver ==
    ASSUME IInv, NEW r \in Receivers, WaitEnds(r)
    PROVE  /\ waiting_receiver' = None /\ WaitSound'
           /\ wait_result' \in [Receivers -> {"NONE", "PENDING", "COMPLETED", "PEER_CLOSED"}]
<1>1. wait_result \in [Receivers -> {"NONE", "PENDING", "COMPLETED", "PEER_CLOSED"}]
    BY Zenon, Facts DEF TypeOK
<1>2. waiting_receiver' = None /\ wait_result' = [wait_result EXCEPT ![r] = "NONE"]
    BY Zenon DEF WaitEnds
<1>3. wait_result' \in [Receivers -> {"NONE", "PENDING", "COMPLETED", "PEER_CLOSED"}]
    BY Zenon, <1>1, <1>2
<1> QED
    BY Zenon, <1>2, <1>3 DEF WaitSound, NoSleepingReceiver

(* The oldest event is received. *)
LEMMA TakeStep ==
    ASSUME IInv, Take, pending_count # 0, WaitSound',
           waiting_receiver' \in Receivers \cup {None},
           wait_result' \in [Receivers -> {"NONE", "PENDING", "COMPLETED", "PEER_CLOSED"}]
    PROVE  Step
<1>1. /\ slots \in [Index -> Slot] /\ process \in [Processes -> Process]
      /\ pending_order \in [Index -> Index] /\ pending_head \in Index /\ pending_tail \in Index
      /\ pending_count \in 0 .. Capacity /\ watch_count \in 0 .. Capacity
      /\ TypeOK /\ Parameters
      /\ RingSound(slots, pending_order, pending_head, pending_tail, pending_count)
    BY Zenon, Facts, Typed
<1> DEFINE i == pending_order[pending_head]
           u == [slots EXCEPT ![i] = FreeSlot]
           v == [pending_order EXCEPT ![pending_head] = 0]
           ev == Events(slots, pending_order, pending_head, pending_count)
<1>2. /\ 0 \in 0 .. Capacity /\ pending_count \in 1 .. Capacity /\ pending_count - 1 \in 0 .. Capacity
      /\ 1 \in 0 .. Capacity
    BY <1>1 DEF Parameters
<1>3. Order(0) = i /\ (pending_head + 1) % Capacity = Turn(pending_head + 1)
    BY Zenon, <1>1, <1>2, OrderIs, Positions
<1>4. FreeSlot \in Slot /\ FreeSlot.state = "FREE"
    BY <1>1 DEF FreeSlot, Slot, Parameters
<1>5. /\ slots' = u /\ pending_order' = v /\ pending_head' = Turn(pending_head + 1)
      /\ delivered' = Append(delivered, slots[i].id) /\ pending_count' = pending_count - 1
      /\ UNCHANGED <<pending_tail, process, process_ids, id, closed, watch_count, queue_ids>>
    BY Zenon, <1>3 DEF Take, TakenFromHead
<1>6. /\ RingSound(u, v, Turn(pending_head + 1), pending_tail, pending_count - 1)
      /\ Turn(pending_head + 1) \in Index /\ v \in [Index -> Index]
      /\ i \in Index /\ slots[i].state = "PENDING"
      /\ ev # <<>> /\ Head(ev) = slots[i].id
      /\ Events(u, v, Turn(pending_head + 1), pending_count - 1) = Tail(ev)
  <2>1. Popped(slots, u, pending_order, v, pending_head, pending_tail, pending_count)
      BY Zenon, <1>1, <1>2, <1>4, RingPop
  <2> QED
      BY Zenon, <2>1 DEF Popped
<1>7. u \in [Index -> Slot] /\ u[i] = FreeSlot /\ \A j \in Index : j # i => u[j] = slots[j]
    BY Zenon, <1>1, <1>4, <1>6
<1>8. CountSound(u, watch_count, pending_count - 1)
  <2>1. One(slots[i], "WATCHING") = 0 /\ One(slots[i], "PENDING") = 1
        /\ One(FreeSlot, "WATCHING") = 0 /\ One(FreeSlot, "PENDING") = 0
      BY Zenon, <1>4, <1>6 DEF One
  <2>2. Recounted(slots, u, "WATCHING", 0, 0) /\ Recounted(slots, u, "PENDING", 1, 0)
    <3>1. \A st : Recounted(slots, u, st, One(slots[i], st), One(FreeSlot, st))
        BY Zenon, <1>1, <1>4, <1>6, CountUpdate
    <3> HIDE DEF u, i
    <3> QED
        BY Zenon, <2>1, <3>1
  <2>3. /\ watch_count = Cardinality(In(slots, "WATCHING"))
        /\ pending_count = Cardinality(In(slots, "PENDING")) /\ watch_count + pending_count <= Capacity
      BY Zenon, Facts DEF CountSound
  <2> HIDE DEF u, i
  <2> QED
      BY <1>1, <2>2, <2>3 DEF CountSound, Parameters, Recounted
<1>9. slots[i].id \in 1 .. ProcessIdLimit
  <2>1. slots[i].id # 0 /\ slots[i] \in Slot
      BY Zenon, <1>1, <1>6, Facts DEF WatchSound
  <2> HIDE DEF i
  <2> QED
      BY <1>1, <2>1 DEF Slot, Parameters
<1>10. \A j \in Index : u[j].state # "FREE" => u[j] = slots[j]
    BY Zenon, <1>4, <1>7
<1> HIDE DEF i, u, v, ev
<1>11. "FREE" # "WATCHING" /\ "FREE" # "PENDING" /\ "PENDING" # "WATCHING"
    BY Zenon
<1>12. WatchSound(u, process, id)
  <2>1. \A j \in Index : slots[j].state = "WATCHING" => u[j] = slots[j]
      BY Zenon, <1>6, <1>7, <1>11
  <2>2. \A j \in Index : u[j].state \in {"WATCHING", "PENDING"} => u[j] = slots[j]
      BY Zenon, <1>10, <1>11
  <2> QED
      BY <2>1, <2>2, Facts DEF WatchSound
<1>13. delivered' \in Seq(1 .. ProcessIdLimit)
  <2>1. delivered \in Seq(1 .. ProcessIdLimit)
      BY Zenon, <1>1 DEF TypeOK
  <2> QED
      BY <1>5, <1>9, <2>1
<1>14. TypeOK'
    BY Zenon, <1>1, <1>2, <1>5, <1>6, <1>7, <1>13 DEF TypeOK, Slot
<1>15. /\ RingSound(slots, pending_order, pending_head, pending_tail, pending_count)'
       /\ WatchSound(slots, process, id)' /\ IdsSound(process, process_ids)'
       /\ CountSound(slots, watch_count, pending_count)' /\ (closed => watch_count = 0)'
    BY Zenon, <1>5, <1>6, <1>8, <1>12, Facts
<1>16. IdleSound'
  <2>1. id # 0
      BY Zenon, Facts DEF IdleSound
  <2> QED
      BY Zenon, <1>5, <2>1 DEF IdleSound
<1>17. IInv'
    BY Zenon, <1>1, <1>14, <1>15, <1>16 DEF IInv
<1>18. EventOrder = ev /\ EventOrder' = Tail(ev) /\ WatchedIds = WatchedIn(slots) /\ WatchedIds' = WatchedIn(u)
    BY Zenon, <1>1, <1>5, <1>6, <1>14, ViewIs, ViewIsNext DEF Viewed, ev
<1>19. In(u, "WATCHING") = In(slots, "WATCHING") /\ \A j \in In(u, "WATCHING") : u[j] = slots[j]
    BY Zenon, <1>6, <1>7, <1>10, <1>11 DEF In
<1>20. WatchedIn(u) = WatchedIn(slots)
    BY Zenon, <1>19 DEF WatchedIn
<1>21. Abstract!Receive
    BY Zenon, <1>5, <1>6, <1>18, <1>20 DEF Abstract!Receive
<1> QED
    BY Zenon, <1>17, <1>21 DEF Step, Abstract!Next

LEMMA ReceiverOps ==
    ASSUME IInv,
           \/ TryReceive
           \/ \E r \in Receivers : ReceiveNow(r) \/ Park(r) \/ Resume(r) \/ AbortWait(r)
    PROVE  Step
<1>1. /\ waiting_receiver \in Receivers \cup {None} /\ WaitSound /\ Parameters
      /\ wait_result \in [Receivers -> {"NONE", "PENDING", "COMPLETED", "PEER_CLOSED"}]
    BY Zenon, Facts DEF TypeOK
<1>2. ASSUME Take, pending_count # 0, UNCHANGED <<waiting_receiver, wait_result>>
      PROVE  Step
  <2>1. ~(waiting_receiver # None /\ wait_result[waiting_receiver] = "PENDING")
      BY Zenon, <1>1, <1>2 DEF WaitSound, NoSleepingReceiver
  <2>2. WaitSound'
      BY Zenon, <1>1, <1>2, <2>1 DEF WaitSound, NoSleepingReceiver
  <2> QED
      BY Zenon, <1>1, <1>2, <2>2, TakeStep
<1>3. CASE TryReceive
    BY Zenon, <1>2, <1>3 DEF TryReceive
<1>4. ASSUME NEW r \in Receivers, ReceiveNow(r) PROVE Step
    BY Zenon, <1>2, <1>4 DEF ReceiveNow
<1>5. ASSUME NEW r \in Receivers, Park(r) PROVE Step
    BY Zenon, <1>5, ParkStep
<1>6. ASSUME NEW r \in Receivers, WaitEnds(r),
             UNCHANGED <<process, process_ids, queueVars, queue_ids, delivered>>
      PROVE  Step
    BY Zenon, <1>6, WaitOver, WaitStep
<1>7. ASSUME NEW r \in Receivers, Resume(r) PROVE Step
  <2>1. CASE FindsEvent(r)
    <3>1. Take /\ pending_count # 0 /\ WaitEnds(r)
        BY Zenon, <1>7, <2>1 DEF Resume, FindsEvent
    <3> QED
        BY Zenon, <3>1, WaitOver, TakeStep
  <2>2. CASE ~FindsEvent(r)
      BY Zenon, <1>6, <1>7, <2>2 DEF Resume
  <2> QED
      BY Zenon, <2>1, <2>2
<1>8. ASSUME NEW r \in Receivers, AbortWait(r) PROVE Step
    BY Zenon, <1>6, <1>8 DEF AbortWait
<1> QED
    BY Zenon, <1>3, <1>4, <1>5, <1>7, <1>8

(* The queue is set up, or taken down once it is empty. *)
LEMMA EmptiedStep ==
    ASSUME IInv, waiting_receiver = None, watch_count = 0, pending_count = 0,
           id' \in 0 .. QueueIdLimit, queue_ids' \in 0 .. QueueIdLimit, closed' = FALSE,
           slots' = [i \in Index |-> FreeSlot], pending_order' = [i \in Index |-> 0],
           pending_head' = 0, pending_tail' = 0, watch_count' = 0, pending_count' = 0,
           UNCHANGED <<process, process_ids, waiting_receiver, wait_result, delivered>>
    PROVE  Step
<1> DEFINE s == [i \in Index |-> FreeSlot]
<1>1. /\ Parameters /\ TypeOK /\ WatchSound(slots, process, id)
      /\ CountSound(slots, watch_count, pending_count) /\ IdsSound(process, process_ids)
    BY Zenon, Facts
<1>2. 0 \in Index /\ 0 \in 0 .. Capacity /\ 1 .. 0 = {}
    BY <1>1 DEF Index, Parameters
<1>3. /\ s \in [Index -> Slot] /\ CountSound(s, 0, 0) /\ WatchedIn(s) = {}
      /\ \A i \in Index : s[i].state = "FREE"
      /\ \A o, h : Events(s, o, h, 0) = <<>>
      /\ \A o : \A h \in Index : RingSound(s, o, h, h, 0)
    BY Zenon, <1>1, Empty
<1>4. slots' = s
    OBVIOUS
<1> HIDE DEF s
<1>5. TypeOK'
    BY Zenon, <1>1, <1>2, <1>3, <1>4 DEF TypeOK, Slot
<1>6. In(slots, "WATCHING") = {}
    BY Zenon, <1>1, InFinite DEF CountSound
<1>7. \A x \in Processes : process[x].queue = 0
    BY Zenon, <1>1, <1>6 DEF WatchSound, In
<1>8. "FREE" # "WATCHING" /\ "FREE" # "PENDING"
    OBVIOUS
<1>9. WatchSound(slots, process, id)'
    BY Zenon, <1>3, <1>4, <1>7, <1>8 DEF WatchSound
<1>10. /\ RingSound(slots, pending_order, pending_head, pending_tail, pending_count)'
       /\ CountSound(slots, watch_count, pending_count)' /\ IdsSound(process, process_ids)'
    BY Zenon, <1>1, <1>2, <1>3, <1>4
<1>11. IdleSound' /\ WaitSound'
    BY Zenon, <1>3, <1>4 DEF IdleSound, WaitSound, NoSleepingReceiver
<1>12. IInv'
    BY Zenon, <1>1, <1>5, <1>9, <1>10, <1>11 DEF IInv
<1>13. WatchedIds = {} /\ WatchedIds' = {}
  <2>1. WatchedIn(slots) = {}
      BY Zenon, <1>6 DEF WatchedIn
  <2> QED
      BY Zenon, <1>1, <1>3, <1>4, <1>5, <2>1, ViewIs, ViewIsNext DEF Viewed
<1>14. EventOrder = <<>> /\ EventOrder' = <<>>
  <2>1. \A o, h : Events(slots, o, h, 0) = <<>>
      BY <1>2 DEF Events
  <2> QED
      BY Zenon, <1>1, <1>3, <1>4, <1>5, <2>1, ViewIs, ViewIsNext DEF Viewed
<1> QED
    BY Zenon, <1>12, <1>13, <1>14 DEF Step, aVars

LEMMA LifeOps ==
    ASSUME IInv, Create \/ Destroy
    PROVE  Step
<1>1. Parameters /\ queue_ids \in 0 .. QueueIdLimit /\ IdleSound
    BY Zenon, Facts DEF TypeOK
<1>2. CASE Create
  <2>1. queue_ids + 1 \in 0 .. QueueIdLimit
      BY <1>1, <1>2 DEF Create, Parameters
  <2>2. waiting_receiver = None /\ watch_count = 0 /\ pending_count = 0
      BY Zenon, <1>1, <1>2 DEF Create, Live, IdleSound
  <2> QED
      BY Zenon, <1>2, <2>1, <2>2, EmptiedStep DEF Create
<1>3. CASE Destroy
  <2>1. 0 \in 0 .. QueueIdLimit
      BY <1>1 DEF Parameters
  <2> QED
      BY Zenon, <1>1, <1>3, <2>1, EmptiedStep DEF Destroy, Destroyable
<1> QED
    BY Zenon, <1>2, <1>3

-----------------------------------------------------------------------------
(* Watches and events *)

LEMMA CompletedIs ==
    ASSUME IInv, NEW result \in {"COMPLETED", "PEER_CLOSED"}
    PROVE  /\ Completed(result) \in [Receivers -> {"NONE", "PENDING", "COMPLETED", "PEER_CLOSED"}]
           /\ waiting_receiver # None => Completed(result)[waiting_receiver] \notin {"NONE", "PENDING"}
<1>1. /\ waiting_receiver \in Receivers \cup {None} /\ WaitSound
      /\ wait_result \in [Receivers -> {"NONE", "PENDING", "COMPLETED", "PEER_CLOSED"}]
    BY Zenon, Facts DEF TypeOK
<1>2. result \notin {"NONE", "PENDING"}
    OBVIOUS
<1>3. CASE waiting_receiver # None /\ wait_result[waiting_receiver] = "PENDING"
  <2>1. Completed(result) = [wait_result EXCEPT ![waiting_receiver] = result]
      BY Zenon, <1>3 DEF Completed
  <2> QED
      BY Zenon, <1>1, <1>2, <1>3, <2>1
<1>4. CASE ~(waiting_receiver # None /\ wait_result[waiting_receiver] = "PENDING")
  <2>1. Completed(result) = wait_result
      BY Zenon, <1>4 DEF Completed
  <2> QED
      BY Zenon, <1>1, <1>4, <2>1 DEF WaitSound
<1> QED
    BY Zenon, <1>3, <1>4

LEMMA LeastElement ==
    ASSUME NEW S, S \subseteq Nat, S # {}
    PROVE  \E m \in S : \A k \in S : m <= k
<1>1. \E m \in S : \A k \in S : ~(<<k, m>> \in OpToRel(<, Nat))
    BY Zenon, NatLessThanWellFounded, WFMin
<1>2. \A k, m \in S : ~(<<k, m>> \in OpToRel(<, Nat)) => m <= k
    BY DEF OpToRel
<1> QED
    BY Zenon, <1>1, <1>2

LEMMA FirstFreeIs ==
    ASSUME Parameters, \E i \in Index : slots[i].state = "FREE"
    PROVE  FirstFree \in Index /\ slots[FirstFree].state = "FREE"
<1> DEFINE free == {i \in Index : slots[i].state = "FREE"}
<1>1. free # {} /\ free \subseteq Nat
    BY DEF Index, Parameters
<1>2. PICK m \in free : \A k \in free : m <= k
    BY Zenon, <1>1, LeastElement
<1>3. \A j \in 0 .. m - 1 : j \in Index /\ ~(m <= j)
    BY <1>1, <1>2 DEF Index, Parameters
<1>4. m \in Index /\ slots[m].state = "FREE" /\ \A j \in 0 .. m - 1 : slots[j].state # "FREE"
    BY Zenon, <1>2, <1>3
<1> QED
    BY Zenon, <1>4 DEF FirstFree

LEMMA SameEvents ==
    ASSUME IInv, NEW u, SamePending(slots, u)
    PROVE  /\ RingSound(u, pending_order, pending_head, pending_tail, pending_count)
           /\ Events(u, pending_order, pending_head, pending_count) =
                  Events(slots, pending_order, pending_head, pending_count)
<1>1. /\ pending_order \in [Index -> Index] /\ pending_head \in Index
      /\ pending_count \in 0 .. Capacity /\ Parameters
      /\ RingSound(slots, pending_order, pending_head, pending_tail, pending_count)
    BY Zenon, Facts, Typed
<1> QED
    BY <1>1, RingElsewhere

(* A slot without a pending event takes another content; the events stay. *)
LEMMA WatchStep ==
    ASSUME IInv, NEW i \in Index, NEW r \in Slot, NEW x \in Processes, NEW rec \in Process,
           slots[i].state # "PENDING", r.state # "PENDING",
           slots' = [slots EXCEPT ![i] = r], process' = [process EXCEPT ![x] = rec],
           watch_count' = watch_count - One(slots[i], "WATCHING") + One(r, "WATCHING"),
           WatchSound(slots', process', id), rec.id \in {0, process[x].id},
           watch_count' + pending_count <= Capacity, ~closed, id # 0,
           UNCHANGED <<process_ids, id, closed, pending_order, pending_head, pending_tail,
                       pending_count, queue_ids, waiting_receiver, wait_result, delivered>>
    PROVE  IInv' /\ EventOrder' = EventOrder
<1>1. /\ slots \in [Index -> Slot] /\ process \in [Processes -> Process]
      /\ pending_order \in [Index -> Index] /\ pending_head \in Index /\ pending_tail \in Index
      /\ pending_count \in 0 .. Capacity /\ watch_count \in 0 .. Capacity
      /\ TypeOK /\ Parameters /\ WaitSound
      /\ RingSound(slots, pending_order, pending_head, pending_tail, pending_count)
      /\ CountSound(slots, watch_count, pending_count) /\ IdsSound(process, process_ids)
    BY Zenon, Facts, Typed
<1>2. slots' \in [Index -> Slot] /\ process' \in [Processes -> Process]
    BY Zenon, <1>1
<1>3. /\ RingSound(slots', pending_order, pending_head, pending_tail, pending_count)
      /\ Events(slots', pending_order, pending_head, pending_count) =
             Events(slots, pending_order, pending_head, pending_count)
  <2>1. SamePending(slots, slots')
      BY Zenon, <1>1 DEF SamePending
  <2> QED
      BY Zenon, <2>1, SameEvents
<1>4. CountSound(slots', watch_count', pending_count)
  <2>1. /\ Recounted(slots, slots', "WATCHING", One(slots[i], "WATCHING"), One(r, "WATCHING"))
        /\ Recounted(slots, slots', "PENDING", One(slots[i], "PENDING"), One(r, "PENDING"))
      BY Zenon, <1>1, CountUpdate
  <2>2. One(slots[i], "PENDING") = 0 /\ One(r, "PENDING") = 0
      BY Zenon DEF One
  <2>3. watch_count' = Cardinality(In(slots', "WATCHING"))
      BY Zenon, <1>1, <2>1 DEF CountSound, Recounted
  <2>4. pending_count = Cardinality(In(slots', "PENDING"))
    <3>1. Recounted(slots, slots', "PENDING", 0, 0)
        BY Zenon, <2>1, <2>2
    <3>2. pending_count = Cardinality(In(slots, "PENDING"))
        BY Zenon, <1>1 DEF CountSound
    <3>3. pending_count \in Nat
        BY <1>1 DEF Parameters
    <3> QED
        BY <3>1, <3>2, <3>3 DEF Recounted
  <2> QED
      BY Zenon, <2>3, <2>4 DEF CountSound
<1>5. watch_count' \in 0 .. Capacity
  <2>1. watch_count' \in Nat
      BY Zenon, <1>1, <1>4, InFinite DEF CountSound
  <2> QED
      BY <1>1, <2>1 DEF Parameters
<1>6. TypeOK'
    BY Zenon, <1>1, <1>2, <1>5 DEF TypeOK, Slot, Process
<1>7. IdsSound(process', process_ids)
  <2>1. process_ids \in Nat
      BY <1>1 DEF TypeOK, Parameters
  <2> QED
      BY Zenon, <1>1, <2>1, IdsKept
<1>8. IdleSound' /\ WaitSound'
    BY Zenon, <1>1 DEF IdleSound, WaitSound, NoSleepingReceiver
<1>9. /\ RingSound(slots, pending_order, pending_head, pending_tail, pending_count)'
      /\ CountSound(slots, watch_count, pending_count)' /\ IdsSound(process, process_ids)'
      /\ WatchSound(slots, process, id)' /\ (closed => watch_count = 0)'
    BY Zenon, <1>3, <1>4, <1>7
<1>10. IInv'
    BY Zenon, <1>1, <1>6, <1>8, <1>9 DEF IInv
<1>11. EventOrder' = EventOrder
    BY Zenon, <1>1, <1>3, <1>6, ViewIs, ViewIsNext DEF Viewed
<1> QED
    BY Zenon, <1>10, <1>11

(* No two watches carry the same identity. *)
LEMMA WatchIdsDiffer ==
    ASSUME IInv, NEW j \in Index, slots[j].state = "WATCHING"
    PROVE  /\ slots[j].id \in 1 .. ProcessIdLimit /\ slots[j].id \in WatchedIn(slots)
           /\ \A p \in Processes : process[p].id = slots[j].id => slots[j].process = p
           /\ \A k \in Index : slots[k].state = "WATCHING" /\ slots[k].id = slots[j].id => j = k
<1>1. /\ WatchSound(slots, process, id) /\ IdsSound(process, process_ids) /\ Parameters
      /\ slots \in [Index -> Slot]
    BY Zenon, Facts, Typed
<1>2. \A k \in Index : slots[k].state = "WATCHING" =>
          /\ slots[k].process \in Processes /\ slots[k].id # 0
          /\ process[slots[k].process].id = slots[k].id
    BY Zenon, <1>1 DEF WatchSound
<1>3. slots[j].id \in 1 .. ProcessIdLimit
  <2>1. slots[j].id # 0 /\ slots[j] \in Slot
      BY Zenon, <1>1, <1>2
  <2> QED
      BY <1>1, <2>1 DEF Slot, Parameters
<1>4. slots[j].id \in WatchedIn(slots)
    BY Zenon DEF WatchedIn, In
<1>5. ASSUME NEW p \in Processes, process[p].id = slots[j].id PROVE slots[j].process = p
  <2>1. process[slots[j].process].id = process[p].id /\ process[p].id # 0 /\ slots[j].process \in Processes
      BY Zenon, <1>2, <1>5
  <2> QED
      BY Zenon, <1>1, <2>1 DEF IdsSound
<1>6. ASSUME NEW k \in Index, slots[k].state = "WATCHING", slots[k].id = slots[j].id PROVE j = k
  <2>1. slots[j].process = slots[k].process
      BY Zenon, <1>2, <1>5, <1>6
  <2> QED
      BY Zenon, <1>1, <1>6, <2>1 DEF WatchSound
<1> QED
    BY Zenon, <1>3, <1>4, <1>5, <1>6

LEMMA WatchedLess ==
    ASSUME IInv, NEW i \in Index, slots[i].state = "WATCHING", NEW r, r.state # "WATCHING"
    PROVE  WatchedIn([slots EXCEPT ![i] = r]) = WatchedIn(slots) \ {slots[i].id}
<1> DEFINE u == [slots EXCEPT ![i] = r]
<1>1. slots \in [Index -> Slot]
    BY Zenon, Facts, Typed
<1>2. u[i] = r /\ \A j \in Index : j # i => u[j] = slots[j]
    BY Zenon, <1>1
<1> HIDE DEF u
<1>3. In(u, "WATCHING") = In(slots, "WATCHING") \ {i} /\ \A j \in In(u, "WATCHING") : u[j] = slots[j]
    BY Zenon, <1>2 DEF In
<1>4. \A j \in In(slots, "WATCHING") : slots[j].id = slots[i].id => j = i
    BY Zenon, WatchIdsDiffer DEF In
<1>5. WatchedIn(u) = WatchedIn(slots) \ {slots[i].id}
    BY Zenon, <1>3, <1>4 DEF WatchedIn
<1> QED
    BY Zenon, <1>5 DEF u

LEMMA SameCardinality == \A S : Abstract!Cardinality(S) = Cardinality(S)
BY Zenon DEF Abstract!Cardinality, Cardinality

LEMMA RoomForWatch ==
    ASSUME IInv
    PROVE  /\ Cardinality(WatchedIds) \in Nat /\ Len(EventOrder) \in Nat
           /\ Cardinality(WatchedIds) + Len(EventOrder) <= watch_count + pending_count
<1>1. /\ slots \in [Index -> Slot] /\ pending_order \in [Index -> Index] /\ pending_head \in Index
      /\ pending_count \in 0 .. Capacity /\ watch_count \in 0 .. Capacity
      /\ Parameters /\ TypeOK /\ CountSound(slots, watch_count, pending_count)
    BY Zenon, Facts, Typed
<1>2. Len(EventOrder) = pending_count
  <2>1. EventOrder = Events(slots, pending_order, pending_head, pending_count)
      BY Zenon, <1>1, ViewIs DEF Viewed
  <2>2. Len(Events(slots, pending_order, pending_head, pending_count)) = pending_count
      BY <1>1, EventsListed
  <2> QED
      BY Zenon, <2>1, <2>2
<1>3. Cardinality(WatchedIds) <= watch_count /\ Cardinality(WatchedIds) \in Nat
  <2> DEFINE W == In(slots, "WATCHING")
             f == [i \in W |-> slots[i].id]
  <2>1. IsFiniteSet(W) /\ watch_count = Cardinality(W)
      BY Zenon, <1>1, InFinite DEF CountSound
  <2>2. WatchedIds = {slots[i].id : i \in W}
      BY Zenon, <1>1, ViewIs DEF Viewed, WatchedIn
  <2> HIDE DEF W
  <2>3. f \in Surjection(W, {slots[i].id : i \in W})
      BY DEF Surjection
  <2> HIDE DEF f
  <2>4. IsFiniteSet(WatchedIds) /\ Cardinality(WatchedIds) <= Cardinality(W)
      BY Zenon, <2>1, <2>2, <2>3, FS_Surjection
  <2> QED
      BY Zenon, <2>1, <2>4, FS_CardinalityType
<1> QED
    BY <1>1, <1>2, <1>3 DEF Parameters

LEMMA WatchOp ==
    ASSUME IInv, NEW p \in Processes, Watch(p)
    PROVE  Step
<1> DEFINE i == FirstFree
           r == [state |-> "WATCHING", process |-> p, id |-> process[p].id]
           rec == [process[p] EXCEPT !.queue = id]
<1>1. /\ slots \in [Index -> Slot] /\ process \in [Processes -> Process] /\ process[p] \in Process
      /\ pending_count \in 0 .. Capacity /\ watch_count \in 0 .. Capacity
      /\ TypeOK /\ Parameters /\ WatchSound(slots, process, id) /\ id \in 0 .. QueueIdLimit
  <2>1. /\ slots \in [Index -> Slot] /\ process \in [Processes -> Process]
        /\ pending_count \in 0 .. Capacity /\ watch_count \in 0 .. Capacity
        /\ TypeOK /\ Parameters /\ WatchSound(slots, process, id)
      BY Zenon, Facts, Typed
  <2> QED
      BY Zenon, <2>1 DEF TypeOK
<1>2. /\ process[p].id # 0 /\ process[p].queue = 0 /\ ~closed /\ id # 0
      /\ watch_count + pending_count < Capacity /\ \E j \in Index : slots[j].state = "FREE"
      /\ slots' = [slots EXCEPT ![i] = r] /\ process' = [process EXCEPT ![p] = rec]
      /\ watch_count' = watch_count + 1
      /\ UNCHANGED <<process_ids, id, closed, pending_order, pending_head, pending_tail,
                     pending_count, queue_ids, waiting_receiver, wait_result, delivered>>
    BY Zenon DEF Watch, QueueValid, Live, InUse, HasRoom
<1>3. i \in Index /\ slots[i].state = "FREE"
    BY Zenon, <1>1, <1>2, FirstFreeIs
<1>4. r \in Slot /\ r.state = "WATCHING" /\ r.process = p /\ r.id = process[p].id
    BY Zenon, <1>1 DEF Slot, Process
<1>5. rec \in Process /\ rec.id = process[p].id /\ rec.queue = id
    BY Zenon, <1>1 DEF Process
<1> HIDE DEF i, r, rec
<1>6. WatchSound(slots', process', id)
    BY Zenon, <1>1, <1>2, <1>3, <1>4, <1>5, WatchAdded
<1>7. "FREE" # "PENDING" /\ "WATCHING" # "PENDING" /\ "FREE" # "WATCHING"
    BY Zenon
<1>8. /\ watch_count' = watch_count - One(slots[i], "WATCHING") + One(r, "WATCHING")
      /\ watch_count' + pending_count <= Capacity
  <2>1. One(slots[i], "WATCHING") = 0 /\ One(r, "WATCHING") = 1
      BY Zenon, <1>3, <1>4, <1>7 DEF One
  <2> QED
      BY <1>1, <1>2, <2>1 DEF Parameters
<1>9. IInv' /\ EventOrder' = EventOrder
    BY Zenon, <1>2, <1>3, <1>4, <1>5, <1>6, <1>7, <1>8, WatchStep
<1>10. WatchedIn(slots') = WatchedIn(slots) \cup {process[p].id}
  <2>1. slots'[i] = r /\ \A j \in Index : j # i => slots'[j] = slots[j]
      BY Zenon, <1>1, <1>2, <1>3
  <2>2. In(slots', "WATCHING") = In(slots, "WATCHING") \cup {i} /\ i \notin In(slots, "WATCHING")
      BY Zenon, <1>3, <1>4, <1>7, <2>1 DEF In
  <2>3. \A j \in In(slots, "WATCHING") : slots'[j] = slots[j]
      BY Zenon, <2>1, <2>2 DEF In
  <2>4. slots'[i].id = process[p].id
      BY Zenon, <1>4, <2>1
  <2> QED
      BY <2>2, <2>3, <2>4 DEF WatchedIn
<1>11. process[p].id \notin WatchedIn(slots)
  <2> SUFFICES ASSUME NEW j \in Index, slots[j].state = "WATCHING", slots[j].id = process[p].id
               PROVE  FALSE
      BY Zenon DEF WatchedIn, In
  <2>1. slots[j].process = p
      BY Zenon, WatchIdsDiffer
  <2> QED
      BY Zenon, <1>1, <1>2, <2>1 DEF WatchSound
<1>12. WatchedIds = WatchedIn(slots) /\ WatchedIds' = WatchedIn(slots')
    BY Zenon, <1>1, <1>9, ViewIs, ViewIsNext DEF Viewed, IInv
<1>13. Cardinality(WatchedIds) + Len(EventOrder) < Capacity
  <2>1. /\ Cardinality(WatchedIds) \in Nat /\ Len(EventOrder) \in Nat
        /\ Cardinality(WatchedIds) + Len(EventOrder) <= watch_count + pending_count
      BY Zenon, RoomForWatch
  <2> QED
      BY <1>1, <1>2, <2>1 DEF Parameters
<1>14. process[p].id \in 1 .. ProcessIdLimit
    BY <1>1, <1>2 DEF Process, Parameters
<1>15. Abstract!Watch(process[p].id)
  <2>1. delivered' = delivered
      BY Zenon, <1>2
  <2>2. process[p].id \notin WatchedIds /\ WatchedIds' = WatchedIds \cup {process[p].id}
      BY Zenon, <1>10, <1>11, <1>12
  <2> QED
      BY Zenon, <1>9, <1>13, <2>1, <2>2, SameCardinality DEF Abstract!Watch
<1> QED
    BY Zenon, <1>9, <1>14, <1>15 DEF Step, Abstract!Next

LEMMA UnwatchOp ==
    ASSUME IInv, NEW p \in Processes, Unwatch(p)
    PROVE  Step
<1>1. /\ slots \in [Index -> Slot] /\ process \in [Processes -> Process] /\ process[p] \in Process
      /\ pending_count \in 0 .. Capacity /\ watch_count \in 0 .. Capacity
      /\ TypeOK /\ Parameters /\ WatchSound(slots, process, id)
  <2>1. /\ slots \in [Index -> Slot] /\ process \in [Processes -> Process]
        /\ pending_count \in 0 .. Capacity /\ watch_count \in 0 .. Capacity
        /\ TypeOK /\ Parameters /\ WatchSound(slots, process, id)
      BY Zenon, Facts, Typed
  <2> QED
      BY Zenon, <2>1
<1>2. process[p].queue # 0 /\ UnwatchSlot(p)
    BY Zenon DEF Unwatch
<1>3. id # 0 /\ ~closed
    BY Zenon, <1>2, WatchOfIs DEF Live
<1>4. PICK i \in Index : /\ WatchOf(p) = {i} /\ slots[i].state = "WATCHING"
                         /\ slots[i].process = p /\ slots[i].id = process[p].id
    BY Zenon, <1>2, WatchOfIs
<1>5. PICK gone \in BOOLEAN :
          process' = [process EXCEPT ![p] = IF gone THEN NoProcess ELSE [@ EXCEPT !.queue = 0]]
    BY Zenon DEF Unwatch
<1> DEFINE rec == IF gone THEN NoProcess ELSE [process[p] EXCEPT !.queue = 0]
<1>6. UNCHANGED <<process_ids, id, closed, pending_order, pending_head, pending_tail,
                  pending_count, queue_ids, waiting_receiver, wait_result, delivered>>
    BY Zenon DEF Unwatch
<1>7. process' = [process EXCEPT ![p] = rec]
    BY Zenon, <1>1, <1>5
<1>8. rec \in Process /\ rec.id \in {0, process[p].id} /\ rec.queue = 0
  <2>1. NoProcess \in Process /\ NoProcess.queue = 0 /\ NoProcess.id = 0
      BY <1>1 DEF NoProcess, Process, Parameters
  <2>2. /\ [process[p] EXCEPT !.queue = 0] \in Process /\ [process[p] EXCEPT !.queue = 0].queue = 0
        /\ [process[p] EXCEPT !.queue = 0].id = process[p].id
    <3>1. 0 \in 0 .. QueueIdLimit
        BY <1>1 DEF Parameters
    <3> QED
        BY Zenon, <1>1, <3>1 DEF Process
  <2> QED
      BY Zenon, <2>1, <2>2
<1> HIDE DEF rec
<1>9. slots' = [slots EXCEPT ![i] = FreeSlot] /\ watch_count' = watch_count - 1
    BY Zenon, <1>1, <1>2, <1>4 DEF UnwatchSlot
<1>10. FreeSlot \in Slot /\ FreeSlot.state = "FREE"
    BY <1>1 DEF FreeSlot, Slot, Parameters
<1>11. "FREE" # "PENDING" /\ "WATCHING" # "PENDING" /\ "FREE" # "WATCHING"
    BY Zenon
<1>12. WatchSound(slots', process', id)
    BY Zenon, <1>1, <1>4, <1>7, <1>8, <1>9, <1>10, <1>11, WatchRemoved
<1>13. /\ watch_count' = watch_count - One(slots[i], "WATCHING") + One(FreeSlot, "WATCHING")
       /\ watch_count' + pending_count <= Capacity
  <2>1. One(slots[i], "WATCHING") = 1 /\ One(FreeSlot, "WATCHING") = 0
      BY Zenon, <1>4, <1>10, <1>11 DEF One
  <2>2. watch_count + pending_count <= Capacity
      BY Zenon, Facts DEF CountSound
  <2>3. watch_count' = watch_count - 1
      BY Zenon, <1>9
  <2> QED
      BY <1>1, <2>1, <2>2, <2>3 DEF Parameters
<1>14. IInv' /\ EventOrder' = EventOrder
    BY Zenon, <1>3, <1>4, <1>6, <1>7, <1>8, <1>9, <1>10, <1>11, <1>12, <1>13, WatchStep
<1>15. WatchedIds = WatchedIn(slots) /\ WatchedIds' = WatchedIn(slots')
    BY Zenon, <1>1, <1>14, ViewIs, ViewIsNext DEF Viewed, IInv
<1>16. WatchedIn(slots') = WatchedIn(slots) \ {process[p].id}
  <2>1. WatchedIn([slots EXCEPT ![i] = FreeSlot]) = WatchedIn(slots) \ {slots[i].id}
      BY Zenon, <1>4, <1>10, <1>11, WatchedLess
  <2> QED
      BY Zenon, <1>4, <1>9, <2>1
<1>17. process[p].id \in WatchedIn(slots) /\ process[p].id \in 1 .. ProcessIdLimit
    BY Zenon, <1>4, WatchIdsDiffer
<1>18. Abstract!Unwatch(process[p].id)
  <2>1. delivered' = delivered
      BY Zenon, <1>6
  <2> QED
      BY Zenon, <1>14, <1>15, <1>16, <1>17, <2>1 DEF Abstract!Unwatch
<1> QED
    BY Zenon, <1>14, <1>17, <1>18 DEF Step, Abstract!Next

LEMMA PublishOp ==
    ASSUME IInv, NEW p \in Processes, Publish(p)
    PROVE  Step
<1>1. /\ slots \in [Index -> Slot] /\ process \in [Processes -> Process] /\ process[p] \in Process
      /\ pending_order \in [Index -> Index] /\ pending_head \in Index /\ pending_tail \in Index
      /\ pending_count \in 0 .. Capacity /\ watch_count \in 0 .. Capacity
      /\ TypeOK /\ Parameters /\ WatchSound(slots, process, id)
      /\ RingSound(slots, pending_order, pending_head, pending_tail, pending_count)
      /\ CountSound(slots, watch_count, pending_count) /\ IdsSound(process, process_ids)
  <2>1. /\ slots \in [Index -> Slot] /\ process \in [Processes -> Process]
        /\ pending_order \in [Index -> Index] /\ pending_head \in Index /\ pending_tail \in Index
        /\ pending_count \in 0 .. Capacity /\ watch_count \in 0 .. Capacity
        /\ TypeOK /\ Parameters /\ WatchSound(slots, process, id)
        /\ RingSound(slots, pending_order, pending_head, pending_tail, pending_count)
        /\ CountSound(slots, watch_count, pending_count) /\ IdsSound(process, process_ids)
      BY Zenon, Facts, Typed
  <2> QED
      BY Zenon, <2>1
<1>2. process[p].queue # 0
    BY Zenon DEF Publish
<1>3. id # 0 /\ ~closed
    BY Zenon, <1>2, WatchOfIs DEF Live
<1>4. PICK i \in Index : /\ WatchOf(p) = {i} /\ slots[i].state = "WATCHING"
                         /\ slots[i].process = p /\ slots[i].id = process[p].id
    BY Zenon, <1>2, WatchOfIs
<1> DEFINE r == [slots[i] EXCEPT !.state = "PENDING", !.process = None]
           rec == [process[p] EXCEPT !.queue = 0, !.exited = TRUE]
           v == [pending_order EXCEPT ![pending_tail] = i]
           ev == Events(slots, pending_order, pending_head, pending_count)
<1>5. slots' = [slots EXCEPT ![i] = r] /\ pending_order' = v
  <2>1. PICK j \in WatchOf(p) :
            /\ slots' = [slots EXCEPT ![j].state = "PENDING", ![j].process = None]
            /\ pending_order' = [pending_order EXCEPT ![pending_tail] = j]
      BY Zenon DEF Publish
  <2>2. j = i
      BY Zenon, <1>4, <2>1
  <2>3. slots' = [slots EXCEPT ![i].state = "PENDING", ![i].process = None]
      BY Zenon, <2>1, <2>2
  <2>4. [slots EXCEPT ![i].state = "PENDING", ![i].process = None] = [slots EXCEPT ![i] = r]
      BY Zenon, <1>1
  <2>5. slots' = [slots EXCEPT ![i] = r]
      BY Zenon, <2>3, <2>4
  <2> QED
      BY Zenon, <2>1, <2>2, <2>5
<1>6. process' = [process EXCEPT ![p] = rec]
  <2>1. process' = [process EXCEPT ![p].queue = 0, ![p].exited = TRUE]
      BY Zenon DEF Publish
  <2>2. [process EXCEPT ![p].queue = 0, ![p].exited = TRUE] = [process EXCEPT ![p] = rec]
      BY Zenon, <1>1
  <2> QED
      BY Zenon, <2>1, <2>2
<1>7. /\ pending_tail' = (pending_tail + 1) % Capacity
      /\ watch_count' = watch_count - 1 /\ pending_count' = pending_count + 1
      /\ wait_result' = Completed("COMPLETED")
      /\ UNCHANGED <<process_ids, id, closed, pending_head, queue_ids, waiting_receiver, delivered>>
    BY Zenon DEF Publish, PublishWakes
<1>8. r \in Slot /\ r.state = "PENDING" /\ r.process = None /\ r.id = process[p].id
  <2>1. slots[i] \in Slot
      BY Zenon, <1>1
  <2> QED
      BY Zenon, <1>4, <2>1 DEF Slot
<1>9. rec \in Process /\ rec.id = process[p].id /\ rec.queue = 0
  <2>1. 0 \in 0 .. QueueIdLimit
      BY <1>1 DEF Parameters
  <2> QED
      BY Zenon, <1>1, <2>1 DEF Process
<1> HIDE DEF r, rec
<1>10. "FREE" # "PENDING" /\ "WATCHING" # "PENDING" /\ "FREE" # "WATCHING"
    BY Zenon
<1>11. process[p].id \in WatchedIn(slots) /\ process[p].id \in 1 .. ProcessIdLimit /\ process[p].id # 0
    BY Zenon, <1>2, <1>4, WatchIdsDiffer, WatchOfIs
<1>12. WatchSound(slots', process', id)
    BY Zenon, <1>1, <1>4, <1>5, <1>6, <1>8, <1>9, <1>10, <1>11, WatchRemoved
<1>13. CountSound(slots', watch_count', pending_count')
  <2>1. \A st : Recounted(slots, [slots EXCEPT ![i] = r], st, One(slots[i], st), One(r, st))
      BY Zenon, <1>1, <1>8, CountUpdate
  <2>2. /\ One(slots[i], "WATCHING") = 1 /\ One(slots[i], "PENDING") = 0
        /\ One(r, "WATCHING") = 0 /\ One(r, "PENDING") = 1
      BY Zenon, <1>4, <1>8, <1>10 DEF One
  <2>3. Recounted(slots, slots', "WATCHING", 1, 0) /\ Recounted(slots, slots', "PENDING", 0, 1)
      BY Zenon, <1>5, <2>1, <2>2
  <2>4. /\ watch_count = Cardinality(In(slots, "WATCHING")) /\ pending_count = Cardinality(In(slots, "PENDING"))
        /\ watch_count + pending_count <= Capacity
        /\ watch_count' = watch_count - 1 /\ pending_count' = pending_count + 1
      BY Zenon, <1>1, <1>7 DEF CountSound
  <2>5. watch_count \in Nat /\ pending_count \in Nat
      BY <1>1 DEF Parameters
  <2>6. /\ Cardinality(In(slots', "WATCHING")) = watch_count - 1 + 0
        /\ Cardinality(In(slots', "PENDING")) = pending_count - 0 + 1
      BY Zenon, <2>3, <2>4 DEF Recounted
  <2>7. /\ watch_count' = Cardinality(In(slots', "WATCHING"))
        /\ pending_count' = Cardinality(In(slots', "PENDING"))
        /\ watch_count' + pending_count' <= Capacity
      BY <1>1, <2>4, <2>5, <2>6 DEF Parameters
  <2> QED
      BY Zenon, <2>7 DEF CountSound
<1>14. /\ watch_count' \in 0 .. Capacity /\ pending_count' \in 0 .. Capacity
       /\ pending_count \in 0 .. Capacity - 1 /\ watch_count' \in Nat
  <2>1. watch_count' \in Nat /\ pending_count' \in Nat
      BY Zenon, <1>1, <1>13, InFinite DEF CountSound
  <2>2. watch_count' + pending_count' <= Capacity /\ pending_count' = pending_count + 1
      BY Zenon, <1>7, <1>13 DEF CountSound
  <2>3. pending_count \in Nat /\ Capacity \in Nat
      BY <1>1 DEF Parameters
  <2>4. \A c, w, n, m \in Nat : w + m <= c /\ m = n + 1 =>
            w \in 0 .. c /\ m \in 0 .. c /\ n \in 0 .. c - 1
      OBVIOUS
  <2> QED
      BY Zenon, <2>1, <2>2, <2>3, <2>4
<1>15. /\ RingSound(slots', pending_order', pending_head', pending_tail', pending_count')
       /\ Events(slots', pending_order', pending_head', pending_count') = Append(ev, process[p].id)
       /\ pending_tail' \in Index
  <2> DEFINE u == [slots EXCEPT ![i] = r]
  <2>1. Pushed(slots, u, pending_order, v, pending_head, pending_tail, pending_count, r.id)
      BY Zenon, <1>1, <1>4, <1>8, <1>10, <1>14, RingPush
  <2>2. pending_tail' = Turn(pending_tail + 1)
    <3>1. 1 \in 0 .. Capacity
        BY <1>1 DEF Parameters
    <3> QED
        BY Zenon, <1>1, <1>7, <3>1, Positions
  <2>3. /\ RingSound(u, v, pending_head, Turn(pending_tail + 1), pending_count + 1)
        /\ Turn(pending_tail + 1) \in Index
        /\ Events(u, v, pending_head, pending_count + 1) = Append(ev, r.id)
      BY Zenon, <2>1 DEF Pushed
  <2>4. slots' = u /\ pending_order' = v /\ pending_head' = pending_head /\ pending_count' = pending_count + 1
      BY Zenon, <1>5, <1>7
  <2> HIDE DEF u, v, ev
  <2> QED
      BY Zenon, <1>8, <2>2, <2>3, <2>4
<1>16. slots' \in [Index -> Slot] /\ process' \in [Processes -> Process] /\ pending_order' \in [Index -> Index]
    BY Zenon, <1>1, <1>5, <1>6, <1>8, <1>9
<1> HIDE DEF v, ev
<1>17. /\ wait_result' \in [Receivers -> {"NONE", "PENDING", "COMPLETED", "PEER_CLOSED"}]
       /\ waiting_receiver # None => wait_result'[waiting_receiver] \notin {"NONE", "PENDING"}
    BY Zenon, <1>7, CompletedIs
<1>18. TypeOK'
    BY Zenon, <1>1, <1>7, <1>14, <1>15, <1>16, <1>17 DEF TypeOK, Slot, Process
<1>19. IdsSound(process', process_ids)
  <2>1. process_ids \in Nat
      BY <1>1 DEF TypeOK, Parameters
  <2> QED
      BY Zenon, <1>1, <1>6, <1>9, <2>1, IdsKept
<1>20. WaitSound'
    BY Zenon, <1>7, <1>17 DEF WaitSound, NoSleepingReceiver
<1>21. IdleSound'
    BY Zenon, <1>3, <1>7 DEF IdleSound
<1>22. /\ RingSound(slots, pending_order, pending_head, pending_tail, pending_count)'
       /\ CountSound(slots, watch_count, pending_count)' /\ IdsSound(process, process_ids)'
       /\ WatchSound(slots, process, id)' /\ (closed => watch_count = 0)'
    BY Zenon, <1>3, <1>7, <1>12, <1>13, <1>15, <1>19
<1>23. IInv'
    BY Zenon, <1>1, <1>18, <1>20, <1>21, <1>22 DEF IInv
<1>24. /\ WatchedIds = WatchedIn(slots) /\ WatchedIds' = WatchedIn(slots')
       /\ EventOrder = ev /\ EventOrder' = Append(ev, process[p].id)
    BY Zenon, <1>1, <1>15, <1>18, ViewIs, ViewIsNext DEF Viewed, ev
<1>25. WatchedIn(slots') = WatchedIn(slots) \ {process[p].id}
  <2>1. WatchedIn([slots EXCEPT ![i] = r]) = WatchedIn(slots) \ {slots[i].id}
      BY Zenon, <1>4, <1>8, <1>10, WatchedLess
  <2> QED
      BY Zenon, <1>4, <1>5, <2>1
<1>26. Abstract!Publish(process[p].id)
  <2>1. delivered' = delivered
      BY Zenon, <1>7
  <2> QED
      BY Zenon, <1>11, <1>24, <1>25, <2>1 DEF Abstract!Publish
<1> QED
    BY Zenon, <1>11, <1>23, <1>26 DEF Step, Abstract!Next

LEMMA CloseOp ==
    ASSUME IInv, Close
    PROVE  Step
<1>1. /\ slots \in [Index -> Slot] /\ process \in [Processes -> Process]
      /\ pending_count \in 0 .. Capacity /\ watch_count \in 0 .. Capacity
      /\ TypeOK /\ Parameters /\ WatchSound(slots, process, id)
      /\ CountSound(slots, watch_count, pending_count) /\ IdsSound(process, process_ids)
    BY Zenon, Facts, Typed
<1>2. /\ id # 0 /\ closed' = TRUE /\ watch_count' = 0 /\ wait_result' = Completed("PEER_CLOSED")
      /\ UNCHANGED <<process_ids, id, pending_order, pending_head, pending_tail,
                     pending_count, queue_ids, waiting_receiver, delivered>>
    BY Zenon DEF Close, QueueValid, Live
<1>3. FreeSlot \in Slot /\ FreeSlot.state = "FREE" /\ "FREE" # "WATCHING" /\ "FREE" # "PENDING"
      /\ "WATCHING" # "PENDING"
    BY <1>1 DEF FreeSlot, Slot, Parameters
<1>4. /\ slots' \in [Index -> Slot]
      /\ \A j \in Index : slots'[j] = IF slots[j].state = "WATCHING" THEN FreeSlot ELSE slots[j]
    BY Zenon, <1>1, <1>3 DEF Close, Watching
<1>5. /\ process' \in [Processes -> Process]
      /\ \A x \in Processes : process'[x].id = process[x].id /\ process'[x].queue = 0
  <2>1. process' = [p \in Processes |-> IF \E i \in Watching : slots[i].process = p
                                        THEN [process[p] EXCEPT !.queue = 0] ELSE process[p]]
      BY Zenon DEF Close
  <2>2. 0 \in 0 .. QueueIdLimit
      BY <1>1 DEF Parameters
  <2>3. ASSUME NEW x \in Processes
        PROVE  /\ [process[x] EXCEPT !.queue = 0] \in Process
               /\ [process[x] EXCEPT !.queue = 0].queue = 0
               /\ [process[x] EXCEPT !.queue = 0].id = process[x].id
    <3>1. process[x] \in Process
        BY Zenon, <1>1
    <3> QED
        BY Zenon, <2>2, <3>1 DEF Process
  <2>4. ASSUME NEW x \in Processes
        PROVE  process'[x] \in Process /\ process'[x].id = process[x].id /\ process'[x].queue = 0
    <3>1. CASE \E i \in Watching : slots[i].process = x
        BY Zenon, <2>1, <2>3, <3>1
    <3>2. CASE ~\E i \in Watching : slots[i].process = x
      <4>1. process'[x] = process[x] /\ process[x] \in Process
          BY Zenon, <1>1, <2>1, <3>2
      <4>2. process[x].queue = 0
          BY Zenon, <1>1, <3>2 DEF WatchSound, Watching
      <4> QED
          BY Zenon, <4>1, <4>2
    <3> QED
        BY Zenon, <3>1, <3>2
  <2>5. process' \in [Processes -> Process]
    <3>1. process' = [x \in Processes |-> process'[x]]
        BY Zenon, <2>1
    <3> QED
        BY Zenon, <2>4, <3>1
  <2> QED
      BY Zenon, <2>4, <2>5
<1>6. SamePending(slots, slots')
    BY Zenon, <1>3, <1>4 DEF SamePending
<1>7. /\ RingSound(slots', pending_order, pending_head, pending_tail, pending_count)
      /\ Events(slots', pending_order, pending_head, pending_count) =
             Events(slots, pending_order, pending_head, pending_count)
    BY Zenon, <1>6, SameEvents
<1>8. In(slots', "WATCHING") = {} /\ In(slots', "PENDING") = In(slots, "PENDING")
    BY Zenon, <1>3, <1>4 DEF In
<1>9. CountSound(slots', 0, pending_count)
  <2>1. pending_count = Cardinality(In(slots', "PENDING")) /\ 0 = Cardinality(In(slots', "WATCHING"))
      BY Zenon, <1>1, <1>8, FS_EmptySet DEF CountSound
  <2>2. 0 + pending_count <= Capacity
      BY <1>1 DEF Parameters
  <2> QED
      BY Zenon, <2>1, <2>2 DEF CountSound
<1>10. WatchSound(slots', process', id)
  <2>1. \A j \in Index : slots'[j].state # "WATCHING"
      BY Zenon, <1>8 DEF In
  <2>2. ASSUME NEW j \in Index, slots'[j].state = "PENDING"
        PROVE  slots'[j].process = None /\ slots'[j].id # 0
    <3>1. slots'[j] = slots[j]
        BY Zenon, <1>3, <1>4, <2>2
    <3> QED
        BY Zenon, <1>1, <2>2, <3>1 DEF WatchSound
  <2> QED
      BY Zenon, <1>5, <2>1, <2>2 DEF WatchSound
<1>11. IdsSound(process', process_ids)
    BY Zenon, <1>1, <1>5 DEF IdsSound
<1>12. /\ wait_result' \in [Receivers -> {"NONE", "PENDING", "COMPLETED", "PEER_CLOSED"}]
       /\ waiting_receiver # None => wait_result'[waiting_receiver] \notin {"NONE", "PENDING"}
    BY Zenon, <1>2, CompletedIs
<1>13. TypeOK'
  <2>1. 0 \in 0 .. Capacity
      BY <1>1 DEF Parameters
  <2> QED
      BY Zenon, <1>1, <1>2, <1>4, <1>5, <1>12, <2>1 DEF TypeOK, Slot, Process
<1>14. WaitSound' /\ IdleSound'
    BY Zenon, <1>2, <1>12 DEF WaitSound, NoSleepingReceiver, IdleSound
<1>15. /\ RingSound(slots, pending_order, pending_head, pending_tail, pending_count)'
       /\ CountSound(slots, watch_count, pending_count)' /\ IdsSound(process, process_ids)'
       /\ WatchSound(slots, process, id)' /\ (closed => watch_count = 0)'
    BY Zenon, <1>2, <1>7, <1>9, <1>10, <1>11
<1>16. IInv'
    BY Zenon, <1>1, <1>13, <1>14, <1>15 DEF IInv
<1>17. WatchedIds' = {} /\ EventOrder' = EventOrder
  <2>1. WatchedIn(slots') = {}
      BY Zenon, <1>8 DEF WatchedIn
  <2>2. Events(slots, pending_order, pending_head, pending_count)' =
            Events(slots, pending_order, pending_head, pending_count)
      BY Zenon, <1>2, <1>7
  <2> QED
      BY Zenon, <1>1, <1>13, <2>1, <2>2, ViewIs, ViewIsNext DEF Viewed
<1>18. Abstract!Close
    BY Zenon, <1>2, <1>17 DEF Abstract!Close
<1> QED
    BY Zenon, <1>16, <1>18 DEF Step, Abstract!Next

-----------------------------------------------------------------------------

LEMMA NextStep == IInv /\ [Next]_vars => Step
<1> SUFFICES ASSUME IInv, [Next]_vars PROVE Step
    BY Zenon
<1>1. CASE UNCHANGED vars
  <2>1. UNCHANGED <<process, process_ids, queueVars, queue_ids, waiting_receiver, wait_result, delivered>>
      BY Zenon, <1>1 DEF vars
  <2>2. UNCHANGED <<id, closed, slots, pending_order, pending_head, pending_tail,
                    watch_count, pending_count>>
      BY Zenon, <2>1 DEF queueVars
  <2>3. /\ TypeOK' /\ WatchSound(slots, process', id) /\ IdsSound(process', process_ids')
        /\ WaitSound' /\ (id = 0 => waiting_receiver' = None)
      BY Zenon, <2>1, <2>2, Facts DEF TypeOK, WaitSound, NoSleepingReceiver, IdleSound
  <2> QED
      BY Zenon, <2>1, <2>3, QuietStep
<1>2. CASE Create \/ Destroy
    BY Zenon, <1>2, LifeOps
<1>3. CASE Close
    BY Zenon, <1>3, CloseOp
<1>4. CASE \/ TryReceive
           \/ \E r \in Receivers : ReceiveNow(r) \/ Park(r) \/ Resume(r) \/ AbortWait(r)
    BY Zenon, <1>4, ReceiverOps
<1>5. ASSUME NEW p \in Processes, \/ ProcessCreate(p) \/ ProcessDestroy(p) \/ Watch(p)
                                  \/ Unwatch(p) \/ Publish(p) \/ ExitUnwatched(p)
      PROVE  Step
    BY Zenon, <1>5, ProcessOps, WatchOp, UnwatchOp, PublishOp
<1> QED
    BY Zenon, <1>1, <1>2, <1>3, <1>4, <1>5 DEF Next

(* Exit events are reserved when the watch is made, published in order and     *)
(* received once; a live queue passes every check of queue_valid, a watched    *)
(* process can always publish, and no receiver sleeps while an event waits for *)
(* it (kernel/process_exit_queue.c), for every capacity, every number of       *)
(* processes and receivers, and queues that are closed, destroyed and created  *)
(* again.                                                                      *)
THEOREM EventsAreKept ==
    Parameters => (Spec => ImplementsExitEvents /\ [](WatchersCanPublish /\ NoSleepingReceiver))
<1> SUFFICES ASSUME Parameters
             PROVE  Spec => ImplementsExitEvents /\ [](WatchersCanPublish /\ NoSleepingReceiver)
    BY Zenon
<1>1. Init => IInv /\ Abstract!Init
    BY Zenon, InitInv
<1>2. IInv /\ [Next]_vars => IInv'
    BY Zenon, NextStep DEF Step
<1>3. IInv /\ [Next]_vars => [Abstract!Next]_<<WatchedIds, EventOrder, delivered>>
    BY Zenon, NextStep DEF Step, aVars
<1>4. IInv => WatchersCanPublish /\ NoSleepingReceiver
    BY Zenon, Implied
<1> QED
    BY <1>1, <1>2, <1>3, <1>4, PTL DEF Spec, ImplementsExitEvents, Abstract!Spec
=============================================================================
