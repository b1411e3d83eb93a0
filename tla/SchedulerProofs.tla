-------------------------- MODULE SchedulerProofs ---------------------------
(***************************************************************************)
(* The linked run ring of module Scheduler is a ring and implements the    *)
(* cyclic order of module RunQueue, for every finite set of threads.       *)
(***************************************************************************)
EXTENDS Scheduler, FiniteSetTheorems, SequenceTheorems, WellFoundedInduction, TLAPS

(* f lists the members of the ring with links nx, marks q, head h, tail l  *)
(* and count n, in the order of the links.                                 *)
Cycle(nx, q, h, l, n, f) ==
    /\ f \in [0 .. n - 1 -> Threads]
    /\ \A i, j \in 0 .. n - 1 : f[i] = f[j] => i = j
    /\ \A t \in Threads : q[t] <=> \E i \in 0 .. n - 1 : f[i] = t
    /\ \A i \in 0 .. n - 2 : nx[f[i]] = f[i + 1]
    /\ n # 0 => h = f[0] /\ l = f[n - 1] /\ nx[l] = h
    /\ n = 0 => h = None /\ l = None
    /\ \A t \in Threads : ~q[t] => nx[t] = None

(* Position i of a ring of n members, one lap at most after position 0 .. n - 1. *)
Turn(i, n) == IF i < n THEN i ELSE i - n

Listed(f) == Cycle(run_next, on_run_queue, g_run_head, g_run_tail, g_run_count, f)

-----------------------------------------------------------------------------
(* The hops *)

LEMMA LeastElement ==
    ASSUME NEW S, S \subseteq Nat, S # {}
    PROVE  \E m \in S : \A k \in S : m <= k
<1>1. \E m \in S : \A k \in S : ~(<<k, m>> \in OpToRel(<, Nat))
    BY Zenon, NatLessThanWellFounded, WFMin
<1>2. \A k, m \in S : ~(<<k, m>> \in OpToRel(<, Nat)) => m <= k
    BY DEF OpToRel
<1> QED
    BY Zenon, <1>1, <1>2

LEMMA LinkOnCycle ==
    ASSUME NEW f, Listed(f), g_run_count \in Nat, NEW i \in 0 .. g_run_count - 1
    PROVE  run_next[f[i]] = f[Turn(i + 1, g_run_count)]
<1>1. CASE i < g_run_count - 1
    BY <1>1 DEF Listed, Cycle, Turn
<1>2. CASE i = g_run_count - 1
  <2>1. g_run_count # 0 /\ Turn(i + 1, g_run_count) = 0
      BY <1>2 DEF Turn
  <2> QED
      BY Zenon, <1>2, <2>1 DEF Listed, Cycle
<1> QED
    BY <1>1, <1>2

(* Following run_next from a member walks round the ring. *)
LEMMA HopsOnCycle ==
    ASSUME NEW f, Listed(f), g_run_count \in Nat, NEW p \in 0 .. g_run_count - 1
    PROVE  \A k \in 0 .. g_run_count : Hops(f[p])[k] = f[Turn(p + k, g_run_count)]
<1> DEFINE n == g_run_count
           e(h) == [k \in 0 .. n |-> IF k = 0 THEN f[p]
                                     ELSE IF h[k - 1] = None THEN None ELSE run_next[h[k - 1]]]
           w == [k \in 0 .. n |-> f[Turn(p + k, n)]]
           h == Hops(f[p])
<1>1. \A k \in 0 .. n : k # 0 => /\ w[k - 1] # None /\ w[k - 1] = f[Turn(p + k - 1, n)]
                                 /\ w[k] = run_next[w[k - 1]]
  <2> SUFFICES ASSUME NEW k \in 0 .. n, k # 0
               PROVE  /\ w[k - 1] # None /\ w[k - 1] = f[Turn(p + k - 1, n)]
                      /\ w[k] = run_next[w[k - 1]]
      BY Zenon
  <2>1. /\ k - 1 \in 0 .. n /\ Turn(p + k - 1, n) \in 0 .. n - 1
        /\ Turn(p + k, n) = Turn(Turn(p + k - 1, n) + 1, n)
        /\ p + (k - 1) = p + k - 1
      BY DEF Turn
  <2>2. w[k - 1] = f[Turn(p + k - 1, n)] /\ w[k] = f[Turn(p + k, n)]
      BY Zenon, <2>1
  <2>3. f[Turn(p + k - 1, n)] \in Threads
      BY Zenon, <2>1 DEF Listed, Cycle
  <2>4. run_next[f[Turn(p + k - 1, n)]] = f[Turn(Turn(p + k - 1, n) + 1, n)]
      BY Zenon, <2>1, LinkOnCycle
  <2> QED
      BY Zenon, <2>1, <2>2, <2>3, <2>4, SchedulerAssumption
<1>2. w = e(w)
  <2>1. w[0] = f[p]
      BY DEF Turn
  <2> QED
      BY Zenon, <1>1, <2>1
<1>3. h = e(h)
  <2>1. h = CHOOSE g : g = e(g)
      BY Zenon DEF Hops
  <2> HIDE DEF e, w, h
  <2> QED
      BY Zenon, <1>2, <2>1
<1>4. \A k \in 0 .. n : h[k] = w[k]
  <2> DEFINE bad == {k \in 0 .. n : h[k] # w[k]}
  <2> SUFFICES ASSUME bad # {} PROVE FALSE
      BY Zenon
  <2>1. bad \subseteq Nat
      OBVIOUS
  <2>2. PICK m \in bad : \A k \in bad : m <= k
      BY Zenon, <2>1, LeastElement
  <2>3. h[0] = w[0]
      BY <1>3 DEF Turn
  <2>4. m \in 0 .. n /\ m # 0 /\ m - 1 \in 0 .. n /\ m - 1 \notin bad
      BY <2>2, <2>3
  <2>5. h[m] = IF h[m - 1] = None THEN None ELSE run_next[h[m - 1]]
      BY Zenon, <1>3, <2>4
  <2>6. h[m - 1] = w[m - 1]
      BY Zenon, <2>4
  <2> QED
      BY Zenon, <1>1, <2>2, <2>4, <2>5, <2>6
<1> QED
    BY Zenon, <1>4

LEMMA LeastIs ==
    ASSUME NEW S, S \subseteq Nat, NEW m \in S, \A k \in S : m <= k
    PROVE  Min(S) = m
<1>1. Min(S) \in S /\ \A k \in S : Min(S) <= k
    BY Zenon DEF Min
<1>2. Min(S) \in Nat /\ m \in Nat /\ Min(S) <= m /\ m <= Min(S)
    BY Zenon, <1>1
<1> QED
    BY <1>2

LEMMA Member ==
    ASSUME NEW f, Listed(f), g_run_count \in Nat, NEW p \in 0 .. g_run_count - 1
    PROVE  f[p] \in Threads /\ on_run_queue[f[p]] /\ g_run_count # 0 /\ g_run_head = f[0]
BY DEF Listed, Cycle

LEMMA MemberAt ==
    ASSUME NEW f, Listed(f), g_run_count \in Nat, NEW t \in Threads, on_run_queue[t]
    PROVE  \E p \in 0 .. g_run_count - 1 : f[p] = t
BY Zenon DEF Listed, Cycle

Before(p, n) == IF p = 0 THEN n - 1 ELSE p - 1

(* scheduler_unlink finds the predecessor of every member, and its checks pass. *)
LEMMA PreviousOnCycle ==
    ASSUME NEW f, Listed(f), g_run_count \in Nat, NEW p \in 0 .. g_run_count - 1
    PROVE  Previous(f[p]) = f[Before(p, g_run_count)] /\ Linked(f[p])
<1> DEFINE n == g_run_count
           q == Before(p, n)
           found == {m \in 0 .. n - 1 : Hops(g_run_head)[m + 1] = f[p]}
<1>1. f[p] \in Threads /\ on_run_queue[f[p]] /\ n # 0 /\ g_run_head = f[0]
    BY Zenon, Member
<1>2. 0 \in 0 .. n - 1 /\ q \in 0 .. n - 1 /\ q \in 0 .. n
    BY <1>1 DEF Before
<1>3. \A k \in 0 .. n : Hops(g_run_head)[k] = f[Turn(0 + k, n)]
    BY Zenon, <1>1, <1>2, HopsOnCycle
<1>4. ASSUME NEW m \in 0 .. n - 1 PROVE Hops(g_run_head)[m + 1] = f[p] <=> m = q
  <2>1. m + 1 \in 0 .. n /\ Turn(0 + (m + 1), n) \in 0 .. n - 1
        /\ (Turn(0 + (m + 1), n) = p <=> m = q)
      BY <1>1 DEF Turn, Before
  <2>2. Hops(g_run_head)[m + 1] = f[Turn(0 + (m + 1), n)]
      BY Zenon, <1>3, <2>1
  <2>3. f[Turn(0 + (m + 1), n)] = f[p] <=> Turn(0 + (m + 1), n) = p
      BY Zenon, <2>1 DEF Listed, Cycle
  <2> QED
      BY Zenon, <2>1, <2>2, <2>3
<1>5. found = {q}
    BY Zenon, <1>2, <1>4
<1>6. Min(found) = q
  <2>1. Min({q}) = q
      BY <1>2, LeastIs
  <2> QED
      BY Zenon, <1>5, <2>1
<1>7. Hops(g_run_head)[q] = f[q]
  <2>1. Turn(0 + q, n) = q
      BY <1>2 DEF Turn
  <2> QED
      BY Zenon, <1>2, <1>3, <2>1
<1>8. Previous(f[p]) = f[q]
    BY Zenon, <1>5, <1>6, <1>7 DEF Previous
<1>9. f[q] # None
    BY <1>2, SchedulerAssumption DEF Listed, Cycle
<1>10. n = 1 => g_run_head = f[p] /\ g_run_tail = f[p]
    BY DEF Listed, Cycle
<1> QED
    BY Zenon, <1>1, <1>8, <1>9, <1>10 DEF Linked

(* All members but the one at position p can be resumed. *)
AllReadyBut(f, p) ==
    \A i \in 0 .. g_run_count - 1 : i # p => Resumable(f[i])

(* The processor passes to the successor. *)
LEMMA FindNextOnCycle ==
    ASSUME NEW f, Listed(f), g_run_count \in Nat, NEW p \in 0 .. g_run_count - 1,
           AllReadyBut(f, p)
    PROVE  FindNext(f[p]) = IF g_run_count = 1 THEN None ELSE f[Turn(p + 1, g_run_count)]
<1> DEFINE n == g_run_count
           found == {m \in 1 .. n - 1 : Resumable(Hops(f[p])[m])}
<1>1. CASE n = 1
    BY <1>1 DEF FindNext
<1>2. CASE n # 1
  <2>1. n >= 2
      BY <1>2
  <2>2. \A k \in 0 .. n : Hops(f[p])[k] = f[Turn(p + k, n)]
      BY Zenon, HopsOnCycle
  <2>3. Turn(p + 1, n) \in 0 .. n - 1 /\ Turn(p + 1, n) # p /\ 1 \in 0 .. n /\ 1 \in 1 .. n - 1
      BY <2>1 DEF Turn
  <2>4. Hops(f[p])[1] = f[Turn(p + 1, n)] /\ Resumable(f[Turn(p + 1, n)])
      BY Zenon, <2>2, <2>3 DEF AllReadyBut
  <2>5. found \subseteq Nat /\ 1 \in found /\ \A k \in found : 1 <= k
      BY <2>3, <2>4
  <2>6. Min(found) = 1 /\ found # {}
      BY Zenon, <2>5, LeastIs
  <2>7. FirstAmong(f[p], 1 .. n - 1) = Hops(f[p])[1]
      BY Zenon, <2>6 DEF FirstAmong
  <2> QED
      BY <1>2, <2>1, <2>4, <2>7 DEF FindNext
<1> QED
    BY Zenon, <1>1, <1>2

(* The idle context resumes the head. *)
LEMMA FindIdleOnCycle ==
    ASSUME NEW f, Listed(f), g_run_count \in Nat, g_run_count # 0,
           \A i \in 0 .. g_run_count - 1 : Resumable(f[i])
    PROVE  FindIdleReady = f[0]
<1> DEFINE n == g_run_count
           found == {m \in 0 .. n - 1 : Resumable(Hops(f[0])[m])}
<1>1. 0 \in 0 .. n - 1 /\ 0 \in 0 .. n /\ Turn(0 + 0, n) = 0
    BY DEF Turn
<1>2. \A k \in 0 .. n : Hops(f[0])[k] = f[Turn(0 + k, n)]
    BY Zenon, <1>1, HopsOnCycle
<1>3. Hops(f[0])[0] = f[0]
    BY Zenon, <1>1, <1>2
<1>4. found \subseteq Nat /\ 0 \in found /\ \A k \in found : 0 <= k
    BY <1>1, <1>3
<1>5. Min(found) = 0 /\ found # {}
    BY Zenon, <1>4, LeastIs
<1>6. g_run_head = f[0]
    BY Zenon DEF Listed, Cycle
<1> QED
    BY Zenon, <1>3, <1>5, <1>6 DEF FindIdleReady, FirstAmong

-----------------------------------------------------------------------------
(* Adding and removing a member *)

RingTyped ==
    /\ run_next \in [Threads -> Threads \cup {None}] /\ on_run_queue \in [Threads -> BOOLEAN]
    /\ g_run_head \in Threads \cup {None} /\ g_run_tail \in Threads \cup {None}
    /\ g_run_count \in Nat

Longer(f, t) == [i \in 0 .. g_run_count |-> IF i < g_run_count THEN f[i] ELSE t]
Shorter(f, p) == [i \in 0 .. g_run_count - 2 |-> IF i < p THEN f[i] ELSE f[i + 1]]

(* scheduler_add *)
LEMMA AddedCycle ==
    ASSUME RingTyped, NEW f, Listed(f), NEW t \in Threads, ~on_run_queue[t], RingBecomes(Added(t))
    PROVE  /\ RingTyped' /\ g_run_count' = g_run_count + 1
           /\ Cycle(run_next', on_run_queue', g_run_head', g_run_tail', g_run_count', Longer(f, t))
           /\ on_run_queue' = [on_run_queue EXCEPT ![t] = TRUE]
<1> DEFINE n == g_run_count
           g == Longer(f, t)
<1>1. on_run_queue' = [on_run_queue EXCEPT ![t] = TRUE] /\ g_run_count' = n + 1
    BY DEF RingTyped, RingBecomes, Added
<1>2. /\ g \in [0 .. n -> Threads] /\ g[n] = t /\ \A i \in 0 .. n - 1 : g[i] = f[i]
    BY DEF Longer, Listed, Cycle, RingTyped
<1>3. \A i, j \in 0 .. n : g[i] = g[j] => i = j
    BY <1>2 DEF Listed, Cycle, RingTyped
<1>4. \A x \in Threads : on_run_queue'[x] <=> \E i \in 0 .. n : g[i] = x
    BY <1>1, <1>2 DEF Listed, Cycle, RingTyped
<1>0. /\ 0 .. (n + 1) - 1 = 0 .. n /\ 0 .. (n + 1) - 2 = 0 .. n - 1 /\ n + 1 # 0
      /\ (n + 1) - 1 = n
    BY DEF RingTyped
<1>5. CASE n = 0
  <2>1. /\ run_next' = [run_next EXCEPT ![t] = t] /\ g_run_head' = t /\ g_run_tail' = t
      BY Zenon, <1>5 DEF RingBecomes, Added
  <2> HIDE DEF g
  <2>2. RingTyped'
      BY <1>1, <2>1 DEF RingTyped
  <2>3. /\ \A i \in 0 .. n - 1 : run_next'[g[i]] = g[i + 1]
        /\ g[0] = t /\ run_next'[t] = t
        /\ \A x \in Threads : ~on_run_queue'[x] => run_next'[x] = None
      BY <1>1, <1>2, <1>5, <2>1 DEF RingTyped, Listed, Cycle
  <2>4. Cycle(run_next', on_run_queue', g_run_head', g_run_tail', n + 1, g)
      BY Zenon, <1>0, <1>2, <1>3, <1>4, <1>5, <2>1, <2>3 DEF Cycle
  <2> QED
      BY Zenon, <1>1, <2>2, <2>4 DEF g
<1>6. CASE n # 0
  <2>1. /\ run_next' = [run_next EXCEPT ![t] = g_run_head, ![g_run_tail] = t]
        /\ g_run_head' = g_run_head /\ g_run_tail' = t
      BY Zenon, <1>6 DEF RingBecomes, Added
  <2>2. /\ g_run_head = f[0] /\ g_run_tail = f[n - 1] /\ f[0] \in Threads /\ f[n - 1] \in Threads
        /\ \A i \in 0 .. n - 1 : f[i] # t
      BY <1>6 DEF Listed, Cycle, RingTyped
  <2> HIDE DEF g
  <2>3. \A x \in Threads : run_next'[x] = IF x = g_run_tail THEN t
                                          ELSE IF x = t THEN g_run_head ELSE run_next[x]
      BY Zenon, <2>1, <2>2 DEF RingTyped
  <2>4. ASSUME NEW i \in 0 .. n - 1 PROVE run_next'[g[i]] = g[i + 1]
    <3>1. g[i] = f[i] /\ f[i] \in Threads
        BY Zenon, <1>2 DEF Listed, Cycle
    <3>2. CASE i = n - 1
        BY <3>1, <3>2, <2>2, <2>3, <1>2 DEF RingTyped
    <3>3. CASE i # n - 1
      <4>1. f[i] # g_run_tail /\ f[i] # t
          BY <3>3, <2>2, <1>6 DEF Listed, Cycle, RingTyped
      <4>2. i \in 0 .. n - 2 /\ i + 1 \in 0 .. n - 1
          BY <3>3 DEF RingTyped
      <4>3. run_next[f[i]] = f[i + 1]
          BY Zenon, <4>2 DEF Listed, Cycle
      <4> QED
          BY Zenon, <3>1, <4>1, <4>2, <4>3, <2>3, <1>2
    <3> QED
        BY Zenon, <3>2, <3>3
  <2>5. run_next'[t] = g_run_head /\ g[0] = f[0] /\ t # g_run_tail
      BY <2>2, <2>3, <1>2, <1>6 DEF RingTyped
  <2>6. \A x \in Threads : ~on_run_queue'[x] => run_next'[x] = None
    <3> SUFFICES ASSUME NEW x \in Threads, ~on_run_queue'[x] PROVE run_next'[x] = None
        BY Zenon
    <3>1. x # t /\ ~on_run_queue[x] /\ x # g_run_tail
        BY <1>1, <1>6, <2>2 DEF RingTyped, Listed, Cycle
    <3> QED
        BY Zenon, <3>1, <2>3 DEF Listed, Cycle
  <2>7. RingTyped'
      BY <1>1, <2>1, <2>2 DEF RingTyped
  <2>8. Cycle(run_next', on_run_queue', g_run_head', g_run_tail', n + 1, g)
      BY Zenon, <1>0, <1>2, <1>3, <1>4, <2>1, <2>2, <2>4, <2>5, <2>6 DEF Cycle
  <2> QED
      BY Zenon, <1>1, <2>7, <2>8 DEF g
<1> QED
    BY Zenon, <1>5, <1>6

(* scheduler_unlink *)
LEMMA UnlinkedCycle ==
    ASSUME RingTyped, NEW f, Listed(f), NEW p \in 0 .. g_run_count - 1, RingBecomes(Unlinked(f[p]))
    PROVE  /\ RingTyped' /\ g_run_count' = g_run_count - 1
           /\ Cycle(run_next', on_run_queue', g_run_head', g_run_tail', g_run_count', Shorter(f, p))
           /\ on_run_queue' = [on_run_queue EXCEPT ![f[p]] = FALSE]
<1> DEFINE n == g_run_count
           t == f[p]
           g == Shorter(f, p)
           hd == IF p = 0 THEN f[1] ELSE f[0]
           tl == IF p = n - 1 THEN f[n - 2] ELSE f[n - 1]
           pv == f[Before(p, n)]
<1>1. on_run_queue' = [on_run_queue EXCEPT ![t] = FALSE] /\ g_run_count' = n - 1
    BY DEF RingTyped, RingBecomes, Unlinked
<1>2. /\ n \in Nat /\ n # 0 /\ n - 1 \in Nat /\ t \in Threads
      /\ 0 .. (n - 1) - 1 = 0 .. n - 2 /\ 0 .. (n - 1) - 2 = 0 .. n - 3 /\ (n - 1) - 1 = n - 2
      /\ p \in 0 .. n - 1
    BY DEF RingTyped, Listed, Cycle
<1>3. /\ f \in [0 .. n - 1 -> Threads]
      /\ \A i, j \in 0 .. n - 1 : f[i] = f[j] => i = j
      /\ \A x \in Threads : on_run_queue[x] <=> \E i \in 0 .. n - 1 : f[i] = x
      /\ \A i \in 0 .. n - 2 : run_next[f[i]] = f[i + 1]
      /\ g_run_head = f[0] /\ g_run_tail = f[n - 1] /\ run_next[f[n - 1]] = f[0]
      /\ \A x \in Threads : ~on_run_queue[x] => run_next[x] = None
    BY Zenon, <1>2 DEF Listed, Cycle
<1>4. \A i \in 0 .. n - 2 : g[i] = IF i < p THEN f[i] ELSE f[i + 1]
    BY Zenon DEF Shorter
<1>5. g \in [0 .. n - 2 -> Threads]
    BY <1>2, <1>3 DEF Shorter
<1> HIDE DEF g
<1>6. \A i, j \in 0 .. n - 2 : g[i] = g[j] => i = j
    BY <1>2, <1>3, <1>4
<1>7. \A x \in Threads : on_run_queue'[x] <=> \E i \in 0 .. n - 2 : g[i] = x
  <2> SUFFICES ASSUME NEW x \in Threads
               PROVE  on_run_queue'[x] <=> \E i \in 0 .. n - 2 : g[i] = x
      BY Zenon
  <2>1. on_run_queue'[x] <=> on_run_queue[x] /\ x # t
      BY Zenon, <1>1, <1>2 DEF RingTyped
  <2>2. ASSUME on_run_queue[x], x # t PROVE \E i \in 0 .. n - 2 : g[i] = x
    <3>1. PICK k \in 0 .. n - 1 : f[k] = x
        BY Zenon, <1>3, <2>2
    <3>2. k # p
        BY Zenon, <2>2, <3>1
    <3>3. CASE k < p
        BY <3>1, <3>3, <1>2, <1>4
    <3>4. CASE k > p
      <4>1. k - 1 \in 0 .. n - 2 /\ ~(k - 1 < p) /\ (k - 1) + 1 = k
          BY <3>4, <1>2
      <4> QED
          BY Zenon, <3>1, <4>1, <1>4
    <3> QED
        BY <3>2, <3>3, <3>4, <1>2
  <2>3. ASSUME NEW i \in 0 .. n - 2 PROVE on_run_queue[g[i]] /\ g[i] # t
    <3>1. PICK k \in 0 .. n - 1 : g[i] = f[k] /\ k # p
      <4>1. CASE i < p
          BY <4>1, <1>2, <1>4
      <4>2. CASE ~(i < p)
        <5>1. i + 1 \in 0 .. n - 1 /\ i + 1 # p
            BY <4>2, <1>2
        <5> QED
            BY Zenon, <4>2, <5>1, <1>4
      <4> QED
          BY Zenon, <4>1, <4>2
    <3> QED
        BY <3>1, <1>2, <1>3
  <2> QED
      BY Zenon, <2>1, <2>2, <2>3
<1>8. CASE n = 1
  <2>1. /\ run_next' = [run_next EXCEPT ![t] = None] /\ g_run_head' = None /\ g_run_tail' = None
      BY Zenon, <1>8 DEF RingBecomes, Unlinked
  <2>2. \A x \in Threads : ~on_run_queue'[x] => run_next'[x] = None
      BY Zenon, <1>1, <1>2, <1>3, <2>1 DEF RingTyped
  <2>3. RingTyped'
      BY Zenon, <1>1, <1>2, <2>1 DEF RingTyped
  <2>4. Cycle(run_next', on_run_queue', g_run_head', g_run_tail', n - 1, g)
    <3>1. n - 1 = 0 /\ \A i \in 0 .. n - 3 : FALSE
        BY <1>8
    <3> QED
        BY Zenon, <1>2, <1>5, <1>6, <1>7, <2>1, <2>2, <3>1 DEF Cycle
  <2> QED
      BY Zenon, <1>1, <2>3, <2>4 DEF g
<1>9. CASE n # 1
  <2>0. n >= 2 /\ n - 1 # 0 /\ 1 \in 0 .. n - 1 /\ 0 \in 0 .. n - 2 /\ n - 2 \in 0 .. n - 2
        /\ n - 2 \in 0 .. n - 1 /\ 0 \in 0 .. n - 1 /\ n - 1 \in 0 .. n - 1 /\ n - 1 # 1 - 1
        /\ Before(p, n) \in 0 .. n - 1 /\ Before(p, n) # p
      BY <1>9, <1>2 DEF Before
  <2>1. Previous(t) = pv
      BY Zenon, <1>2, PreviousOnCycle
  <2>2. run_next[t] = f[Turn(p + 1, n)]
      BY Zenon, <1>2, LinkOnCycle
  <2>3. (p = 0 <=> g_run_head = t) /\ (p = n - 1 <=> g_run_tail = t)
      BY Zenon, <1>2, <1>3, <2>0
  <2>4. hd = (IF g_run_head = t THEN run_next[t] ELSE g_run_head)
    <3>1. p = 0 => Turn(p + 1, n) = 1
        BY <1>2, <2>0 DEF Turn
    <3> QED
        BY Zenon, <1>3, <2>2, <2>3, <3>1
  <2>5. tl = (IF g_run_tail = t THEN Previous(t) ELSE g_run_tail)
    <3>1. p = n - 1 => Before(p, n) = n - 2
        BY Zenon, <1>2, <2>0 DEF Before
    <3> QED
        BY Zenon, <1>3, <2>1, <2>3, <3>1
  <2>6. /\ run_next' = [run_next EXCEPT ![pv] = f[Turn(p + 1, n)], ![tl] = hd, ![t] = None]
        /\ g_run_head' = hd /\ g_run_tail' = tl
      BY Zenon, <1>9, <2>1, <2>2, <2>4, <2>5 DEF RingBecomes, Unlinked
  <2>7. pv \in Threads /\ tl \in Threads /\ hd \in Threads /\ Turn(p + 1, n) \in 0 .. n - 1
        /\ f[Turn(p + 1, n)] \in Threads
      BY <1>2, <1>3, <2>0 DEF Turn
  <2>8. \A x \in Threads : run_next'[x] = IF x = t THEN None ELSE IF x = tl THEN hd
                                          ELSE IF x = pv THEN f[Turn(p + 1, n)] ELSE run_next[x]
      BY Zenon, <1>2, <2>6, <2>7 DEF RingTyped
  <2>9. hd = g[0] /\ tl = g[n - 2] /\ tl # t
    <3>1. hd = g[0]
        BY SMTT(20), <1>2, <1>4, <2>0
    <3>2. tl = g[n - 2]
      <4>1. CASE p = n - 1
          BY <4>1, <1>2, <1>4, <2>0
      <4>2. CASE p # n - 1
        <5>1. ~(n - 2 < p) /\ (n - 2) + 1 = n - 1
            BY <4>2, <1>2
        <5> QED
            BY Zenon, <4>2, <5>1, <1>4, <2>0
      <4> QED
          BY Zenon, <4>1, <4>2
    <3>3. tl # t
        BY <1>2, <1>3, <2>0
    <3> QED
        BY Zenon, <3>1, <3>2, <3>3
  <2>10. RingTyped'
      BY Zenon, <1>1, <1>2, <2>6, <2>7 DEF RingTyped
  <2>11. \A x \in Threads : ~on_run_queue'[x] => run_next'[x] = None
    <3> SUFFICES ASSUME NEW x \in Threads, ~on_run_queue'[x] PROVE run_next'[x] = None
        BY Zenon
    <3>1. CASE x = t
        BY Zenon, <3>1, <2>8
    <3>2. CASE x # t
      <4>1. ~on_run_queue[x]
          BY Zenon, <3>2, <1>1, <1>2 DEF RingTyped
      <4>2. \A i \in 0 .. n - 1 : f[i] # x
          BY Zenon, <4>1, <1>3
      <4>3. x # tl /\ x # pv /\ run_next[x] = None
          BY Zenon, <4>1, <4>2, <1>3, <2>0
      <4> QED
          BY Zenon, <3>2, <4>3, <2>8
    <3> QED
        BY Zenon, <3>1, <3>2
  <2>12. ASSUME NEW i \in 0 .. n - 3 PROVE run_next'[g[i]] = g[i + 1]
    <3>0. i \in 0 .. n - 2 /\ i + 1 \in 0 .. n - 2 /\ i \in 0 .. n - 1 /\ i + 1 \in 0 .. n - 1
          /\ i \in Nat /\ p \in Nat
        BY <1>2
    <3>1. CASE i + 1 < p
      <4>1. g[i] = f[i] /\ g[i + 1] = f[i + 1]
          BY <3>0, <3>1, <1>4
      <4>2. i # p /\ i # Before(p, n) /\ i # n - 1 /\ (p = n - 1 => i # n - 2)
          BY <3>0, <3>1, <1>2 DEF Before
      <4>3. f[i] \in Threads /\ f[i] # t /\ f[i] # pv /\ f[i] # tl
          BY Zenon, <4>2, <3>0, <1>2, <1>3, <2>0
      <4> QED
          BY <4>1, <4>3, <3>0, <1>3, <2>8
    <3>2. CASE i + 1 = p
      <4>1. g[i] = f[i] /\ g[i + 1] = f[p + 1]
          BY <3>0, <3>2, <1>4
      <4>2. i = Before(p, n) /\ Turn(p + 1, n) = p + 1 /\ i # p /\ i # n - 1 /\ p # n - 1
          BY <3>0, <3>2, <1>2 DEF Before, Turn
      <4>3. f[i] \in Threads /\ f[i] # t /\ f[i] = pv /\ f[i] # tl
          BY Zenon, <4>2, <3>0, <1>2, <1>3, <2>0
      <4> QED
          BY Zenon, <4>1, <4>2, <4>3, <2>8
    <3>3. CASE ~(i + 1 < p) /\ i + 1 # p
      <4>1. g[i] = f[i + 1] /\ g[i + 1] = f[(i + 1) + 1]
          BY <3>0, <3>3, <1>4
      <4>2. i + 1 # p /\ i + 1 # Before(p, n) /\ i + 1 # n - 1 /\ p # n - 1
          BY <3>0, <3>3, <1>2 DEF Before
      <4>3. f[i + 1] \in Threads /\ f[i + 1] # t /\ f[i + 1] # pv /\ f[i + 1] # tl
          BY Zenon, <4>2, <3>0, <1>2, <1>3, <2>0
      <4> QED
          BY <4>1, <4>3, <3>0, <1>3, <2>8
    <3> QED
        BY Zenon, <3>1, <3>2, <3>3
  <2>13. run_next'[tl] = hd
      BY Zenon, <2>7, <2>8, <2>9
  <2>14. Cycle(run_next', on_run_queue', g_run_head', g_run_tail', n - 1, g)
    <3> HIDE DEF hd, tl, pv, t
    <3> QED
        BY Zenon, <1>2, <1>5, <1>6, <1>7, <2>0, <2>6, <2>9, <2>11, <2>12, <2>13 DEF Cycle
  <2> QED
      BY Zenon, <1>1, <2>10, <2>14 DEF g
<1> QED
    BY Zenon, <1>8, <1>9

-----------------------------------------------------------------------------
(* The abstract order *)

Listing(f, n) == [i \in 1 .. n |-> f[i - 1]]

LEMMA ListingFacts ==
    ASSUME NEW n \in Nat, NEW f \in [0 .. n - 1 -> Threads]
    PROVE  /\ Listing(f, n) \in Seq(Threads) /\ Len(Listing(f, n)) = n
           /\ \A i \in 1 .. n : Listing(f, n)[i] = f[i - 1] /\ i - 1 \in 0 .. n - 1
BY DEF Listing

OrderListed == \A f : RingTyped /\ Listed(f) => RingOrder = Listing(f, g_run_count)

LEMMA OrderIsListed == OrderListed
<1> SUFFICES ASSUME NEW f, RingTyped, Listed(f) PROVE RingOrder = Listing(f, g_run_count)
    BY Zenon DEF OrderListed
<1>1. g_run_count \in Nat
    BY Zenon DEF RingTyped
<1>2. ASSUME NEW i \in 1 .. g_run_count PROVE Hops(g_run_head)[i - 1] = f[i - 1]
  <2>1. 0 \in 0 .. g_run_count - 1 /\ i - 1 \in 0 .. g_run_count
        /\ Turn(0 + (i - 1), g_run_count) = i - 1
      BY <1>1 DEF Turn
  <2>2. g_run_head = f[0]
      BY Zenon, <1>1, <2>1, Member
  <2> QED
      BY Zenon, <1>1, <2>1, <2>2, HopsOnCycle
<1> QED
    BY Zenon, <1>2 DEF RingOrder, Listing

LEMMA OrderIsListedNext == OrderListed'
BY OrderIsListed, PTL

LEMMA PositionIs ==
    ASSUME RingTyped, NEW f, Listed(f), NEW p \in 0 .. g_run_count - 1
    PROVE  /\ RingOrder = Listing(f, g_run_count) /\ Len(RingOrder) = g_run_count
           /\ \A i \in 1 .. g_run_count : RingOrder[i] = f[i - 1] /\ i - 1 \in 0 .. g_run_count - 1
           /\ f[p] \in Promise!Members /\ Promise!Position(f[p]) = p + 1
<1>1. RingOrder = Listing(f, g_run_count)
    BY Zenon, OrderIsListed DEF OrderListed
<1>2. g_run_count \in Nat /\ f \in [0 .. g_run_count - 1 -> Threads]
    BY Zenon DEF RingTyped, Listed, Cycle
<1>3. /\ Len(RingOrder) = g_run_count
      /\ \A i \in 1 .. g_run_count : RingOrder[i] = f[i - 1] /\ i - 1 \in 0 .. g_run_count - 1
    BY Zenon, <1>1, <1>2, ListingFacts
<1>4. p + 1 \in 1 .. g_run_count /\ (p + 1) - 1 = p
    BY <1>2
<1>5. RingOrder[p + 1] = f[p]
    BY Zenon, <1>3, <1>4
<1>6. \A i \in 1 .. g_run_count : RingOrder[i] = f[p] => i = p + 1
    BY <1>2, <1>3 DEF Listed, Cycle
<1>7. Promise!Position(f[p]) = p + 1
    BY Zenon, <1>3, <1>4, <1>5, <1>6 DEF Promise!Position
<1>8. f[p] \in Promise!Members
    BY Zenon, <1>3, <1>4, <1>5 DEF Promise!Members
<1> QED
    BY Zenon, <1>1, <1>3, <1>7, <1>8

LEMMA JoinStep ==
    ASSUME RingTyped, NEW f, Listed(f), NEW t \in Threads, ~on_run_queue[t],
           RingBecomes(Added(t)), current' = current
    PROVE  Promise!Join(t)
<1> DEFINE n == g_run_count
<1>1. n \in Nat /\ f \in [0 .. n - 1 -> Threads] /\ \A i \in 0 .. n - 1 : f[i] # t
    BY Zenon DEF RingTyped, Listed, Cycle
<1>2. RingOrder = Listing(f, n)
    BY Zenon, OrderIsListed DEF OrderListed
<1>3. PICK g : g = Longer(f, t) /\ RingTyped' /\ g_run_count' = n + 1 /\ Listed(g)'
    BY Zenon, AddedCycle DEF Listed
<1>4. RingOrder' = Listing(g, n + 1)
    BY Zenon, <1>3, OrderIsListedNext DEF OrderListed
<1>5. /\ Listing(f, n) \in Seq(Threads) /\ Len(Listing(f, n)) = n
      /\ \A i \in 1 .. n : Listing(f, n)[i] = f[i - 1] /\ i - 1 \in 0 .. n - 1
    BY Zenon, <1>1, ListingFacts
<1>6. t \notin Promise!Members
    BY Zenon, <1>1, <1>2, <1>5 DEF Promise!Members
<1>7. Listing(g, n + 1) = Append(Listing(f, n), t)
  <2>1. (\A i \in 1 .. n : g[i - 1] = f[i - 1]) /\ g[(n + 1) - 1] = t
      BY <1>1, <1>3 DEF Longer
  <2>2. /\ Append(Listing(f, n), t) \in Seq(Threads) /\ Len(Append(Listing(f, n), t)) = n + 1
        /\ \A i \in 1 .. n : Append(Listing(f, n), t)[i] = f[i - 1]
        /\ Append(Listing(f, n), t)[n + 1] = t
      BY <1>5, AppendProperties
  <2>3. g \in [0 .. (n + 1) - 1 -> Threads] /\ n + 1 \in Nat
      BY <1>1, <1>3 DEF Longer
  <2>4. /\ Listing(g, n + 1) \in Seq(Threads) /\ Len(Listing(g, n + 1)) = n + 1
        /\ \A i \in 1 .. n + 1 : Listing(g, n + 1)[i] = g[i - 1]
      BY Zenon, <2>3, ListingFacts
  <2>5. \A i \in 1 .. n + 1 : Listing(g, n + 1)[i] = Append(Listing(f, n), t)[i]
    <3> SUFFICES ASSUME NEW i \in 1 .. n + 1
                 PROVE  Listing(g, n + 1)[i] = Append(Listing(f, n), t)[i]
        BY Zenon
    <3>1. i \in 1 .. n \/ i = n + 1
        BY <1>1
    <3>2. Listing(g, n + 1)[i] = g[i - 1]
        BY Zenon, <2>4
    <3> QED
        BY Zenon, <3>1, <3>2, <2>1, <2>2
  <2> QED
      BY Zenon, <2>2, <2>4, <2>5, SeqEqual
<1> QED
    BY Zenon, <1>2, <1>4, <1>6, <1>7 DEF Promise!Join

(* The order without the member at position p. *)
LEMMA ShorterOrder ==
    ASSUME RingTyped, NEW f, Listed(f), NEW p \in 0 .. g_run_count - 1,
           RingBecomes(Unlinked(f[p]))
    PROVE  RingOrder' = Promise!Without(f[p])
<1> DEFINE n == g_run_count
<1>1. /\ RingOrder = Listing(f, n) /\ Len(RingOrder) = n
      /\ \A i \in 1 .. n : RingOrder[i] = f[i - 1] /\ i - 1 \in 0 .. n - 1
      /\ Promise!Position(f[p]) = p + 1 /\ n \in Nat
    BY Zenon, PositionIs DEF RingTyped
<1>2. PICK g : g = Shorter(f, p) /\ RingTyped' /\ g_run_count' = n - 1 /\ Listed(g)'
    BY Zenon, UnlinkedCycle DEF Listed
<1>3. RingOrder' = Listing(g, n - 1)
    BY Zenon, <1>2, OrderIsListedNext DEF OrderListed
<1>4. \A i \in 1 .. n - 1 : g[i - 1] = IF i < p + 1 THEN RingOrder[i] ELSE RingOrder[i + 1]
  <2> SUFFICES ASSUME NEW i \in 1 .. n - 1
               PROVE  g[i - 1] = IF i < p + 1 THEN RingOrder[i] ELSE RingOrder[i + 1]
      BY Zenon
  <2>1. /\ i - 1 \in 0 .. n - 2 /\ i \in 1 .. n /\ i + 1 \in 1 .. n
        /\ (i - 1 < p <=> i < p + 1) /\ (i - 1) + 1 = i /\ (i + 1) - 1 = i
      BY <1>1
  <2>2. g[i - 1] = IF i - 1 < p THEN f[i - 1] ELSE f[(i - 1) + 1]
      BY Zenon, <2>1, <1>2 DEF Shorter
  <2> QED
      BY Zenon, <2>1, <2>2, <1>1
<1>5. Promise!Without(f[p]) = [i \in 1 .. n - 1 |-> IF i < p + 1 THEN RingOrder[i] ELSE RingOrder[i + 1]]
    BY Zenon, <1>1 DEF Promise!Without
<1> QED
    BY Zenon, <1>3, <1>4, <1>5 DEF Listing

LEMMA WithdrawStep ==
    ASSUME RingTyped, NEW f, Listed(f), NEW p \in 0 .. g_run_count - 1,
           RingBecomes(Unlinked(f[p])), current' = current, f[p] # current
    PROVE  Promise!Withdraw(f[p])
BY Zenon, ShorterOrder, PositionIs DEF Promise!Withdraw

LEMMA SuccessorIs ==
    ASSUME RingTyped, NEW f, Listed(f), NEW p \in 0 .. g_run_count - 1
    PROVE  Promise!Successor(f[p]) = f[Turn(p + 1, g_run_count)]
<1>1. /\ Len(RingOrder) = g_run_count /\ g_run_count \in Nat
      /\ \A i \in 1 .. g_run_count : RingOrder[i] = f[i - 1]
      /\ Promise!Position(f[p]) = p + 1
    BY Zenon, PositionIs DEF RingTyped
<1>2. CASE p + 1 = g_run_count
  <2>1. Turn(p + 1, g_run_count) = 0 /\ 1 \in 1 .. g_run_count /\ 1 - 1 = 0
      BY <1>1, <1>2 DEF Turn
  <2> QED
      BY Zenon, <1>1, <1>2, <2>1 DEF Promise!Successor
<1>3. CASE p + 1 # g_run_count
  <2>1. Turn(p + 1, g_run_count) = p + 1 /\ p + 1 + 1 \in 1 .. g_run_count /\ (p + 1 + 1) - 1 = p + 1
      BY <1>1, <1>3 DEF Turn
  <2> QED
      BY Zenon, <1>1, <1>3, <2>1 DEF Promise!Successor
<1> QED
    BY Zenon, <1>2, <1>3

-----------------------------------------------------------------------------
(* The invariant *)

(* How many members the ring has. *)
LEMMA CountIs ==
    ASSUME RingTyped, NEW f, Listed(f)
    PROVE  Cardinality(Queued) = g_run_count /\ g_run_count \in 0 .. Cardinality(Threads)
<1>1. g_run_count \in Nat /\ IsFiniteSet(Threads) /\ Queued \in SUBSET Threads
    BY Zenon, SchedulerAssumption DEF RingTyped, Queued
<1>2. f \in Bijection(0 .. g_run_count - 1, Queued)
  <2>1. f \in [0 .. g_run_count - 1 -> Queued]
      BY Zenon, <1>1 DEF Listed, Cycle, Queued
  <2>2. \A i, j \in 0 .. g_run_count - 1 : f[i] = f[j] => i = j
      BY Zenon DEF Listed, Cycle
  <2>3. \A t \in Queued : \E i \in 0 .. g_run_count - 1 : f[i] = t
      BY Zenon DEF Listed, Cycle, Queued
  <2> QED
      BY Zenon, <2>1, <2>2, <2>3 DEF Bijection, Injection, Surjection, IsInjective
<1>3. IsFiniteSet(0 .. g_run_count - 1) /\ Cardinality(0 .. g_run_count - 1) = g_run_count
  <2>1. /\ IsFiniteSet(0 .. g_run_count - 1)
        /\ Cardinality(0 .. g_run_count - 1) =
              IF 0 > g_run_count - 1 THEN 0 ELSE (g_run_count - 1) - 0 + 1
      BY <1>1, FS_Interval
  <2> QED
      BY <1>1, <2>1
<1>4. Cardinality(Queued) = g_run_count
    BY Zenon, <1>2, <1>3, FS_Bijection DEF ExistsBijection
<1>5. Cardinality(Queued) <= Cardinality(Threads) /\ Cardinality(Threads) \in Nat
    BY Zenon, <1>1, FS_Subset, FS_CardinalityType
<1> QED
    BY <1>1, <1>4, <1>5

(* The rest of the state has its types, and the thread that runs is on the ring. *)
CoreTyped ==
    /\ state \in [Threads -> {Absent, "READY", "RUNNING", "BLOCKED", "DEAD"}]
    /\ ctx \in [Threads -> BOOLEAN] /\ current \in Threads \cup {None}
    /\ g_idle_active = (current = None) /\ g_preemption_enabled \in BOOLEAN
    /\ halted = FALSE

IInv ==
    /\ RingTyped /\ CoreTyped /\ FrameConsumedOnce
    /\ \E f : Listed(f)
    /\ current # None => on_run_queue[current]

LEMMA Implied == IInv => RingWellFormed /\ FrameConsumedOnce
<1> SUFFICES ASSUME IInv PROVE RingWellFormed
    BY Zenon DEF IInv
<1>1. RingTyped /\ CoreTyped
    BY Zenon DEF IInv
<1>2. PICK f : Listed(f)
    BY Zenon DEF IInv
<1>3. Cardinality(Queued) = g_run_count /\ g_run_count \in 0 .. Cardinality(Threads)
    BY Zenon, <1>1, <1>2, CountIs
<1>4. TypeOK /\ ~halted
    BY Zenon, <1>1, <1>3 DEF TypeOK, RingTyped, CoreTyped
<1>5. g_run_count \in Nat
    BY Zenon, <1>1 DEF RingTyped
<1>6. ASSUME NEW n \in 0 .. g_run_count - 1 PROVE Hops(g_run_head)[n] = f[n]
  <2>1. 0 \in 0 .. g_run_count - 1 /\ n \in 0 .. g_run_count /\ Turn(0 + n, g_run_count) = n
      BY <1>5 DEF Turn
  <2>2. g_run_head = f[0]
      BY Zenon, <1>2, <1>5, <2>1, Member
  <2> QED
      BY <1>2, <1>5, <2>1, <2>2, HopsOnCycle
<1>7. {Hops(g_run_head)[n] : n \in 0 .. g_run_count - 1} = Queued
    BY <1>2, <1>6 DEF Listed, Cycle, Queued
<1>8. g_run_count # 0 => g_run_count - 1 \in 0 .. g_run_count - 1
    BY <1>5
<1>9. g_run_count # 0 =>
          Hops(g_run_head)[g_run_count - 1] = g_run_tail /\ run_next[g_run_tail] = g_run_head
    BY Zenon, <1>2, <1>6, <1>8 DEF Listed, Cycle
<1>10. \A t \in Threads \ Queued : run_next[t] = None
    BY Zenon, <1>2 DEF Listed, Cycle, Queued
<1> QED
    BY Zenon, <1>3, <1>4, <1>7, <1>9, <1>10 DEF RingWellFormed

LEMMA InitInv == Init => IInv /\ Promise!Init
<1> SUFFICES ASSUME Init PROVE IInv /\ Promise!Init
    BY Zenon
<1> USE SchedulerAssumption
<1> DEFINE f == [i \in 0 .. 0 |-> Boot]
<1>1. RingTyped /\ CoreTyped
    BY Zenon DEF Init, RingTyped, CoreTyped, Absent
<1>2. Listed(f)
  <2>1. 0 .. g_run_count - 1 = {0} /\ 0 .. g_run_count - 2 = {} /\ g_run_count - 1 = 0
        /\ g_run_count # 0
      BY DEF Init
  <2>2. f \in [{0} -> Threads] /\ f[0] = Boot
      BY Zenon, <2>1
  <2> HIDE DEF f
  <2> QED
      BY Zenon, <2>1, <2>2 DEF Listed, Cycle, Init
<1>3. FrameConsumedOnce
    BY Zenon DEF Init, FrameConsumedOnce, Queued, Absent
<1>4. RingOrder = Listing(f, 1)
    BY Zenon, <1>1, <1>2, OrderIsListed DEF OrderListed, Init
<1>5. Listing(f, 1) = <<Boot>>
  <2>1. Listing(f, 1) = [i \in 1 .. 1 |-> Boot]
      BY DEF Listing
  <2> QED
      BY <2>1
<1>6. Promise!Init
    BY Zenon, <1>4, <1>5 DEF Promise!Init, Init
<1> HIDE DEF f
<1>7. IInv
    BY Zenon, <1>1, <1>2, <1>3 DEF IInv, Init
<1> QED
    BY Zenon, <1>6, <1>7

(* The frame of one thread: queued, in state s, with frame c, and running or not. *)
FrameSound(queued, s, c, runs) ==
    /\ queued /\ ~runs => s = "READY" /\ c
    /\ s = "BLOCKED" => c
    /\ s \in {"RUNNING", "DEAD"} => ~c
    /\ s = "RUNNING" <=> runs

FramesSound == \A t \in Threads : FrameSound(on_run_queue[t], state[t], ctx[t], t = current)

LEMMA FramesAre == FrameConsumedOnce <=> FramesSound
BY Zenon DEF FrameConsumedOnce, FramesSound, FrameSound, Queued

LEMMA FramesAreNext == (FrameConsumedOnce <=> FramesSound)'
BY FramesAre, PTL

Step == IInv' /\ [Promise!Next]_<<RingOrder, current>>

-----------------------------------------------------------------------------
(* Steps that leave the ring alone *)

LEMMA SameRing ==
    ASSUME IInv, UNCHANGED <<ringVars, current>>, CoreTyped', FrameConsumedOnce'
    PROVE  Step
<1>1. UNCHANGED <<run_next, on_run_queue, g_run_head, g_run_tail, g_run_count>>
    BY Zenon DEF ringVars
<1>2. RingTyped'
    BY Zenon, <1>1 DEF IInv, RingTyped
<1>3. PICK f : Listed(f)
    BY Zenon DEF IInv
<1>4. Listed(f)'
    BY Zenon, <1>1, <1>3 DEF Listed
<1>5. RingOrder = Listing(f, g_run_count) /\ RingOrder' = Listing(f, g_run_count')
    BY Zenon, <1>2, <1>3, <1>4, OrderIsListed, OrderIsListedNext DEF OrderListed, IInv
<1> QED
    BY Zenon, <1>1, <1>2, <1>4, <1>5 DEF IInv, Step

LEMMA ThreadStep ==
    ASSUME IInv, NEW t \in Threads, ThreadCreate(t) \/ ThreadPrepare(t) \/ ThreadDestroy(t)
    PROVE  Step
<1>1. UNCHANGED <<ringVars, current>> /\ UNCHANGED <<g_idle_active, g_preemption_enabled, halted>>
    BY Zenon DEF ThreadCreate, ThreadPrepare, ThreadDestroy, modeVars
<1>2. t # current /\ ~(on_run_queue[t] /\ ctx[t])
    BY Zenon DEF IInv, FrameConsumedOnce, ThreadCreate, ThreadPrepare, ThreadDestroy, CoreTyped, Queued, Absent
<1>3. CoreTyped'
    BY Zenon, <1>1 DEF IInv, CoreTyped, ThreadCreate, ThreadPrepare, ThreadDestroy, Absent
<1>4. t \notin Queued /\ Queued' = Queued
    BY Zenon, <1>1, <1>2 DEF IInv, FrameConsumedOnce, Queued, ringVars
<1>5. FramesSound'
  <2> SUFFICES ASSUME NEW x \in Threads
               PROVE  FrameSound(on_run_queue[x], state'[x], ctx'[x], x = current)
      BY Zenon, <1>1 DEF FramesSound, ringVars
  <2>1. FrameSound(on_run_queue[x], state[x], ctx[x], x = current)
      BY Zenon, FramesAre DEF IInv, FramesSound
  <2>2. CASE x # t
    <3>1. state'[x] = state[x] /\ ctx'[x] = ctx[x]
        BY Zenon, <2>2 DEF IInv, CoreTyped, ThreadCreate, ThreadPrepare, ThreadDestroy
    <3> QED
        BY Zenon, <2>1, <3>1
  <2>3. CASE x = t
    <3>1. state'[x] \in {Absent, "READY"} /\ ~on_run_queue[x] /\ x # current
        BY Zenon, <1>2, <1>4, <2>3 DEF IInv, CoreTyped, ThreadCreate, ThreadPrepare, ThreadDestroy, Queued
    <3> QED
        BY Zenon, <3>1 DEF FrameSound, Absent
  <2> QED
      BY Zenon, <2>2, <2>3
<1> QED
    BY Zenon, <1>1, <1>3, <1>5, FramesAreNext, SameRing

LEMMA ModeStep ==
    ASSUME IInv, UNCHANGED <<state, ringVars, ctx, current, g_idle_active, halted>>,
           g_preemption_enabled' \in BOOLEAN
    PROVE  Step
<1>1. CoreTyped'
    BY Zenon DEF IInv, CoreTyped
<1>2. FrameConsumedOnce'
    BY Zenon DEF IInv, FrameConsumedOnce, Queued, ringVars
<1> QED
    BY Zenon, <1>1, <1>2, SameRing

-----------------------------------------------------------------------------
(* Steps that add or remove a member *)

LEMMA AddStep ==
    ASSUME IInv, NEW t \in Threads, ~on_run_queue[t], RingBecomes(Added(t)), ctx[t], t # current,
           state[t] \in {"READY", "BLOCKED"}, state' = [state EXCEPT ![t] = "READY"],
           UNCHANGED <<ctx, current, modeVars>>
    PROVE  Step
<1>1. PICK f : Listed(f)
    BY Zenon DEF IInv
<1>2. RingTyped /\ CoreTyped /\ FrameConsumedOnce
    BY Zenon DEF IInv
<1>3. PICK g : RingTyped' /\ Listed(g)' /\ on_run_queue' = [on_run_queue EXCEPT ![t] = TRUE]
    BY Zenon, <1>1, <1>2, AddedCycle DEF Listed
<1>4. CoreTyped'
    BY Zenon, <1>2 DEF CoreTyped, modeVars
<1>5. Queued' = Queued \cup {t} /\ (current # None => on_run_queue'[current'])
    BY Zenon, <1>2, <1>3 DEF Queued, RingTyped, CoreTyped, IInv
<1>6. FrameConsumedOnce'
    BY <1>2, <1>5 DEF FrameConsumedOnce, CoreTyped
<1>7. Promise!Join(t)
    BY Zenon, <1>1, <1>2, JoinStep
<1> QED
    BY Zenon, <1>3, <1>4, <1>5, <1>6, <1>7 DEF IInv, Step, Promise!Next

LEMMA RemoveStep ==
    ASSUME IInv, NEW t \in Threads, on_run_queue[t], RingBecomes(Unlinked(t)), t # current,
           \/ UNCHANGED <<state, ctx>>
           \/ state' = [state EXCEPT ![t] = "DEAD"] /\ ctx' = [ctx EXCEPT ![t] = FALSE],
           UNCHANGED <<current, modeVars>>
    PROVE  Step
<1>1. PICK f : Listed(f)
    BY Zenon DEF IInv
<1>2. RingTyped /\ CoreTyped /\ FrameConsumedOnce /\ g_run_count \in Nat
    BY Zenon DEF IInv, RingTyped
<1>3. PICK p \in 0 .. g_run_count - 1 : f[p] = t
    BY Zenon, <1>1, <1>2, MemberAt
<1>4. PICK g : RingTyped' /\ Listed(g)' /\ on_run_queue' = [on_run_queue EXCEPT ![t] = FALSE]
    BY Zenon, <1>1, <1>2, <1>3, UnlinkedCycle DEF Listed
<1>5. CoreTyped'
    BY Zenon, <1>2 DEF CoreTyped, modeVars
<1>6. Queued' = Queued \ {t} /\ (current # None => on_run_queue'[current'])
    BY Zenon, <1>2, <1>4 DEF Queued, RingTyped, CoreTyped, IInv
<1>7. FrameConsumedOnce'
  <2>1. FramesSound'
    <3> SUFFICES ASSUME NEW x \in Threads
                 PROVE  FrameSound(on_run_queue'[x], state'[x], ctx'[x], x = current)
        BY Zenon DEF FramesSound
    <3>1. FrameSound(on_run_queue[x], state[x], ctx[x], x = current)
        BY Zenon, <1>2, FramesAre DEF FramesSound
    <3>2. CASE x # t
      <4>1. on_run_queue'[x] = on_run_queue[x] /\ state'[x] = state[x] /\ ctx'[x] = ctx[x]
          BY Zenon, <1>2, <1>4, <3>2 DEF CoreTyped, RingTyped
      <4> QED
          BY Zenon, <3>1, <4>1
    <3>3. CASE x = t
      <4>1. on_run_queue'[x] = FALSE /\ x # current
          BY Zenon, <1>2, <1>4, <3>3 DEF RingTyped
      <4>2. \/ state'[x] = state[x] /\ ctx'[x] = ctx[x]
            \/ state'[x] = "DEAD" /\ ctx'[x] = FALSE
          BY Zenon, <1>2, <3>3 DEF CoreTyped
      <4> QED
          BY Zenon, <3>1, <4>1, <4>2 DEF FrameSound
    <3> QED
        BY Zenon, <3>2, <3>3
  <2> QED
      BY Zenon, <2>1, FramesAreNext
<1>8. Promise!Withdraw(t)
    BY Zenon, <1>1, <1>2, <1>3, WithdrawStep
<1> QED
    BY Zenon, <1>4, <1>5, <1>6, <1>7, <1>8 DEF IInv, Step, Promise!Next

-----------------------------------------------------------------------------
(* Steps that pass the processor on *)

LEMMA AtCurrent ==
    ASSUME IInv, current # None
    PROVE  \E f, p : /\ Listed(f) /\ p \in 0 .. g_run_count - 1 /\ f[p] = current
                     /\ FindNext(current) =
                           IF g_run_count = 1 THEN None ELSE f[Turn(p + 1, g_run_count)]
                     /\ Linked(current)
<1>1. PICK f : Listed(f)
    BY Zenon DEF IInv
<1>2. /\ RingTyped /\ g_run_count \in Nat /\ current \in Threads /\ on_run_queue[current]
      /\ FrameConsumedOnce
    BY Zenon DEF IInv, RingTyped, CoreTyped
<1>3. PICK p \in 0 .. g_run_count - 1 : f[p] = current
    BY Zenon, <1>1, <1>2, MemberAt
<1>4. AllReadyBut(f, p)
  <2> SUFFICES ASSUME NEW i \in 0 .. g_run_count - 1, i # p PROVE Resumable(f[i])
      BY Zenon DEF AllReadyBut
  <2>1. f[i] \in Threads /\ on_run_queue[f[i]] /\ f[i] # current
      BY Zenon, <1>1, <1>2, <1>3, Member DEF Listed, Cycle
  <2> QED
      BY Zenon, <2>1, <1>2, SchedulerAssumption DEF Resumable, FrameConsumedOnce, Queued
<1>5. FindNext(f[p]) = IF g_run_count = 1 THEN None ELSE f[Turn(p + 1, g_run_count)]
    BY Zenon, <1>1, <1>2, <1>3, <1>4, FindNextOnCycle
<1>6. Linked(f[p])
    BY Zenon, <1>1, <1>2, <1>3, PreviousOnCycle
<1> QED
    BY Zenon, <1>1, <1>3, <1>5, <1>6

LEMMA NextIsMember ==
    ASSUME IInv, NEW f, Listed(f), NEW p \in 0 .. g_run_count - 1, f[p] = current, g_run_count # 1,
           NEW to, to = f[Turn(p + 1, g_run_count)]
    PROVE  to \in Threads /\ on_run_queue[to] /\ to # current /\ state[to] = "READY" /\ ctx[to]
<1>1. g_run_count \in Nat
    BY Zenon DEF IInv, RingTyped
<1>2. Turn(p + 1, g_run_count) \in 0 .. g_run_count - 1 /\ Turn(p + 1, g_run_count) # p
    BY <1>1 DEF Turn
<1>3. to \in Threads /\ on_run_queue[to] /\ to # current
    BY Zenon, <1>1, <1>2, Member DEF Listed, Cycle
<1> QED
    BY Zenon, <1>3 DEF IInv, FrameConsumedOnce, Queued

LEMMA SwitchStep ==
    ASSUME IInv, SwitchReady
    PROVE  Step
<1>0. current # None /\ FindNext(current) # None
    BY Zenon DEF SwitchReady, CanSwitch, Active
<1>1. PICK f, p : /\ Listed(f) /\ p \in 0 .. g_run_count - 1 /\ f[p] = current
                  /\ FindNext(current) =
                        IF g_run_count = 1 THEN None ELSE f[Turn(p + 1, g_run_count)]
    BY Zenon, <1>0, AtCurrent
<1> DEFINE to == f[Turn(p + 1, g_run_count)]
<1>2. g_run_count # 1 /\ FindNext(current) = to
    BY Zenon, <1>0, <1>1
<1>3. to \in Threads /\ on_run_queue[to] /\ to # current /\ state[to] = "READY" /\ ctx[to]
    BY Zenon, <1>1, <1>2, NextIsMember
<1>4. /\ ctx' = [ctx EXCEPT ![current] = TRUE, ![to] = FALSE]
      /\ state' = [state EXCEPT ![current] = "READY", ![to] = "RUNNING"]
      /\ current' = to
      /\ UNCHANGED <<ringVars, modeVars>>
    BY Zenon, <1>2 DEF SwitchReady, Saved
<1>5. RingTyped /\ CoreTyped /\ FrameConsumedOnce /\ current \in Threads /\ on_run_queue[current]
    BY Zenon, <1>0 DEF IInv, CoreTyped
<1>6. Promise!Successor(current) = to /\ current \in Promise!Members
    BY Zenon, <1>1, <1>5, SuccessorIs, PositionIs
<1> HIDE DEF to
<1>7. UNCHANGED <<run_next, on_run_queue, g_run_head, g_run_tail, g_run_count>>
    BY Zenon, <1>4 DEF ringVars
<1>8. RingTyped' /\ Listed(f)'
    BY Zenon, <1>1, <1>5, <1>7 DEF RingTyped, Listed
<1>9. RingOrder' = RingOrder
    BY Zenon, <1>1, <1>5, <1>7, <1>8, OrderIsListed, OrderIsListedNext DEF OrderListed
<1>10. CoreTyped'
    BY Zenon, <1>3, <1>4, <1>5, SchedulerAssumption DEF CoreTyped, modeVars
<1>11. FrameConsumedOnce'
  <2>1. \A x \in Threads : /\ state'[x] = IF x = to THEN "RUNNING"
                                          ELSE IF x = current THEN "READY" ELSE state[x]
                           /\ ctx'[x] = IF x = to THEN FALSE ELSE IF x = current THEN TRUE ELSE ctx[x]
      BY Zenon, <1>3, <1>4, <1>5 DEF CoreTyped
  <2>2. FramesSound'
    <3> SUFFICES ASSUME NEW x \in Threads
                 PROVE  FrameSound(on_run_queue[x], state'[x], ctx'[x], x = to)
        BY Zenon, <1>4, <1>7 DEF FramesSound
    <3>1. FrameSound(on_run_queue[x], state[x], ctx[x], x = current)
        BY Zenon, <1>5, FramesAre DEF FramesSound
    <3> QED
        BY Zenon, <3>1, <2>1, <1>3 DEF FrameSound
  <2> QED
      BY Zenon, <2>2, FramesAreNext
<1>12. Promise!PassOn
    BY Zenon, <1>4, <1>6, <1>9 DEF Promise!PassOn
<1> QED
    BY Zenon, <1>3, <1>4, <1>7, <1>8, <1>10, <1>11, <1>12 DEF IInv, Step, Promise!Next

(* The running thread is blocked with a frame, or dead without one, and another runs. *)
HandsOver(to) ==
    \A x \in Threads :
        /\ x = current => \/ state'[x] = "BLOCKED" /\ ctx'[x] = TRUE
                          \/ state'[x] = "DEAD" /\ ctx'[x] = FALSE
        /\ x = to => state'[x] = "RUNNING" /\ ctx'[x] = FALSE
        /\ x # current /\ x # to => state'[x] = state[x] /\ ctx'[x] = ctx[x]

(* It leaves the ring for its successor or for the idle context. *)
LEMMA LeaveStep ==
    ASSUME IInv, NEW f, Listed(f), NEW p \in 0 .. g_run_count - 1, f[p] = current, current # None,
           NEW to, g_run_count = 1 => to = None,
           g_run_count # 1 => to = f[Turn(p + 1, g_run_count)],
           RingBecomes(Unlinked(current)), current' = to, CoreTyped',
           HandsOver(to)
    PROVE  Step
<1>1. RingTyped /\ FrameConsumedOnce /\ current \in Threads /\ on_run_queue[current]
      /\ g_run_count \in Nat
    BY Zenon DEF IInv, CoreTyped, RingTyped
<1>2. to # None => g_run_count # 1 /\ to \in Threads /\ on_run_queue[to] /\ to # current
    BY NextIsMember
<1>3. to # current
    BY Zenon, <1>2
<1>4. PICK g : RingTyped' /\ Listed(g)' /\ on_run_queue' = [on_run_queue EXCEPT ![current] = FALSE]
    BY Zenon, <1>1, UnlinkedCycle DEF Listed
<1>5. to # None => on_run_queue'[to]
    BY Zenon, <1>1, <1>2, <1>4 DEF RingTyped
<1>6. FramesSound'
  <2> SUFFICES ASSUME NEW x \in Threads
               PROVE  FrameSound(on_run_queue'[x], state'[x], ctx'[x], x = to)
      BY Zenon DEF FramesSound
  <2>1. FrameSound(on_run_queue[x], state[x], ctx[x], x = current)
      BY Zenon, <1>1, FramesAre DEF FramesSound
  <2>2. on_run_queue'[x] = IF x = current THEN FALSE ELSE on_run_queue[x]
      BY Zenon, <1>1, <1>4 DEF RingTyped
  <2>3. CASE x = current
      BY Zenon, <2>2, <2>3, <1>3 DEF FrameSound, HandsOver
  <2>4. CASE x = to
      BY Zenon, <2>4 DEF FrameSound, HandsOver
  <2>5. CASE x # current /\ x # to
      BY Zenon, <2>1, <2>2, <2>5 DEF FrameSound, HandsOver
  <2> QED
      BY Zenon, <2>3, <2>4, <2>5
<1>7. RingOrder' = Promise!Without(current)
    BY Zenon, <1>1, ShorterOrder
<1>8. current \in Promise!Members /\ Len(RingOrder) = g_run_count
    BY Zenon, <1>1, PositionIs
<1>9. Promise!Successor(current) = f[Turn(p + 1, g_run_count)]
    BY Zenon, <1>1, SuccessorIs
<1>10. Promise!Leave
    BY Zenon, <1>7, <1>8, <1>9 DEF Promise!Leave
<1>11. FrameConsumedOnce'
    BY Zenon, <1>6, FramesAreNext
<1> QED
    BY Zenon, <1>4, <1>5, <1>10, <1>11 DEF IInv, Step, Promise!Next

LEMMA BlockStep ==
    ASSUME IInv, Block
    PROVE  Step
<1>0. current # None /\ FindNext(current) # None
    BY Zenon DEF Block, CanSwitch, Active
<1>1. PICK f, p : /\ Listed(f) /\ p \in 0 .. g_run_count - 1 /\ f[p] = current
                  /\ FindNext(current) =
                        IF g_run_count = 1 THEN None ELSE f[Turn(p + 1, g_run_count)]
                  /\ Linked(current)
    BY Zenon, <1>0, AtCurrent
<1> DEFINE to == f[Turn(p + 1, g_run_count)]
<1>2. g_run_count # 1 /\ FindNext(current) = to
    BY Zenon, <1>0, <1>1
<1>3. to \in Threads /\ on_run_queue[to] /\ to # current /\ state[to] = "READY" /\ ctx[to]
    BY Zenon, <1>1, <1>2, NextIsMember
<1>4. /\ RingBecomes(Unlinked(current))
      /\ ctx' = [ctx EXCEPT ![current] = TRUE, ![to] = FALSE]
      /\ state' = [state EXCEPT ![current] = "BLOCKED", ![to] = "RUNNING"]
      /\ current' = to /\ UNCHANGED modeVars
    BY Zenon, <1>1, <1>2 DEF Block, Saved
<1>5. CoreTyped /\ current \in Threads
    BY Zenon, <1>0 DEF IInv, CoreTyped
<1> HIDE DEF to
<1>6. CoreTyped'
    BY Zenon, <1>3, <1>4, <1>5, SchedulerAssumption DEF CoreTyped, modeVars
<1>7. HandsOver(to)
    BY Zenon, <1>3, <1>4, <1>5 DEF CoreTyped, HandsOver
<1>8. (g_run_count = 1 => to = None) /\ (g_run_count # 1 => to = f[Turn(p + 1, g_run_count)])
    BY Zenon, <1>2 DEF to
<1>9. Listed(f) /\ p \in 0 .. g_run_count - 1 /\ f[p] = current
    BY Zenon, <1>1
<1>10. RingBecomes(Unlinked(current)) /\ current' = to
    BY Zenon, <1>4
<1> QED
    BY Zenon, <1>0, <1>6, <1>7, <1>8, <1>9, <1>10, LeaveStep

LEMMA ExitStep ==
    ASSUME IInv, Exit
    PROVE  Step
<1>0. current # None
    BY Zenon DEF Exit, CanExit, CanSwitch, Active
<1>1. PICK f, p : /\ Listed(f) /\ p \in 0 .. g_run_count - 1 /\ f[p] = current
                  /\ FindNext(current) =
                        IF g_run_count = 1 THEN None ELSE f[Turn(p + 1, g_run_count)]
                  /\ Linked(current)
    BY Zenon, <1>0, AtCurrent
<1> DEFINE to == IF g_run_count = 1 THEN None ELSE f[Turn(p + 1, g_run_count)]
<1>2. to = IF g_run_count = 1 THEN None ELSE FindNext(current)
    BY Zenon, <1>1
<1>3. to # None => to \in Threads /\ on_run_queue[to] /\ to # current
    BY Zenon, <1>1, NextIsMember
<1>4. /\ RingBecomes(Unlinked(current))
      /\ ctx' = [t \in Threads |-> ctx[t] /\ t \notin {current, to}]
      /\ state' = [t \in Threads |-> IF t = current THEN "DEAD"
                                     ELSE IF t = to THEN "RUNNING" ELSE state[t]]
      /\ current' = to /\ g_idle_active' = (to = None)
      /\ UNCHANGED <<g_preemption_enabled, halted>>
    BY <1>1, <1>2 DEF Exit, EntersIdle
<1>5. CoreTyped /\ current \in Threads
    BY Zenon, <1>0 DEF IInv, CoreTyped
<1>6. (g_run_count = 1 => to = None) /\ (g_run_count # 1 => to = f[Turn(p + 1, g_run_count)])
    BY Zenon
<1>9. Listed(f) /\ p \in 0 .. g_run_count - 1 /\ f[p] = current
    BY Zenon, <1>1
<1> HIDE DEF to
<1>7. CoreTyped'
    BY Zenon, <1>3, <1>4, <1>5, SchedulerAssumption DEF CoreTyped
<1>8. HandsOver(to)
    BY Zenon, <1>3, <1>4, <1>5, SchedulerAssumption DEF CoreTyped, HandsOver
<1>10. RingBecomes(Unlinked(current)) /\ current' = to
    BY Zenon, <1>4
<1> QED
    BY Zenon, <1>0, <1>6, <1>7, <1>8, <1>9, <1>10, LeaveStep

LEMMA IdleStep ==
    ASSUME IInv, ResumeFromIdle
    PROVE  Step
<1>1. PICK f : Listed(f)
    BY Zenon DEF IInv
<1>2. /\ RingTyped /\ CoreTyped /\ FrameConsumedOnce /\ g_run_count \in Nat /\ g_run_count # 0
      /\ current = None
    BY Zenon DEF IInv, RingTyped, CoreTyped, ResumeFromIdle
<1>3. 0 \in 0 .. g_run_count - 1
    BY <1>2
<1>4. \A i \in 0 .. g_run_count - 1 : f[i] \in Threads /\ on_run_queue[f[i]] /\ Resumable(f[i])
  <2> SUFFICES ASSUME NEW i \in 0 .. g_run_count - 1
               PROVE  f[i] \in Threads /\ on_run_queue[f[i]] /\ Resumable(f[i])
      BY Zenon
  <2>1. f[i] \in Threads /\ on_run_queue[f[i]] /\ f[i] # current
      BY Zenon, <1>1, <1>2, Member, SchedulerAssumption
  <2> QED
      BY Zenon, <2>1, <1>2, SchedulerAssumption DEF Resumable, FrameConsumedOnce, Queued
<1>5. FindIdleReady = f[0]
    BY Zenon, <1>1, <1>2, <1>4, FindIdleOnCycle
<1> DEFINE to == f[0]
<1>6. to \in Threads /\ on_run_queue[to] /\ to # None
    BY Zenon, <1>3, <1>4, SchedulerAssumption
<1>7. /\ ctx' = [ctx EXCEPT ![to] = FALSE] /\ state' = [state EXCEPT ![to] = "RUNNING"]
      /\ current' = to /\ g_idle_active' = FALSE
      /\ UNCHANGED <<ringVars, g_preemption_enabled, halted>>
    BY Zenon, <1>2, <1>5, <1>6 DEF ResumeFromIdle
<1>8. UNCHANGED <<run_next, on_run_queue, g_run_head, g_run_tail, g_run_count>>
    BY Zenon, <1>7 DEF ringVars
<1>9. RingTyped' /\ Listed(f)'
    BY Zenon, <1>1, <1>2, <1>8 DEF RingTyped, Listed
<1>10. RingOrder' = RingOrder
    BY Zenon, <1>1, <1>2, <1>8, <1>9, OrderIsListed, OrderIsListedNext DEF OrderListed
<1>11. RingOrder # <<>> /\ RingOrder[1] = to
  <2>1. /\ Len(RingOrder) = g_run_count
        /\ \A i \in 1 .. g_run_count : RingOrder[i] = f[i - 1]
      BY Zenon, <1>1, <1>2, <1>3, PositionIs
  <2>2. 1 \in 1 .. g_run_count /\ 1 - 1 = 0
      BY <1>2
  <2> QED
      BY Zenon, <1>2, <2>1, <2>2
<1> HIDE DEF to
<1>12. CoreTyped'
    BY Zenon, <1>2, <1>6, <1>7 DEF CoreTyped
<1>13. FramesSound'
  <2> SUFFICES ASSUME NEW x \in Threads
               PROVE  FrameSound(on_run_queue[x], state'[x], ctx'[x], x = to)
      BY Zenon, <1>7, <1>8 DEF FramesSound
  <2>1. FrameSound(on_run_queue[x], state[x], ctx[x], x = current)
      BY Zenon, <1>2, FramesAre DEF FramesSound
  <2>2. /\ state'[x] = IF x = to THEN "RUNNING" ELSE state[x]
        /\ ctx'[x] = IF x = to THEN FALSE ELSE ctx[x]
      BY Zenon, <1>2, <1>6, <1>7 DEF CoreTyped
  <2>3. x # current
      BY Zenon, <1>2, SchedulerAssumption
  <2> QED
      BY Zenon, <2>1, <2>2, <2>3 DEF FrameSound
<1>14. FrameConsumedOnce'
    BY Zenon, <1>13, FramesAreNext
<1>15. Promise!Restart
    BY Zenon, <1>2, <1>7, <1>10, <1>11 DEF Promise!Restart
<1> QED
    BY Zenon, <1>6, <1>7, <1>8, <1>9, <1>12, <1>14, <1>15 DEF IInv, Step, Promise!Next

-----------------------------------------------------------------------------
LEMMA MemberOps ==
    ASSUME IInv, NEW t \in Threads, Add(t) \/ RemoveFromRing(t) \/ Wake(t) \/ Terminate(t)
    PROVE  Step
<1>0. RingTyped /\ CoreTyped /\ FrameConsumedOnce
    BY Zenon DEF IInv
<1>1. CASE Add(t)
  <2>1. ~on_run_queue[t] /\ state[t] = "READY" /\ ctx[t] /\ RingBecomes(Added(t))
        /\ UNCHANGED <<state, ctx, current, modeVars>>
      BY Zenon, <1>1 DEF Add, Addable
  <2>2. t # current /\ state' = [state EXCEPT ![t] = "READY"]
      BY Zenon, <1>0, <2>1 DEF FrameConsumedOnce, CoreTyped
  <2> QED
      BY Zenon, <2>1, <2>2, AddStep
<1>2. CASE Wake(t)
  <2>1. ~on_run_queue[t] /\ state[t] = "BLOCKED" /\ ctx[t] /\ RingBecomes(Added(t)) /\ t # current
        /\ state' = [state EXCEPT ![t] = "READY"] /\ UNCHANGED <<ctx, current, modeVars>>
      BY Zenon, <1>2 DEF Wake, Addable
  <2> QED
      BY Zenon, <2>1, AddStep
<1>3. CASE RemoveFromRing(t)
  <2>1. on_run_queue[t] /\ RingBecomes(Unlinked(t)) /\ t # current
        /\ UNCHANGED <<state, ctx>> /\ UNCHANGED <<current, modeVars>>
      BY Zenon, <1>3 DEF RemoveFromRing, Linked
  <2> QED
      BY Zenon, <2>1, RemoveStep
<1>4. CASE Terminate(t)
  <2>0. t # current /\ state[t] \in {"READY", "BLOCKED"} /\ UNCHANGED <<current, modeVars>>
        /\ state' = [state EXCEPT ![t] = "DEAD"] /\ ctx' = [ctx EXCEPT ![t] = FALSE]
      BY Zenon, <1>4 DEF Terminate, CanTerminate
  <2>1. CASE on_run_queue[t]
    <3>1. RingBecomes(Unlinked(t))
        BY Zenon, <1>4, <2>1 DEF Terminate, TerminatedRing
    <3> QED
        BY Zenon, <2>0, <2>1, <3>1, RemoveStep
  <2>2. CASE ~on_run_queue[t]
    <3>1. RingBecomes(Ring)
        BY Zenon, <1>4, <2>2 DEF Terminate, TerminatedRing
    <3>2. UNCHANGED <<ringVars, current>>
        BY Zenon, <2>0, <3>1 DEF RingBecomes, Ring, ringVars
    <3>3. CoreTyped'
        BY Zenon, <1>0, <2>0 DEF CoreTyped, modeVars
    <3>4. FramesSound'
      <4> SUFFICES ASSUME NEW x \in Threads
                   PROVE  FrameSound(on_run_queue[x], state'[x], ctx'[x], x = current)
          BY Zenon, <3>2 DEF FramesSound, ringVars
      <4>1. FrameSound(on_run_queue[x], state[x], ctx[x], x = current)
          BY Zenon, <1>0, FramesAre DEF FramesSound
      <4>2. /\ state'[x] = IF x = t THEN "DEAD" ELSE state[x]
            /\ ctx'[x] = IF x = t THEN FALSE ELSE ctx[x]
          BY Zenon, <1>0, <2>0 DEF CoreTyped
      <4>3. CASE x = t
        <5>1. ~on_run_queue[x] /\ x # current /\ state'[x] = "DEAD" /\ ~ctx'[x]
            BY Zenon, <2>0, <2>2, <4>2, <4>3
        <5> QED
            BY Zenon, <5>1 DEF FrameSound
      <4>4. CASE x # t
          BY Zenon, <4>1, <4>2, <4>4
      <4> QED
          BY Zenon, <4>3, <4>4
    <3>5. FrameConsumedOnce'
        BY Zenon, <3>4, FramesAreNext
    <3> QED
        BY Zenon, <3>2, <3>3, <3>5, SameRing
  <2> QED
      BY Zenon, <2>1, <2>2
<1> QED
    BY Zenon, <1>1, <1>2, <1>3, <1>4

LEMMA NextStep == IInv /\ [Next]_vars => Step
<1> SUFFICES ASSUME IInv, [Next]_vars PROVE Step
    BY Zenon
<1>0. g_preemption_enabled \in BOOLEAN
    BY Zenon DEF IInv, CoreTyped
<1>1. ASSUME UNCHANGED vars PROVE Step
    BY Zenon, <1>0, <1>1, ModeStep DEF vars, modeVars
<1>2. CASE PreemptionEnable \/ PreemptionDisable
    BY Zenon, <1>2, ModeStep DEF PreemptionEnable, PreemptionDisable
<1>3. CASE Yield
    BY Zenon, <1>3, SwitchStep DEF Yield
<1>4. CASE TimerInterrupt
    BY Zenon, <1>4, SwitchStep, IdleStep DEF TimerInterrupt
<1>5. CASE TimerNoSwitch
    BY Zenon, <1>5, <1>1 DEF TimerNoSwitch
<1>6. CASE Block
    BY Zenon, <1>6, BlockStep
<1>7. CASE Exit
    BY Zenon, <1>7, ExitStep
<1>8. ASSUME NEW t \in Threads,
             \/ ThreadCreate(t) \/ ThreadPrepare(t) \/ ThreadDestroy(t)
             \/ Add(t) \/ RemoveFromRing(t) \/ Wake(t) \/ Terminate(t)
      PROVE  Step
    BY Zenon, <1>8, ThreadStep, MemberOps
<1> QED
    BY Zenon, <1>1, <1>2, <1>3, <1>4, <1>5, <1>6, <1>7, <1>8 DEF Next

(* The linked ring stays a ring and no failure path of the scheduler halts the   *)
(* machine, each saved frame is resumed once, and the processor follows the      *)
(* cyclic order that threads join at its end (scheduler_add, scheduler_unlink,   *)
(* scheduler_find_next_interrupt_thread and the switches of kernel/scheduler.c). *)
THEOREM RingIsKept == Spec => RingKeepsOrder
<1>1. Init => IInv /\ Promise!Init
    BY Zenon, InitInv
<1>2. IInv /\ [Next]_vars => IInv'
    BY Zenon, NextStep DEF Step
<1>3. IInv /\ [Next]_vars => [Promise!Next]_<<RingOrder, current>>
    BY Zenon, NextStep DEF Step
<1>4. IInv => RingWellFormed /\ FrameConsumedOnce
    BY Zenon, Implied
<1> QED
    BY <1>1, <1>2, <1>3, <1>4, PTL DEF Spec, RingKeepsOrder, RefinesRunQueue, Promise!Spec
=============================================================================
