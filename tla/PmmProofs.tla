----------------------------- MODULE PmmProofs ------------------------------
(***************************************************************************)
(* The bitmap of module Pmm implements the frames of module FrameSource,   *)
(* for every firmware map whose conventional descriptors do not overlap.   *)
(***************************************************************************)
EXTENDS Pmm, FiniteSetTheorems, WellFoundedInduction, TLAPS

Descriptor == [conventional : BOOLEAN, start : Nat, pages : Nat]

(* What the constants have to be; descriptors of usable memory are disjoint. *)
Parameters ==
    /\ MaxU64 \in Nat /\ FrameSize \in Nat \ {0} /\ BitsPerPage \in Nat \ {0}
    /\ MaxRanges \in Nat /\ MinUsableAddress \in Nat /\ MinUsableAddress % FrameSize = 0
    /\ MemoryMaps \subseteq Seq(Descriptor)
    /\ \A map \in MemoryMaps : \A i, j \in 1 .. Len(map) :
          i # j /\ map[i].conventional /\ map[j].conventional =>
              \/ map[i].start + map[i].pages * FrameSize <= map[j].start
              \/ map[j].start + map[j].pages * FrameSize <= map[i].start

RangeRecord == [first : Nat, end : Nat]
Top == MaxU64 \div FrameSize
FramesIn(r) == r.first .. r.end - 1

(* Frame f lies within descriptor d. *)
Covers(d, f) ==
    d.conventional /\ d.start <= f * FrameSize /\ (f + 1) * FrameSize <= d.start + d.pages * FrameSize

RangeSound(r) ==
    /\ r \in RangeRecord /\ r.first < r.end /\ r.end <= Top
    /\ MinUsableAddress <= r.first * FrameSize

(* What the ranges collected from the first k descriptors of a map are. *)
RangesSound(rs, map, k) ==
    /\ rs \in Seq(RangeRecord) /\ \A i \in 1 .. Len(rs) : RangeSound(rs[i])
    /\ \A i, j \in 1 .. Len(rs) : i # j => FramesIn(rs[i]) \cap FramesIn(rs[j]) = {}
    /\ \A i \in 1 .. Len(rs) : \A f \in FramesIn(rs[i]) : \E m \in 1 .. k : Covers(map[m], f)

(* The frames that clients can be given. *)
Given == {f \in FramesOf(g_ranges) : ~frame_is_bitmap(f)}

LayoutSound ==
    /\ g_base_frame \in Nat /\ g_bitmap_bits \in Nat \ {0}
    /\ Given \subseteq 0 .. Top /\ Given \subseteq g_base_frame .. g_base_frame + g_bitmap_bits - 1
    /\ \A f \in Given : f * FrameSize >= MinUsableAddress

BitsSound ==
    /\ g_bitmap \subseteq 0 .. g_bitmap_bits - 1 /\ held \subseteq Given
    /\ \A i \in 0 .. g_bitmap_bits - 1 : i \notin g_bitmap <=> i + g_base_frame \in Given \ held
    /\ free_pages = Cardinality(ClearBits) /\ g_next_hint \in 0 .. g_bitmap_bits - 1

IInv ==
    /\ Parameters /\ g_initialized \in BOOLEAN
    /\ g_initialized => LayoutSound /\ BitsSound
    /\ ~g_initialized => g_bitmap_bits = 0 /\ g_bitmap = {} /\ held = {}

-----------------------------------------------------------------------------
(* Numbers *)

LEMMA LeastElement ==
    ASSUME NEW S, S \subseteq Nat, S # {}
    PROVE  \E m \in S : \A k \in S : m <= k
<1>1. \E m \in S : \A k \in S : ~(<<k, m>> \in OpToRel(<, Nat))
    BY Zenon, NatLessThanWellFounded, WFMin
<1>2. \A k, m \in S : ~(<<k, m>> \in OpToRel(<, Nat)) => m <= k
    BY DEF OpToRel
<1> QED
    BY Zenon, <1>1, <1>2

LEMMA Dividing ==
    ASSUME NEW F \in Nat \ {0}, NEW x \in Nat
    PROVE  /\ x \div F \in Nat /\ (x \div F) * F <= x /\ x < (x \div F) * F + F
           /\ x % F = x - (x \div F) * F
OBVIOUS

LEMMA Multiples ==
    ASSUME NEW F \in Nat \ {0}, NEW a \in Nat, NEW b \in Nat
    PROVE  /\ a * F \in Nat /\ (a + 1) * F = a * F + F
           /\ a * F <= b * F <=> a <= b
           /\ a * F < b * F + F => a <= b
OBVIOUS

-----------------------------------------------------------------------------
(* Collecting the ranges *)

LEMMA LargerIs ==
    ASSUME NEW a \in Nat, NEW b \in Nat
    PROVE  Max({a, b}) = IF a <= b THEN b ELSE a
<1> DEFINE m == IF a <= b THEN b ELSE a
<1>1. m \in {a, b} /\ \A y \in {a, b} : m >= y
    OBVIOUS
<1>2. \A x \in {a, b} : (\A y \in {a, b} : x >= y) => x = m
    OBVIOUS
<1> QED
    BY Zenon, <1>1, <1>2 DEF Max

LEMMA RangeOfIs ==
    ASSUME Parameters, NEW d \in Descriptor
    PROVE  \/ RangeOf(d).end = 0
           \/ RangeSound(RangeOf(d)) /\ \A f \in FramesIn(RangeOf(d)) : Covers(d, f)
<1> DEFINE F == FrameSize
           bytes == d.pages * F
           up == align_up_page(d.start)
           start == Max({up, MinUsableAddress})
           end == align_down_page(d.start + bytes)
           r == RangeOf(d)
<1>0. /\ F \in Nat \ {0} /\ MaxU64 \in Nat /\ MinUsableAddress \in Nat /\ MinUsableAddress % F = 0
      /\ d.start \in Nat /\ d.pages \in Nat /\ d.conventional \in BOOLEAN
    BY Zenon DEF Parameters, Descriptor
<1>1. CASE /\ d.conventional /\ d.pages # 0 /\ d.pages <= MaxU64 \div F
           /\ d.start <= MaxU64 - bytes /\ d.start <= MaxU64 - (F - 1)
           /\ end > start
  <2>1. r = [first |-> start \div F, end |-> end \div F]
      BY Zenon, <1>1 DEF RangeOf
  <2>2. bytes \in Nat
      BY Zenon, <1>0, Multiples
  <2>3. PICK u \in Nat : up = u * F /\ d.start <= u * F
    <3> DEFINE u == (d.start + F - 1) \div F
    <3>1. d.start + F - 1 \in Nat
        BY <1>0
    <3>2. u \in Nat /\ d.start + F - 1 < u * F + F
        BY Zenon, <1>0, <3>1, Dividing
    <3>3. u * F \in Nat
        BY Zenon, <1>0, <3>2, Multiples
    <3>4. up = u * F
        BY Zenon DEF align_up_page
    <3>5. d.start <= u * F
        BY <1>0, <3>2, <3>3
    <3> QED
        BY Zenon, <3>2, <3>4, <3>5
  <2>4. PICK v \in Nat : end = v * F /\ v * F <= d.start + bytes
    <3>1. d.start + bytes \in Nat
        BY <1>0, <2>2
    <3> QED
        BY Zenon, <3>1, <1>0, Dividing DEF align_down_page
  <2>5. PICK w \in Nat : MinUsableAddress = w * F
    <3> DEFINE w == MinUsableAddress \div F
    <3>1. w \in Nat /\ MinUsableAddress % F = MinUsableAddress - w * F
        BY Zenon, <1>0, Dividing
    <3>2. w * F \in Nat
        BY Zenon, <1>0, <3>1, Multiples
    <3>3. MinUsableAddress = w * F
        BY <1>0, <3>1, <3>2
    <3> QED
        BY Zenon, <3>1, <3>3
  <2>6. PICK x \in Nat : start = x * F /\ u * F <= x * F /\ w * F <= x * F
    <3>1. u * F \in Nat /\ w * F \in Nat
        BY Zenon, <1>0, Multiples
    <3>2. start = IF u * F <= w * F THEN w * F ELSE u * F
        BY Zenon, <2>3, <2>5, <3>1, LargerIs
    <3>3. u * F <= w * F => w * F <= w * F
        BY <3>1
    <3>4. ~(u * F <= w * F) => w * F <= u * F /\ u * F <= u * F
        BY <3>1
    <3> QED
        BY Zenon, <3>2, <3>3, <3>4
  <2>7. \A y \in Nat : (y * F) \div F = y
    <3> SUFFICES ASSUME NEW y \in Nat PROVE (y * F) \div F = y
        OBVIOUS
    <3> DEFINE q == (y * F) \div F
    <3>1. y * F \in Nat
        BY Zenon, <1>0, Multiples
    <3>2. q \in Nat /\ q * F <= y * F /\ y * F < q * F + F
        BY Zenon, <3>1, <1>0, Dividing
    <3>3. q <= y /\ y <= q
        BY Zenon, <3>2, <1>0, Multiples
    <3> QED
        BY <3>2, <3>3
  <2>8. r.first = x /\ r.end = v /\ r \in RangeRecord
    <3>1. start \div F = x /\ end \div F = v
        BY Zenon, <2>4, <2>6, <2>7
    <3>2. r = [first |-> x, end |-> v]
        BY Zenon, <2>1, <3>1
    <3> HIDE DEF r
    <3> QED
        BY <3>2 DEF RangeRecord
  <2>9. x < v
    <3>1. x * F < v * F /\ x * F \in Nat /\ v * F \in Nat
        BY Zenon, <1>0, <1>1, <2>4, <2>6, Multiples
    <3>2. v <= x => v * F <= x * F
        BY Zenon, <1>0, Multiples
    <3> QED
        BY <3>1, <3>2
  <2>10. v <= Top
    <3>1. v * F <= MaxU64 /\ v * F \in Nat
        BY <1>0, <1>1, <2>2, <2>4
    <3>2. MaxU64 < Top * F + F /\ Top \in Nat /\ Top * F \in Nat
        BY Zenon, <1>0, Dividing, Multiples DEF Top
    <3>3. v * F < Top * F + F
        BY <1>0, <3>1, <3>2
    <3> QED
        BY Zenon, <1>0, <3>2, <3>3, Multiples
  <2>11. RangeSound(r)
      BY Zenon, <2>5, <2>6, <2>8, <2>9, <2>10 DEF RangeSound
  <2>12. ASSUME NEW f \in FramesIn(r) PROVE Covers(d, f)
    <3>1. f \in Nat /\ f + 1 \in Nat /\ x <= f /\ f + 1 <= v
        BY <2>8, <2>12 DEF FramesIn
    <3>2. x * F <= f * F /\ (f + 1) * F <= v * F
        BY Zenon, <1>0, <3>1, Multiples
    <3>3. /\ u * F \in Nat /\ x * F \in Nat /\ f * F \in Nat
          /\ (f + 1) * F \in Nat /\ v * F \in Nat
        BY Zenon, <1>0, <3>1, Multiples
    <3>4. d.start <= f * F /\ (f + 1) * F <= d.start + bytes
        BY SMTT(20), <1>0, <2>2, <2>3, <2>4, <2>6, <3>2, <3>3
    <3> QED
        BY Zenon, <1>1, <3>4 DEF Covers
  <2> QED
      BY Zenon, <2>11, <2>12
<1>2. CASE ~(/\ d.conventional /\ d.pages # 0 /\ d.pages <= MaxU64 \div F
             /\ d.start <= MaxU64 - bytes /\ d.start <= MaxU64 - (F - 1)
             /\ end > start)
    BY Zenon, <1>2 DEF RangeOf
<1> QED
    BY Zenon, <1>1, <1>2

(* Different descriptors cover different frames. *)
LEMMA CoveredOnce ==
    ASSUME Parameters, NEW map \in MemoryMaps, NEW i \in 1 .. Len(map), NEW j \in 1 .. Len(map),
           NEW f \in Nat, Covers(map[i], f), Covers(map[j], f)
    PROVE  i = j
<1>1. map \in Seq(Descriptor)
    BY Zenon DEF Parameters
<1>2. map[i] \in Descriptor /\ map[j] \in Descriptor
    BY <1>1
<1>3. /\ FrameSize \in Nat \ {0} /\ f * FrameSize \in Nat /\ (f + 1) * FrameSize = f * FrameSize + FrameSize
      /\ map[i].pages * FrameSize \in Nat /\ map[j].pages * FrameSize \in Nat
      /\ map[i].start \in Nat /\ map[j].start \in Nat
    BY Zenon, <1>2, Multiples DEF Parameters, Descriptor
<1> DEFINE g == f * FrameSize
           s == map[i].start
           t == map[j].start
           p == map[i].pages * FrameSize
           q == map[j].pages * FrameSize
<1>4. i # j => s + p <= t \/ t + q <= s
    BY Zenon DEF Parameters, Covers
<1>5. s <= g /\ g + FrameSize <= s + p /\ t <= g /\ g + FrameSize <= t + q
    BY Zenon, <1>3 DEF Covers
<1>6. g \in Nat /\ s \in Nat /\ t \in Nat /\ p \in Nat /\ q \in Nat /\ FrameSize \in Nat \ {0}
    BY Zenon, <1>3
<1> HIDE DEF g, s, t, p, q
<1>7. ~(s + p <= t) /\ ~(t + q <= s)
    BY <1>5, <1>6
<1> QED
    BY Zenon, <1>4, <1>7

(* One more descriptor. *)
LEMMA AddRangeSound ==
    ASSUME Parameters, NEW map \in MemoryMaps, NEW k \in 1 .. Len(map), NEW rs,
           RangesSound(rs, map, k - 1)
    PROVE  RangesSound(AddRange(rs, map[k]), map, k)
<1> DEFINE r == RangeOf(map[k])
           n == Len(rs)
           new == AddRange(rs, map[k])
<1>1. /\ map \in Seq(Descriptor) /\ Len(map) \in Nat
      /\ 1 .. k - 1 \subseteq 1 .. k /\ 1 .. k - 1 \subseteq 1 .. Len(map) /\ k \in 1 .. k
      /\ k \notin 1 .. k - 1
  <2>1. map \in Seq(Descriptor)
      BY Zenon DEF Parameters
  <2> QED
      BY <2>1
<1>2. map[k] \in Descriptor
    BY <1>1
<1>3. /\ rs \in Seq(RangeRecord) /\ n \in Nat /\ \A i \in 1 .. n : RangeSound(rs[i])
      /\ \A i, j \in 1 .. n : i # j => FramesIn(rs[i]) \cap FramesIn(rs[j]) = {}
      /\ \A i \in 1 .. n : \A f \in FramesIn(rs[i]) : \E m \in 1 .. k - 1 : Covers(map[m], f)
  <2>1. rs \in Seq(RangeRecord)
      BY Zenon DEF RangesSound
  <2>2. n \in Nat
      BY <2>1
  <2> QED
      BY Zenon, <2>1, <2>2 DEF RangesSound
<1>4. CASE r.end = 0
  <2>1. new = rs
      BY Zenon, <1>4 DEF AddRange
  <2> QED
      BY Zenon, <1>1, <1>3, <2>1 DEF RangesSound
<1>5. CASE r.end # 0
  <2>1. RangeSound(r) /\ \A f \in FramesIn(r) : Covers(map[k], f)
      BY Zenon, <1>2, <1>5, RangeOfIs
  <2>2. r \in RangeRecord /\ r.first \in Nat /\ r.end \in Nat /\ r.first < r.end
      BY Zenon, <2>1 DEF RangeSound, RangeRecord
  <2>3. ASSUME NEW i \in 1 .. n PROVE FramesIn(rs[i]) \cap FramesIn(r) = {}
    <3> SUFFICES ASSUME NEW f \in FramesIn(rs[i]), f \in FramesIn(r) PROVE FALSE
        BY Zenon
    <3>1. f \in Nat
        BY <2>2 DEF FramesIn
    <3>2. PICK m \in 1 .. k - 1 : Covers(map[m], f)
        BY Zenon, <1>3
    <3>3. Covers(map[k], f)
        BY Zenon, <2>1
    <3>4. m \in 1 .. Len(map) /\ m # k
        BY Zenon, <1>1
    <3> QED
        BY Zenon, <3>1, <3>2, <3>3, <3>4, CoveredOnce
  <2>4. CASE rs # <<>> /\ Last(rs).end = r.first
    <3> DEFINE l == rs[n]
               u == [l EXCEPT !.end = r.end]
    <3>1. new = [rs EXCEPT ![n].end = r.end] /\ l.end = r.first
        BY Zenon, <1>5, <2>4 DEF AddRange, Last
    <3>2. n \in 1 .. n
        BY <1>3, <2>4
    <3>3. l \in RangeRecord /\ RangeSound(l)
        BY <1>3, <3>2
    <3>4. u \in RangeRecord /\ u.first = l.first /\ u.end = r.end
        BY Zenon, <2>2, <3>3 DEF RangeRecord
    <3>5. new = [rs EXCEPT ![n] = u]
        BY Zenon, <3>1
    <3> HIDE DEF new, u, r
    <3>6. /\ new \in Seq(RangeRecord) /\ Len(new) = n
          /\ new[n] = u /\ \A i \in 1 .. n : i # n => new[i] = rs[i]
        BY SMTT(20), <1>3, <3>2, <3>4, <3>5
    <3>7. RangeSound(u)
        BY SMTT(20), <2>1, <2>2, <3>1, <3>3, <3>4 DEF RangeSound, RangeRecord
    <3>8. FramesIn(u) = FramesIn(l) \cup FramesIn(r)
        BY SMTT(20), <2>2, <3>1, <3>3, <3>4 DEF FramesIn, RangeSound, RangeRecord
    <3>9. ASSUME NEW i \in 1 .. n, NEW j \in 1 .. n, i # j
          PROVE  FramesIn(new[i]) \cap FramesIn(new[j]) = {}
      <4>1. \A m \in 1 .. n : m # n => FramesIn(rs[m]) \cap FramesIn(u) = {}
          BY Zenon, <1>3, <2>3, <3>2, <3>8
      <4> QED
          BY Zenon, <1>3, <3>6, <3>9, <4>1
    <3>10. ASSUME NEW i \in 1 .. n, NEW f \in FramesIn(new[i])
           PROVE  \E m \in 1 .. k : Covers(map[m], f)
        BY Zenon, <1>1, <1>3, <2>1, <3>2, <3>6, <3>8, <3>10
    <3>11. \A i \in 1 .. n : RangeSound(new[i])
        BY Zenon, <1>3, <3>6, <3>7
    <3>12. 1 .. Len(new) = 1 .. n
        BY Zenon, <3>6
    <3>13. RangesSound(new, map, k)
        BY Zenon, <3>6, <3>9, <3>10, <3>11, <3>12 DEF RangesSound
    <3> QED
        BY Zenon, <3>13 DEF new
  <2>5. CASE ~(rs # <<>> /\ Last(rs).end = r.first) /\ Len(rs) >= MaxRanges
    <3>1. new = rs
        BY Zenon, <1>5, <2>5 DEF AddRange
    <3> QED
        BY Zenon, <1>1, <1>3, <3>1 DEF RangesSound
  <2>6. CASE ~(rs # <<>> /\ Last(rs).end = r.first) /\ ~(Len(rs) >= MaxRanges)
    <3>1. new = Append(rs, r)
        BY Zenon, <1>5, <2>6 DEF AddRange
    <3> HIDE DEF new, r
    <3>2. /\ new \in Seq(RangeRecord) /\ Len(new) = n + 1 /\ new[n + 1] = r
          /\ \A i \in 1 .. n : new[i] = rs[i]
        BY <1>3, <2>2, <3>1
    <3>3. \A i \in 1 .. n + 1 : i \in 1 .. n \/ i = n + 1
        BY <1>3
    <3>4. \A i \in 1 .. n + 1 : RangeSound(new[i])
        BY Zenon, <1>3, <2>1, <3>2, <3>3
    <3>5. ASSUME NEW i \in 1 .. n + 1, NEW j \in 1 .. n + 1, i # j
          PROVE  FramesIn(new[i]) \cap FramesIn(new[j]) = {}
        BY Zenon, <1>3, <2>3, <3>2, <3>3, <3>5
    <3>6. ASSUME NEW i \in 1 .. n + 1, NEW f \in FramesIn(new[i])
          PROVE  \E m \in 1 .. k : Covers(map[m], f)
        BY Zenon, <1>1, <1>3, <2>1, <3>2, <3>3, <3>6
    <3>7. 1 .. Len(new) = 1 .. n + 1
        BY Zenon, <3>2
    <3>8. RangesSound(new, map, k)
        BY Zenon, <3>2, <3>4, <3>5, <3>6, <3>7 DEF RangesSound
    <3> QED
        BY Zenon, <3>8 DEF new
  <2> QED
      BY Zenon, <2>4, <2>5, <2>6
<1> QED
    BY Zenon, <1>4, <1>5

(* The recursion that collects the ranges is well defined. *)
LEMMA CollectedIs ==
    ASSUME NEW map, Len(map) \in Nat
    PROVE  /\ Collected(map)[0] = <<>>
           /\ \A k \in 1 .. Len(map) : Collected(map)[k] = AddRange(Collected(map)[k - 1], map[k])
<1> DEFINE n == Len(map)
           e(g, m) == [k \in 0 .. m |-> IF k = 0 THEN <<>> ELSE AddRange(g[k - 1], map[k])]
           c == Collected(map)
<1>1. \E g : g = e(g, n)
  <2> DEFINE bad == {m \in 0 .. n : ~\E g : g = e(g, m)}
  <2> SUFFICES ASSUME bad # {} PROVE FALSE
    <3>1. n \in 0 .. n
        OBVIOUS
    <3> QED
        BY Zenon, <3>1
  <2>1. bad \subseteq Nat
      OBVIOUS
  <2>2. PICK m \in bad : \A k \in bad : m <= k
      BY Zenon, <2>1, LeastElement
  <2>3. CASE m = 0
    <3> DEFINE g == [k \in 0 .. 0 |-> <<>>]
    <3>1. \A k \in 0 .. 0 : k = 0
        OBVIOUS
    <3>2. g = e(g, 0)
        BY Zenon, <3>1
    <3> QED
        BY Zenon, <2>2, <2>3, <3>2
  <2>4. CASE m # 0
    <3>1. m \in 1 .. n /\ m - 1 \in 0 .. n /\ m - 1 \notin bad
        BY SMTT(20), <2>2, <2>4
    <3>2. PICK g : g = e(g, m - 1)
        BY Zenon, <3>1
    <3> DEFINE h == [k \in 0 .. m |-> IF k = m THEN AddRange(g[m - 1], map[m]) ELSE g[k]]
    <3>3. \A k \in 0 .. m : /\ k # m => k \in 0 .. m - 1
                            /\ k # 0 => k - 1 \in 0 .. m /\ k - 1 # m
        BY <3>1
    <3>4. ASSUME NEW k \in 0 .. m
          PROVE  h[k] = IF k = 0 THEN <<>> ELSE AddRange(h[k - 1], map[k])
      <4>1. CASE k = 0
        <5>1. 0 \in 0 .. m - 1 /\ 0 # m
            BY <3>1
        <5> QED
            BY Zenon, <3>2, <4>1, <5>1
      <4>2. CASE k # 0
        <5>1. h[k - 1] = g[k - 1]
            BY Zenon, <3>3, <4>2
        <5>2. CASE k = m
            BY Zenon, <4>2, <5>1, <5>2
        <5>3. CASE k # m
          <6>1. k \in 0 .. m - 1 /\ h[k] = g[k]
              BY Zenon, <3>3, <5>3
          <6>2. g[k] = AddRange(g[k - 1], map[k])
              BY Zenon, <3>2, <4>2, <6>1
          <6> QED
              BY Zenon, <4>2, <5>1, <6>1, <6>2
        <5> QED
            BY Zenon, <5>2, <5>3
      <4> QED
          BY Zenon, <4>1, <4>2
    <3>5. h = e(h, m)
        BY Zenon, <3>4
    <3> QED
        BY Zenon, <2>2, <3>5
  <2> QED
      BY Zenon, <2>3, <2>4
<1>2. c = e(c, n)
  <2>1. c = CHOOSE g : g = e(g, n)
      BY Zenon DEF Collected
  <2> HIDE DEF e, c
  <2> QED
      BY Zenon, <1>1, <2>1
<1>3. 0 \in 0 .. n /\ \A k \in 1 .. n : k \in 0 .. n /\ k # 0
    OBVIOUS
<1> HIDE DEF c
<1>4. c[0] = <<>> /\ \A k \in 1 .. n : c[k] = AddRange(c[k - 1], map[k])
    BY Zenon, <1>2, <1>3
<1> QED
    BY Zenon, <1>4 DEF c

LEMMA CollectedSound ==
    ASSUME Parameters, NEW map \in MemoryMaps
    PROVE  RangesSound(CollectRanges(map), map, Len(map))
<1> DEFINE n == Len(map)
           c == Collected(map)
           bad == {k \in 0 .. n : ~RangesSound(c[k], map, k)}
<1>1. n \in Nat
  <2>1. map \in Seq(Descriptor)
      BY Zenon DEF Parameters
  <2> QED
      BY <2>1
<1>2. c[0] = <<>> /\ \A k \in 1 .. n : c[k] = AddRange(c[k - 1], map[k])
    BY Zenon, <1>1, CollectedIs
<1>3. RangesSound(<<>>, map, 0)
  <2>1. <<>> \in Seq(RangeRecord) /\ \A i : i \notin 1 .. Len(<<>>)
      OBVIOUS
  <2> QED
      BY Zenon, <2>1 DEF RangesSound
<1>4. ASSUME bad # {} PROVE FALSE
  <2>1. bad \subseteq Nat
      OBVIOUS
  <2>2. PICK m \in bad : \A k \in bad : m <= k
      BY Zenon, <1>4, <2>1, LeastElement
  <2>3. m # 0
      BY Zenon, <1>2, <1>3, <2>2
  <2>4. m \in 1 .. n /\ m - 1 \in 0 .. n /\ m - 1 \notin bad
      BY <1>1, <2>2, <2>3
  <2>5. RangesSound(c[m - 1], map, m - 1)
      BY Zenon, <2>4
  <2> QED
      BY Zenon, <1>2, <2>2, <2>4, <2>5, AddRangeSound
<1>5. n \in 0 .. n
    BY <1>1
<1> QED
    BY Zenon, <1>4, <1>5 DEF CollectRanges

(* The lengths of disjoint ranges add up to the number of their frames. *)
LEMMA PagesCounted ==
    ASSUME Parameters, NEW rs, NEW map, NEW top, RangesSound(rs, map, top)
    PROVE  /\ FramesOf(rs) \subseteq 0 .. Top /\ IsFiniteSet(FramesOf(rs))
           /\ PagesOf(rs) = Cardinality(FramesOf(rs))
<1> DEFINE n == Len(rs)
           U(m) == UNION {FramesIn(rs[i]) : i \in 1 .. m}
           e(g) == [m \in 0 .. n |-> IF m = 0 THEN 0 ELSE g[m - 1] + (rs[m].end - rs[m].first)]
           w == [m \in 0 .. n |-> Cardinality(U(m))]
           s == Added(rs)
<1>1. rs \in Seq(RangeRecord)
    BY Zenon DEF RangesSound
<1>2. n \in Nat /\ DOMAIN rs = 1 .. n
    BY <1>1
<1>3. Top \in Nat
    BY Zenon, Dividing DEF Parameters, Top
<1>4. ASSUME NEW i \in 1 .. n
      PROVE  /\ rs[i].first \in Nat /\ rs[i].end \in Nat /\ rs[i].first < rs[i].end
             /\ FramesIn(rs[i]) \subseteq 0 .. Top /\ IsFiniteSet(FramesIn(rs[i]))
             /\ Cardinality(FramesIn(rs[i])) = rs[i].end - rs[i].first
  <2> DEFINE a == rs[i].first
             b == rs[i].end
  <2>1. a \in Nat /\ b \in Nat /\ a < b /\ b <= Top
      BY Zenon DEF RangesSound, RangeSound, RangeRecord
  <2> HIDE DEF a, b
  <2>2. a \in Int /\ b - 1 \in Int /\ ~(a > b - 1) /\ b - 1 - a + 1 = b - a
      BY <2>1
  <2>3. IsFiniteSet(a .. b - 1) /\ Cardinality(a .. b - 1) = b - a
      BY Zenon, <2>2, FS_Interval
  <2>4. a .. b - 1 \subseteq 0 .. Top
      BY <1>3, <2>1
  <2> QED
      BY Zenon, <2>1, <2>3, <2>4 DEF a, b, FramesIn
<1>5. ASSUME NEW m \in 0 .. n PROVE U(m) \subseteq 0 .. Top /\ IsFiniteSet(U(m)) /\ Cardinality(U(m)) \in Nat
  <2>1. \A i \in 1 .. m : i \in 1 .. n
      BY <1>2
  <2>2. U(m) \subseteq 0 .. Top
      BY Zenon, <1>4, <2>1
  <2>3. IsFiniteSet(0 .. Top)
      BY <1>3, FS_Interval
  <2> QED
      BY Zenon, <2>2, <2>3, FS_Subset, FS_CardinalityType
<1>6. ASSUME NEW m \in 1 .. n
      PROVE  m - 1 \in 0 .. n /\ Cardinality(U(m)) = Cardinality(U(m - 1)) + (rs[m].end - rs[m].first)
  <2> DEFINE X == U(m - 1)
             Y == FramesIn(rs[m])
  <2>1. /\ m - 1 \in 0 .. n
        /\ \A i : i \in 1 .. m <=> (i \in 1 .. m - 1 \/ i = m)
        /\ \A i \in 1 .. m - 1 : i # m /\ i \in 1 .. n
      BY <1>2
  <2>2. U(m) = X \cup Y
      BY Zenon, <2>1
  <2>3. X \cap Y = {}
      BY ZenonT(30), <2>1 DEF RangesSound
  <2>4. IsFiniteSet(X) /\ Cardinality(X) \in Nat
      BY Zenon, <1>5, <2>1
  <2>5. IsFiniteSet(Y) /\ Cardinality(Y) = rs[m].end - rs[m].first
      BY Zenon, <1>4
  <2>6. Cardinality(X \cup Y) = Cardinality(X) + Cardinality(Y) - Cardinality(X \cap Y)
      BY Zenon, <2>4, <2>5, FS_Union
  <2>7. Cardinality(X \cap Y) = 0
      BY Zenon, <2>3, FS_EmptySet
  <2>8. Cardinality(Y) \in Nat
      BY Zenon, <2>5, FS_CardinalityType
  <2> HIDE DEF X, Y
  <2>9. Cardinality(X \cup Y) = Cardinality(X) + Cardinality(Y)
      BY <2>4, <2>6, <2>7, <2>8
  <2> QED
      BY Zenon, <2>1, <2>2, <2>5, <2>9 DEF X, Y
<1>7. U(0) = {} /\ Cardinality(U(0)) = 0
  <2>1. \A i : i \notin 1 .. 0
      OBVIOUS
  <2>2. U(0) = {}
      BY Zenon, <2>1
  <2> QED
      BY Zenon, <2>2, FS_EmptySet
<1>8. \A m \in 0 .. n : m # 0 => m \in 1 .. n
    OBVIOUS
<1>9. w[0] = 0 /\ \A m \in 1 .. n : w[m] = w[m - 1] + (rs[m].end - rs[m].first)
  <2>1. 0 \in 0 .. n /\ \A m \in 1 .. n : m \in 0 .. n
      BY <1>2
  <2> QED
      BY Zenon, <1>6, <1>7, <2>1
<1>10. w = e(w)
  <2>1. \A m \in 0 .. n : w[m] = IF m = 0 THEN 0 ELSE w[m - 1] + (rs[m].end - rs[m].first)
      BY Zenon, <1>8, <1>9
  <2> QED
      BY Zenon, <2>1
<1>11. s = e(s)
  <2>1. s = CHOOSE g : g = e(g)
      BY Zenon DEF Added
  <2> HIDE DEF e, w, s
  <2> QED
      BY Zenon, <1>10, <2>1
<1>12. \A m \in 0 .. n : s[m] = w[m]
  <2> DEFINE bad == {k \in 0 .. n : s[k] # w[k]}
  <2> SUFFICES ASSUME bad # {} PROVE FALSE
      BY Zenon
  <2> HIDE DEF s, w
  <2>1. bad \subseteq Nat
      OBVIOUS
  <2>2. PICK m \in bad : \A k \in bad : m <= k
      BY Zenon, <2>1, LeastElement
  <2>3. 0 \in 0 .. n /\ \A k \in 1 .. n : k \in 0 .. n /\ k # 0
      BY <1>2
  <2>4. s[0] = 0
      BY Zenon, <1>11, <2>3
  <2>5. m \in 1 .. n /\ m - 1 \in 0 .. n /\ m - 1 \notin bad
      BY <1>9, <2>2, <2>4
  <2>6. s[m] = s[m - 1] + (rs[m].end - rs[m].first)
      BY Zenon, <1>11, <2>3, <2>5
  <2> QED
      BY Zenon, <1>9, <2>2, <2>5, <2>6
<1>13. n \in 0 .. n /\ PagesOf(rs) = Cardinality(U(n))
  <2>1. n \in 0 .. n
      BY <1>2
  <2> QED
      BY Zenon, <1>12, <2>1 DEF PagesOf
<1>14. FramesOf(rs) = U(n)
    BY Zenon, <1>2 DEF FramesOf, FramesIn
<1> QED
    BY Zenon, <1>5, <1>13, <1>14

-----------------------------------------------------------------------------
(* Smallest and largest, and sets moved by a distance *)

LEMMA MinIs ==
    ASSUME NEW S, S \subseteq Nat, S # {}
    PROVE  Min(S) \in S /\ \A y \in S : Min(S) <= y
<1>1. \E m \in S : \A k \in S : m <= k
    BY Zenon, LeastElement
<1> QED
    BY Zenon, <1>1 DEF Min

LEMMA MaxIs ==
    ASSUME NEW b \in Nat, NEW S, S \subseteq 0 .. b, S # {}
    PROVE  Max(S) \in S /\ \A y \in S : Max(S) >= y
<1> DEFINE T == {b - x : x \in S}
<1>1. T \subseteq Nat /\ T # {}
  <2>1. \A x \in S : b - x \in Nat
      OBVIOUS
  <2> QED
      BY Zenon, <2>1
<1>2. PICK m \in T : \A k \in T : m <= k
    BY Zenon, <1>1, LeastElement
<1>3. PICK x \in S : m = b - x
    BY Zenon
<1>4. \A y \in S : x >= y
  <2> SUFFICES ASSUME NEW y \in S PROVE x >= y
      BY Zenon
  <2>1. b - x <= b - y
      BY Zenon, <1>2, <1>3
  <2> QED
      BY <2>1
<1> QED
    BY Zenon, <1>4 DEF Max

LEMMA Moved ==
    ASSUME NEW S, S \subseteq Nat, IsFiniteSet(S), NEW a \in Nat
    PROVE  IsFiniteSet({x - a : x \in S}) /\ Cardinality({x - a : x \in S}) = Cardinality(S)
<1> DEFINE T == {x - a : x \in S}
           f == [x \in S |-> x - a]
<1>1. \A x, y \in S : x - a = y - a => x = y
    OBVIOUS
<1>2. f \in Bijection(S, T)
  <2>1. f \in [S -> T] /\ \A x \in S : f[x] = x - a
      BY Zenon
  <2>2. \A y \in T : \E x \in S : f[x] = y
      BY Zenon
  <2> HIDE DEF f, T
  <2> QED
      BY <1>1, <2>1, <2>2 DEF Bijection, Injection, Surjection, IsInjective
<1> QED
    BY Zenon, <1>2, FS_Bijection DEF ExistsBijection

LEMMA ClearBitsFinite ==
    ASSUME NEW n \in Nat, NEW S, S \subseteq 0 .. n - 1
    PROVE  IsFiniteSet(S) /\ Cardinality(S) \in Nat
<1>1. IsFiniteSet(0 .. n - 1)
    BY FS_Interval
<1> QED
    BY Zenon, <1>1, FS_Subset, FS_CardinalityType

-----------------------------------------------------------------------------
(* The properties from the invariant *)

LEMMA FreeIs ==
    ASSUME IInv
    PROVE  FreeFrames = IF g_initialized THEN Given \ held ELSE {}
<1>1. CASE ~g_initialized
  <2>1. ClearBits = {}
      BY <1>1 DEF IInv, ClearBits
  <2> QED
      BY Zenon, <1>1, <2>1 DEF FreeFrames
<1>2. CASE g_initialized
  <2>1. /\ g_base_frame \in Nat /\ g_bitmap_bits \in Nat
        /\ Given \subseteq g_base_frame .. g_base_frame + g_bitmap_bits - 1
        /\ \A i \in 0 .. g_bitmap_bits - 1 : i \notin g_bitmap <=> i + g_base_frame \in Given \ held
      BY Zenon, <1>2 DEF IInv, LayoutSound, BitsSound
  <2>2. \A f \in Given : f - g_base_frame \in 0 .. g_bitmap_bits - 1 /\ (f - g_base_frame) + g_base_frame = f
      BY <2>1
  <2>3. \A i : i \in ClearBits <=> i \in 0 .. g_bitmap_bits - 1 /\ i + g_base_frame \in Given \ held
      BY Zenon, <2>1 DEF ClearBits
  <2> QED
      BY Zenon, <1>2, <2>2, <2>3 DEF FreeFrames
<1> QED
    BY Zenon, <1>1, <1>2 DEF IInv

LEMMA Implied == IInv => BitmapExact
<1> SUFFICES ASSUME IInv, g_initialized PROVE BitmapExact
    BY Zenon DEF BitmapExact
<1>1. /\ LayoutSound /\ BitsSound
    BY Zenon DEF IInv
<1>2. g_base_frame \in Nat /\ g_bitmap_bits \in Nat
    BY Zenon, <1>1 DEF LayoutSound
<1>3. \A f \in g_base_frame .. g_base_frame + g_bitmap_bits - 1 :
          f - g_base_frame \in 0 .. g_bitmap_bits - 1 /\ (f - g_base_frame) + g_base_frame = f
    BY <1>2
<1>4. \A f : f \in Given <=> frame_managed(f) /\ ~frame_is_bitmap(f)
    BY Zenon DEF Given, frame_managed
<1>5. ASSUME NEW f \in g_base_frame .. g_base_frame + g_bitmap_bits - 1
      PROVE  (f \in held) <=> (f - g_base_frame \in g_bitmap /\ frame_managed(f) /\ ~frame_is_bitmap(f))
    BY Zenon, <1>1, <1>3, <1>4 DEF BitsSound
<1>6. ASSUME NEW i \in ClearBits
      PROVE  frame_managed(i + g_base_frame) /\ ~frame_is_bitmap(i + g_base_frame)
    BY Zenon, <1>1, <1>4 DEF BitsSound, ClearBits
<1>7. \A f \in held : f * FrameSize >= MinUsableAddress
    BY Zenon, <1>1 DEF BitsSound, LayoutSound
<1> QED
    BY Zenon, <1>1, <1>5, <1>6, <1>7 DEF BitmapExact, BitsSound

-----------------------------------------------------------------------------
(* The steps *)

SourceNext == Source!Supply \/ Source!Allocate \/ Source!Release
Step == IInv' /\ (SourceNext \/ UNCHANGED <<FreeFrames, held>>)

LEMMA InitInv == Parameters /\ Init => IInv /\ Source!SourceInit
<1> SUFFICES ASSUME Parameters, Init PROVE IInv /\ Source!SourceInit
    OBVIOUS
<1>1. IInv
    BY Zenon DEF Init, IInv
<1>2. FreeFrames = {} /\ held = {}
    BY Zenon, <1>1, FreeIs DEF Init
<1> QED
    BY Zenon, <1>1, <1>2 DEF Source!SourceInit

FreeKnown == FreeFrames = IF g_initialized THEN Given \ held ELSE {}

LEMMA FreeAre == IInv => FreeKnown
BY Zenon, FreeIs DEF FreeKnown

LEMMA FreeAfter == IInv' => FreeKnown'
BY FreeAre, PTL

(* What the bitmap looks like when it has been placed in the ranges rs. *)
LEMMA Placed ==
    ASSUME Parameters, NEW map \in MemoryMaps, NEW rs, rs = CollectRanges(map), rs # <<>>,
           NEW home, NEW pages \in Nat,
           \E i \in DOMAIN rs : home = rs[i].first /\ rs[i].end - rs[i].first >= pages
    PROVE  LET lowest == Min({rs[i].first : i \in DOMAIN rs})
               bits == Max({rs[i].end : i \in DOMAIN rs}) - lowest
               G == FramesOf(rs) \ (home .. home + pages - 1)
           IN  /\ lowest \in Nat /\ bits \in Nat \ {0}
               /\ G \subseteq 0 .. Top /\ G \subseteq lowest .. lowest + bits - 1
               /\ \A f \in G : f * FrameSize >= MinUsableAddress
               /\ IsFiniteSet(G) /\ Cardinality(G) = PagesOf(rs) - pages
<1> DEFINE firsts == {rs[i].first : i \in DOMAIN rs}
           ends == {rs[i].end : i \in DOMAIN rs}
           lowest == Min(firsts)
           highest == Max(ends)
           M == FramesOf(rs)
           H == home .. home + pages - 1
           G == M \ H
<1>1. RangesSound(rs, map, Len(map))
    BY Zenon, CollectedSound
<1>2. rs \in Seq(RangeRecord) /\ \A i \in 1 .. Len(rs) : RangeSound(rs[i])
    BY Zenon, <1>1 DEF RangesSound
<1>3. DOMAIN rs = 1 .. Len(rs) /\ 1 \in DOMAIN rs
    BY <1>2
<1>4. \A i \in DOMAIN rs : /\ rs[i].first \in Nat /\ rs[i].end \in Nat /\ rs[i].first < rs[i].end
                           /\ rs[i].end <= Top /\ MinUsableAddress <= rs[i].first * FrameSize
    BY Zenon, <1>2, <1>3 DEF RangeSound, RangeRecord
<1>5. Top \in Nat
    BY Zenon, Dividing DEF Parameters, Top
<1>6. lowest \in Nat /\ \A i \in DOMAIN rs : lowest <= rs[i].first
  <2>1. firsts \subseteq Nat /\ firsts # {}
      BY Zenon, <1>3, <1>4
  <2> QED
      BY Zenon, <2>1, MinIs
<1>7. highest \in Nat /\ \A i \in DOMAIN rs : highest >= rs[i].end
  <2>1. \A i \in DOMAIN rs : rs[i].end \in 0 .. Top
      BY <1>4, <1>5
  <2>2. ends \subseteq 0 .. Top /\ ends # {}
      BY Zenon, <1>3, <2>1
  <2>3. highest \in 0 .. Top /\ \A i \in DOMAIN rs : highest >= rs[i].end
      BY Zenon, <1>5, <2>2, MaxIs
  <2> QED
      BY <2>3
<1> HIDE DEF lowest, highest
<1>8. highest - lowest \in Nat \ {0} /\ lowest + (highest - lowest) - 1 = highest - 1
    BY SMTT(20), <1>3, <1>4, <1>6, <1>7
<1>9. ASSUME NEW f \in M
      PROVE  /\ f \in 0 .. Top /\ f \in lowest .. highest - 1
             /\ f * FrameSize >= MinUsableAddress
  <2>1. PICK i \in DOMAIN rs : f \in rs[i].first .. rs[i].end - 1
      BY Zenon, <1>9 DEF FramesOf
  <2>2. f \in Nat /\ rs[i].first <= f
      BY <1>4, <2>1
  <2>3. FrameSize \in Nat \ {0} /\ MinUsableAddress \in Nat
      BY Zenon DEF Parameters
  <2>4. rs[i].first * FrameSize <= f * FrameSize /\ f * FrameSize \in Nat /\ rs[i].first * FrameSize \in Nat
      BY Zenon, <1>4, <2>2, <2>3, Multiples
  <2>5. MinUsableAddress <= rs[i].first * FrameSize
      BY Zenon, <1>4
  <2>6. f * FrameSize >= MinUsableAddress
      BY SMTT(20), <2>3, <2>4, <2>5
  <2>7. f \in 0 .. Top /\ f \in lowest .. highest - 1
      BY SMTT(20), <1>4, <1>5, <1>6, <1>7, <2>1
  <2> QED
      BY Zenon, <2>6, <2>7
<1>10. /\ IsFiniteSet(M) /\ PagesOf(rs) = Cardinality(M)
    BY Zenon, <1>1, PagesCounted
<1>11. H \subseteq M /\ IsFiniteSet(H) /\ Cardinality(H) = pages
  <2>1. PICK i \in DOMAIN rs : home = rs[i].first /\ rs[i].end - rs[i].first >= pages
      BY Zenon
  <2>2. home \in Nat /\ H \subseteq rs[i].first .. rs[i].end - 1
      BY <1>4, <2>1
  <2>3. H \subseteq M
      BY Zenon, <2>2 DEF FramesOf
  <2>4. IsFiniteSet(H) /\ Cardinality(H) = pages
    <3> DEFINE last == home + pages - 1
    <3>1. home \in Int /\ last \in Int
        BY <2>2
    <3>2. (IF home > last THEN 0 ELSE last - home + 1) = pages
        BY <2>2
    <3> HIDE DEF last
    <3>3. /\ IsFiniteSet(home .. last)
          /\ Cardinality(home .. last) = IF home > last THEN 0 ELSE last - home + 1
        BY Zenon, <3>1, FS_Interval
    <3>4. Cardinality(home .. last) = pages
        BY <3>2, <3>3
    <3> QED
        BY Zenon, <3>3, <3>4 DEF last
  <2> QED
      BY Zenon, <2>3, <2>4
<1>12. IsFiniteSet(G) /\ Cardinality(G) = PagesOf(rs) - pages
  <2>1. IsFiniteSet(G) /\ G \cup H = M /\ G \cap H = {}
      BY Zenon, <1>10, <1>11, FS_Subset
  <2>2. Cardinality(M) = Cardinality(G) + Cardinality(H) - Cardinality(G \cap H)
      BY Zenon, <1>11, <2>1, FS_Union
  <2>3. Cardinality(G \cap H) = 0 /\ Cardinality(G) \in Nat
      BY Zenon, <2>1, FS_EmptySet, FS_CardinalityType
  <2> HIDE DEF G, H, M
  <2>4. Cardinality(G) = PagesOf(rs) - pages
      BY SMTT(20), <1>10, <1>11, <2>2, <2>3
  <2> QED
      BY Zenon, <2>1, <2>4
<1>13. G \subseteq 0 .. Top /\ G \subseteq lowest .. lowest + (highest - lowest) - 1
    BY Zenon, <1>8, <1>9
<1>14. \A f \in G : f * FrameSize >= MinUsableAddress
    BY Zenon, <1>9
<1> QED
    BY Zenon, <1>6, <1>8, <1>12, <1>13, <1>14 DEF lowest, highest


LEMMA InitStep ==
    ASSUME IInv, NEW map \in MemoryMaps, pmm_init(map)
    PROVE  Step
<1> DEFINE rs == CollectRanges(map)
           lowest == Min({rs[i].first : i \in DOMAIN rs})
           bits == Max({rs[i].end : i \in DOMAIN rs}) - lowest
           pages == (bits + BitsPerPage - 1) \div BitsPerPage
           fitting == {i \in DOMAIN rs : rs[i].end - rs[i].first >= pages}
           home == rs[Min(fitting)].first
           G == FramesOf(rs) \ (home .. home + pages - 1)
           index == {f - lowest : f \in G}
<1>1. /\ Parameters /\ ~g_initialized /\ rs # <<>> /\ fitting # {}
      /\ held = {} /\ held' = {} /\ g_initialized' = TRUE
    BY Zenon DEF IInv, pmm_init
<1>2. /\ g_ranges' = rs /\ g_base_frame' = lowest /\ g_bitmap_bits' = bits
      /\ g_bitmap_first_frame' = home /\ g_bitmap_page_count' = pages
      /\ free_pages' = PagesOf(rs) - pages /\ g_bitmap' = (0 .. bits - 1) \ index /\ g_next_hint' = 0
    BY Zenon DEF pmm_init
<1>3. rs \in Seq(RangeRecord) /\ \A i \in 1 .. Len(rs) : RangeSound(rs[i])
    BY Zenon, <1>1, CollectedSound DEF RangesSound
<1>4. DOMAIN rs = 1 .. Len(rs) /\ Len(rs) \in Nat
    BY <1>3
<1>5. bits \in Nat
  <2>1. 1 \in DOMAIN rs
      BY <1>1, <1>3
  <2>2. \E i \in DOMAIN rs : rs[1].first = rs[i].first /\ rs[i].end - rs[i].first >= 0
    <3>1. RangeSound(rs[1])
        BY Zenon, <1>3, <1>4, <2>1
    <3>2. rs[1].end - rs[1].first >= 0
        BY <3>1 DEF RangeSound, RangeRecord
    <3> QED
        BY Zenon, <2>1, <3>2
  <2> QED
      BY ZenonT(30), <1>1, <2>2, Placed
<1>6. pages \in Nat
  <2>1. BitsPerPage \in Nat \ {0}
      BY Zenon, <1>1 DEF Parameters
  <2> HIDE DEF bits
  <2>2. bits + BitsPerPage - 1 \in Nat
      BY <1>5, <2>1
  <2> QED
      BY Zenon, <2>1, <2>2, Dividing
<1>7. \E i \in DOMAIN rs : home = rs[i].first /\ rs[i].end - rs[i].first >= pages
  <2> HIDE DEF pages
  <2>1. fitting \subseteq Nat
      BY <1>4
  <2>2. Min(fitting) \in fitting
      BY Zenon, <1>1, <2>1, MinIs
  <2> QED
      BY Zenon, <2>2
<1>8. /\ lowest \in Nat /\ bits \in Nat \ {0}
      /\ G \subseteq 0 .. Top /\ G \subseteq lowest .. lowest + bits - 1
      /\ \A f \in G : f * FrameSize >= MinUsableAddress
      /\ IsFiniteSet(G) /\ Cardinality(G) = PagesOf(rs) - pages
  <2> HIDE DEF pages, home
  <2> QED
      BY Zenon, <1>1, <1>6, <1>7, Placed
<1> HIDE DEF rs, lowest, bits, pages, home
<1>9. Given' = G
    BY Zenon, <1>2 DEF Given, frame_is_bitmap
<1>10. LayoutSound'
    BY Zenon, <1>2, <1>8, <1>9 DEF LayoutSound, Top
<1>11. index \subseteq 0 .. bits - 1 /\ \A i \in 0 .. bits - 1 : i \in index <=> i + lowest \in G
  <2> HIDE DEF G
  <2> QED
      BY <1>8
<1>12. IsFiniteSet(index) /\ Cardinality(index) = Cardinality(G)
  <2>1. 0 .. Top \subseteq Nat
      OBVIOUS
  <2>2. G \subseteq Nat
      BY Zenon, <1>8, <2>1
  <2> QED
      BY Zenon, <1>8, <2>2, Moved
<1> HIDE DEF G, index
<1>13. ClearBits' = index
    BY Zenon, <1>2, <1>11 DEF ClearBits
<1>14. 0 \in 0 .. bits - 1
    BY <1>8
<1>15. BitsSound'
  <2>1. g_bitmap' \subseteq 0 .. g_bitmap_bits' - 1 /\ held' \subseteq Given'
      BY Zenon, <1>1, <1>2
  <2>2. \A i \in 0 .. g_bitmap_bits' - 1 : i \notin g_bitmap' <=> i + g_base_frame' \in Given' \ held'
      BY Zenon, <1>1, <1>2, <1>9, <1>11
  <2>3. free_pages' = Cardinality(ClearBits') /\ g_next_hint' \in 0 .. g_bitmap_bits' - 1
      BY Zenon, <1>2, <1>8, <1>12, <1>13, <1>14
  <2> QED
      BY Zenon, <2>1, <2>2, <2>3 DEF BitsSound
<1>16. IInv'
    BY Zenon, <1>1, <1>10, <1>15 DEF IInv, Parameters
<1>17. FreeFrames = {}
    BY Zenon, <1>1, FreeIs
<1>18. FreeFrames' = G
  <2>1. FreeFrames' = IF g_initialized' THEN Given' \ held' ELSE {}
      BY Zenon, <1>16, FreeAfter DEF FreeKnown
  <2> QED
      BY Zenon, <1>1, <1>9, <2>1
<1>19. Source!Supply
    BY Zenon, <1>1, <1>8, <1>17, <1>18 DEF Source!Supply, Top
<1> QED
    BY Zenon, <1>16, <1>19 DEF Step, SourceNext


-----------------------------------------------------------------------------
(* A step that changes neither the layout nor who holds what *)

LEMMA SameLayout ==
    ASSUME IInv, g_initialized, UNCHANGED layout
    PROVE  /\ LayoutSound /\ LayoutSound' /\ BitsSound /\ Given' = Given /\ Parameters
           /\ g_initialized' /\ g_bitmap_bits' = g_bitmap_bits /\ g_base_frame' = g_base_frame
<1>1. /\ g_initialized' = g_initialized /\ g_ranges' = g_ranges /\ g_base_frame' = g_base_frame
      /\ g_bitmap_bits' = g_bitmap_bits /\ g_bitmap_first_frame' = g_bitmap_first_frame
      /\ g_bitmap_page_count' = g_bitmap_page_count
    BY Zenon DEF layout
<1>2. Given' = Given
    BY Zenon, <1>1 DEF Given, frame_is_bitmap
<1>3. LayoutSound /\ BitsSound /\ Parameters
    BY Zenon DEF IInv
<1> QED
    BY Zenon, <1>1, <1>2, <1>3 DEF LayoutSound, Top

LEMMA Idle ==
    ASSUME IInv, UNCHANGED <<layout, g_bitmap, g_next_hint, free_pages, held>>
    PROVE  Step
<1>1. /\ UNCHANGED layout /\ g_initialized' = g_initialized /\ g_base_frame' = g_base_frame
      /\ g_bitmap_bits' = g_bitmap_bits
      /\ g_bitmap' = g_bitmap /\ g_next_hint' = g_next_hint /\ free_pages' = free_pages /\ held' = held
    BY Zenon DEF layout
<1>2. ClearBits' = ClearBits
    BY Zenon, <1>1 DEF ClearBits
<1>3. FreeFrames' = FreeFrames
    BY Zenon, <1>1, <1>2 DEF FreeFrames
<1>4. CASE ~g_initialized
    BY Zenon, <1>1, <1>3, <1>4 DEF IInv, Step, Parameters
<1>5. CASE g_initialized
  <2>1. LayoutSound' /\ Given' = Given /\ BitsSound
      BY Zenon, <1>1, <1>5, SameLayout
  <2>2. BitsSound'
      BY Zenon, <1>1, <1>2, <2>1 DEF BitsSound
  <2> QED
      BY Zenon, <1>1, <1>3, <1>5, <2>1, <2>2 DEF IInv, Step, Parameters
<1>6. g_initialized \in BOOLEAN
    BY Zenon DEF IInv
<1> QED
    BY Zenon, <1>4, <1>5, <1>6

-----------------------------------------------------------------------------
(* Allocation *)

LEMMA GiveStep ==
    ASSUME IInv, g_initialized, NEW indices, NEW hint, Give(indices, hint),
           indices \subseteq ClearBits, indices # {}, hint \in 0 .. g_bitmap_bits - 1
    PROVE  Step
<1> DEFINE S == {g_base_frame + i : i \in indices}
<1>1. /\ LayoutSound /\ LayoutSound' /\ BitsSound /\ Given' = Given /\ Parameters
      /\ g_initialized' /\ g_bitmap_bits' = g_bitmap_bits /\ g_base_frame' = g_base_frame
    BY Zenon, SameLayout DEF Give
<1>2. /\ g_bitmap' = g_bitmap \cup indices /\ free_pages' = free_pages - Cardinality(indices)
      /\ g_next_hint' = hint /\ held' = held \cup S
    BY Zenon DEF Give
<1>3. g_base_frame \in Nat /\ g_bitmap_bits \in Nat
    BY Zenon, <1>1 DEF LayoutSound
<1>4. indices \subseteq 0 .. g_bitmap_bits - 1 /\ indices \cap g_bitmap = {}
    BY Zenon DEF ClearBits
<1>5. /\ \A i \in 0 .. g_bitmap_bits - 1 : g_base_frame + i = i + g_base_frame
      /\ \A i, j \in 0 .. g_bitmap_bits - 1 : i + g_base_frame = j + g_base_frame => i = j
    BY <1>3
<1>6. S \subseteq Given \ held
  <2>1. ASSUME NEW i \in indices PROVE g_base_frame + i \in Given \ held
    <3>1. i \in 0 .. g_bitmap_bits - 1 /\ i \notin g_bitmap
        BY Zenon, <1>4
    <3>2. i + g_base_frame \in Given \ held
        BY Zenon, <1>1, <3>1 DEF BitsSound
    <3>3. g_base_frame + i = i + g_base_frame
        BY Zenon, <1>5, <3>1
    <3> QED
        BY Zenon, <3>2, <3>3
  <2> QED
      BY Zenon, <2>1
<1>7. \A i \in 0 .. g_bitmap_bits - 1 : i + g_base_frame \in S <=> i \in indices
    BY <1>3, <1>4
<1>8. ClearBits' = ClearBits \ indices
    BY Zenon, <1>1, <1>2 DEF ClearBits
<1>9. free_pages' = Cardinality(ClearBits')
  <2> DEFINE C == ClearBits
             D == C \ indices
  <2>1. IsFiniteSet(C) /\ IsFiniteSet(D) /\ IsFiniteSet(indices)
    <3>1. C \subseteq 0 .. g_bitmap_bits - 1 /\ D \subseteq 0 .. g_bitmap_bits - 1
        BY Zenon DEF ClearBits
    <3> QED
        BY Zenon, <1>3, <1>4, <3>1, ClearBitsFinite
  <2>2. D \cup indices = C /\ D \cap indices = {}
      BY Zenon
  <2>3. Cardinality(C) = Cardinality(D) + Cardinality(indices) - Cardinality(D \cap indices)
      BY Zenon, <2>1, <2>2, FS_Union
  <2>4. Cardinality(D \cap indices) = 0 /\ Cardinality(D) \in Nat /\ Cardinality(indices) \in Nat
      BY Zenon, <2>1, <2>2, FS_EmptySet, FS_CardinalityType
  <2>5. free_pages = Cardinality(C)
      BY Zenon, <1>1 DEF BitsSound
  <2> HIDE DEF C, D
  <2>6. free_pages' = Cardinality(D)
      BY SMTT(20), <1>2, <2>3, <2>4, <2>5
  <2> QED
      BY Zenon, <1>8, <2>6 DEF D, C
<1> HIDE DEF S
<1>10. BitsSound'
  <2>1. g_bitmap' \subseteq 0 .. g_bitmap_bits' - 1 /\ held' \subseteq Given'
      BY Zenon, <1>1, <1>2, <1>4, <1>6 DEF BitsSound
  <2>2. \A i \in 0 .. g_bitmap_bits' - 1 : i \notin g_bitmap' <=> i + g_base_frame' \in Given' \ held'
      BY Zenon, <1>1, <1>2, <1>7 DEF BitsSound
  <2> QED
      BY Zenon, <1>1, <1>2, <1>9, <2>1, <2>2 DEF BitsSound
<1>11. IInv'
    BY Zenon, <1>1, <1>10 DEF IInv, Parameters
<1>12. FreeFrames = Given \ held /\ FreeFrames' = Given \ held'
    BY Zenon, <1>1, <1>11, FreeAre, FreeAfter DEF FreeKnown
<1>13. S # {}
    BY Zenon DEF S
<1>14. FreeFrames' = FreeFrames \ S /\ S \in SUBSET FreeFrames
    BY Zenon, <1>2, <1>6, <1>12
<1>15. Source!Allocate
    BY Zenon, <1>2, <1>13, <1>14 DEF Source!Allocate
<1> QED
    BY Zenon, <1>11, <1>15 DEF Step, SourceNext

LEMMA WrappedIn ==
    ASSUME IInv, g_initialized, NEW i \in Nat
    PROVE  Wrapped(i) \in 0 .. g_bitmap_bits - 1
<1>1. g_bitmap_bits \in Nat \ {0}
    BY Zenon DEF IInv, LayoutSound
<1> QED
    BY <1>1 DEF Wrapped

LEMMA AllocStep == ASSUME IInv, frame_alloc PROVE Step
<1>1. g_initialized
    BY Zenon DEF frame_alloc
<1>2. PICK i \in ClearBits : Give({i}, Wrapped(i + 1))
    BY Zenon DEF frame_alloc
<1>3. i + 1 \in Nat
    BY DEF ClearBits
<1>4. {i} \subseteq ClearBits /\ {i} # {}
    BY Zenon
<1> QED
    BY Zenon, <1>1, <1>2, <1>3, <1>4, WrappedIn, GiveStep

LEMMA AllocPagesStep ==
    ASSUME IInv, NEW count \in 1 .. MaxU64 \div FrameSize, pmm_alloc_pages(count)
    PROVE  Step
<1>1. g_initialized
    BY Zenon DEF pmm_alloc_pages
<1>2. PICK i \in ClearBits : RunAt(i, count) /\ Give(i .. i + count - 1, Wrapped(i + count))
    BY Zenon DEF pmm_alloc_pages
<1>3. MaxU64 \div FrameSize \in Nat
    BY Zenon, Dividing DEF IInv, Parameters
<1>4. count \in Nat \ {0}
    BY <1>3
<1>5. i \in Nat
    BY DEF ClearBits
<1>6. i + count \in Nat /\ i \in i .. i + count - 1
    BY <1>4, <1>5
<1>7. i .. i + count - 1 \subseteq ClearBits
    BY Zenon, <1>2 DEF RunAt
<1> QED
    BY Zenon, <1>1, <1>2, <1>6, <1>7, WrappedIn, GiveStep


-----------------------------------------------------------------------------
(* Release *)

LEMMA FreeRangeStep ==
    ASSUME IInv, NEW first \in 0 .. MaxU64 \div FrameSize, NEW count \in 1 .. MaxU64 \div FrameSize,
           frame_free_range(first, count)
    PROVE  Step
<1> DEFINE S == first .. first + count - 1
           indices == {f - g_base_frame : f \in S}
<1>1. free_range_valid(first, count)
    BY Zenon DEF frame_free_range
<1>2. CASE UNCHANGED <<layout, g_use_phys_map, g_bitmap, g_next_hint, free_pages, held>>
    BY Zenon, <1>2, Idle
<1>3. CASE /\ g_bitmap' = g_bitmap \ indices /\ free_pages' = free_pages + count
           /\ g_next_hint' = first - g_base_frame /\ held' = held \ S
           /\ UNCHANGED <<layout, g_use_phys_map, fault>>
  <2>1. /\ LayoutSound /\ LayoutSound' /\ BitsSound /\ Given' = Given /\ Parameters /\ g_initialized
        /\ g_initialized' /\ g_bitmap_bits' = g_bitmap_bits /\ g_base_frame' = g_base_frame
      BY Zenon, <1>1, <1>3, SameLayout DEF free_range_valid
  <2>2. g_base_frame \in Nat /\ g_bitmap_bits \in Nat
      BY Zenon, <2>1 DEF LayoutSound
  <2>3. MaxU64 \div FrameSize \in Nat
      BY Zenon, <2>1, Dividing DEF Parameters
  <2>4. first \in Nat /\ count \in Nat \ {0} /\ first >= g_base_frame /\ first - g_base_frame + count <= g_bitmap_bits
      BY <1>1, <2>3 DEF free_range_valid
  <2>5. /\ indices \subseteq 0 .. g_bitmap_bits - 1 /\ first - g_base_frame \in 0 .. g_bitmap_bits - 1
        /\ first \in S
        /\ \A i \in 0 .. g_bitmap_bits - 1 : i + g_base_frame \in S <=> i \in indices
        /\ \A f \in S : f - g_base_frame \in 0 .. g_bitmap_bits - 1 /\ (f - g_base_frame) + g_base_frame = f
      BY <2>2, <2>4
  <2>6. S \subseteq Given /\ indices \subseteq g_bitmap
      BY Zenon, <1>1 DEF free_range_valid, Given, frame_managed
  <2>7. S \subseteq held
    <3>1. ASSUME NEW f \in S PROVE f \in held
      <4> DEFINE i == f - g_base_frame
      <4>1. i \in 0 .. g_bitmap_bits - 1 /\ i + g_base_frame = f
          BY Zenon, <2>5
      <4>2. i \in g_bitmap /\ f \in Given
          BY Zenon, <2>6
      <4> HIDE DEF i
      <4> QED
          BY Zenon, <2>1, <4>1, <4>2 DEF BitsSound
    <3> QED
        BY Zenon, <3>1
  <2>8. IsFiniteSet(indices) /\ Cardinality(indices) = count
    <3>1. S \subseteq Nat
        BY <2>4
    <3>2. IsFiniteSet(S) /\ Cardinality(S) = count
      <4> DEFINE last == first + count - 1
      <4>1. first \in Int /\ last \in Int /\ ~(first > last) /\ last - first + 1 = count
          BY <2>4
      <4> HIDE DEF last
      <4>2. IsFiniteSet(first .. last) /\ Cardinality(first .. last) = count
          BY Zenon, <4>1, FS_Interval
      <4> QED
          BY Zenon, <4>2 DEF last
    <3> QED
        BY Zenon, <2>2, <3>1, <3>2, Moved
  <2> HIDE DEF indices, S
  <2>9. ClearBits' = ClearBits \cup indices /\ ClearBits \cap indices = {}
      BY Zenon, <1>3, <2>1, <2>5, <2>6 DEF ClearBits
  <2>10. free_pages' = Cardinality(ClearBits')
    <3> DEFINE C == ClearBits
    <3>1. C \subseteq 0 .. g_bitmap_bits - 1
        BY Zenon DEF ClearBits
    <3>2. IsFiniteSet(C) /\ Cardinality(C) \in Nat
        BY Zenon, <2>2, <3>1, ClearBitsFinite
    <3>3. Cardinality(C \cup indices) = Cardinality(C) + Cardinality(indices) - Cardinality(C \cap indices)
        BY Zenon, <2>8, <3>2, FS_Union
    <3>4. Cardinality(C \cap indices) = 0
        BY Zenon, <2>9, FS_EmptySet
    <3>5. free_pages = Cardinality(C)
        BY Zenon, <2>1 DEF BitsSound
    <3> HIDE DEF C
    <3>6. free_pages' = Cardinality(C \cup indices)
        BY SMTT(20), <1>3, <2>4, <2>8, <3>2, <3>3, <3>4, <3>5
    <3> QED
        BY Zenon, <2>9, <3>6 DEF C
  <2>11. BitsSound'
    <3>1. g_bitmap' \subseteq 0 .. g_bitmap_bits' - 1 /\ held' \subseteq Given'
        BY Zenon, <1>3, <2>1 DEF BitsSound
    <3>2. \A i \in 0 .. g_bitmap_bits' - 1 : i \notin g_bitmap' <=> i + g_base_frame' \in Given' \ held'
        BY Zenon, <1>3, <2>1, <2>5, <2>6 DEF BitsSound
    <3> QED
        BY Zenon, <1>3, <2>1, <2>5, <2>10, <3>1, <3>2 DEF BitsSound
  <2>12. IInv'
      BY Zenon, <2>1, <2>11 DEF IInv, Parameters
  <2>13. FreeFrames = Given \ held /\ FreeFrames' = Given \ held'
      BY Zenon, <2>1, <2>12, FreeAre, FreeAfter DEF FreeKnown
  <2>14. S # {} /\ S \in SUBSET held /\ FreeFrames' = FreeFrames \cup S
      BY Zenon, <1>3, <2>5, <2>6, <2>7, <2>13
  <2>15. Source!Release
      BY Zenon, <1>3, <2>14 DEF Source!Release
  <2> QED
      BY Zenon, <2>12, <2>15 DEF Step, SourceNext
<1> QED
    BY Zenon, <1>2, <1>3 DEF frame_free_range

LEMMA NextStep == IInv /\ [Next]_vars => Step
<1> SUFFICES ASSUME IInv, [Next]_vars PROVE Step
    OBVIOUS
<1>1. CASE \E map \in MemoryMaps : pmm_init(map)
    BY Zenon, <1>1, InitStep
<1>2. CASE pmm_enable_phys_map_access
    BY Zenon, <1>2, Idle DEF pmm_enable_phys_map_access
<1>3. CASE frame_alloc
    BY Zenon, <1>3, AllocStep
<1>4. CASE \E count \in 1 .. MaxU64 \div FrameSize : pmm_alloc_pages(count)
    BY Zenon, <1>4, AllocPagesStep
<1>5. CASE \E s \in Spans : frame_free_range(s[1], s[2]) \/ ArmFault(s[1], s[2])
  <2>1. PICK s \in Spans : frame_free_range(s[1], s[2]) \/ ArmFault(s[1], s[2])
      BY Zenon, <1>5
  <2>2. s[1] \in 0 .. MaxU64 \div FrameSize /\ s[2] \in 1 .. MaxU64 \div FrameSize
      BY <2>1 DEF Spans
  <2>3. CASE frame_free_range(s[1], s[2])
      BY Zenon, <2>2, <2>3, FreeRangeStep
  <2>4. CASE ArmFault(s[1], s[2])
      BY Zenon, <2>4, Idle DEF ArmFault
  <2> QED
      BY Zenon, <2>1, <2>3, <2>4
<1>6. CASE ClearFault
    BY Zenon, <1>6, Idle DEF ClearFault
<1>7. CASE UNCHANGED vars
    BY Zenon, <1>7, Idle DEF vars
<1> QED
    BY Zenon, <1>1, <1>2, <1>3, <1>4, <1>5, <1>6, <1>7 DEF Next

(* pmm.c keeps the promise of FrameSource: pmm_init() supplies frames once, frame_alloc() *)
(* and pmm_alloc_pages() hand out free frames only, frame_free_range() takes back held    *)
(* ones only; and the bitmap, the counters and the clients agree in every state.  Assumed *)
(* of the constants: a map of descriptors whose usable memory does not overlap.           *)
THEOREM FramesAreExact == Parameters => (Spec => ImplementsFrameSource /\ []BitmapExact)
<1> SUFFICES ASSUME Parameters PROVE Spec => ImplementsFrameSource /\ []BitmapExact
    BY Zenon
<1>1. Parameters /\ Init => IInv /\ Source!SourceInit
    BY Zenon, InitInv
<1>2. IInv /\ [Next]_vars => IInv'
    BY Zenon, NextStep DEF Step
<1>3. IInv /\ [Next]_vars =>
          [Source!Supply \/ Source!Allocate \/ Source!Release]_<<FreeFrames, held>>
    BY Zenon, NextStep DEF Step, SourceNext
<1>4. IInv => BitmapExact
    BY Zenon, Implied
<1> QED
    BY <1>1, <1>2, <1>3, <1>4, PTL DEF Spec, ImplementsFrameSource, Source!SourceSpec

=============================================================================
