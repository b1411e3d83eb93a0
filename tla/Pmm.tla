-------------------------------- MODULE Pmm ---------------------------------
(***************************************************************************)
(* The physical memory manager (src/kernel/pmm.c): the ranges it takes from*)
(* the firmware's memory map, the bitmap it places inside one of them, and *)
(* the allocation and release of frames.  Every operation runs with the    *)
(* interrupts disabled and is one step.                                    *)
(*                                                                         *)
(* A frame is its number.  g_bitmap is the set of the indices whose bit is *)
(* set, held the frames that clients have been given (a history variable). *)
(***************************************************************************)
EXTENDS Integers, FiniteSets, FiniteSetsExt, SequencesExt

CONSTANTS
    MemoryMaps,       \* firmware maps: sequences of [conventional, start, pages], addresses in bytes
    MaxU64,           \* the largest address
    FrameSize,        \* bytes of a frame
    MinUsableAddress, \* the first MiB stays out of the allocator
    MaxRanges,        \* PMM_MAX_RANGES
    BitsPerPage       \* bits of the bitmap that one frame stores

None == -1
NoFault == [first |-> None, count |-> 0]

VARIABLES
    g_initialized, g_use_phys_map,
    g_ranges,         \* sequence of [first, end], end exclusive
    g_base_frame, g_bitmap_bits, g_bitmap_first_frame, g_bitmap_page_count,
    g_bitmap, g_next_hint,
    total_pages, free_pages,
    fault,            \* the one-shot release fault of pmm_test.h: [first, count] or NoFault
    held

layout == <<g_initialized, g_ranges, g_base_frame, g_bitmap_bits, g_bitmap_first_frame,
            g_bitmap_page_count, total_pages>>
vars == <<layout, g_use_phys_map, g_bitmap, g_next_hint, free_pages, fault, held>>

-----------------------------------------------------------------------------
(* Collecting the ranges *)

align_up_page(value) == ((value + FrameSize - 1) \div FrameSize) * FrameSize
align_down_page(value) == (value \div FrameSize) * FrameSize

(* The whole frames of a conventional descriptor above the first MiB; none of a descriptor *)
(* that is of another type, is empty or runs past the last address.                        *)
RangeOf(d) ==
    LET bytes == d.pages * FrameSize
        start == Max({align_up_page(d.start), MinUsableAddress})
        end   == align_down_page(d.start + bytes)
    IN  IF /\ d.conventional /\ d.pages # 0 /\ d.pages <= MaxU64 \div FrameSize
           /\ d.start <= MaxU64 - bytes /\ d.start <= MaxU64 - (FrameSize - 1)
           /\ end > start
        THEN [first |-> start \div FrameSize, end |-> end \div FrameSize]
        ELSE [first |-> 0, end |-> 0]

(* A range that starts where the previous one ends extends it; others need an entry. *)
AddRange(ranges, d) ==
    LET r == RangeOf(d)
    IN  CASE r.end = 0 -> ranges
          [] r.end # 0 /\ ranges # <<>> /\ Last(ranges).end = r.first ->
                 [ranges EXCEPT ![Len(ranges)].end = r.end]
          [] OTHER -> IF Len(ranges) >= MaxRanges THEN ranges ELSE Append(ranges, r)

Collected(map) ==
    LET after[k \in 0 .. Len(map)] == IF k = 0 THEN <<>> ELSE AddRange(after[k - 1], map[k])
    IN  after
CollectRanges(map) == Collected(map)[Len(map)]

(* total_pages: the lengths of the ranges, added up. *)
Added(ranges) ==
    LET sum[k \in 0 .. Len(ranges)] ==
            IF k = 0 THEN 0 ELSE sum[k - 1] + (ranges[k].end - ranges[k].first)
    IN  sum
PagesOf(ranges) == Added(ranges)[Len(ranges)]

FramesOf(ranges) == UNION {ranges[i].first .. ranges[i].end - 1 : i \in DOMAIN ranges}
frame_managed(f) == f \in FramesOf(g_ranges)
frame_is_bitmap(f) ==
    f \in g_bitmap_first_frame .. g_bitmap_first_frame + g_bitmap_page_count - 1

Init ==
    /\ g_initialized = FALSE /\ g_use_phys_map = FALSE
    /\ g_ranges = <<>> /\ g_base_frame = None /\ g_bitmap_bits = 0
    /\ g_bitmap_first_frame = None /\ g_bitmap_page_count = 0
    /\ g_bitmap = {} /\ g_next_hint = 0 /\ total_pages = 0 /\ free_pages = 0
    /\ fault = NoFault /\ held = {}

(* pmm_init(): the bitmap spans the lowest to the highest frame and lives at the start of  *)
(* the first range that holds it; every bit starts set, and the bits of managed frames that*)
(* do not store the bitmap are cleared.                                                    *)
pmm_init(map) ==
    LET ranges  == CollectRanges(map)
        lowest  == Min({ranges[i].first : i \in DOMAIN ranges})
        bits    == Max({ranges[i].end : i \in DOMAIN ranges}) - lowest
        pages   == (bits + BitsPerPage - 1) \div BitsPerPage
        fitting == {i \in DOMAIN ranges : ranges[i].end - ranges[i].first >= pages}
        home    == ranges[Min(fitting)].first
        total   == PagesOf(ranges)
        index   == {f - lowest : f \in FramesOf(ranges) \ (home .. home + pages - 1)}
    IN  /\ ~g_initialized
        /\ ranges # <<>> /\ fitting # {} /\ pages <= total /\ home # 0
        /\ g_initialized' = TRUE /\ g_ranges' = ranges
        /\ g_base_frame' = lowest /\ g_bitmap_bits' = bits
        /\ g_bitmap_first_frame' = home /\ g_bitmap_page_count' = pages
        /\ total_pages' = total /\ free_pages' = total - pages
        /\ g_bitmap' = (0 .. bits - 1) \ index /\ g_next_hint' = 0
        /\ UNCHANGED <<g_use_phys_map, fault, held>>

(* pmm_enable_phys_map_access() *)
pmm_enable_phys_map_access ==
    /\ g_initialized /\ ~g_use_phys_map /\ g_use_phys_map' = TRUE
    /\ UNCHANGED <<layout, g_bitmap, g_next_hint, free_pages, fault, held>>

-----------------------------------------------------------------------------
(* Allocation *)

Wrapped(index) == IF index >= g_bitmap_bits THEN 0 ELSE index
ClearBits == (0 .. g_bitmap_bits - 1) \ g_bitmap

Give(indices, hint) ==
    /\ g_bitmap' = g_bitmap \cup indices
    /\ free_pages' = free_pages - Cardinality(indices)
    /\ g_next_hint' = hint
    /\ held' = held \cup {g_base_frame + i : i \in indices}
    /\ UNCHANGED <<layout, g_use_phys_map, fault>>

(* frame_alloc(): the first clear bit from the hint on, around the end of the bitmap. *)
frame_alloc ==
    /\ g_initialized /\ free_pages # 0
    /\ \E i \in ClearBits :
           /\ \A j \in ClearBits : (i - g_next_hint) % g_bitmap_bits <= (j - g_next_hint) % g_bitmap_bits
           /\ Give({i}, Wrapped(i + 1))

(* Defect: the last bit of the run is not looked at. *)
RunButLast(i, count) == i + count <= g_bitmap_bits /\ i .. i + count - 2 \subseteq ClearBits

(* pmm_alloc_pages(): the first run of count clear bits from the start of the bitmap. *)
RunAt(i, count) == i + count <= g_bitmap_bits /\ i .. i + count - 1 \subseteq ClearBits

pmm_alloc_pages(count) ==
    /\ g_initialized /\ count # 0 /\ count <= free_pages /\ count <= g_bitmap_bits
    /\ \E i \in ClearBits :
           /\ RunAt(i, count) /\ \A j \in ClearBits : RunAt(j, count) => i <= j
           /\ Give(i .. i + count - 1, Wrapped(i + count))

-----------------------------------------------------------------------------
(* Release *)

(* Defect: a frame that is free already can be released. *)
ReleasableTwice(first, count) ==
    /\ g_initialized /\ first >= g_base_frame
    /\ first - g_base_frame + count <= g_bitmap_bits
    /\ count <= total_pages - free_pages
    /\ \A f \in first .. first + count - 1 : frame_managed(f) /\ ~frame_is_bitmap(f)

free_range_valid(first, count) ==
    /\ g_initialized /\ count # 0 /\ first >= g_base_frame
    /\ count - 1 <= MaxU64 \div FrameSize - first
    /\ first - g_base_frame + count <= g_bitmap_bits
    /\ count <= total_pages - free_pages
    /\ \A f \in first .. first + count - 1 :
           frame_managed(f) /\ ~frame_is_bitmap(f) /\ f - g_base_frame \in g_bitmap

(* frame_free_range(): the span is released as a whole, unless it is refused or an armed  *)
(* fault for exactly this span fires.                                                      *)
frame_free_range(first, count) ==
    /\ free_range_valid(first, count)
    /\ \/ /\ fault = [first |-> first, count |-> count]
          /\ fault' = NoFault
          /\ UNCHANGED <<layout, g_use_phys_map, g_bitmap, g_next_hint, free_pages, held>>
       \/ /\ fault # [first |-> first, count |-> count]
          /\ g_bitmap' = g_bitmap \ {f - g_base_frame : f \in first .. first + count - 1}
          /\ free_pages' = free_pages + count
          /\ g_next_hint' = first - g_base_frame
          /\ held' = held \ (first .. first + count - 1)
          /\ UNCHANGED <<layout, g_use_phys_map, fault>>

(* pmm_test_fail_free_range_once(), pmm_test_clear_free_failure() *)
ArmFault(first, count) ==
    /\ fault = NoFault /\ free_range_valid(first, count)
    /\ fault' = [first |-> first, count |-> count]
    /\ UNCHANGED <<layout, g_use_phys_map, g_bitmap, g_next_hint, free_pages, held>>

ClearFault ==
    /\ fault # NoFault /\ fault' = NoFault
    /\ UNCHANGED <<layout, g_use_phys_map, g_bitmap, g_next_hint, free_pages, held>>

(* Callers name any span: what they do not hold is refused by free_range_valid. *)
Spans == (0 .. MaxU64 \div FrameSize) \X (1 .. MaxU64 \div FrameSize)

Next ==
    \/ \E map \in MemoryMaps : pmm_init(map)
    \/ pmm_enable_phys_map_access
    \/ frame_alloc
    \/ \E count \in 1 .. MaxU64 \div FrameSize : pmm_alloc_pages(count)
    \/ \E s \in Spans : frame_free_range(s[1], s[2]) \/ ArmFault(s[1], s[2])
    \/ ClearFault

Spec == Init /\ [][Next]_vars

-----------------------------------------------------------------------------
(* Properties *)

(* The counters, the bitmap and the clients agree: free_pages is the number of clear bits,  *)
(* a clear bit is a managed frame that does not store the bitmap, the set bits of such      *)
(* frames are exactly the frames clients hold, and the hint is an index of the bitmap.      *)
BitmapExact ==
    g_initialized =>
        /\ free_pages = Cardinality(ClearBits) /\ g_next_hint \in 0 .. g_bitmap_bits - 1
        /\ g_bitmap \subseteq 0 .. g_bitmap_bits - 1
        /\ \A f \in g_base_frame .. g_base_frame + g_bitmap_bits - 1 :
               (f \in held) <=> (f - g_base_frame \in g_bitmap /\ frame_managed(f) /\ ~frame_is_bitmap(f))
        /\ \A i \in ClearBits : frame_managed(i + g_base_frame) /\ ~frame_is_bitmap(i + g_base_frame)
        /\ \A f \in held : f * FrameSize >= MinUsableAddress

(* Allocation and release keep the promise of FrameSource: no frame is handed out twice,    *)
(* and a release gives back held frames only, whole spans at a time.                        *)
FreeFrames == {i + g_base_frame : i \in ClearBits}
Source == INSTANCE FrameSource WITH Frames <- 0 .. MaxU64 \div FrameSize, free <- FreeFrames
ImplementsFrameSource == Source!SourceSpec

=============================================================================
