----------------------------- MODULE MCObjects ------------------------------
(***************************************************************************)
(* The kernel's objects, one at a time: capability tables, exit queues,    *)
(* physical frames and page maps.  A behaviour is one component's; the     *)
(* others stay as they were initialised, and the page maps are absent (0). *)
(***************************************************************************)
EXTENDS Capability

CONSTANTS Parts, Frames, Kernel, Scratch

VARIABLES
    part,
    process, process_ids, id, closed, queue_slots, pending_order, pending_head, pending_tail, watch_count,
    pending_count, queue_ids, waiting_receiver, wait_result, delivered,
    g_initialized, g_use_phys_map, g_ranges, g_base_frame, g_bitmap_bits, g_bitmap_first_frame,
    g_bitmap_page_count, g_bitmap, g_next_hint, total_pages, free_pages, fault, held,
    mm, maps, cr3, spaces, data, stack, g_arena_ready, halted

tables == vars
exits == <<process, process_ids, id, closed, queue_slots, pending_order, pending_head, pending_tail, watch_count,
           pending_count, queue_ids, waiting_receiver, wait_result, delivered>>
frames == <<g_initialized, g_use_phys_map, g_ranges, g_base_frame, g_bitmap_bits, g_bitmap_first_frame,
            g_bitmap_page_count, g_bitmap, g_next_hint, total_pages, free_pages, fault, held>>
trees == <<mm, maps, cr3, spaces, data, stack, g_arena_ready, halted>>

-----------------------------------------------------------------------------
(* The components on their small instances *)

Exits == INSTANCE ExitQueue WITH
    Processes <- {"p1", "p2", "p3"}, Receivers <- {"r1", "r2"}, None <- Nothing, Capacity <- 2, ProcessIdLimit <- 3,
    QueueIdLimit <- 2, slots <- queue_slots

D(c, s, p) == [conventional |-> c, start |-> s, pages |-> p]

(* Adjacent, unordered, too many and unusable descriptors; a frame is two addresses. *)
MemoryMaps == {
    <<D(TRUE, 0, 3), D(TRUE, 6, 3), D(FALSE, 12, 1), D(TRUE, 14, 2)>>,
    <<D(TRUE, 14, 2), D(TRUE, 5, 3), D(TRUE, 12, 1)>>,
    <<D(TRUE, 4, 1), D(TRUE, 8, 2), D(TRUE, 12, 2), D(TRUE, 18, 9)>>,
    <<D(FALSE, 4, 4)>>}

Pmm == INSTANCE Pmm WITH
    MaxU64 <- 19, FrameSize <- 2, MinUsableAddress <- 4, MaxRanges <- 2, BitsPerPage <- 4

(* Entry 1 of the root is the users', entry 0 holds the boot map, entry 2 the stack arena. *)
Vmm == INSTANCE Vmm WITH
    None <- Nothing, Spaces <- {"s1"}, Depth <- 3, TopEntries <- 3, UserFirst <- 1, UserEnd <- 2,
    UserAddresses <- {<<1, 0, 0>>, <<1, 0, 1>>}, BootAddresses <- {<<0, 0, 0>>},
    Stacks <- {"k1"}, StackAddress <- [s \in {"k1"} |-> <<<<2, 0, 0>>>>], DataLimit <- 1, FaultLimit <- 2,
    live <- spaces

-----------------------------------------------------------------------------
ObjectsInit ==
    /\ part \in Parts
    /\ Init /\ Exits!Init /\ Pmm!Init
    /\ IF part = "trees" THEN Vmm!Init
       ELSE mm = 0 /\ maps = 0 /\ cr3 = 0 /\ spaces = 0 /\ data = 0 /\ stack = 0 /\ g_arena_ready = 0 /\ halted = 0

ObjectsNext ==
    /\ UNCHANGED part
    /\ \/ part = "tables" /\ Next /\ UNCHANGED <<exits, frames, trees>>
       \/ part = "exits" /\ Exits!Next /\ UNCHANGED <<tables, frames, trees>>
       \/ part = "frames" /\ Pmm!Next /\ UNCHANGED <<tables, exits, trees>>
       \/ part = "trees" /\ Vmm!Next /\ UNCHANGED <<tables, exits, frames>>

ObjectsSpec == ObjectsInit /\ [][ObjectsNext]_<<part, tables, exits, frames, trees>>

-----------------------------------------------------------------------------
\* Exit events are reserved, delivered once and in order; a watched process can
\* always publish and no receiver sleeps on an event (kernel/process_exit_queue.c).
ImplementsExitEvents ==
    Exits!ImplementsExitEvents /\ [](part = "exits" => Exits!WatchersCanPublish /\ Exits!NoSleepingReceiver)

\* Frames are handed out once and released as whole spans, as FrameSource promises,
\* and the bitmap, the counters and the holders agree (kernel/pmm.c).
ImplementsFrameSource == Pmm!ImplementsFrameSource /\ [](part = "frames" => Pmm!BitmapExact)

\* No path through mapping, pruning, roll-back and failed release loses or
\* duplicates a frame; a leaf grants exactly its own permissions; every space
\* resolves the kernel's addresses as the kernel does (kernel/vmm.c, kernel_stack.c).
LedgerBalances ==
    part = "trees" => Vmm!LedgerBalances /\ Vmm!MappingsGrantTheirFlags /\ Vmm!KernelIsShared
=============================================================================
