-------------------------------- MODULE Vmm ---------------------------------
(***************************************************************************)
(* Page maps (src/kernel/vmm.c), address spaces (src/kernel/               *)
(* address_space.c) and the guarded kernel stacks (src/kernel/             *)
(* kernel_stack.c) over a source of frames that behaves as FrameSource     *)
(* says.  Every operation runs with the interrupts disabled: one step.     *)
(*                                                                         *)
(* A virtual address is the sequence of its table indices, Depth of them   *)
(* (four in the code); a table is the function of its present entries.  An *)
(* operation that allocates or frees several tables has several outcomes,  *)
(* because each allocation or release may fail: the diagnostics of         *)
(* vmm_test.h and pmm_test.h inject at most FaultLimit failures.           *)
(***************************************************************************)
EXTENDS Integers, FiniteSetsExt, Sequences

CONSTANTS
    Frames, None,
    Spaces,                  \* storage of user address spaces
    Kernel, Scratch,         \* the kernel's page map and g_unpublished_map
    Depth, TopEntries,       \* levels of a tree, entries of the root
    UserFirst, UserEnd,      \* USER_PML4_FIRST, USER_PML4_END
    UserAddresses,           \* addresses that user mappings use
    BootAddresses,           \* kernel addresses mapped before user spaces exist
    Stacks, StackAddress,    \* thread slots and the sequence of the pages of each one's stack
    DataLimit, FaultLimit    \* frames callers hold, failures of allocations and releases

Maps == Spaces \cup {Kernel, Scratch}
Empty == [i \in {} |-> None]
NoMap == [root |-> None, first |-> 0, end |-> 0, destroy_pending |-> FALSE, shared_source |-> FALSE]

VARIABLES
    mm,          \* [free, table, unlinked, faults]: frames, tables, g_unlinked_table, failures left
    maps,        \* page maps
    cr3,         \* root frame of the active page map
    live,        \* spaces in g_space_storage
    data,        \* frames that callers hold for their own contents
    stack,       \* the frames of each mapped kernel stack
    g_arena_ready, halted

vars == <<mm, maps, cr3, live, data, stack, g_arena_ready, halted>>

map_active(p) == p.root # None /\ cr3 = p.root
Owns(p, i) == i >= p.first /\ i < p.end

-----------------------------------------------------------------------------
(* Tables *)

(* Frames are interchangeable: which free one an allocation gets makes no difference. *)
AnyOf(free) == CHOOSE f \in free : TRUE

(* allocate_table(): a refused frame is given back, or remembered when that fails too. *)
allocate_table(m) ==
    LET f == AnyOf(m.free)
        failed == [ok |-> FALSE, frame |-> None, mm |-> m]
    IN  IF m.unlinked # None \/ m.free = {} THEN {failed}
        ELSE {[ok |-> TRUE, frame |-> f, mm |-> [m EXCEPT !.free = @ \ {f}, !.table[f] = Empty]]}
             \cup IF m.faults = 0 THEN {}
                  ELSE {[failed EXCEPT !.mm.faults = @ - 1],
                        [failed EXCEPT !.mm.faults = @ - 1, !.mm.free = @ \ {f}, !.mm.unlinked = f]}

free_table(m, f) ==
    {[ok |-> TRUE, mm |-> [m EXCEPT !.free = @ \cup {f}, !.table[f] = Empty]]} \cup
    IF m.faults = 0 THEN {} ELSE {[ok |-> FALSE, mm |-> [m EXCEPT !.faults = @ - 1]]}

Without(table, i) == [j \in DOMAIN table \ {i} |-> table[j]]
With(table, i, e) == [j \in DOMAIN table \cup {i} |-> IF j = i THEN e ELSE table[j]]

(* Defect: the link stays cleared when the release fails. *)
ReleasedWithoutRestore(m, t, i) ==
    LET child == m.table[t][i].frame
    IN  IF m.table[child] # Empty THEN {[ok |-> FALSE, mm |-> m]}
        ELSE {[o EXCEPT !.mm.table[t] = Without(m.table[t], i)] : o \in free_table(m, child)}

(* release_empty_child(): the parent link is the ledger; it is restored when the release fails. *)
release_empty_child(m, t, i) ==
    LET child == m.table[t][i].frame
    IN  IF m.table[child] # Empty THEN {[ok |-> FALSE, mm |-> m]}
        ELSE {IF o.ok THEN [o EXCEPT !.mm.table[t] = Without(m.table[t], i)] ELSE o : o \in free_table(m, child)}

(* Releases links from the last one back, while the tables they name are empty. *)
RECURSIVE ReleaseLinks(_, _)
ReleaseLinks(m, links) ==
    IF links = <<>> THEN {m}
    ELSE LET l == links[Len(links)]
         IN  UNION {IF o.ok THEN ReleaseLinks(o.mm, SubSeq(links, 1, Len(links) - 1)) ELSE {o.mm} :
                        o \in release_empty_child(m, l[1], l[2])}

rollback_created_tables(m, p, links) ==
    IF map_active(p) \/ p.shared_source THEN {m} ELSE ReleaseLinks(m, links)

(* create_or_get_table() down to the last table, then the leaf: existing tables gain the   *)
(* permissions the leaf needs, missing ones are made; nothing replaces a mapping.          *)
RECURSIVE Descend(_, _, _, _, _, _, _)
Descend(m, p, t, va, k, leaf, created) ==
    LET i == va[k]
        user == leaf.flags \cap {"USER"}
        fail(s) == {[ok |-> FALSE, mm |-> r] : r \in rollback_created_tables(s, p, created)}
    IN  CASE k = Depth ->
                 IF i \in DOMAIN m.table[t] THEN fail(m)
                 ELSE {[ok |-> TRUE, mm |-> [m EXCEPT !.table[t] = With(@, i, leaf)]]}
          [] k < Depth /\ i \in DOMAIN m.table[t] ->
                 Descend([m EXCEPT !.table[t][i].flags = @ \cup {"WRITE"} \cup user], p,
                         m.table[t][i].frame, va, k + 1, leaf, created)
          [] OTHER ->
                 UNION {IF ~o.ok THEN fail(o.mm)
                        ELSE Descend([o.mm EXCEPT !.table[t] =
                                          With(@, i, [frame |-> o.frame, flags |-> {"WRITE"} \cup user])],
                                     p, o.frame, va, k + 1, leaf, Append(created, <<t, i>>)) :
                        o \in allocate_table(m)}

(* vmm_map_page() *)
vmm_map_page(m, p, va, f, flags) ==
    IF \/ p.root = None \/ p.destroy_pending \/ (p.shared_source /\ ~map_active(p)) \/ ~Owns(p, va[1])
    THEN {[ok |-> FALSE, mm |-> m]}
    ELSE Descend(m, p, p.root, va, 1, [frame |-> f, flags |-> flags], <<>>)

(* The tables on the way to va, as far as they exist (existing_table). *)
Walk(m, root, va) ==
    LET T[k \in 1 .. Depth] ==
            IF k = 1 THEN root
            ELSE IF T[k - 1] = None \/ va[k - 1] \notin DOMAIN m.table[T[k - 1]] THEN None
            ELSE m.table[T[k - 1]][va[k - 1]].frame
    IN  T

(* vmm_query_page(): a permission is effective when every level grants it. *)
Present(m, root, va) ==
    root # None /\ LET t == Walk(m, root, va)[Depth] IN t # None /\ va[Depth] \in DOMAIN m.table[t]
vmm_query_page(m, root, va) ==
    LET w == Walk(m, root, va)
        leaf == m.table[w[Depth]][va[Depth]]
    IN  [frame |-> leaf.frame,
         flags |-> {x \in leaf.flags : x # "EXEC" => \A k \in 1 .. Depth : x \in m.table[w[k]][va[k]].flags}]

(* vmm_unmap_page(): once the leaf is gone the call succeeds; empty tables of an inactive,  *)
(* unshared tree are released on the way up as far as that works.                           *)
vmm_unmap_page(m, p, va) ==
    LET w == Walk(m, p.root, va)
        gone == [m EXCEPT !.table[w[Depth]] = Without(@, va[Depth])]
    IN  IF map_active(p) \/ p.shared_source THEN {gone}
        ELSE ReleaseLinks(gone, [k \in 1 .. Depth - 1 |-> <<w[k], va[k]>>])

MayUnmap(m, p, va) ==
    /\ p.root # None /\ ~p.destroy_pending /\ (p.shared_source => map_active(p))
    /\ Owns(p, va[1]) /\ Present(m, p.root, va)

-----------------------------------------------------------------------------
(* Whole trees *)

Children(m, t, indices) == {m.table[t][i].frame : i \in indices \cap DOMAIN m.table[t]}

(* The tables below t reached through the given entries, level counting down to the leaves. *)
RECURSIVE TablesBelow(_, _, _, _)
TablesBelow(m, t, level, indices) ==
    IF level = 1 THEN {}
    ELSE LET C == Children(m, t, indices)
         IN  C \cup UNION {TablesBelow(m, c, level - 1, DOMAIN m.table[c]) : c \in C}

RECURSIVE HasLeaves(_, _, _, _)
HasLeaves(m, t, level, indices) ==
    IF level = 1 THEN m.table[t] # Empty
    ELSE \E c \in Children(m, t, indices) : HasLeaves(m, c, level - 1, DOMAIN m.table[c])

Owned(p) == p.first .. p.end - 1
map_reclaimable(p) == p.root # None /\ p.first < p.end /\ ~p.shared_source /\ ~map_active(p)

(* collect_children(): releases empty tables from the leaves up, in the order of the entries. *)
RECURSIVE collect_children(_, _, _, _)
collect_children(m, t, level, indices) ==
    LET todo == indices \cap DOMAIN m.table[t]
    IN  IF level = 1 \/ todo = {} THEN {[ok |-> TRUE, mm |-> m]}
        ELSE LET i == CHOOSE i \in todo : \A j \in todo : i <= j
                 c == m.table[t][i].frame
                 rest(s) == collect_children(s, t, level, {j \in indices : j > i})
             IN  UNION {IF ~o.ok THEN {o}
                        ELSE IF o.mm.table[c] # Empty THEN rest(o.mm)
                        ELSE UNION {IF r.ok THEN rest(r.mm) ELSE {r} : r \in release_empty_child(o.mm, t, i)} :
                        o \in collect_children(m, c, level - 1, DOMAIN m.table[c])}

(* vmm_page_map_destroy(): refused while there are leaves; a tree that is half gone keeps its *)
(* root and stays destroy_pending.                                                            *)
vmm_page_map_destroy(m, p) ==
    IF ~map_reclaimable(p) \/ HasLeaves(m, p.root, Depth, Owned(p))
    THEN {[ok |-> FALSE, mm |-> m, map |-> p]}
    ELSE LET pending == [p EXCEPT !.destroy_pending = TRUE]
         IN  UNION {IF ~o.ok THEN {[ok |-> FALSE, mm |-> o.mm, map |-> pending]}
                    ELSE {[ok |-> r.ok, mm |-> r.mm, map |-> IF r.ok THEN NoMap ELSE pending] :
                              r \in free_table(o.mm, p.root)} :
                    o \in collect_children(m, p.root, Depth, Owned(p))}

-----------------------------------------------------------------------------
(* Start-up *)

(* address_space_kernel_init(): the kernel's map owns every entry of its root. *)
Init ==
    /\ LET root == AnyOf(Frames) IN
           /\ mm = [free |-> Frames \ {root}, table |-> [f \in Frames |-> Empty],
                    unlinked |-> None, faults |-> FaultLimit]
           /\ maps = [p \in Maps |-> IF p = Kernel
                                     THEN [NoMap EXCEPT !.root = root, !.end = TopEntries] ELSE NoMap]
           /\ cr3 = root
    /\ live = {} /\ data = {} /\ stack = [s \in Stacks |-> <<>>] /\ g_arena_ready = FALSE /\ halted = FALSE

(* vmm_map_range() of kernel.c before user spaces exist; the frames are the firmware's, *)
(* None stands for them.  A repeated request for the same page is accepted.             *)
BootMap(va) ==
    /\ ~g_arena_ready
    /\ \E o \in IF Present(mm, maps[Kernel].root, va) THEN {[ok |-> TRUE, mm |-> mm]}
                ELSE vmm_map_page(mm, maps[Kernel], va, None, {"WRITE"}) : mm' = o.mm
    /\ UNCHANGED <<maps, cr3, live, data, stack, g_arena_ready, halted>>

(* kernel_stack_arena_init() maps and unmaps a probe page so that the arena's tables exist. *)
RECURSIVE Probe(_, _)
Probe(m, addresses) ==
    IF addresses = {} THEN {[ok |-> TRUE, mm |-> m]}
    ELSE LET va == CHOOSE a \in addresses : TRUE
         IN  UNION {IF ~o.ok THEN {o}
                    ELSE UNION {Probe(u, addresses \ {va}) : u \in vmm_unmap_page(o.mm, maps[Kernel], va)} :
                    o \in vmm_map_page(m, maps[Kernel], va, None, {"WRITE"})}

StackPages(s) == {StackAddress[s][i] : i \in DOMAIN StackAddress[s]}

(* Defect: the tables of the arena are left to the first stack. *)
ArenaWithoutTables ==
    /\ ~g_arena_ready /\ map_active(maps[Kernel])
    /\ \A va \in BootAddresses : Present(mm, maps[Kernel].root, va)
    /\ g_arena_ready' = TRUE
    /\ UNCHANGED <<mm, maps, cr3, live, data, stack, halted>>

kernel_stack_arena_init ==
    /\ ~g_arena_ready /\ map_active(maps[Kernel])
    /\ \A va \in BootAddresses : Present(mm, maps[Kernel].root, va)
    /\ \E o \in Probe(mm, UNION {StackPages(s) : s \in Stacks}) : mm' = o.mm /\ g_arena_ready' = o.ok
    /\ UNCHANGED <<maps, cr3, live, data, stack, halted>>

-----------------------------------------------------------------------------
(* Address spaces *)

KernelEntries == (0 .. TopEntries - 1) \ (UserFirst .. UserEnd - 1)

(* address_space_create(): the scratch map gets a root and a copy of the kernel's entries and *)
(* is then moved into the space; a failure destroys it, or leaves it for a later attempt.     *)
address_space_create(s) ==
    /\ g_arena_ready /\ s \notin live /\ maps[Scratch].root = None
    /\ \E o \in allocate_table(mm) :
           LET fresh == [NoMap EXCEPT !.root = o.frame, !.first = UserFirst, !.end = UserEnd]
               source == mm.table[maps[Kernel].root]
               shared == DOMAIN source \cap KernelEntries
           IN  \/ /\ ~o.ok /\ mm' = o.mm
                  /\ maps' = [maps EXCEPT ![s] = NoMap] /\ UNCHANGED live
               \/ /\ o.ok /\ mm' = [o.mm EXCEPT !.table[o.frame] = [i \in shared |-> source[i]]]
                  /\ maps' = [maps EXCEPT ![s] = fresh,
                                          ![Kernel].shared_source = @ \/ shared # {}]
                  /\ live' = live \cup {s}
               \/ /\ o.ok /\ o.mm.faults # 0        \* AFTER_ROOT, AFTER_SHARE of construction_test.h
                  /\ \E some \in {{}, shared} :
                     \E d \in vmm_page_map_destroy([o.mm EXCEPT !.faults = @ - 1,
                                  !.table[o.frame] = [i \in some |-> source[i]]], fresh) :
                         /\ mm' = d.mm
                         /\ maps' = [maps EXCEPT ![s] = NoMap, ![Scratch] = d.map,
                                                 ![Kernel].shared_source = @ \/ some # {}]
                  /\ UNCHANGED live
    /\ UNCHANGED <<cr3, data, stack, g_arena_ready, halted>>

(* address_space_reclaim_unpublished(), vmm_reclaim_unlinked_table() *)
address_space_reclaim_unpublished ==
    /\ maps[Scratch].root # None
    /\ \E d \in vmm_page_map_destroy(mm, maps[Scratch]) :
           mm' = d.mm /\ maps' = [maps EXCEPT ![Scratch] = d.map]
    /\ UNCHANGED <<cr3, live, data, stack, g_arena_ready, halted>>

vmm_reclaim_unlinked_table ==
    /\ mm.unlinked # None
    /\ \E o \in free_table(mm, mm.unlinked) :
           mm' = IF o.ok THEN [o.mm EXCEPT !.unlinked = None] ELSE o.mm
    /\ UNCHANGED <<maps, cr3, live, data, stack, g_arena_ready, halted>>

(* address_space_destroy() of a space no capability names. *)
address_space_destroy(s) ==
    /\ s \in live
    /\ \E d \in vmm_page_map_destroy(mm, maps[s]) :
           /\ mm' = d.mm /\ maps' = [maps EXCEPT ![s] = d.map]
           /\ live' = IF d.ok THEN live \ {s} ELSE live
    /\ UNCHANGED <<cr3, data, stack, g_arena_ready, halted>>

(* vmm_page_map_collect() *)
vmm_page_map_collect(s) ==
    /\ s \in live /\ map_reclaimable(maps[s])
    /\ \E o \in collect_children(mm, maps[s].root, Depth, Owned(maps[s])) : mm' = o.mm
    /\ UNCHANGED <<maps, cr3, live, data, stack, g_arena_ready, halted>>

(* address_space_map_page(): a user space takes user addresses, never writable and executable *)
(* together, and every mapping becomes a user mapping.                                        *)
address_space_map_page(s, va, f, flags) ==
    /\ s \in live /\ va[1] \in UserFirst .. UserEnd - 1 /\ ~({"WRITE", "EXEC"} \subseteq flags)
    /\ \E o \in vmm_map_page(mm, maps[s], va, f, flags \cup {"USER"}) : mm' = o.mm
    /\ UNCHANGED <<maps, cr3, live, data, stack, g_arena_ready, halted>>

address_space_unmap_page(s, va) ==
    /\ s \in live /\ MayUnmap(mm, maps[s], va)
    /\ mm' \in vmm_unmap_page(mm, maps[s], va)
    /\ UNCHANGED <<maps, cr3, live, data, stack, g_arena_ready, halted>>

(* Defect: the permission is switched whatever the leaf is. *)
SetWritableAnyLeaf(s, va) ==
    /\ s \in live /\ MayUnmap(mm, maps[s], va)
    /\ mm' = [mm EXCEPT !.table[Walk(mm, maps[s].root, va)[Depth]][va[Depth]].flags = @ \cup {"WRITE"}]
    /\ UNCHANGED <<maps, cr3, live, data, stack, g_arena_ready, halted>>

(* vmm_set_writable() switches the write permission of a leaf that is not executable. *)
vmm_set_writable(s, va) ==
    /\ s \in live /\ MayUnmap(mm, maps[s], va)
    /\ "EXEC" \notin vmm_query_page(mm, maps[s].root, va).flags
    /\ LET t == Walk(mm, maps[s].root, va)[Depth]
       IN  mm' = [mm EXCEPT !.table[t][va[Depth]].flags =
                      IF "WRITE" \in @ THEN @ \ {"WRITE"} ELSE @ \cup {"WRITE"}]
    /\ UNCHANGED <<maps, cr3, live, data, stack, g_arena_ready, halted>>

(* The scheduler loads address_space_cr3() of the next thread's space. *)
Activate(p) ==
    /\ p = Kernel \/ (p \in live /\ ~maps[p].destroy_pending)
    /\ cr3' = maps[p].root /\ cr3' # cr3
    /\ UNCHANGED <<mm, maps, live, data, stack, g_arena_ready, halted>>

-----------------------------------------------------------------------------
(* Callers' frames and kernel stacks *)

MappedFrames(m) == {m.table[t][i].frame : <<t, i>> \in {x \in Frames \X (0 .. TopEntries) : x[2] \in DOMAIN m.table[x[1]]}}

DataAlloc ==
    /\ mm.free # {} /\ Cardinality(data) < DataLimit
    /\ LET f == AnyOf(mm.free) IN mm' = [mm EXCEPT !.free = @ \ {f}] /\ data' = data \cup {f}
    /\ UNCHANGED <<maps, cr3, live, stack, g_arena_ready, halted>>

DataFree(f) ==
    /\ f \in data /\ f \notin MappedFrames(mm)
    /\ mm' = [mm EXCEPT !.free = @ \cup {f}] /\ data' = data \ {f}
    /\ UNCHANGED <<maps, cr3, live, stack, g_arena_ready, halted>>

(* kernel_stack_mapping_valid() *)
StackValid(m, s, frames) ==
    \A i \in DOMAIN frames : /\ Present(m, maps[Kernel].root, StackAddress[s][i])
                             /\ vmm_query_page(m, maps[Kernel].root, StackAddress[s][i]) =
                                    [frame |-> frames[i], flags |-> {"WRITE"}]
StackClear(m, s) == \A va \in StackPages(s) : ~Present(m, maps[Kernel].root, va)

(* The pages of a stack in turn; mapped counts the ones there are when one is refused. *)
RECURSIVE MapStack(_, _, _, _)
MapStack(m, s, frames, i) ==
    IF i > Len(frames) THEN {[ok |-> TRUE, mm |-> m, mapped |-> Len(frames)]}
    ELSE UNION {IF o.ok THEN MapStack(o.mm, s, frames, i + 1)
                ELSE {[ok |-> FALSE, mm |-> o.mm, mapped |-> i - 1]} :
                o \in vmm_map_page(m, maps[Kernel], StackAddress[s][i], frames[i], {"WRITE"})}

RECURSIVE UnmapStack(_, _, _)
UnmapStack(m, s, i) ==
    IF i = 0 THEN m
    ELSE UnmapStack(CHOOSE u \in vmm_unmap_page(m, maps[Kernel], StackAddress[s][i]) : TRUE, s, i - 1)

(* kernel_stack_map() with frames of pmm_alloc_pages(): the kernel's map is active and the slot *)
(* is clear.  A refused page unmaps the ones before it and the caller gives the frames back; a  *)
(* finished mapping that is not what was asked for stops the machine.                           *)
kernel_stack_map(s) ==
    /\ g_arena_ready /\ map_active(maps[Kernel]) /\ StackClear(mm, s) /\ stack[s] = <<>>
    /\ Cardinality(mm.free) >= Len(StackAddress[s])
    /\ LET frames == CHOOSE fs \in [DOMAIN StackAddress[s] -> mm.free] :
                          \A i, j \in DOMAIN fs : i # j => fs[i] # fs[j]
           taken == {frames[i] : i \in DOMAIN frames}
       IN  \E o \in MapStack([mm EXCEPT !.free = @ \ taken], s, frames, 1) :
               IF o.ok
               THEN /\ mm' = o.mm /\ stack' = [stack EXCEPT ![s] = frames]
                    /\ halted' = ~StackValid(o.mm, s, frames)
               ELSE /\ mm' = [UnmapStack(o.mm, s, o.mapped) EXCEPT !.free = @ \cup taken]
                    /\ UNCHANGED <<stack, halted>>
    /\ UNCHANGED <<maps, cr3, live, data, g_arena_ready>>

(* kernel_stack_release(): unmaps, returns the frames, and restores the mapping when the    *)
(* return is refused, so that the caller can retry.                                         *)
kernel_stack_release(s) ==
    /\ g_arena_ready /\ map_active(maps[Kernel]) /\ stack[s] # <<>> /\ StackValid(mm, s, stack[s])
    /\ LET gone == UnmapStack(mm, s, Len(stack[s]))
       IN  \/ /\ mm' = [gone EXCEPT !.free = @ \cup {stack[s][i] : i \in DOMAIN stack[s]}]
              /\ stack' = [stack EXCEPT ![s] = <<>>] /\ halted' = ~StackClear(gone, s)
           \/ /\ mm.faults # 0
              /\ \E o \in MapStack([gone EXCEPT !.faults = @ - 1], s, stack[s], 1) :
                     mm' = o.mm /\ halted' = ~(o.ok /\ StackValid(o.mm, s, stack[s]))
              /\ UNCHANGED stack
    /\ UNCHANGED <<maps, cr3, live, data, g_arena_ready>>

Flags == {{}, {"WRITE"}, {"EXEC"}}

Next ==
    /\ ~halted
    /\ \/ \E va \in BootAddresses : BootMap(va)
       \/ kernel_stack_arena_init
       \/ \E s \in Spaces :
              \/ address_space_create(s) \/ address_space_destroy(s) \/ vmm_page_map_collect(s)
              \/ \E va \in UserAddresses :
                     \/ address_space_unmap_page(s, va) \/ vmm_set_writable(s, va)
                     \/ \E f \in data, flags \in Flags : address_space_map_page(s, va, f, flags)
       \/ address_space_reclaim_unpublished \/ vmm_reclaim_unlinked_table
       \/ \E p \in Maps : Activate(p)
       \/ DataAlloc \/ \E f \in Frames : DataFree(f)
       \/ \E s \in Stacks : kernel_stack_map(s) \/ kernel_stack_release(s)

Spec == Init /\ [][Next]_vars

-----------------------------------------------------------------------------
(* Properties *)

TreeOf(p) == IF maps[p].root = None THEN {}
             ELSE {maps[p].root} \cup TablesBelow(mm, maps[p].root, Depth, Owned(maps[p]))
StackFrames(s) == {stack[s][i] : i \in DOMAIN stack[s]}
LinksWithin(tree, p) == {<<t, i>> \in tree \X (0 .. TopEntries - 1) :
                             /\ i \in DOMAIN mm.table[t] /\ mm.table[t][i].frame \in tree
                             /\ (t = maps[p].root => i \in Owned(maps[p]))}
OneParentEach(tree, p) == Cardinality(LinksWithin(tree, p)) + 1 = Cardinality(tree)

(* The ledger of frames balances: every frame is free, holds a table of exactly one page map, *)
(* is the table that could not be given back, or belongs to one caller; a table has one parent*)
(* link.  No allocation, roll-back, pruning or failed release loses a frame or counts it twice*)
LedgerBalances ==
    LET Count(S(_), X) == MapThenSumSet(LAMBDA x : Cardinality(S(x)), X)
        unlinked == {mm.unlinked} \ {None}
    IN  /\ mm.free \cup data \cup unlinked \cup UNION {TreeOf(p) : p \in Maps}
               \cup UNION {StackFrames(s) : s \in Stacks} = Frames
        /\ Cardinality(mm.free) + Cardinality(data) + Cardinality(unlinked) + Count(TreeOf, Maps)
               + Count(StackFrames, Stacks) = Cardinality(Frames)
        /\ \A p \in Maps : maps[p].root # None => OneParentEach(TreeOf(p), p)
        /\ \A p \in Spaces : p \in live <=> maps[p].root # None
        /\ ~halted

(* A mapping grants exactly what it was made with: tables shared by several mappings never  *)
(* take a permission away from a leaf, a user mapping is never writable and executable, and *)
(* a kernel mapping is never open to user code.                                             *)
MappingsGrantTheirFlags ==
    \A p \in Spaces \cup {Kernel} : \A va \in UserAddresses \cup BootAddresses \cup UNION {StackPages(s) : s \in Stacks} :
        maps[p].root # None /\ Present(mm, maps[p].root, va) =>
            LET q == vmm_query_page(mm, maps[p].root, va)
                t == Walk(mm, maps[p].root, va)[Depth]
            IN  /\ q.flags = mm.table[t][va[Depth]].flags
                /\ ("USER" \in q.flags <=> va[1] \in UserFirst .. UserEnd - 1)
                /\ ~({"WRITE", "EXEC"} \subseteq q.flags)

(* Every address space sees the kernel: what the kernel's map holds in its own entries, boot *)
(* mappings and the stacks of all threads, every live space resolves to the same frames.     *)
KernelIsShared ==
    \A s \in live : ~maps[s].destroy_pending =>
        \A va \in BootAddresses \cup UNION {StackPages(k) : k \in Stacks} :
            /\ Present(mm, maps[s].root, va) <=> Present(mm, maps[Kernel].root, va)
            /\ Present(mm, maps[s].root, va) =>
                   vmm_query_page(mm, maps[s].root, va) = vmm_query_page(mm, maps[Kernel].root, va)

=============================================================================
