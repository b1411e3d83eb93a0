--------------------------------- MODULE Elf ---------------------------------
(***************************************************************************)
(* The loader of user images (kernel/user_elf.c): which executables it     *)
(* accepts and what the program then finds in its memory.  Addresses,      *)
(* offsets and sizes are words modulo Modulus, a page is PageSize bytes;   *)
(* the file's bytes are told apart by their offsets.  The whole load runs  *)
(* with interrupts masked.  Frames and the roll-back of a load that fails  *)
(* half way are in Program.                                                *)
(***************************************************************************)
EXTENDS Integers, Sequences, FiniteSets, FiniteSetsExt

CONSTANTS Modulus, PageSize, UserBase, UserLimit, StackBase, MaxLoadPages,
          MaxPhdrs, Headers, Firsts, Seconds

VARIABLES file, image

elfVars == <<file, image>>

Zero == -1
NoImage == [loaded |-> FALSE, entry |-> 0, pages |-> {}, flags |-> <<>>, bytes |-> <<>>]

Add(a, b) == (a + b) % Modulus
Sub(a, b) == (a - b) % Modulus

page_down(a) == a - (a % PageSize)
page_up(a) == IF a > Modulus - 1 - (PageSize - 1) THEN {}
              ELSE {page_down(Add(a, PageSize - 1))}

elf_header_valid(f) ==
    /\ f.magic
    /\ Len(f.segments) \in 1 .. MaxPhdrs
    /\ f.table =< f.size /\ Len(f.segments) =< Sub(f.size, f.table)
    /\ f.entry >= UserBase /\ f.entry < UserLimit

\* The pages [first, end) of a segment; no element when it is refused.
load_segment_page_range(s) ==
    IF \/ s.memory_size = 0
       \/ s.virtual_address < UserBase \/ s.virtual_address >= UserLimit
       \/ s.memory_size > Sub(UserLimit, s.virtual_address)
    THEN {}
    ELSE {r \in {[first |-> page_down(s.virtual_address), end |-> e] :
                   e \in page_up(Add(s.virtual_address, s.memory_size))} :
            r.first >= UserBase /\ r.end =< UserLimit /\ r.end > r.first}

user_stack_initial_reservation_conflicts(r) ==
    r.first < Add(StackBase, 2 * PageSize) /\ Sub(StackBase, PageSize) < r.end

\* Defect: the end of the segment's file bytes is computed before it is
\* compared with the file's size.
FileRangeWraps(f, s) ==
    /\ s.file_size =< s.memory_size
    /\ s.offset =< f.size /\ Add(s.offset, s.file_size) =< f.size

FileRange(f, s) ==
    /\ s.file_size =< s.memory_size
    /\ s.offset =< f.size /\ s.file_size =< Sub(f.size, s.offset)

PowerOfTwo(n) == n \in {2 ^ k : k \in 0 .. 8}

\* What validate_segments asks of one loadable segment by itself.
SegmentValid(f, s) ==
    /\ FileRange(f, s)
    /\ ~({"W", "X"} \subseteq s.flags)
    /\ s.alignment > 1 =>
         PowerOfTwo(s.alignment)
         /\ s.virtual_address % s.alignment = s.offset % s.alignment
    /\ load_segment_page_range(s) # {}
    /\ \A r \in load_segment_page_range(s) : ~user_stack_initial_reservation_conflicts(r)

Loads(f) == {i \in DOMAIN f.segments :
               f.segments[i].type = "LOAD" /\ f.segments[i].memory_size # 0}

RangeOf(f, i) == CHOOSE r \in load_segment_page_range(f.segments[i]) : TRUE
PagesOf(f, i) == {p \in RangeOf(f, i).first .. (RangeOf(f, i).end - 1) : p % PageSize = 0}

validate_segments(f) ==
    /\ \A i \in DOMAIN f.segments :
         LET s == f.segments[i] IN
         /\ s.type \notin {"DYNAMIC", "INTERP", "TLS"}
         /\ s.type = "LOAD" => s.file_size =< s.memory_size
    /\ \A i \in Loads(f) : SegmentValid(f, f.segments[i])
    /\ \A i, j \in Loads(f) : i < j =>
         ~ (/\ RangeOf(f, j).first < RangeOf(f, i).end
            /\ RangeOf(f, i).first < RangeOf(f, j).end)
    /\ MapThenSumSet(LAMBDA i : Cardinality(PagesOf(f, i)), Loads(f)) \in 1 .. MaxLoadPages
    /\ \E i \in Loads(f) :
         LET s == f.segments[i] IN
         /\ "X" \in s.flags /\ s.file_size # 0
         /\ f.entry >= s.virtual_address /\ f.entry < Add(s.virtual_address, s.file_size)

\* Where the copy puts byte k of the segment: the page, and the place in it.
Destination(s, k) ==
    LET a == Add(s.virtual_address, k) IN <<page_down(a), a - page_down(a)>>

\* The memory of segment i: zeroed pages, then the file's bytes copied in.
map_segment(f, i) ==
    LET s == f.segments[i]
        copied == {k \in 0 .. (Modulus - 1) : k < s.file_size} IN
    [a \in UNION {p .. (p + PageSize - 1) : p \in PagesOf(f, i)} |->
        LET from == {k \in copied : Destination(s, k) = <<page_down(a), a - page_down(a)>>} IN
        IF from = {} THEN Zero ELSE s.offset + Max(from)]

Loaded(f) ==
    [loaded |-> TRUE, entry |-> f.entry,
     pages |-> UNION {PagesOf(f, i) : i \in Loads(f)},
     flags |-> [p \in UNION {PagesOf(f, i) : i \in Loads(f)} |->
                  UNION {f.segments[i].flags \cap {"W", "X"} :
                           i \in {j \in Loads(f) : p \in PagesOf(f, j)}}],
     bytes |-> [a \in UNION {DOMAIN map_segment(f, i) : i \in Loads(f)} |->
                  LET i == CHOOSE j \in Loads(f) : a \in DOMAIN map_segment(f, j)
                  IN map_segment(f, i)[a]]]

\* A header, and the segments of its table.
Init ==
    /\ \E h \in Headers, s \in Firsts, t \in Seconds :
         file = [magic |-> h.magic, size |-> h.size, table |-> h.table, entry |-> h.entry,
                 segments |-> s \o t]
    /\ image = NoImage

load_locked ==
    /\ image = NoImage /\ elf_header_valid(file) /\ validate_segments(file)
    /\ image' = Loaded(file) /\ UNCHANGED file

release_pages == image.loaded /\ image' = NoImage /\ UNCHANGED file

Next == load_locked \/ release_pages

ElfSpec == Init /\ [][Next]_elfVars

-----------------------------------------------------------------------------
\* A program starts in exactly the memory its file describes, in unbounded
\* arithmetic: every address of a segment holds the file's byte or zero, all
\* of it in the file and in user memory clear of the initial stack; no page is
\* both writable and executable, and the entry is an executable byte of the
\* file (validate_segments, map_segment).
LoadedAsDescribed ==
    image.loaded =>
        /\ \A i \in Loads(file) :
             LET s == file.segments[i] IN
             /\ s.virtual_address >= UserBase
             /\ s.virtual_address + s.memory_size =< UserLimit
             /\ s.offset + s.file_size =< file.size
             /\ \A k \in 0 .. (s.memory_size - 1) :
                  image.bytes[s.virtual_address + k] =
                    IF k < s.file_size THEN s.offset + k ELSE Zero
        /\ image.pages \cap ((StackBase - PageSize) .. (StackBase + 2 * PageSize - 1)) = {}
        /\ Cardinality(image.pages) =< MaxLoadPages
        /\ \A p \in image.pages : image.flags[p] # {"W", "X"}
        /\ image.bytes[image.entry] # Zero
        /\ image.flags[page_down(image.entry)] = {"X"}
=============================================================================
