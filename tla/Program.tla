------------------------------ MODULE Program -------------------------------
(***************************************************************************)
(* The launch transaction and its release (kernel/program.c), with the     *)
(* constructors and destructors it is made of: processes and address       *)
(* spaces, page tables, user images, user and kernel stacks, threads.      *)
(*                                                                         *)
(* A launch or a release runs with interrupts masked.  Its steps are       *)
(* actions of their own, and no program runs and no other call starts      *)
(* while a call is in progress.  Every lower operation that returns a      *)
(* boolean may fail; the model spends one of `faults' for each failure     *)
(* that is not exhaustion of memory.                                       *)
(***************************************************************************)
EXTENDS Naturals, Sequences, FiniteSets, FiniteSetsExt

CONSTANTS
    Instances,      \* storage of ProgramInstance objects
    None,
    Other,          \* a caller of thread_create that is not program_launch
    ImagePages,     \* pages of the program's image
    ReadonlyPages,  \* pages of the optional read-only mapping
    BorrowedPages,  \* pages of the optional borrowed mapping
    Grants,         \* startup capabilities
    TableLimit,     \* bound: page tables below the root of one address space
    Frames,         \* frames of physical memory
    FaultLimit      \* bound: failures injected

ASSUME ProgramAssumption ==
    /\ {ImagePages, ReadonlyPages, BorrowedPages, Grants, TableLimit, Frames, FaultLimit}
           \subseteq Nat
    /\ ImagePages > 0 /\ TableLimit > 0
    /\ None \notin Instances /\ Other \notin Instances /\ None # Other

VARIABLES
    instance,  \* the ledger each ProgramInstance keeps
    kernel,    \* what the kernel holds for the process of each instance
    scratch,   \* g_unpublished_stack, g_unpublished_map, g_unlinked_table
    frames,    \* free frames
    faults,
    call,      \* the call in progress
    ran,       \* history: the instance was published
    reports    \* history: exit events of the instance

history == <<ran, reports>>
vars == <<instance, kernel, scratch, frames, faults, call, ran, reports>>

ScratchKinds == {"stack", "space", "table"}
Steps == {"idle", "process", "image", "unload", "readonly", "borrowed", "frame", "stack",
          "grant", "thread", "prepare", "watch", "publish", "fail",
          "scratch", "owned", "stop", "reap", "revoke", "unmap", "free", "unload_image",
          "destroy"}

NoLedger == [process_created |-> FALSE, image |-> FALSE, pages |-> <<>>, readonly |-> 0,
             borrowed |-> 0, stack_frame |-> FALSE, stack_mapped |-> FALSE, handles |-> 0,
             thread_created |-> FALSE, published |-> FALSE, owes |-> {}]
NoKernel == [process |-> FALSE, tables |-> 0, leaves |-> {}, caps |-> 0, thread |-> "NONE",
             queued |-> FALSE, watch |-> FALSE, exit |-> "NONE"]
NoCall == [step |-> "idle", self |-> None, force |-> FALSE, launching |-> FALSE,
           watched |-> FALSE]

self == call.self
At(s) == call.step = s
Return == call' = NoCall
Goto(s) == IF s = "idle" THEN Return ELSE call' = [call EXCEPT !.step = s]
Works == UNCHANGED faults
Fails == faults > 0 /\ faults' = faults - 1
Set(ledger) == instance' = [instance EXCEPT ![self] = ledger]
SetKernel(objects) == kernel' = [kernel EXCEPT ![self] = objects]

L == instance[self]
K == kernel[self]

(* program_instance_needs_cleanup *)
NeedsCleanup(i) ==
    instance[i] # NoLedger \/ kernel[i].process \/ kernel[i].thread # "NONE"

Init ==
    /\ instance = [i \in Instances |-> NoLedger] /\ kernel = [i \in Instances |-> NoKernel]
    /\ scratch = [k \in ScratchKinds |-> None]
    /\ frames = Frames /\ faults = FaultLimit /\ call = NoCall
    /\ ran = [i \in Instances |-> FALSE] /\ reports = [i \in Instances |-> 0]

-----------------------------------------------------------------------------
(* Page tables *)

(***************************************************************************)
(* vmm_map_page: a mapping may need new tables.  When one of them cannot   *)
(* be had, those already made are taken back; a table that cannot be freed *)
(* stays linked, or, when it never was linked, in g_unlinked_table.        *)
(***************************************************************************)
MapOutcomes(available) ==
    LET room == TableLimit - K.tables
        needs == IF K.tables = 0 THEN 1 .. room ELSE 0 .. room
        exhausted == IF \E n \in needs : n > available THEN 0 ELSE 1
        all == [ok : {TRUE}, tables : {n \in needs : n <= available}, lost : {0}, faults : {0}]
               \cup [ok : {FALSE}, tables : {0}, lost : {0}, faults : {exhausted}]
               \cup [ok : {FALSE}, tables : 1 .. room - 1, lost : {0}, faults : {exhausted + 1}]
               \cup [ok : {FALSE}, tables : {0}, lost : {n \in {1} : n <= room}, faults : {2}]
    IN  {o \in all : o.faults <= faults /\ o.tables + o.lost <= available}

\* What an attempt to map `leaf' leaves behind; `taken' frames were allocated before it.
Map(o, leaf, taken) ==
    /\ SetKernel([K EXCEPT !.tables = @ + o.tables,
                           !.leaves = IF o.ok THEN @ \cup {leaf} ELSE @])
    /\ scratch' = IF o.lost = 1 THEN [scratch EXCEPT !["table"] = self] ELSE scratch
    /\ frames' = frames - taken - o.tables - o.lost
    /\ faults' = faults - o.faults

Unmap(leaf) == leaf \in K.leaves /\ SetKernel([K EXCEPT !.leaves = @ \ {leaf}])

-----------------------------------------------------------------------------
(* program_launch *)

MayLaunch(i) == ~NeedsCleanup(i) /\ \A k \in ScratchKinds : scratch[k] = None

Launch(i) ==
    /\ At("idle") /\ MayLaunch(i)
    /\ \E watched \in BOOLEAN :
           call' = [NoCall EXCEPT !.step = "process", !.self = i, !.force = TRUE,
                                  !.launching = TRUE, !.watched = watched]
    /\ UNCHANGED <<instance, kernel, scratch, frames, faults, history>>

\* process_create, and address_space_create with the module-owned scratch map.
CreateProcess ==
    /\ At("process")
    /\ \/ /\ frames > 0 /\ Works /\ Goto("image")
          /\ frames' = frames - 1
          /\ Set([L EXCEPT !.process_created = TRUE])
          /\ SetKernel([K EXCEPT !.process = TRUE])
          /\ UNCHANGED scratch
       \/ /\ (frames = 0 /\ Works) \/ Fails
          /\ Goto("fail")
          /\ UNCHANGED <<instance, kernel, scratch, frames>>
       \/ /\ frames > 0 /\ faults > 1 /\ faults' = faults - 2
          /\ \E kind \in {"space", "table"} : scratch' = [scratch EXCEPT ![kind] = self]
          /\ frames' = frames - 1
          /\ Goto("fail") /\ UNCHANGED <<instance, kernel>>
    /\ UNCHANGED history

\* load_locked and map_segment, one page at a time.  The image is owned by the
\* ledger from its first page on, and a page before it is mapped.
LoadImage ==
    /\ At("image")
    /\ \/ ~L.image /\ Fails /\ Goto("fail") /\ UNCHANGED <<instance, kernel, scratch, frames>>
       \/ /\ Len(L.pages) = ImagePages /\ Works /\ Goto("readonly")
          /\ UNCHANGED <<instance, kernel, scratch, frames>>
       \/ /\ Len(L.pages) < ImagePages
          /\ (frames = 0 /\ Works) \/ Fails
          /\ Goto("unload") /\ Set([L EXCEPT !.image = TRUE])
          /\ UNCHANGED <<kernel, scratch, frames>>
    /\ UNCHANGED history

LoadPage ==
    /\ At("image") /\ Len(L.pages) < ImagePages /\ frames > 0
    /\ \E o \in MapOutcomes(frames - 1) :
           /\ Map(o, <<"image", Len(L.pages) + 1>>, 1)
           /\ Set([L EXCEPT !.image = TRUE, !.pages = Append(@, o.ok)])
           /\ Goto(IF o.ok THEN "image" ELSE "unload")
    /\ UNCHANGED history

\* Defect: the unmapping of a page is not recorded before its frame is freed; the
\* page is forgotten with its mapping.
UnmappedUnrecorded(pages) == pages
UnmappedForgotten(pages) == SubSeq(pages, 1, Len(pages) - 1)

UnmappedLast(pages) == [pages EXCEPT ![Len(pages)] = FALSE]

\* One page of release_pages; `failed' is where the caller goes when it stops.
ReleasePage(failed) ==
    LET n == Len(L.pages)
        leaf == <<"image", n>>
        mapped == L.pages[n]
    IN  /\ n > 0
        /\ \/ /\ mapped /\ (Fails \/ (leaf \notin K.leaves /\ Works))
              /\ Goto(failed) /\ UNCHANGED <<instance, kernel, frames>>
           \/ /\ IF mapped THEN Unmap(leaf) ELSE UNCHANGED kernel
              /\ \/ /\ Fails /\ Goto(failed) /\ UNCHANGED frames
                    /\ Set([L EXCEPT !.pages = IF mapped THEN UnmappedLast(@) ELSE @])
                 \/ /\ Works /\ frames' = frames + 1 /\ UNCHANGED call
                    /\ Set([L EXCEPT !.pages = SubSeq(@, 1, n - 1)])

Unload ==
    /\ At("unload")
    /\ \/ ReleasePage("fail")
       \/ /\ L.pages = <<>> /\ Set([L EXCEPT !.image = FALSE])
          /\ Goto("fail") /\ UNCHANGED <<kernel, frames, faults>>
    /\ UNCHANGED <<scratch, history>>

\* The read-only and the borrowed pages are mapped but not owned.
MapForeign(count, wanted, kind, next) ==
    /\ At(kind)
    /\ \/ /\ count < wanted
          /\ \E o \in MapOutcomes(frames) :
                 /\ Map(o, <<kind, count + 1>>, 0)
                 /\ Set(IF o.ok THEN [L EXCEPT ![kind] = @ + 1] ELSE L)
                 /\ Goto(IF o.ok THEN kind ELSE "fail")
       \/ /\ count = wanted /\ Goto(next)
          /\ UNCHANGED <<instance, kernel, scratch, frames, faults>>
    /\ UNCHANGED history

MapReadonly == MapForeign(L.readonly, ReadonlyPages, "readonly", "borrowed")
MapBorrowed == MapForeign(L.borrowed, BorrowedPages, "borrowed", "frame")

AllocateStack ==
    /\ At("frame")
    /\ \/ /\ frames > 0 /\ Works /\ frames' = frames - 1 /\ Goto("stack")
          /\ Set([L EXCEPT !.stack_frame = TRUE])
       \/ /\ (frames = 0 /\ Works) \/ Fails
          /\ Goto("fail") /\ UNCHANGED <<instance, frames>>
    /\ UNCHANGED <<kernel, scratch, history>>

MapStack ==
    /\ At("stack")
    /\ \E o \in MapOutcomes(frames) :
           /\ Map(o, <<"stack", 1>>, 0)
           /\ Set([L EXCEPT !.stack_mapped = o.ok])
           /\ Goto(IF o.ok THEN "grant" ELSE "fail")
    /\ UNCHANGED history

GrantMissing == L.handles < Grants

InsertGrant ==
    /\ At("grant")
    /\ \/ /\ GrantMissing /\ Works /\ UNCHANGED call
          /\ Set([L EXCEPT !.handles = @ + 1]) /\ SetKernel([K EXCEPT !.caps = @ + 1])
       \/ GrantMissing /\ Fails /\ Goto("fail") /\ UNCHANGED <<instance, kernel>>
       \/ ~GrantMissing /\ Works /\ Goto("thread") /\ UNCHANGED <<instance, kernel>>
    /\ UNCHANGED <<scratch, frames, history>>

\* thread_create: the kernel stack is module-owned until the thread is attached.
CreateThread ==
    /\ At("thread")
    /\ \/ /\ frames > 0 /\ Works /\ frames' = frames - 1 /\ Goto("prepare")
          /\ Set([L EXCEPT !.thread_created = TRUE]) /\ SetKernel([K EXCEPT !.thread = "READY"])
          /\ UNCHANGED scratch
       \/ /\ (frames = 0 /\ Works) \/ Fails
          /\ Goto("fail") /\ UNCHANGED <<instance, kernel, scratch, frames>>
       \/ /\ frames > 0 /\ faults > 1 /\ faults' = faults - 2
          /\ scratch' = [scratch EXCEPT !["stack"] = self] /\ frames' = frames - 1
          /\ Goto("fail") /\ UNCHANGED <<instance, kernel>>
    /\ UNCHANGED history

PrepareThread ==
    /\ At("prepare")
    /\ \/ Works /\ Goto(IF call.watched THEN "watch" ELSE "publish")
       \/ Fails /\ Goto("fail")
    /\ UNCHANGED <<instance, kernel, scratch, frames, history>>

Watch ==
    /\ At("watch")
    /\ \/ Works /\ Goto("publish") /\ SetKernel([K EXCEPT !.watch = TRUE])
       \/ Fails /\ Goto("fail") /\ UNCHANGED kernel
    /\ UNCHANGED <<instance, scratch, frames, history>>

\* scheduler_add: the commit.
Publish ==
    /\ At("publish")
    /\ \/ /\ Works /\ Return
          /\ Set([L EXCEPT !.published = TRUE]) /\ SetKernel([K EXCEPT !.queued = TRUE])
          /\ ran' = [ran EXCEPT ![self] = TRUE]
       \/ Fails /\ Goto("fail") /\ UNCHANGED <<instance, kernel, ran>>
    /\ UNCHANGED <<scratch, frames, reports>>

\* Defect: a failed launch keeps its watch.
KeepsWatch(objects) == objects

Unwatched(objects) == [objects EXCEPT !.watch = FALSE]

\* The failure path: the watch goes first, then the scratch allocations are
\* attributed to the instance, which is released by force.
LaunchFails ==
    /\ At("fail")
    /\ SetKernel(Unwatched(K))
    /\ Set([L EXCEPT !.owes = {k \in ScratchKinds : scratch[k] # None}])
    /\ Goto("scratch")
    /\ UNCHANGED <<scratch, frames, faults, history>>

-----------------------------------------------------------------------------
(* program_reap and program_terminate *)

Release(i, force) ==
    /\ At("idle") /\ NeedsCleanup(i)
    /\ call' = [NoCall EXCEPT !.step = "scratch", !.self = i, !.force = force]
    /\ UNCHANGED <<instance, kernel, scratch, frames, faults, history>>

Terminate(i) == Release(i, TRUE)
Reap(i) == Release(i, FALSE)

\* The reclaims of the scratch allocations this launch owes, in their order.
ReclaimScratch ==
    /\ At("scratch")
    /\ LET kind == IF "stack" \in L.owes THEN "stack"
                   ELSE IF "space" \in L.owes THEN "space" ELSE "table"
       IN  \/ L.owes # {} /\ Fails /\ Return /\ UNCHANGED <<instance, scratch, frames>>
           \/ /\ L.owes # {} /\ Works /\ UNCHANGED call
              /\ Set([L EXCEPT !.owes = @ \ {kind}])
              /\ scratch' = [scratch EXCEPT ![kind] = None]
              /\ frames' = IF scratch[kind] = None THEN frames ELSE frames + 1
           \/ L.owes = {} /\ Works /\ Goto("owned") /\ UNCHANGED <<instance, scratch, frames>>
    /\ UNCHANGED <<kernel, history>>

Forget ==
    /\ Set(NoLedger) /\ Return
    /\ ran' = [ran EXCEPT ![self] = FALSE] /\ reports' = [reports EXCEPT ![self] = 0]

MayStop == call.force \/ K.thread # "READY"

CheckOwned ==
    /\ At("owned")
    /\ \/ ~L.process_created /\ Forget
       \/ L.process_created /\ MayStop /\ Goto("stop") /\ UNCHANGED <<instance, history>>
       \/ L.process_created /\ ~MayStop /\ Return /\ UNCHANGED <<instance, history>>
    /\ UNCHANGED <<kernel, scratch, frames, faults>>

\* process_exit_publish: the first outcome stays, and a watch becomes an event.
Ended(objects, reason) ==
    IF objects.exit # "NONE" THEN objects
    ELSE [objects EXCEPT !.exit = reason, !.watch = FALSE]

Reported(i) ==
    reports' = IF kernel[i].exit = "NONE" /\ kernel[i].watch
               THEN [reports EXCEPT ![i] = @ + 1] ELSE reports

\* task_quiesce_process: no thread of the process runs any more ...
StopThreads ==
    /\ At("stop")
    /\ \/ /\ Works /\ Goto("reap")
          /\ IF K.thread = "NONE" THEN UNCHANGED <<kernel, reports>>
             ELSE /\ SetKernel(Ended([K EXCEPT !.thread = "DEAD", !.queued = FALSE], "TERMINATED"))
                  /\ Reported(self)
       \/ Fails /\ Return /\ UNCHANGED <<kernel, reports>>
    /\ UNCHANGED <<instance, scratch, frames, ran>>

\* ... then its thread and kernel stack go (thread_destroy, kernel_stack_release) ...
ReapThread ==
    /\ At("reap")
    /\ \/ /\ K.thread = "NONE" /\ Works /\ Goto("revoke") /\ UNCHANGED <<kernel, frames>>
       \/ /\ K.thread = "DEAD" /\ Works /\ Goto("revoke")
          /\ SetKernel([K EXCEPT !.thread = "NONE"]) /\ frames' = frames + 1
       \/ K.thread = "DEAD" /\ Fails /\ Return /\ UNCHANGED <<kernel, frames>>
    /\ UNCHANGED <<instance, scratch, history>>

\* ... and its capabilities.
Revoke ==
    /\ At("revoke")
    /\ \/ /\ Works /\ Goto("unmap")
          /\ SetKernel([K EXCEPT !.caps = 0])
          /\ Set([L EXCEPT !.thread_created = FALSE, !.published = FALSE, !.handles = 0])
       \/ Fails /\ Return /\ UNCHANGED <<instance, kernel>>
    /\ UNCHANGED <<scratch, frames, history>>

\* The mapping removed next: read-only pages, borrowed pages, the stack.
LastMapping ==
    IF L.readonly > 0 THEN <<"readonly", L.readonly>>
    ELSE IF L.borrowed > 0 THEN <<"borrowed", L.borrowed>> ELSE <<"stack", 1>>

\* Defect: the stack is freed while it is mapped.
MappingsLeftButStack == L.readonly + L.borrowed > 0

MappingsLeft == L.readonly + L.borrowed > 0 \/ L.stack_mapped

UnmapPage ==
    /\ At("unmap")
    /\ LET leaf == LastMapping
       IN  \/ /\ MappingsLeft /\ Works /\ Unmap(leaf) /\ UNCHANGED call
              /\ Set(IF leaf[1] = "stack" THEN [L EXCEPT !.stack_mapped = FALSE]
                     ELSE [L EXCEPT ![leaf[1]] = @ - 1])
           \/ /\ MappingsLeft /\ (Fails \/ (leaf \notin K.leaves /\ Works))
              /\ Return /\ UNCHANGED <<instance, kernel>>
           \/ ~MappingsLeft /\ Works /\ Goto("free") /\ UNCHANGED <<instance, kernel>>
    /\ UNCHANGED <<scratch, frames, history>>

FreeStack ==
    /\ At("free")
    /\ \/ /\ L.stack_frame /\ Works /\ Goto("unload_image")
          /\ frames' = frames + 1 /\ Set([L EXCEPT !.stack_frame = FALSE])
       \/ L.stack_frame /\ Fails /\ Return /\ UNCHANGED <<instance, frames>>
       \/ ~L.stack_frame /\ Works /\ Goto("unload_image") /\ UNCHANGED <<instance, frames>>
    /\ UNCHANGED <<kernel, scratch, history>>

UnloadImage ==
    /\ At("unload_image")
    /\ \/ ReleasePage("idle")
       \/ /\ L.pages = <<>> /\ Set([L EXCEPT !.image = FALSE])
          /\ Goto("destroy") /\ UNCHANGED <<kernel, frames, faults>>
    /\ UNCHANGED <<scratch, history>>

\* process_destroy: the page tables are freed one by one, and the root last.
DestroyProcess ==
    /\ At("destroy")
    /\ LET able == K.leaves = {} /\ K.caps = 0 /\ K.thread = "NONE" /\ ~L.image
       IN  \/ /\ able /\ Works /\ Forget
              /\ SetKernel(NoKernel) /\ frames' = frames + K.tables + 1
           \/ /\ able /\ Fails /\ Return
              /\ \E n \in 0 .. K.tables :
                     /\ SetKernel([K EXCEPT !.tables = @ - n]) /\ frames' = frames + n
              /\ UNCHANGED <<instance, history>>
           \/ ~able /\ Works /\ Return /\ UNCHANGED <<instance, kernel, frames, history>>
    /\ UNCHANGED scratch

-----------------------------------------------------------------------------
(* The rest of the system *)

\* The program's last thread exits, or faults.
Exit(i) ==
    /\ At("idle") /\ kernel[i].queued
    /\ \E reason \in {"NORMAL", "FAULT"} :
           kernel' = [kernel EXCEPT ![i] =
               Ended([kernel[i] EXCEPT !.thread = "DEAD", !.queued = FALSE], reason)]
    /\ Reported(i)
    /\ UNCHANGED <<instance, scratch, frames, faults, call, ran>>

\* A kernel thread could neither be created nor rolled back; nobody reclaims its stack.
OtherThreadFails ==
    /\ At("idle") /\ scratch["stack"] = None /\ frames > 0
    /\ faults > 1 /\ faults' = faults - 2
    /\ scratch' = [scratch EXCEPT !["stack"] = Other] /\ frames' = frames - 1
    /\ UNCHANGED <<instance, kernel, call, history>>

LaunchStep ==
    \/ CreateProcess \/ LoadImage \/ LoadPage \/ Unload \/ MapReadonly \/ MapBorrowed
    \/ AllocateStack \/ MapStack \/ InsertGrant \/ CreateThread \/ PrepareThread \/ Watch
    \/ Publish \/ LaunchFails

ReleaseStep ==
    \/ ReclaimScratch \/ CheckOwned \/ StopThreads \/ ReapThread \/ Revoke \/ UnmapPage
    \/ FreeStack \/ UnloadImage \/ DestroyProcess

Next ==
    \/ \E i \in Instances : Launch(i) \/ Terminate(i) \/ Reap(i) \/ Exit(i)
    \/ LaunchStep \/ ReleaseStep \/ OtherThreadFails

Spec == Init /\ [][Next]_vars

(* Fairness: a call runs to its end, and the owner of an instance that still *)
(* needs cleanup terminates it again.                                        *)
FairSpec ==
    /\ Spec /\ WF_vars(LaunchStep \/ ReleaseStep)
    /\ \A i \in Instances : SF_vars(Terminate(i))

-----------------------------------------------------------------------------
(* Properties *)

(* Every ledger, kernel object, scratch slot and counter is of its type. *)
TypeOK ==
    /\ instance \in [Instances ->
           [process_created : BOOLEAN, image : BOOLEAN,
            pages : UNION {[1 .. n -> BOOLEAN] : n \in 0 .. ImagePages},
            readonly : 0 .. ReadonlyPages, borrowed : 0 .. BorrowedPages,
            stack_frame : BOOLEAN, stack_mapped : BOOLEAN, handles : 0 .. Grants,
            thread_created : BOOLEAN, published : BOOLEAN, owes : SUBSET ScratchKinds]]
    /\ \A i \in Instances :
           /\ kernel[i].tables \in 0 .. TableLimit /\ kernel[i].caps \in 0 .. Grants
           /\ kernel[i].thread \in {"NONE", "READY", "DEAD"}
           /\ kernel[i].exit \in {"NONE", "NORMAL", "FAULT", "TERMINATED"}
    /\ scratch \in [ScratchKinds -> Instances \cup {None, Other}]
    /\ frames \in 0 .. Frames /\ faults \in 0 .. FaultLimit
    /\ call.step \in Steps /\ call.self \in Instances \cup {None}
    /\ ran \in [Instances -> BOOLEAN] /\ reports \in [Instances -> Nat]

(***************************************************************************)
(* At every step of every launch and release, whatever failed before, each *)
(* frame that is not free is accounted for exactly once, by a ledger, an   *)
(* object of the kernel or a scratch slot: rollback and retried cleanup    *)
(* neither leak a frame nor free one twice.  Between calls, what a failed  *)
(* launch left in a scratch slot is owed by the instance that was          *)
(* launched, and no instance owes what another constructor left.           *)
(***************************************************************************)
One(b) == IF b THEN 1 ELSE 0
Held(i) == One(kernel[i].process) + kernel[i].tables + Len(instance[i].pages)
           + One(instance[i].stack_frame) + One(kernel[i].thread # "NONE")
FramesAccounted ==
    /\ TypeOK
    /\ frames + MapThenSumSet(Held, Instances)
           + Cardinality({k \in ScratchKinds : scratch[k] # None}) = Frames
    /\ At("idle") => \A i \in Instances, k \in ScratchKinds :
                         k \in instance[i].owes <=> scratch[k] = i

(***************************************************************************)
(* A page that is mapped in a program's address space is one its instance  *)
(* still has in its ledger: no frame is freed under a mapping, and a       *)
(* borrowed page is not forgotten while the program can reach it.          *)
(***************************************************************************)
Ledger(i) ==
    {<<"image", n>> : n \in 1 .. Len(instance[i].pages)}
    \cup {<<"readonly", n>> : n \in 1 .. instance[i].readonly}
    \cup {<<"borrowed", n>> : n \in 1 .. instance[i].borrowed}
    \cup IF instance[i].stack_frame THEN {<<"stack", 1>>} ELSE {}
MappedIsOwned == \A i \in Instances : kernel[i].leaves \subseteq Ledger(i)

(* The abstract life of a program instance. *)
LifeOf(i) ==
    IF ran[i] THEN (IF kernel[i].exit = "NONE" THEN "RUNNING" ELSE "ENDED")
    ELSE IF ~NeedsCleanup(i) \/ (call.launching /\ self = i) THEN "FREE" ELSE "RETAINED"

(***************************************************************************)
(* Launch, termination, reaping and exit implement the promise of          *)
(* program.h: a failed launch never looks like a program that ended, and   *)
(* the storage of one that ran is free only after its end was reported.    *)
(***************************************************************************)
Life == INSTANCE ProgramLife WITH life <- [i \in Instances |-> LifeOf(i)]
ImplementsProgramLife == Life!Spec

(***************************************************************************)
(* Cleanup "can fail and remains retryable" (docs/RUNTIME_PROFILE.md): an  *)
(* instance whose owner keeps terminating it is released once the failures *)
(* stop.                                                                   *)
(***************************************************************************)
CleanupSucceeds == \A i \in Instances : NeedsCleanup(i) ~> ~NeedsCleanup(i)

\* Every frame is free or on exactly one ledger, and a page is mapped only while
\* its instance has it on its own (program_launch, release paths).
FramesOwned == FramesAccounted /\ MappedIsOwned
=============================================================================
