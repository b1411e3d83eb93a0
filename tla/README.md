# JCOS: TLA+ models and proofs

JCOS is an x86-64 microkernel for one processor. Kernel code runs with interrupts
masked; it is atomic except where a thread parks in the scheduler, where a kernel
thread deliberately unmasks, and where hardware acts on its own. These are the places
where the models have separate steps.

The project holds TLA+ modules for the kernel's mechanisms, its services and its device
drivers, TLC configurations that check them on small instances, and TLAPS proofs of the
most important results for every instance. `PROJECT.json` lists runs, properties,
mutants, the source lines each definition stands for, findings, hazards and theorems.

    tlc -config MCIpc.cfg MCIpc      # any run
    tlapm IpcProofs.tla              # any proof module

## 1. The system and its parts

| part | state | what is hard |
|---|---|---|
| scheduler | circular list through `run_next`, head, tail, count, saved frames, idle context | wakes from interrupts in the middle of a switch; the last thread leaving |
| thread wait protocol, endpoint IPC, task termination | wait fields of a thread, reverse links and mailbox of an endpoint, staged message, timeout table, exit record | an event between publication and park; decided but not resumed; tick wrap; siblings suspended in calls when the process dies |
| capabilities | per-process slot tables, boot-global generations, reference counts | handle reuse, exhaustion, counts under storage reuse |
| process exit queue | reserved slots, order ring, blocked receiver | two receivers, full ring, slots released out of order |
| frames, page tables | bitmap, trees of tables, ledgers of unlinked tables | wrapping ranges; a failure in the middle of a walk or of a destruction |
| programs and their images | image, stacks, page tables, grants, scratch slots | failure of any step and of its roll-back; sums that wrap in the file |
| managed services, supervisor | lifecycle, incarnation, two endpoints, exit event | late answers, observers that consume the exit event, several callers |
| console, brokers, portals, worker | endpoints, sessions, one slot for each kind of program, request and reply sequences | a launch or a read in progress when the console restarts |
| input, terminal, line editors | scan-code decoder, event ring, scrollback ring, line buffers | bytes split over polls; a line that wraps or is reused on the screen |
| framebuffer and native display | writers' count, outputs, lease, controller stage, rebind gate | a writer that dies while its alias is mapped; a driver that asks for the wrong register |
| surfaces, compositor, graphical session | masks, slots, focus, writer and reader of a surface | death of any party and failure of any step of the clean-up |
| capture of the scanout | snapshot, admission, mapping, hold | registers that change between two reads |
| PCI functions | assignment, BAR mappings, DMA buffers and submissions, taint, recovery | a device that writes on after its driver died; a reset with interrupts enabled |
| PCI interrupts | resource, binding, vector lease, I/O APIC entry | late vectors, shared lines, lost acknowledgements |
| AHCI, xHCI with a USB keyboard | command slots, rings with cycle bits, DMA pages | late completions, waits that run out, removal |
| boot archive, disks | tar records, partition tables, FAT chains | bounds and cycles in the data; two readers of one archive |
| loader, start-up, firmware tables, monitor, assets | | run once, or call the other parts one command at a time |

Who uses whom: services and brokers launch programs; a program owns a process,
threads, an address space, capabilities and an exit watch; threads block on endpoints
and on the exit queue, both of which use the scheduler; PCI interrupts publish events
with `ipc_try_send` from interrupt context; PCI recovery requires that the driver's
process has stopped; the console, the compositor and the display drivers are managed
services; the kernel hands them the framebuffer by lease.

`components` in `PROJECT.json` repeats this list with the source files and, for each
part that is not modelled, the reason. `hazards` lists, line by line, what a test
would hardly reach, with the properties that would catch it.

## 2. Modules

| module | models | abstracts |
|---|---|---|
| `Ipc` | `ipc.c`, `endpoint.c`, wait part of `thread.c`, `task.c` | a message is a value; which READY thread runs next is open |
| `IpcProofs` | proofs about `Ipc` | |
| `RunQueue` | what the run ring promises: a cyclic sequence of threads | |
| `Scheduler`, `SchedulerProofs` | `scheduler.c`, the context switch of `thread.c`; implements `RunQueue`; proofs | registers are one "frame saved" bit |
| `Capability`, `CapabilityProofs` | `capability.c`, the object counts of `object_storage.h`; proofs | an object is storage with an identity and a "no more grants" flag |
| `ExitEvents` | what the exit queue promises: reserved, ordered, exactly once | |
| `ExitQueue`, `ExitQueueProofs` | `process_exit_queue.c`; implements `ExitEvents`; proofs | outcome details |
| `FrameSource` | what the frame allocator promises: a frame is free or has one holder | |
| `Pmm`, `PmmProofs` | `pmm.c`; implements `FrameSource`; proofs | firmware descriptors do not overlap |
| `Vmm` | `vmm.c`, `address_space.c`, `kernel_stack.c` | frames are interchangeable; entry bits are flags |
| `ProgramLife` | what a program instance promises its owner | |
| `Program` | `program.c` with `process.c`, `thread.c`, `address_space.c`, `user_elf.c`, stacks; implements `ProgramLife` | a stack is one frame, page tables are counted, ELF validation is one fallible step |
| `Elf` | `user_elf.c`: what is accepted and what the program finds in memory | words modulo 32, pages of 2; the load goes into an empty address space |
| `ManagedService` | `managed_service.c`, on top of `ProgramLife` | the service program is arbitrary; it answers a request at most once |
| `Supervisor` | `supervisor.c`: the same lifecycle shared by several threads behind `g_rpc_owner` | |
| `Outcomes` | operators for one-thread operations that may fail half way, used by `Console` and `Display` | |
| `Console` | `system_console.c`, `userspace_shell.c`, `foreground_program.c`, `background_service.c`, commands of `user/console_service.c` | message words; printed text |
| `Portals` | `boot_archive_portal.c`, `console_portal.c`, `user/lib/boot_archive.c` | |
| `SerialWorker` | `serial_worker.c` | the operation is a number |
| `Input` | `ps2.c`, `input.c`, `input_router.c` | one key of every kind; a bare Escape on the serial line, known only by the byte after it, is left out |
| `Terminal`, `LineEditor` | `terminal.c`; `shell/editor.c` and the editor of `user/console_service.c` | a cell is a character and a colour |
| `Scanout` | `framebuffer.c`, `display.c`: admission of writers, outputs, retirement, lease | drawing enters and leaves |
| `Native` | `polaris_native.c`, `polaris_watch.c`, `polaris_driver.c`, `graphics_supervisor.c`, `user/graphics_policy.c`, on top of `Scanout` | the build with `JCOS_POLARIS_NATIVE_WRITE=1`; session and sequence numbers, because a failed request is final |
| `Rebind` | `polaris_broker.c`, `polaris_program_gate.c`, `polaris_plane.c` and the Ring-3 sequencer | a register value is good or bad, but for the pending bits and the frame counter |
| `Display` | `display_surface.c`, `display_service.c`, `compositor_service.c`, `graphical_session.c`, `input_router.c` | one surface in slot 0; parties die or hang between kernel operations |
| `Compose` | `user/compositor_service.c`, `user/display_service.c` and their kernel sides | colours are not converted; requests are well formed, as the kernel's are |
| `Capture` | `polaris_live_capture.c`, `polaris_observation.c`, `polaris_capture.c`, `polaris_mmio.c`, `device_register_reader.c` and the Ring-3 decoder | the build with `JCOS_POLARIS_LIVE_CAPTURE=1`; groups of registers that are checked together are one |
| `PciDevice`, `PciDeviceInvariant`, `PciDeviceProofs` | assignment, BAR, DMA and recovery files; proofs | device and mediator are external |
| `PciIrq`, `PciIrqProofs` | `pci_irq_resource.c`, `pci_irq_router.c`, `interrupt_controller.c`; proofs | the driver is external |
| `Ahci` | `ahci.c` | physical addresses; the controller is external |
| `Xhci` | `usb_xhci.c`, `usb_xhci_model.c`, `usb_core.c` | context words; the controller and the keyboard are external |
| `Archive` | `tar.c`, `vfs.c`, `user/lib/boot_archive.c` | a name is a sequence of components; octal fields and checksums are whether a block is a header |
| `Disk` | `block.c`, `partition.c`, `gpt.c`, `fat32.c` | a block holds two cells; checksums are whether a table is sound; disks are read-only, as the kernel registers them |
| `MCIpc`, `MCPciIrq`, `MCObjects`, `MCServices`, `MCDevices` | TLC instances; the last three run several components, one at a time | |

Names follow the source: a variable is named after the field or global it stands for,
an action after the function. Where one C call has park points or unmasked
stretches, it is several actions: `BeginWait` runs up to the park and `Resume` is one
pass of the wait loop after the thread runs again; `ManagedService` and `Supervisor`
step through their unmasked code one kernel call at a time (releasing a program is two
steps, stop and free, which allows more interleavings than the masked code);
`PciDevice` splits the recovery around the function level reset; `Capture`, `Ahci` and
`Xhci` interleave the processor's register accesses and waits with the device.
Operations of one thread that nobody can observe half done (`Console`, `Display`) are
operators from a state to the set of its outcomes, one for each place where a lower
layer may fail, and one action takes the whole call, trailing clean-up included.

`cpu_halt_forever()` is modelled as `halted' = TRUE`, so that reaching it can be
excluded by an invariant rather than by a missing successor. `\* Defect:` marks the
operators that only the mutants of `PROJECT.json` use: a plausible slip in the
definition that follows.

Bounds are constants and named: identities (`WaitIdLimit`, `EndpointIdLimit`,
`IdLimit`, `GenerationMax`, `IncarnationLimit`, `RequestLimit`, `SequenceLimit`) stand
for 64-bit counters and behave as the code does when the counter is exhausted; the
tick counter wraps at `2 * HalfRange`, the signed comparison being at half the range as
in the code; `FaultLimit` bounds how often lower operations fail in one behaviour.

## 3. What the runs show

`MCObjects`, `MCServices` and `MCDevices` choose a part in the initial state; a behaviour
is that part's, and the variables of the others are absent or stay as they are at boot.
The parts share nothing, so this is the same as a run for each. Where a component has
several invariants that belong together, the checked property is their conjunction; `PROJECT.json` has a mutant for
each of them.

**`ipc`** (3 threads, 2 processes, 1 endpoint, 2 messages, 3 waits, 4 ticks).
`NeverHalts`: no protocol check fails. `NoLostWakeup`: nobody sleeps past its event.
`MessagesKept`: every accepted message is received once and in order, and a sender is
told the truth. `TimeoutSlotAvailable`: the table suffices.

**`ipc_live`** (2 threads, endpoint storage reused once, 6 ticks, fairness).
`TimedCallsEnd`: a timed call returns, and ends by time only on its deadline, across the
wrap of the counter. `DecidedCallReturns`: a call whose event has happened returns.

**`scheduler`** (4 threads, fair timer). `RingKeepsOrder`: the linked list is a ring, it
implements `RunQueue`, and a saved frame is resumed once. `StableRingIsFair`: a ring that
nobody joins serves every member.

**`program`** (2 instances, 9 frames, 2 failures, fairness). `FramesOwned`: every frame is
free or on exactly one ledger, and what is mapped is owned. Refinement of `ProgramLife`.
`CleanupSucceeds`: repeated termination succeeds in the end.

**`managed_service`** (1 owner, 2 incarnations, 3 requests, 2 failures, fairness).
`ServesItsLife`: programs are used as `ProgramLife` allows, a request goes to the
incarnation its caller connected to, a stop is graceful only after a normal end.
`StopEnds`.

**`pci_irq`** (2 resources, level and edge, 1 vector, fairness). `DeliverySound`: masking
follows delivery and one event is outstanding. `InterruptReachesDriver`.

**`objects`**
- tables (2 tables of 2 slots, 1 object, 2 generations): `StaleHandlesStayDead`,
  `RefsExact`.
- exits (2 slots, 2 receivers, a poller, 3 process identities): `ImplementsExitEvents`,
  which includes that a watched process can always publish and no receiver sleeps past
  an event.
- frames (firmware maps at and beyond every boundary, bitmap of few frames):
  `ImplementsFrameSource`, which includes that the bitmap is exact.
- trees (10 frames, one address space beside the kernel's, two addresses in one
  table, 2 failures): `LedgerBalances`, every frame is in one tree,
  one ledger or free, also when a stack is mapped half way and rolled back; a leaf grants
  its flags; kernel entries are shared.

**`services`**
- supervisor (2 callers, 2 incarnations, 2 requests): `AnswerIsOwn`, answers are not mixed
  up, a stop by identity stops that supervisor, an end is recorded.
- console (4 starts, 3 sessions, 2 failures): `Recoverable`, the console is never stuck:
  without a program, or after one clean-up of the foreground program, one
  `userspace_shell_recover` in which nothing fails brings console and shell back. The
  recovery is called from the shell's loop only (the monitor's `usershell` just
  activates), and a program whose clean-up failed is cleaned up by the next foreground
  run only (`foreground_program.c:185`). Start-up and the shutdown of `power.c` are
  actions. `SessionsDoNotMix`, a session sees its own program only and authorities exist
  only within a launch.
- portals (an archive of 3 bytes, reads of 2, 2 clients): `ReadsAreExact`.
- serial (3 calls, 2 failures): `PoisonStopsDispatch`, after a failed call no operation
  begins.
- input (ring of 2, 3 presses): `EventsAreKeysPressed`, also for modifiers.
- editor (4 columns, 2 rows, 4 retained lines, 5 characters, 6 keys): `RowsShowLine`, for
  both editors, and the picture is that of the retained lines. Once the Ring-3 editor's
  short cut has sent a backspace in column 0, which the terminal ignores, the property
  excepts the line.
- native: `ScanoutGuarded`, one writer, every mapping on record, a frame presented only
  when complete; `RebindInTheDark`, the plane is reprogrammed only while nobody draws.
- rebind (2 polls, counter modulo 6): `PlaneFollowsPlan`, two stores in order whatever the
  driver sends, and an honest driver is never refused.
- session (4 failures, 6 programs): `SessionRecoverable`, no frame is freed under a
  mapping, the kernel draws alone, and clean-up without further failures gives everything
  back: one call when no service hangs, two when the compositor never becomes idle. A
  display service that hangs with the surface attached keeps surface and framebuffer
  until it dies (`display_service.c:471`); client, endpoint and compositor still go.
  A launch that failed with clean-up owed may still map a freed frame, but never runs.
- compose (screen of 3 by 2, surfaces of 2 by 1, 2 slots, 2 orders, two rectangles that
  overlap, 1 client write):
  `ComposedShowsStack`, the screen shows the surfaces in painter's order, and kernel and
  compositor agree on the focus.

**`devices`**
- pci (1 function, 2 drivers, 2 buffers, 2 mappings, 2 child resources, 1 caller): `NoReuseUnderDma`, no
  frame is reused while a device may access it, a submission excludes the processor,
  pins are exact, quiesced means quiet.
- capture (2 pipes, 3 fields, 2 pages, 2 changes): `SnapshotIsInstant`, a captured
  snapshot is a state the display was in; `NothingForgotten`, failures lose no mapping, pin or
  hold.
- archive (2 entries of 11 names and 2 sizes, 13 queries): `NamespacesAgree`, a file the
  Ring-3 reader finds is the one the kernel's mount gives, and both find every header under
  its own name. The converse is claimed for plain paths in an archive of plain, different
  names: `vfs_resolve` follows "." and ".." inside a path (`vfs.c:242-249`), the Ring-3
  reader compares an inner "." as text and refuses ".." (`boot_archive.c:172-199`).
- disk (every FAT of a small volume, every geometry, two partition tables, words modulo
  16, blocks that cannot be read): `ReadsMatchChain`, a read returns the chain's cells, and
  partitions stay within the disk. Reading a directory stops at its end mark, so a
  block that cannot be read behind it does no harm.
- ahci (2 ports, 1 disk, 3 sectors): `ReadsAreOwn`, data are those of the read. A slot that
  ran out of time stays busy, so later reads of the port are refused.
- xhci (2 ports, 2 slots, a command ring of 3 and a report ring
  of 2 with their links, an event ring of 3, 1 late wait):
  `KeyboardServed`, ready means configured, a report is decoded once, no event is read
  twice, DMA pages stay held while the controller may use them. A completion that arrives
  late is taken for the next of its type (`usb_xhci.c:600`); slot, configuration, protocol
  and endpoint of a ready keyboard are right all the same. That the device is a keyboard,
  that the decoded bytes are the report's, and that a running controller has all its
  pages are claimed while no wait has run out.
- elf (two segments at and beyond every boundary): `LoadedAsDescribed`, memory is what the
  file says in unbounded arithmetic.

**Why the bounds are enough to be interesting.** Three threads are the least for a
sender, a receiver and a third party that closes or kills; one endpoint puts them all
on it; two messages fill mailbox and staging. Two slots for more processes make the
exit queue full and its ring wrap. Nine frames do not hold two complete programs, so
launches also fail for lack of memory. Two incarnations let a late answer or a stale
identity meet the next service. One vector for two interrupt resources makes a late
vector meet its next lease. Rings of two and three entries, the last being the
link, and an event ring of three wrap in every conversation with the controller; words
modulo 16 or 32 make every sum in a header wrap. Every property has a mutant that the same run detects at these bounds.

**Deadlock** is checked in `ipc`, `ipc_live`, `scheduler`, `managed_service` and `pci_irq`.
In `objects`, `services` and `devices` the bounded identities, keys, calls or changes run
out and the system may really stop. In `program` a kernel-thread constructor whose
roll-back fails leaves its stack in `g_unpublished_stack`; no caller outside the tests
takes it back, and every later launch is refused, which the code documents as failing
closed.

**Symmetry** is declared only in runs without liveness: messages in `ipc`, callers in
`services`.

**Fairness.**
- `Ipc`: the timer keeps interrupting, and a thread that runs with interrupts masked
  reaches its next park or return: both weak fairness. Strong fairness of resuming
  each READY thread stands for the run ring, whose order `Ipc` leaves open; it is
  stronger than the ring gives when threads keep waking each other, because a woken
  thread is inserted before the head (`scheduler.c:187`). `StableRingIsFair` shows only
  that a ring nobody joins does serve every member, from the timer alone.
- `Program`: an owner that keeps retrying its termination; this is an assumption about
  owners, `docs/RUNTIME_PROFILE.md:96` only says that cleanup "remains retryable".
- `ManagedService`: the owner's code keeps running, and time passes while it waits.
- `PciIrq`: the hardware delivers what is asserted and unmasked, and the driver
  acknowledges the events it has received; both are external.

### Findings

1. **A healthy service can be marked FAILED** (`supervisor.c:175`, run
   `supervisor_ready_window`). `supervisor_wait_ready` reads "blocked in receive" and then
   "READY" in two unmasked steps. A service that blocks between the two is neither, and
   the wait gives up, although the comment at lines 455-458 says this window is settled.
   `managed_service.c:109-112` has the same shape.
2. **A late archive reply stops every restart of the console** (`system_console.c:440`,
   run `console_late_reply`). A service that is replaced while the portal owes it a reply
   leaves that reply in the endpoint; the start of its successor waits until the
   endpoint is empty, and nobody empties it. The passing run assumes that no call runs
   out of time in the middle of an archive read (`LateCalls`).
3. **A media launch that is refused a grant keeps its authorities** (`foreground_program.c:225`,
   run `console_no_display`). Without a firmware framebuffer, or without a free
   capability, the failure path skips `system_console_app_client_grant_end`. The passing
   run assumes that media grants are not refused (`MediaRefused`).

Two more places are worth a reader's attention, without a document that says otherwise.
After its reset `pci_device_recovery_complete_flr` checks the state of its recovery object
again, but not its identity; with two threads completing the same object
`NoReuseUnderDma` fails, but no caller in the repository does that.
`ahci_init` succeeds without a registered disk, which `kernel.c` then takes as a failure
of paging.

## 4. What is proved

TLAPS checks the following for every value of the constants that satisfies the named
assumptions, with no bound on threads, endpoints, messages, tables or objects.

**`IpcProofs`** (assumptions `IpcAssumption`: every
thread has a process, `None` is none of the objects, the identity limits and the timer
range are positive; `EndpointsFinite`: the endpoints are a finite pool).

| theorem | statement |
|---|---|
| `Inductive` | `Spec => []IInv` |
| `NoProtocolHalt` | none of the `cpu_halt_forever()` checks of `ipc.c` and `task.c` on waits, links, timeout slots and terminations can fail |
| `Agreement` | call frames, wait fields, timeout slots, links and staged messages agree |
| `NoSleepPastEvent` | a thread is BLOCKED only while its event has not happened |
| `ExitMeansStopped` | a published outcome means no thread of the process runs or waits |
| `PinnedEndpoint` | an endpoint keeps its identity under a suspended call |
| `DecidedOnce` | the first terminal result of a wait is final |
| `MessagesAreKept` | an endpoint delivers what it accepted once and in order, and a sender is told the truth |
| `TimeoutTableSuffices` | a timed wait always finds a free entry in the timeout table |
| `EndsOnDeadline` | a pending timed wait times out on the tick of its deadline and on no other, across the wrap of the counter |
| `Types` | type correctness |

The argument. `NeverHalts` and `NoLostWakeup` are not inductive: from a state in which
a link names a thread that waits for something else, the next wake-up goes astray and
the next pass of the wait loop halts. `ReservationsAgree` is the strengthening. It says
that the frame of a suspended call determines everything else: the wait fields of its
thread (kind, object, identity), the reverse link of its endpoint, its timeout slot
if it has one, and, while the wait is pending, that the endpoint is open and a sender's
message is still staged behind a full mailbox; conversely every link and every staged
message belongs to such a call; and only the current thread is RUNNING. Two
consequences carry the proof. `LinkFacts`: thread and link determine each other, so an
operation on one endpoint cannot disturb a call on another, nor the other direction of
the same endpoint. `Valid`: every check the code makes on a reservation succeeds, which
removes the halting branch of every action. There is then one lemma per action, in
sections by the part of the protocol they belong to: `DeliverInv` (the nonblocking send),
`ExpireInv` (the timer poll), `CloseInv` (closing an endpoint), `ReserveInv` (a new wait),
`ReturnInv` and `ResumeParkInv` (the wait loop), `TakeInv` (the receive with its promotion),
`StopInv` and `LeaveInv` (stopping threads, shared by terminate, quiesce, exit and fault).
`NextInv` puts them together. `Inductive` follows by temporal induction, the other
invariants by implication, and the action properties from `IInv` and a case split on
`Next`.

`MessagesKept` needs more, the conjunction `MInv`. It speaks of live endpoints and of
calls that have ended, so `EndpointsIssued` adds that a live endpoint has an identity of
its own, below the issuer, and that nothing is recorded under identities not issued
yet; `SendCalls` adds that each send call in progress owns its message alone. With
`IInv` this is inductive: a promotion moves the message of exactly one call into the
mailbox, and a call that is withdrawn takes its message along. `TimeoutTableSuffices` is
a counting argument: every thread with a timeout entry occupies a link of an endpoint,
two threads never the same (`TimedOccupiesLink`), and there are two links for each
endpoint. `EndsOnDeadline` rests on the deadlines of pending waits being ahead by less than
half the tick range, which makes the signed comparison agree with the order of events.

**`CapabilityProofs`** (assumption on the constants of `Capability`).

| theorem | statement |
|---|---|
| `HandlesUnique` | no (generation, index) pair is issued twice in a boot, whatever tables and objects are reused |
| `StaleHandles` | a handle that resolves is the grant it was issued for |
| `RefsAreExact` | an object's reference count is the number of capabilities naming it in all tables |

The inductive invariant says that every grant ever made at an index has a generation
below the index's issuer, that two grants of an index differ in generation, and that
every occupied slot carries the grant that filled it. `RefsAreExact` adds that the
count of each object is the cardinality of the set of slots naming it (`CountsExact`)
and that an occupied slot names an object that exists (`SlotsName`); it needs finitely
many tables, which `CapabilityAssumption` states.

**`SchedulerProofs`** (assumption `SchedulerAssumption`: the boot thread is a thread, `None`
is not, the threads are finitely many).

| theorem | statement |
|---|---|
| `RingIsKept` | the linked list is a ring and implements the cyclic order of `RunQueue`; no saved frame is resumed twice |

The invariant says that some function lists the members of the ring in the order of
their links (`Cycle`): without repetition, exactly the threads marked as queued, the
first being the head, the last the tail. `HopsOnCycle` shows that walking the links
follows the list, by a least counterexample, because induction schemes are out of the
prover's reach. `AddedCycle` and
`UnlinkedCycle` show that insertion before the head, and removal at the head, in the
middle or at the tail, map a listing to a listing; `JoinStep` and `WithdrawStep` that the
listing, read as a sequence, then takes the corresponding step of `RunQueue`;
`FindNextOnCycle` that the search for the next thread ends at the successor.

**`ExitQueueProofs`** (hypothesis `Parameters` of the theorem: the capacity is positive,
the limits are numbers, `None` is neither a process nor a receiver).

| theorem | statement |
|---|---|
| `EventsAreKept` | the slots with their order ring implement `ExitEvents`; a watched process can always publish; no receiver sleeps past an event or a close |

The inductive invariant: the entries of the order ring between head and tail name
different pending slots (`RingSound`); a watching slot and its process know each other
(`WatchSound`), and an identity names one process (`IdsSound`); the counters are the
cardinalities of the sets they count and fit in the capacity (`CountSound`); a queue that
does not exist is empty (`IdleSound`). `CountSound` is what guarantees a place in the ring:
a full ring would mean more pending slots than there are, and the publishing process
still has a watching one. `RingPush`, `RingPop` and `RingElsewhere` say what a change of
one slot does to the sequence of events that the ring stands for; the modulus is
reduced to at most one lap (`Turn`).

**`PciIrqProofs`** (assumption `PciIrqAssumption`: every resource has an input, the counts are
positive).

| theorem | statement |
|---|---|
| `DeliveryIsSound` | masking follows delivery, and one event is outstanding until the driver has consumed it, also when devices share an input |

The inductive invariant has four parts: sequence numbers of record, mailbox and driver
are ordered and an outstanding event is in the mailbox or consumed (`RecordsSound`); a
bound input has one binding, whose mask bit is the controller's (`BindingsAgree`); an
unmasked input belongs to an armed resource (`UnmaskedIsArmed`), and a resource that
serves has its input unmasked (`ArmedIsUnmasked`). The last two are each other's support:
a vector that arrives finds its armed resource, and masks the input again.

**`PciDeviceProofs`**, on top of `PciDeviceInvariant` (hypothesis `Parameters` of the theorem:
buffers, submissions, BARs, mappings and interrupts are finitely many, the limits are
numbers, `None` is none of the objects, and one thread at a time completes a recovery by
reset, as in the repository).

| theorem | statement |
|---|---|
| `DevicesAreSafe` | no frame that a device may still access is reused; a submission in flight excludes every access of the processor; the counters of an assignment are exactly the resources that pin it, so that no release or roll-back reaches `cpu_halt_forever()`; a quiesced function is quiet |

The four parts of `NoReuseUnderDma` need each other and five more facts. The counters
are those of the live resources (`Counted`), and a function without an owner has none
(`FreeUnpinned`): a release that the code takes for granted therefore finds something to
release. A BAR counts its mappings, and no mapping outlives its BAR (`ResourcesSound`); the
device holds exactly the buffers that are active or quarantined, and every submission has such a buffer
(`DmaSound`). A device that may still access memory has bus mastering on or carries the
taint, and once a recovery owns it, the recovery requires a reset (`RecoverySound`); the
recovery that a caller found when it entered the reset is the same when it returns
(`FlrSound`), which is where the single caller is used. There is one lemma per action.
`OwnerMoves`, `CpuStep` and `DmaMoves` collect what a step of each group has to show, so that
a lemma argues only about what its action changes. `BegunStep` is the longest: the sweeps of
a beginning recovery take any number of interrupts and mappings at once and may stop half
way, so counters drop by cardinalities (`Parted`), and QUIESCED is set only when all
sweeps were complete.

**`PmmProofs`** (hypothesis `Parameters` of the theorem: the sizes are numbers, the first usable
address is a frame boundary, and the usable descriptors of a firmware map do not overlap).

| theorem | statement |
|---|---|
| `FramesAreExact` | the bitmap implements `FrameSource`, so a frame is free or has one holder; bitmap, free count and holders agree in every state |

The ranges collected from a map are disjoint, lie within its descriptors and above the
first usable address (`RangesSound`). This is shown for the first k descriptors by a least
counterexample, and the same way that the lengths of the ranges add up to the number
of frames in them. It makes `free_pages`, which `pmm_init` computes by subtraction, the number
of clear bits. From then on `BitsSound` is kept: a bit is clear exactly for a managed
frame that nobody holds and that is not the bitmap's own; a release is checked as a
whole before the first bit is cleared.

**Only model-checked.** Liveness (`DecidedCallReturns`, `StableRingIsFair`,
`CleanupSucceeds`, `StopEnds`, `InterruptReachesDriver`, and that timed calls end in
`TimedCallsEnd`): the prover has no support for ENABLED and fairness. The refinement of
`ProgramLife`, and the properties of page tables, programs, services, the display and
storage: not proved yet, and out of reach where they rest on what a
recursive definition computes for every input (the tree walks of `Vmm`, the FAT chain of
`Disk`, the header walk of `Archive`).

## 5. What is not modelled

- The test hooks compiled into `ipc.c`, `thread.c` and `program.c`; they are never
  armed outside `kernel/tests`.
- Register contents, page-table bits, message words, glyphs and colours, text output.
- Multiprocessor execution: the kernel supports one logical processor
  (`docs/RUNTIME_PROFILE.md:11`).
- `block_write` and the write paths below it: every disk is registered read-only and
  nothing calls them.
- The parts listed as `not_modelled` in `PROJECT.json`, with their reasons: start-up code,
  the loader, firmware tables, the monitor's commands, single-register probes and
  tables of constants have no state beyond a call; the system-call layer checks
  arguments and performs one operation of `Ipc`, `Scheduler` or `Program`; the small
  Ring-3 services and sample programs are instances of the arbitrary programs those
  modules already contain.
