----------------------------- MODULE MCDevices -----------------------------
(***************************************************************************)
(* Assigned PCI devices, the capture of the scanout, storage, the keyboard *)
(* and the program loader, one at a time.  A behaviour is one component's; *)
(* the variables of the others are absent (0) in it, and the assigned      *)
(* devices, whose module this one extends, stay as they are at boot.       *)
(***************************************************************************)
EXTENDS PciDevice, Sequences, TLC

CONSTANT Parts

VARIABLES
  part,
  gpu, run, service, pairing, binding, reader, probe,
  image, mount, walk,
  media, stage, devices, gpt, fs, last,
  attached, hba, memory, port, cpu,
  usb, hc, mem, x, late,
  file, loaded

capture == <<gpu, run, service, pairing, binding, reader, probe>>
archive == <<image, mount, walk>>
disk == <<media, stage, devices, gpt, fs, last>>
ahci == <<attached, hba, memory, port, cpu>>
xhci == <<usb, hc, mem, x, late>>
elf == <<file, loaded>>

-----------------------------------------------------------------------------
(* The components on their small instances *)

Capture == INSTANCE Capture WITH Pipes <- 2, Pages <- 2, MaxChanges <- 2, assignment <- pairing

Header(p, m) == [prefix |-> p, name |-> m]

Archive == INSTANCE Archive WITH
  Block <- 2, MaxNodes <- 3, Chunk <- 2, Sizes <- {0, 3}, MaxEntries <- 2,
  Names <- {Header(<<>>, <<".", "">>), Header(<<>>, <<".", "a">>), Header(<<>>, <<".", "a", "">>),
            Header(<<>>, <<".", "a", "b">>), Header(<<>>, <<"a">>), Header(<<>>, <<"..", "b">>),
            Header(<<".", "a">>, <<"b">>), Header(<<".", "a">>, <<"b", "">>),
            Header(<<>>, <<"a", ".", "b">>), Header(<<>>, <<".", "", "a">>), Header(<<>>, <<"a", "..", "b">>)},
  Queries <- {<<"a">>, <<"", "a">>, <<"a", "b">>, <<"", "a", "b">>, <<"a", "a">>, <<"a", "b", "">>, <<".", "a", "b">>,
              <<"a", "", "b">>, <<".", "", "a">>, <<"a", ".", "b">>, <<"a", "..", "a", "b">>, <<"..", "a">>, <<"a", "..">>}

Ahci == INSTANCE Ahci WITH Ports <- 1 .. 2, Sectors <- 3, MaxCount <- 2, MaxDisks <- 1, driver <- cpu

Xhci == INSTANCE Xhci WITH
  NPorts <- 2, NSlots <- 2, RingSize <- 3, ReportRing <- 2, EventRing <- 3, QueueSize <- 2, Pages <- 2, Scratchpads <- 2,
  MaxLate <- 1, Reports <- {[shift |-> TRUE, keys |-> <<"a", "caps">>], [shift |-> FALSE, keys |-> <<>>]}

-----------------------------------------------------------------------------
(* Disks: every FAT of a small volume; every geometry with a block that    *)
(* cannot be read; every pair of partition entries in two tables.          *)

Partition(esp, first, end) == [used |-> TRUE, esp |-> esp, first |-> first, last |-> end]
Unused == [used |-> FALSE, esp |-> FALSE, first |-> 0, last |-> 0]
File(m, first, size) == [kind |-> "file", name |-> m, first |-> first, size |-> size]
Directory(m, first) == [kind |-> "dir", name |-> m, first |-> first, size |-> 0]
Mark(k) == [kind |-> k]
Table(sound, entries) == [sound |-> sound, entries |-> entries]
Boot(reserved, fats, spf, total, spc, root) ==
  [reserved |-> reserved, fats |-> fats, spf |-> spf, total |-> total, spc |-> spc, root |-> root]

PlainTable == <<Table(TRUE, <<Partition(TRUE, 3, 10)>>)>>
PlainBoot == Boot(1, 1, 3, 8, 1, 2)
PlainBoots == {PlainBoot, Boot(1, 1, 3, 8, 2, 2)}
Boots == PlainBoots \cup
  {Boot(0, 1, 3, 8, 1, 2), Boot(1, 0, 3, 8, 1, 2), Boot(1, 2, 2, 8, 1, 2), Boot(1, 3, 1, 8, 1, 2),
   Boot(1, 1, 3, 9, 1, 2), Boot(1, 1, 7, 8, 1, 2), Boot(1, 1, 3, 8, 3, 2), Boot(1, 1, 3, 8, 1, 6),
   Boot(1, 1, 3, 7, 1, 5), Boot(1, 1, 3, 8, 1, 1)}
PlainDir == (<<7, 0>> :> File("a", 3, 4)) @@ (<<7, 1>> :> File("b", 4, 3))
ShortDir == <<7, 0>> :> File("a", 3, 4)
LongDir ==
  (<<7, 0>> :> Mark("deleted")) @@ (<<7, 1>> :> File("a", 3, 5)) @@ (<<8, 0>> :> Mark("lfn"))
  @@ (<<8, 1>> :> Directory("b", 4)) @@ (<<10, 0>> :> Mark("label")) @@ (<<10, 1>> :> File("a", 4, 3))
Fats == {t \in [0 .. 5 -> {0, 3, 4, 5, 6, 14, 15}] : t[0] = 15 /\ t[1] = 15 /\ t[2] \in {5, 15}}
PlainFat == [e \in 0 .. 5 |-> CASE e = 3 -> 5 [] e = 5 -> 4 [] OTHER -> 15]
Medium(t, b, fat, dir, u) == [tables |-> t, boot |-> b, fat |-> fat, dir |-> dir, unreadable |-> u]
Entries == {Unused} \cup {Partition(e, p, q) : e \in BOOLEAN, p \in {0, 3, 5, 12}, q \in {2, 10, 11, 15}}
Tables == {<<Table(s, <<p, q>>), Table(t, <<Partition(TRUE, 3, 10), p>>)>> : s, t \in BOOLEAN, p, q \in Entries}

Disk == INSTANCE Disk WITH
  Modulus <- 16, Blocks <- 12, Cells <- 2, MaxDevices <- 3, MinClusters <- 2, MaxClusters <- 12, Bad <- 14, Eoc <- 15,
  VolumeBase <- 3, Capacity <- 2, MaxOffset <- 5, MaxCount <- 4,
  Media <- {Medium(PlainTable, b, t, d, {}) : b \in PlainBoots, t \in Fats, d \in {PlainDir, LongDir}}
           \cup {Medium(PlainTable, b, PlainFat, d, u) :
                   b \in Boots, d \in {PlainDir, ShortDir}, u \in {{}, {1}, {4}, {5}, {7}, {8}, {9}}}
           \cup {Medium(t, PlainBoot, PlainFat, PlainDir, {}) : t \in Tables}

-----------------------------------------------------------------------------
(* Program files: sizes and addresses at and beyond every boundary, and    *)
(* sums that wrap.                                                         *)

Segment(type, flags, offset, address, filesz, memsz, align) ==
  [type |-> type, flags |-> flags, offset |-> offset, virtual_address |-> address,
   file_size |-> filesz, memory_size |-> memsz, alignment |-> align]

Elf == INSTANCE Elf WITH
  Modulus <- 32, PageSize <- 2, UserBase <- 2, UserLimit <- 20, StackBase <- 14, MaxLoadPages <- 5, MaxPhdrs <- 2,
  image <- loaded,
  Headers <- [magic : {TRUE}, size : {24}, table : {2}, entry : {4, 5}]
             \cup [magic : BOOLEAN, size : {24}, table : {23, 31}, entry : {4}],
  Firsts <- {<<>>} \cup
    {<<Segment("LOAD", fl, o, v, s, m, a)>> :
       fl \in {{"X"}, {"W"}, {"W", "X"}}, o \in {0, 3, 24}, v \in {1, 2, 4, 5, 9, 11, 18, 19, 20},
       s \in {0, 1, 9}, m \in {0, 1, 3, 9, 31}, a \in {0, 2, 3}},
  Seconds <- {<<>>, <<Segment("LOAD", {"X"}, 1, 4, 1, 2, 0)>>, <<Segment("LOAD", {"W"}, 2, 7, 2, 2, 0)>>,
              <<Segment("LOAD", {"X"}, 2, 3, 2, 3, 0)>>, <<Segment("NOTE", {}, 1, 4, 1, 2, 0)>>,
              <<Segment("TLS", {}, 1, 4, 1, 2, 0)>>}

-----------------------------------------------------------------------------
DevicesInit ==
  /\ part \in Parts
  /\ IF part = "capture" THEN Capture!Init
     ELSE gpu = 0 /\ run = 0 /\ service = 0 /\ pairing = 0 /\ binding = 0 /\ reader = 0 /\ probe = 0
  /\ IF part = "archive" THEN Archive!Init ELSE image = 0 /\ mount = 0 /\ walk = 0
  /\ IF part = "disk" THEN Disk!Init ELSE media = 0 /\ stage = 0 /\ devices = 0 /\ gpt = 0 /\ fs = 0 /\ last = 0
  /\ IF part = "ahci" THEN Ahci!Init ELSE attached = 0 /\ hba = 0 /\ memory = 0 /\ port = 0 /\ cpu = 0
  /\ IF part = "xhci" THEN Xhci!Init ELSE usb = 0 /\ hc = 0 /\ mem = 0 /\ x = 0 /\ late = 0
  /\ IF part = "elf" THEN Elf!Init ELSE file = 0 /\ loaded = 0
  /\ Init /\ (part # "pci" => \A a \in Assignments : command[a] = "IDLE")

DevicesNext ==
  /\ UNCHANGED part
  /\ \/ part = "capture" /\ Capture!Next
        /\ UNCHANGED <<archive, disk, ahci, xhci, elf, vars>>
     \/ part = "archive" /\ Archive!Next
        /\ UNCHANGED <<capture, disk, ahci, xhci, elf, vars>>
     \/ part = "disk" /\ Disk!Next
        /\ UNCHANGED <<capture, archive, ahci, xhci, elf, vars>>
     \/ part = "ahci" /\ Ahci!Next
        /\ UNCHANGED <<capture, archive, disk, xhci, elf, vars>>
     \/ part = "xhci" /\ Xhci!Next
        /\ UNCHANGED <<capture, archive, disk, ahci, elf, vars>>
     \/ part = "elf" /\ Elf!Next
        /\ UNCHANGED <<capture, archive, disk, ahci, xhci, vars>>
     \/ part = "pci" /\ Next
        /\ UNCHANGED <<capture, archive, disk, ahci, xhci, elf>>

DevicesSpec == DevicesInit /\ [][DevicesNext]_<<part, capture, archive, disk, ahci, xhci, elf, vars>>

-----------------------------------------------------------------------------
\* A captured snapshot is a state the display really was in
\* (polaris_observation_accept, polaris_vram_observe).
SnapshotIsInstant == part = "capture" => Capture!SnapshotIsInstant

\* No failure of a capture loses track of a mapping, a pin or a hold
\* (polaris_mmio.c cleanup_locked, polaris_live_capture.c cleanup_capture).
NothingForgotten == part = "capture" => Capture!NothingForgotten

\* The kernel's mount and the Ring-3 reader show the same files of the boot
\* archive: what Ring 3 finds is what the kernel resolves, for any path, and the
\* converse holds for paths and headers without a "." or ".." on the way, which
\* only the kernel follows.  The kernel's nodes are sound however the archive is
\* cut or refused (tar_mount, vfs_resolve, jcos_boot_archive_find).
NamespacesAgree == part = "archive" => Archive!NamespacesAgree /\ Archive!NodesSound

\* Reads stay within their partition and return the cells of the file's cluster
\* chain, whatever the tables and the FAT say (partition_read, fat32_read_file).
ReadsMatchChain == part = "disk" => Disk!ReadsMatchChain /\ Disk!PartitionsConfined

\* A read of a SATA disk returns its own sectors although commands time out and
\* complete late (ahci_read_one_sector).
ReadsAreOwn == part = "ahci" => Ahci!ReadsAreOwn

\* A keyboard reported ready has a slot, a configuration and an endpoint of its
\* own although waits run out and their answers come late; while no wait has run
\* out it is a keyboard, every report is decoded once, and the controller has all
\* of its pages or none (xhci_init, wait_completion, xhci_poll,
\* release_dma_resources).
KeyboardServed == part = "xhci" => Xhci!ConfiguredWhenReady /\ Xhci!ReportsDecodedOnce /\ Xhci!DmaHeld

\* A loaded program is in memory what its file describes (validate_segments,
\* map_segment).
LoadedAsDescribed == part = "elf" => Elf!LoadedAsDescribed
=============================================================================
