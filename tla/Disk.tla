-------------------------------- MODULE Disk --------------------------------
(***************************************************************************)
(* Storage above the disk driver: the block-device registry (block.c),     *)
(* partitions as block devices (partition.c), the GPT reader (gpt.c), the  *)
(* read-only FAT32 reader (fat32.c), the order in which kernel.c brings    *)
(* them up, and the shell's fatls and fatread commands.                    *)
(*                                                                         *)
(* A sector is Cells cells.  A cell holds one FAT entry, one directory     *)
(* entry or one unit of file data, and the data in a cell is named by      *)
(* where it lies, <<lba, cell>>, so that what a read returns says where it *)
(* was read from.  Block numbers are unsigned modulo Modulus.              *)
(***************************************************************************)
EXTENDS Integers, Sequences, FiniteSets

CONSTANTS
  Modulus,        \* block numbers are u64 in the code: arithmetic wraps here
  Blocks,         \* block_count of every disk
  Cells,          \* cells of a sector
  MaxDevices,     \* BLOCK_MAX_DEVICES
  MinClusters,    \* FAT32_MIN_CLUSTERS
  MaxClusters,    \* 0x0FFFFFF5, the most clusters a FAT32 volume may have
  Bad, Eoc,       \* FAT32_CLUSTER_BAD and the first end-of-chain value
  VolumeBase,     \* where the FAT32 volume lies on each disk
  Capacity,       \* directory entries a reader has room for
  Media,          \* the disks there may be, see Init
  MaxOffset, MaxCount  \* fatread's arguments

VARIABLES
  media,     \* what is on the disks
  stage,     \* how far the kernel's storage bring-up has come
  devices,   \* g_devices: the registered block devices
  gpt,       \* gpt.c's g_info
  fs,        \* fat32.c's g_info
  last       \* what the shell command being answered returned, and the blocks it read

diskVars == <<media, stage, devices, gpt, fs, last>>

NoGpt == [valid |-> FALSE, disk |-> 0, parts |-> <<>>]
NoFs == [valid |-> FALSE]
Nothing == [op |-> "none", ok |-> FALSE, data |-> <<>>, lbas |-> {}]

Smaller(a, b) == IF a < b THEN a ELSE b
First(indices) == CHOOSE k \in indices : \A j \in indices : k <= j
PowersOfTwo == {2^k : k \in 0 .. 7}

-----------------------------------------------------------------------------
(* Block devices                                                           *)

\* A disk has parent 0 and its own number; a partition lies in its parent.
RawDisk(d) == [name |-> <<d>>, parent |-> 0, disk |-> d, first |-> 0, count |-> Blocks]

block_find(devs, name) == \E i \in DOMAIN devs : devs[i].name = name

\* The registry afterwards, unchanged when the device is refused.
block_register(devs, dev) ==
  IF Len(devs) >= MaxDevices \/ dev.count = 0 \/ block_find(devs, dev.name)
    THEN devs
    ELSE Append(devs, dev)

valid_range(dev, lba, n) == n /= 0 /\ lba < dev.count /\ n <= dev.count - lba

Refused == [ok |-> FALSE, lbas |-> {}]

\* The driver's read (external): an unreadable block fails the whole read.
DriverRead(lba, n) ==
  LET range == lba .. (lba + n - 1) IN
    [ok |-> range \cap media.unreadable = {}, lbas |-> range]

ParentRead(dev, lba, n) ==
  IF valid_range(dev, lba, n) THEN DriverRead(lba, n) ELSE Refused

\* Defect: the partition's first block is not added.
ReadFromDiskStart(dev, lba, n) ==
  IF lba >= dev.count \/ n > dev.count - lba
    THEN Refused
    ELSE ParentRead(devices[dev.parent], lba, n)

partition_read(dev, lba, n) ==
  LET parent_lba == (dev.first + lba) % Modulus IN
    IF lba >= dev.count \/ n > dev.count - lba \/ parent_lba < dev.first
      THEN Refused
      ELSE ParentRead(devices[dev.parent], parent_lba, n)

block_read(dev, lba, n) ==
  IF ~valid_range(dev, lba, n) THEN Refused
  ELSE IF dev.parent = 0 THEN DriverRead(lba, n)
  ELSE partition_read(dev, lba, n)

partition_register(devs, parent, name, first, count) ==
  IF count = 0 \/ first >= devs[parent].count \/ count > devs[parent].count - first
    THEN devs
    ELSE block_register(devs, [name |-> name, parent |-> parent, disk |-> devs[parent].disk,
                               first |-> first, count |-> count])

-----------------------------------------------------------------------------
(* The partition table                                                     *)

\* Block 1 holds the header and block 2 the entries.  A table is sound when
\* its signature, sizes and both checksums are right.
gpt_probe(d) ==
  LET table == media.tables[devices[d].disk]
      kept == {i \in DOMAIN table.entries : /\ table.entries[i].used
                                            /\ table.entries[i].first <= table.entries[i].last}
  IN IF block_read(devices[d], 1, 1).ok /\ block_read(devices[d], 2, 1).ok /\ table.sound
       THEN [valid |-> TRUE, disk |-> d,
             parts |-> [k \in 1 .. Cardinality(kept) |->
                          LET i == CHOOSE i \in kept : Cardinality({j \in kept : j <= i}) = k
                          IN [index |-> i, esp |-> table.entries[i].esp, device |-> 0,
                              first |-> table.entries[i].first, last |-> table.entries[i].last]]]
       ELSE NoGpt

\* Partitions k, k+1, ... are registered in turn; the first one refused ends
\* the registration, and the ones before it stay registered.
RECURSIVE RegisterFrom(_, _, _)
RegisterFrom(k, devs, parts) ==
  IF k > Len(parts) THEN [ok |-> TRUE, devs |-> devs, parts |-> parts]
  ELSE LET p == parts[k]
           count == (p.last - p.first + 1) % Modulus
           after == partition_register(devs, gpt.disk, Append(devices[gpt.disk].name, p.index),
                                       p.first, count)
       IN IF after = devs
            THEN [ok |-> FALSE, devs |-> devs, parts |-> parts]
            ELSE RegisterFrom(k + 1, after, [parts EXCEPT ![k].device = Len(after)])

gpt_register_partitions == RegisterFrom(1, devices, gpt.parts)

\* The device of the first registered EFI system partition, or 0.
gpt_efi_system_partition ==
  LET found == {k \in DOMAIN gpt.parts : gpt.parts[k].esp /\ gpt.parts[k].device /= 0} IN
    IF ~gpt.valid \/ found = {} THEN 0
    ELSE gpt.parts[First(found)].device

-----------------------------------------------------------------------------
(* The FAT32 volume                                                        *)

\* The boot sector is found only where the volume begins.
fat32_probe(dev) ==
  LET b == media.boot
      first_data == b.reserved + b.fats * b.spf
      clusters == (b.total - first_data) \div b.spc
  IN IF /\ dev /= 0
        /\ block_read(devices[dev], 0, 1).ok
        /\ devices[dev].first = VolumeBase
        /\ b.spc \in PowersOfTwo
        /\ b.reserved /= 0
        /\ b.fats \in {1, 2}
        /\ b.spf /= 0
        /\ b.total /= 0
        /\ b.total <= devices[dev].count
        /\ first_data < b.total
        /\ clusters \in MinClusters .. MaxClusters
        /\ b.root >= 2
        /\ b.root - 2 < clusters
       THEN [valid |-> TRUE, dev |-> dev, spc |-> b.spc, root |-> b.root, first_fat |-> b.reserved,
             first_data |-> first_data, clusters |-> clusters]
       ELSE NoFs

fsRead(lba) == block_read(devices[fs.dev], lba, 1)

ClusterCells == fs.spc * Cells

cluster_to_lba(cluster) ==
  LET lba == fs.first_data + (cluster - 2) * fs.spc IN
    [ok |-> /\ cluster >= 2
            /\ cluster - 2 < fs.clusters
            /\ lba < devices[fs.dev].count,
     lba |-> lba]

\* What cell `at' of a sector of the disk says when it is read as a FAT entry:
\* an entry of the FAT, or whatever else lies there.
FatWord(lba, at) ==
  LET entry == (lba - VolumeBase - media.boot.reserved) * Cells + at IN
    IF entry \in DOMAIN media.fat THEN media.fat[entry] ELSE (lba + at) % (Eoc + 1)

fat32_next_cluster(cluster) ==
  LET lba == fs.first_fat + cluster \div Cells
      read == fsRead(lba)
  IN IF cluster < 2 \/ lba >= devices[fs.dev].count \/ ~read.ok
       THEN [ok |-> FALSE, next |-> 0, lbas |-> read.lbas]
       ELSE [ok |-> TRUE, lbas |-> read.lbas,
             next |-> FatWord(CHOOSE l \in read.lbas : TRUE, cluster % Cells)]

fat32_is_eoc(cluster) == cluster >= Eoc

Unusable(cluster) == cluster = Bad \/ cluster < 2

\* The cells of a cluster from the one at `from', `amount' of them.
Piece(lba, from, amount) ==
  [k \in 1 .. amount |-> <<devices[fs.dev].first + lba + (from + k - 1) \div Cells,
                           (from + k - 1) % Cells>>]

SectorsRead(lba, from, amount) ==
  [s \in (from \div Cells) .. ((from + amount - 1) \div Cells) |-> fsRead(lba + s)]

Failed(lbas) == [ok |-> FALSE, data |-> <<>>, lbas |-> lbas]

\* Sectors are read one by one; the first that cannot be read is the last tried.
AllRead(reads) == \A s \in DOMAIN reads : reads[s].ok
Touched(reads) ==
  UNION {reads[s].lbas : s \in {n \in DOMAIN reads : \A m \in DOMAIN reads : m < n => reads[m].ok}}

Kept(entries) == SelectSeq(entries, LAMBDA e : e.kind \in {"file", "dir"})

\* The entries of the directory from its first cluster on, up to the end mark.
\* Each sector is looked through before the next is read: the end mark, or one
\* entry too many, leaves the sectors behind it unread.
RECURSIVE ReadDirectory(_, _, _, _)
ReadDirectory(cluster, visited, found, lbas) ==
  LET at == cluster_to_lba(cluster)
      cells == Piece(at.lba, 0, ClusterCells)
      entries == [k \in DOMAIN cells |-> IF cells[k] \in DOMAIN media.dir
                                           THEN media.dir[cells[k]] ELSE [kind |-> "end"]]
      upTo(k) == found \o Kept(SubSeq(entries, 1, k))
      stops == {k \in DOMAIN entries : entries[k].kind = "end" \/ Len(upTo(k)) > Capacity}
      stop == IF stops = {} THEN ClusterCells ELSE First(stops)
      reads == SectorsRead(at.lba, 0, stop)
      touched == lbas \cup Touched(reads)
      step == fat32_next_cluster(cluster)
  IN IF visited > fs.clusters \/ ~at.ok THEN Failed(lbas)
     ELSE IF ~AllRead(reads) \/ Len(upTo(stop)) > Capacity THEN Failed(touched)
     ELSE IF stops /= {} THEN [ok |-> TRUE, data |-> upTo(stop), lbas |-> touched]
     ELSE IF ~step.ok THEN Failed(touched \cup step.lbas)
     ELSE IF fat32_is_eoc(step.next)
       THEN [ok |-> TRUE, data |-> upTo(stop), lbas |-> touched \cup step.lbas]
     ELSE IF Unusable(step.next) THEN Failed(touched \cup step.lbas)
     ELSE ReadDirectory(step.next, visited + 1, upTo(stop), touched \cup step.lbas)

fat32_read_root == ReadDirectory(fs.root, 0, <<>>, {})

\* The first entry of that name.
FindIn(root, name) ==
  LET named == {k \in DOMAIN root.data : root.data[k].name = name} IN
    IF ~root.ok \/ named = {} THEN [ok |-> FALSE, lbas |-> root.lbas]
    ELSE [ok |-> TRUE, lbas |-> root.lbas, entry |-> root.data[First(named)]]

fat32_find_root(name) == FindIn(fat32_read_root, name)

\* Defect: the search for the offset's cluster stops one cluster early.
RECURSIVE SkipsOneLess(_, _, _, _)
SkipsOneLess(cluster, skip, visited, lbas) ==
  LET step == fat32_next_cluster(cluster) IN
    IF skip <= 1 THEN [ok |-> TRUE, cluster |-> cluster, visited |-> visited, lbas |-> lbas]
    ELSE IF visited + 1 > fs.clusters \/ ~step.ok \/ fat32_is_eoc(step.next) \/ Unusable(step.next)
      THEN Failed(lbas)
      ELSE SkipsOneLess(step.next, skip - 1, visited + 1, lbas \cup step.lbas)

\* Follow the chain to the cluster that holds the offset.
RECURSIVE SkipClusters(_, _, _, _)
SkipClusters(cluster, skip, visited, lbas) ==
  LET step == fat32_next_cluster(cluster) IN
    IF skip = 0 THEN [ok |-> TRUE, cluster |-> cluster, visited |-> visited, lbas |-> lbas]
    ELSE IF visited + 1 > fs.clusters THEN Failed(lbas)
    ELSE IF ~step.ok \/ fat32_is_eoc(step.next) \/ Unusable(step.next)
      THEN Failed(lbas \cup step.lbas)
      ELSE SkipClusters(step.next, skip - 1, visited + 1, lbas \cup step.lbas)

RECURSIVE ReadClusters(_, _, _, _, _, _)
ReadClusters(cluster, from, remaining, visited, data, lbas) ==
  LET at == cluster_to_lba(cluster)
      amount == Smaller(remaining, ClusterCells - from)
      reads == SectorsRead(at.lba, from, amount)
      touched == lbas \cup Touched(reads)
      all == data \o Piece(at.lba, from, amount)
      step == fat32_next_cluster(cluster)
  IN IF visited + 1 > fs.clusters \/ ~at.ok THEN Failed(lbas)
     ELSE IF ~AllRead(reads) THEN Failed(touched)
     ELSE IF remaining = amount THEN [ok |-> TRUE, data |-> all, lbas |-> touched]
     ELSE IF ~step.ok \/ fat32_is_eoc(step.next) \/ Unusable(step.next)
       THEN Failed(touched \cup step.lbas)
       ELSE ReadClusters(step.next, 0, remaining - amount, visited + 1, all, touched \cup step.lbas)

ReadFrom(start, from, remaining) ==
  IF start.ok THEN ReadClusters(start.cluster, from, remaining, start.visited, <<>>, start.lbas) ELSE start

fat32_read_file(entry, offset, size) ==
  IF entry.kind = "dir" THEN Failed({})
  ELSE IF size = 0 \/ offset >= entry.size THEN [ok |-> TRUE, data |-> <<>>, lbas |-> {}]
  ELSE IF entry.first < 2 THEN Failed({})
  ELSE ReadFrom(SkipClusters(entry.first, offset \div ClusterCells, 0, {}), offset % ClusterCells,
                Smaller(size, entry.size - offset))

-----------------------------------------------------------------------------
(* Bring-up and the shell                                                  *)

\* The disks the driver found are registered; nothing has been probed.
Init ==
  /\ media \in Media
  /\ stage = "probe"
  /\ devices = [d \in DOMAIN media.tables |-> RawDisk(d)]
  /\ gpt = NoGpt
  /\ fs = NoFs
  /\ last = Nothing

\* The first disk that has a partition table.
ProbeDisks ==
  /\ stage = "probe"
  /\ LET found == {d \in DOMAIN devices : gpt_probe(d).valid} IN
       gpt' = IF found = {} THEN NoGpt
              ELSE gpt_probe(First(found))
  /\ stage' = "partitions"
  /\ UNCHANGED <<media, devices, fs, last>>

\* A refused registration leaves the volume unprobed.
DiscoverPartitions ==
  /\ stage = "partitions"
  /\ IF gpt.valid
       THEN LET done == gpt_register_partitions IN
              /\ devices' = done.devs
              /\ gpt' = [gpt EXCEPT !.parts = done.parts]
              /\ stage' = IF done.ok THEN "volume" ELSE "ready"
       ELSE stage' = "ready" /\ UNCHANGED <<devices, gpt>>
  /\ UNCHANGED <<media, fs, last>>

ProbeVolume ==
  /\ stage = "volume"
  /\ fs' = fat32_probe(gpt_efi_system_partition)
  /\ stage' = "ready"
  /\ UNCHANGED <<media, devices, gpt, last>>

Listed(root) == [op |-> "list", ok |-> root.ok, data |-> root.data, lbas |-> root.lbas]

command_fatls ==
  /\ stage = "ready" /\ fs.valid /\ last = Nothing
  /\ last' = Listed(fat32_read_root)
  /\ UNCHANGED <<media, stage, devices, gpt, fs>>

\* A failed read prints nothing of what it had copied.
Delivered(read, found, offset, count) ==
  [op |-> "read", ok |-> read.ok, data |-> read.data, lbas |-> found.lbas \cup read.lbas,
   entry |-> found.entry, offset |-> offset, count |-> count]

Answer(found, offset, count) ==
  IF ~found.ok \/ found.entry.kind = "dir" THEN [Nothing EXCEPT !.op = "lookup", !.lbas = found.lbas]
  ELSE Delivered(fat32_read_file(found.entry, offset, count), found, offset, count)

command_fatread(name, offset, count) ==
  /\ stage = "ready" /\ fs.valid /\ last = Nothing
  /\ last' = Answer(fat32_find_root(name), offset, count)
  /\ UNCHANGED <<media, stage, devices, gpt, fs>>

\* The result is printed and the shell prompts again.
Prompt ==
  /\ last /= Nothing
  /\ last' = Nothing
  /\ UNCHANGED <<media, stage, devices, gpt, fs>>

Next ==
  \/ ProbeDisks
  \/ DiscoverPartitions
  \/ ProbeVolume
  \/ command_fatls
  \/ \E name \in {"a", "b"}, offset \in 0 .. MaxOffset, count \in 0 .. MaxCount :
       command_fatread(name, offset, count)
  \/ Prompt

Spec == Init /\ [][Next]_diskVars

-----------------------------------------------------------------------------
(* Properties                                                              *)

\* Every partition the GPT reader registers (partition_register) lies within
\* its disk whatever the table says, no two devices share a name, and what
\* the FAT32 reader reads through the EFI system partition, however corrupt
\* the FAT, are blocks of that partition and of no other.
PartitionsConfined ==
  /\ \A i, j \in DOMAIN devices : i /= j => devices[i].name /= devices[j].name
  /\ \A i \in DOMAIN devices : devices[i].count >= 1 /\ devices[i].first + devices[i].count <= Blocks
  /\ fs.valid => \A lba \in last.lbas :
       lba \in devices[fs.dev].first .. (devices[fs.dev].first + devices[fs.dev].count - 1)

\* The file's clusters by the FAT as it was written, up to the first link that
\* leaves the volume.
RECURSIVE Chain(_, _)
Chain(cluster, n) ==
  IF n = 0 \/ cluster \notin 2 .. (fs.clusters + 1) \/ cluster \notin DOMAIN media.fat THEN <<>>
  ELSE <<cluster>> \o Chain(media.fat[cluster], n - 1)

\* fat32_read_file returns the bytes of the file: where the chain reaches as
\* far as the request does, a read that succeeds returns the cells of the
\* chain's clusters from the offset on, in order, cut at the file's size; and
\* it succeeds when none of its blocks is unreadable.  The volume fat32_probe
\* accepts never makes such a read fail, and a chain that goes round never
\* makes one run on: a request longer than the volume is refused.
ReadsMatchChain ==
  last.op = "read" /\ last.entry.size > last.offset /\ last.count > 0 =>
    LET want == Smaller(last.count, last.entry.size - last.offset)
        needed == (last.offset + want + ClusterCells - 1) \div ClusterCells
        chain == Chain(last.entry.first, needed)
        place(k) == LET c == last.offset + k - 1 IN
          <<VolumeBase + media.boot.reserved + media.boot.fats * media.boot.spf
              + (chain[c \div ClusterCells + 1] - 2) * fs.spc + (c % ClusterCells) \div Cells,
            c % Cells>>
    IN /\ needed > fs.clusters => ~last.ok
       /\ Len(chain) = needed /\ needed <= fs.clusters =>
            /\ last.ok => last.data = [k \in 1 .. want |-> place(k)]
            /\ media.unreadable = {} => last.ok
=============================================================================
