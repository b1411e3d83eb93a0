-------------------------------- MODULE Ahci --------------------------------
(***************************************************************************)
(* The AHCI driver (ahci.c): bring-up of the controller's ports, IDENTIFY, *)
(* registration of the disks found, and reads of one command per sector    *)
(* through a bounce buffer, by polling; and the kernel's switch of the     *)
(* driver to the physical map, with the read that tries it (kernel.c).     *)
(*                                                                         *)
(* The controller (external) works beside the CPU: it fetches the command  *)
(* in slot 0 some time after the slot is issued, writes the bounce buffer, *)
(* and clears the slot; or it raises a task-file error, after which the    *)
(* port stands still; or it takes longer than the driver polls.            *)
(***************************************************************************)
EXTENDS Integers, Sequences, FiniteSets

CONSTANTS
  Ports,        \* the ports, in the order ahci_init visits them: 1 .. n
  Sectors,      \* sector_count every drive reports
  MaxCount,     \* the most sectors a read asks for
  MaxDisks      \* 26: sda .. sdz

VARIABLES
  attached,     \* what is attached to each port
  hba,          \* each port's registers, and what its engine has fetched
  memory,       \* each port's command table and buffers
  port,         \* g_ports and g_info.ports
  driver        \* what the CPU is doing

ahciVars == <<attached, hba, memory, port, driver>>

Free == [op |-> "none", lba |-> 0]

\* The CPU between operations; `mapped' is g_use_phys_map.
At(place, p, mapped) ==
  [at |-> place, port |-> p, mapped |-> mapped, op |-> "none", lba |-> 0, count |-> 0, out |-> <<>>]

Nobody == [initialized |-> FALSE, identified |-> FALSE, disk |-> 0]

IsDisk(p) == port[p].disk /= 0
Disks == {p \in Ports : IsDisk(p)}

Init ==
  /\ attached \in [Ports -> {"none", "sata", "other"}]
  /\ hba = [p \in Ports |-> [ci |-> FALSE, tfes |-> FALSE, fetched |-> Free]]
  /\ memory = [p \in Ports |-> [table |-> Free, buffer |-> Free]]
  /\ port = [p \in Ports |-> Nobody]
  /\ driver = At("boot", 1, FALSE)

-----------------------------------------------------------------------------
(* The controller (external)                                               *)

Fetch(p) ==
  /\ hba[p].ci /\ ~hba[p].tfes /\ hba[p].fetched = Free
  /\ hba' = [hba EXCEPT ![p].fetched = memory[p].table]
  /\ UNCHANGED <<attached, memory, port, driver>>

\* The sector's bytes arrive.
Transfer(p) ==
  /\ hba[p].ci /\ ~hba[p].tfes /\ hba[p].fetched /= Free
  /\ memory' = [memory EXCEPT ![p].buffer = hba[p].fetched]
  /\ UNCHANGED <<attached, hba, port, driver>>

\* The slot is cleared once the bytes are there.
Complete(p) ==
  /\ hba[p].ci /\ ~hba[p].tfes /\ hba[p].fetched /= Free
  /\ memory[p].buffer = hba[p].fetched
  /\ hba' = [hba EXCEPT ![p].ci = FALSE, ![p].fetched = Free]
  /\ UNCHANGED <<attached, memory, port, driver>>

TaskFileError(p) ==
  /\ hba[p].ci /\ ~hba[p].tfes
  /\ hba' = [hba EXCEPT ![p].tfes = TRUE]
  /\ UNCHANGED <<attached, memory, port, driver>>

-----------------------------------------------------------------------------
(* A command                                                               *)

\* What the command the driver is on asks for.
Wanted == [op |-> driver.op, lba |-> driver.lba + Len(driver.out)]

\* Where the CPU goes when its operation fails.  A port that fails to come up
\* is passed over; a failed first read through the physical map halts.
AfterFailure ==
  IF driver.op = "identify" THEN At("boot", driver.port + 1, FALSE)
  ELSE IF driver.op = "try" THEN At("halted", 0, TRUE)
  ELSE At("idle", 0, driver.mapped)

\* Defect: the driver does not look whether slot 0 is still in use.
IssuesRegardless ==
  /\ driver.at = "issue"
  /\ memory' = [memory EXCEPT ![driver.port] = [table |-> Wanted, buffer |-> Free]]
  /\ hba' = [hba EXCEPT ![driver.port].ci = TRUE, ![driver.port].tfes = FALSE]
  /\ driver' = [driver EXCEPT !.at = "poll"]
  /\ UNCHANGED <<attached, port>>

\* The command is laid out and its status cleared; it is issued unless the
\* slot is in use, the sector lies past the end or the drive stays busy.
ahci_issue ==
  LET p == driver.port IN
  /\ driver.at = "issue"
  /\ IF hba[p].ci \/ (driver.op /= "identify" /\ Wanted.lba >= Sectors)
       THEN driver' = AfterFailure /\ UNCHANGED <<hba, memory>>
       ELSE /\ memory' = [memory EXCEPT ![p] = [table |-> Wanted, buffer |-> Free]]
            /\ \/ /\ hba' = [hba EXCEPT ![p].ci = TRUE, ![p].tfes = FALSE]
                  /\ driver' = [driver EXCEPT !.at = "poll"]
               \/ /\ hba' = [hba EXCEPT ![p].tfes = FALSE]
                  /\ driver' = AfterFailure
  /\ UNCHANGED <<attached, port>>

\* Polling ends with an error, or when the controller has cleared the slot:
\* the buffer is then copied out, and the next sector is asked for.
ahci_poll ==
  LET p == driver.port
      out == Append(driver.out, memory[p].buffer)
  IN
  /\ driver.at = "poll" /\ driver.op /= "identify"
  /\ hba[p].tfes \/ ~hba[p].ci
  /\ driver' = IF hba[p].tfes THEN AfterFailure
               ELSE [driver EXCEPT !.out = out,
                                   !.at = IF Len(out) = driver.count THEN "done" ELSE "issue"]
  /\ UNCHANGED <<attached, hba, memory, port>>

\* The driver has polled ten million times.
Timeout ==
  /\ driver.at = "poll" /\ hba[driver.port].ci
  /\ driver' = AfterFailure
  /\ UNCHANGED <<attached, hba, memory, port>>

-----------------------------------------------------------------------------
(* Bring-up                                                                *)

\* ahci_init comes to a port: the disk's command engine is stopped, given its
\* pages and started.  Without a disk, or on a failure, it passes on.
ahci_prepare_port ==
  LET p == driver.port IN
  /\ driver.at = "boot" /\ p \in Ports
  /\ \/ /\ attached[p] = "sata"
        /\ port' = [port EXCEPT ![p].initialized = TRUE]
        /\ driver' = [driver EXCEPT !.at = "issue", !.op = "identify"]
     \/ /\ driver' = [driver EXCEPT !.port = p + 1]
        /\ UNCHANGED port
  /\ UNCHANGED <<attached, hba, memory>>

\* IDENTIFY has completed: the drive's size is read and the disk registered,
\* when there is a name left for it.
ahci_register_disk ==
  LET p == driver.port IN
  /\ driver.at = "poll" /\ driver.op = "identify"
  /\ hba[p].tfes \/ ~hba[p].ci
  /\ port' = IF hba[p].tfes THEN port
             ELSE [port EXCEPT ![p].identified = TRUE,
                               ![p].disk = IF Cardinality(Disks) < MaxDisks
                                             THEN Cardinality(Disks) + 1 ELSE 0]
  /\ driver' = At("boot", p + 1, FALSE)
  /\ UNCHANGED <<attached, hba, memory>>

\* Every port has been visited: ahci_init reports success.
ahci_init ==
  /\ driver.at = "boot" /\ driver.port \notin Ports
  /\ driver' = At("idle", 0, FALSE)
  /\ UNCHANGED <<attached, hba, memory, port>>

\* block_read on a disk, by the storage probes before the kernel installs its
\* page tables and by any reader afterwards.
ahci_block_read ==
  /\ driver.at = "idle"
  /\ \E p \in Disks, lba \in 0 .. (Sectors - 1), count \in 1 .. MaxCount :
       /\ lba + count <= Sectors
       /\ driver' = [At("issue", p, driver.mapped) EXCEPT !.op = "read", !.lba = lba, !.count = count]
  /\ UNCHANGED <<attached, hba, memory, port>>

\* A read that succeeded returns to its caller.
ReturnRead ==
  /\ driver.at = "done"
  /\ driver' = At("idle", 0, driver.mapped)
  /\ UNCHANGED <<attached, hba, memory, port>>

\* ahci_enable_phys_map_access, and the first read through the map: block 0 of
\* the first disk.  Without a disk the kernel halts.
ahci_enable_phys_map_access ==
  /\ driver.at = "idle" /\ ~driver.mapped
  /\ driver' = IF Disks = {} THEN At("halted", 0, TRUE)
               ELSE [At("issue", CHOOSE p \in Disks : port[p].disk = 1, TRUE)
                       EXCEPT !.op = "try", !.count = 1]
  /\ UNCHANGED <<attached, hba, memory, port>>

Next ==
  \/ \E p \in Ports : Fetch(p) \/ Transfer(p) \/ Complete(p) \/ TaskFileError(p)
  \/ ahci_issue \/ ahci_poll \/ Timeout
  \/ ahci_prepare_port \/ ahci_register_disk \/ ahci_init
  \/ ahci_block_read \/ ReturnRead \/ ahci_enable_phys_map_access

AhciSpec == Init /\ [][Next]_ahciVars

-----------------------------------------------------------------------------
(* Properties                                                              *)

\* A read that reports success (ahci_block_read) has copied out exactly the
\* sectors it was asked for, in order, whatever commands timed out, failed or
\* completed late before it: a command that was given up never delivers its
\* sector into the bounce buffer of a later one.  A slot is free only when the
\* controller holds no command, and a disk is registered only for a port whose
\* engine is up.
ReadsAreOwn ==
  /\ \A k \in DOMAIN driver.out : driver.out[k] = [op |-> driver.op, lba |-> driver.lba + k - 1]
  /\ \A p \in Ports : ~hba[p].ci => hba[p].fetched = Free
  /\ \A p \in Disks : port[p].initialized /\ attached[p] = "sata"
=============================================================================
