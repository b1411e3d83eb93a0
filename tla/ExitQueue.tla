----------------------------- MODULE ExitQueue ------------------------------
(***************************************************************************)
(* The process exit queue (kernel/process_exit_queue.c) and the part of a  *)
(* process's life that uses it (process_create, process_exit_publish and   *)
(* process_destroy of kernel/process.c).                                   *)
(*                                                                         *)
(* One queue object is created, closed and destroyed again and again.      *)
(* Every call is atomic up to the point where a receiver parks.  A parked  *)
(* receiver runs again after its wait was completed; in between, other     *)
(* receivers may call.                                                     *)
(***************************************************************************)
EXTENDS Naturals, Sequences, FiniteSets

CONSTANTS
    Processes,       \* storage of Process objects
    Receivers,       \* kernel threads that receive events
    None,
    Capacity,        \* PROCESS_EXIT_QUEUE_CAPACITY
    ProcessIdLimit,  \* bound: processes ever created
    QueueIdLimit     \* bound: queues ever created

VARIABLES
    process,      \* id, exited, and exit_queue_id of each Process
    process_ids,  \* process identities issued
    id, closed, slots, pending_order, pending_head, pending_tail,
    watch_count, pending_count,
    queue_ids,    \* queue identities issued
    waiting_receiver,
    wait_result,  \* of each receiver; NONE when it does not wait
    delivered     \* history: the events received

queueVars == <<id, closed, slots, pending_order, pending_head, pending_tail,
               watch_count, pending_count>>
vars == <<process, process_ids, queueVars, queue_ids, waiting_receiver, wait_result,
          delivered>>

Index == 0 .. Capacity - 1
NoProcess == [id |-> 0, exited |-> FALSE, queue |-> 0]
FreeSlot == [state |-> "FREE", process |-> None, id |-> 0]

Live == id # 0
InUse(p) == process[p].id # 0
Watching == {i \in Index : slots[i].state = "WATCHING"}
Pending == {i \in Index : slots[i].state = "PENDING"}
Order(k) == pending_order[(pending_head + k) % Capacity]

(* queue_valid: what every call checks of the queue before it does anything. *)
QueueValid ==
    /\ Live
    /\ watch_count = Cardinality(Watching) /\ pending_count = Cardinality(Pending)
    /\ watch_count + pending_count <= Capacity
    /\ \A i \in Watching :
           LET p == slots[i].process
           IN  p # None /\ InUse(p) /\ process[p].id = slots[i].id /\ process[p].queue = id
    /\ \A i \in Pending : slots[i].process = None /\ slots[i].id # 0
    /\ pending_tail = (pending_head + pending_count) % Capacity
    /\ \A k \in 0 .. pending_count - 1 :
           /\ Order(k) \in Pending
           /\ \A l \in 0 .. k - 1 : Order(l) # Order(k)
    /\ waiting_receiver # None => wait_result[waiting_receiver] # "NONE"

Init ==
    /\ process = [p \in Processes |-> NoProcess] /\ process_ids = 0
    /\ id = 0 /\ closed = FALSE /\ slots = [i \in Index |-> FreeSlot]
    /\ pending_order = [i \in Index |-> 0]
    /\ pending_head = 0 /\ pending_tail = 0 /\ watch_count = 0 /\ pending_count = 0
    /\ queue_ids = 0
    /\ waiting_receiver = None /\ wait_result = [r \in Receivers |-> "NONE"]
    /\ delivered = <<>>

-----------------------------------------------------------------------------
(* Life of the queue *)

Create ==
    /\ ~Live /\ queue_ids < QueueIdLimit
    /\ queue_ids' = queue_ids + 1 /\ id' = queue_ids'
    /\ closed' = FALSE /\ slots' = [i \in Index |-> FreeSlot]
    /\ pending_order' = [i \in Index |-> 0]
    /\ pending_head' = 0 /\ pending_tail' = 0 /\ watch_count' = 0 /\ pending_count' = 0
    /\ UNCHANGED <<process, process_ids, waiting_receiver, wait_result, delivered>>

\* What completes a wait: the receiver is woken if its wait is still PENDING.
Completed(result) ==
    IF waiting_receiver # None /\ wait_result[waiting_receiver] = "PENDING"
    THEN [wait_result EXCEPT ![waiting_receiver] = result] ELSE wait_result

Close ==
    /\ QueueValid /\ ~closed
    /\ closed' = TRUE
    /\ process' = [p \in Processes |->
           IF \E i \in Watching : slots[i].process = p
           THEN [process[p] EXCEPT !.queue = 0] ELSE process[p]]
    /\ slots' = [i \in Index |-> IF i \in Watching THEN FreeSlot ELSE slots[i]]
    /\ watch_count' = 0
    /\ wait_result' = Completed("PEER_CLOSED")
    /\ UNCHANGED <<process_ids, id, pending_order, pending_head, pending_tail,
                   pending_count, queue_ids, waiting_receiver, delivered>>

Destroyable ==
    /\ QueueValid /\ closed /\ watch_count = 0 /\ pending_count = 0
    /\ waiting_receiver = None

Destroy ==
    /\ Destroyable
    /\ id' = 0 /\ closed' = FALSE /\ slots' = [i \in Index |-> FreeSlot]
    /\ pending_order' = [i \in Index |-> 0]
    /\ pending_head' = 0 /\ pending_tail' = 0 /\ watch_count' = 0 /\ pending_count' = 0
    /\ UNCHANGED <<process, process_ids, queue_ids, waiting_receiver, wait_result, delivered>>

-----------------------------------------------------------------------------
(* Processes and their watches *)

ProcessCreate(p) ==
    /\ ~InUse(p) /\ process_ids < ProcessIdLimit
    /\ process_ids' = process_ids + 1
    /\ process' = [process EXCEPT ![p] = [NoProcess EXCEPT !.id = process_ids']]
    /\ UNCHANGED <<queueVars, queue_ids, waiting_receiver, wait_result, delivered>>

\* A slot counts against the capacity from the watch to the receipt.
HasRoom == watch_count + pending_count < Capacity

FirstFree == CHOOSE i \in Index :
    /\ slots[i].state = "FREE"
    /\ \A j \in 0 .. i - 1 : slots[j].state # "FREE"

Watch(p) ==
    /\ QueueValid /\ ~closed
    /\ InUse(p) /\ ~process[p].exited /\ process[p].queue = 0
    /\ HasRoom /\ \E i \in Index : slots[i].state = "FREE"
    /\ slots' = [slots EXCEPT ![FirstFree] =
                    [state |-> "WATCHING", process |-> p, id |-> process[p].id]]
    /\ process' = [process EXCEPT ![p].queue = id]
    /\ watch_count' = watch_count + 1
    /\ UNCHANGED <<process_ids, id, closed, pending_order, pending_head, pending_tail,
                   pending_count, queue_ids, waiting_receiver, wait_result, delivered>>

WatchOf(p) == {i \in Watching : slots[i].process = p /\ slots[i].id = process[p].id}

\* Defect: the process forgets the queue and the queue does not forget it.
UnwatchLeavingSlot(p) ==
    /\ UNCHANGED <<slots, watch_count>>

UnwatchSlot(p) ==
    /\ slots' = [i \in Index |-> IF i \in WatchOf(p) THEN FreeSlot ELSE slots[i]]
    /\ watch_count' = watch_count - 1

(* By process_destroy, and by a launch that fails after the watch. *)
Unwatch(p) ==
    /\ InUse(p) /\ process[p].queue # 0
    /\ QueueValid /\ process[p].queue = id /\ WatchOf(p) # {}
    /\ UnwatchSlot(p)
    /\ \E gone \in BOOLEAN :
          process' = [process EXCEPT ![p] = IF gone THEN NoProcess ELSE [@ EXCEPT !.queue = 0]]
    /\ UNCHANGED <<process_ids, id, closed, pending_order, pending_head, pending_tail,
                   pending_count, queue_ids, waiting_receiver, wait_result, delivered>>

ProcessDestroy(p) ==
    /\ InUse(p) /\ process[p].queue = 0
    /\ process' = [process EXCEPT ![p] = NoProcess]
    /\ UNCHANGED <<process_ids, queueVars, queue_ids, waiting_receiver, wait_result, delivered>>

\* Defect: publication does not complete the wait.
PublishWakesNobody == wait_result

PublishWakes == Completed("COMPLETED")

(* process_exit_publish of a watched process *)
Publish(p) ==
    /\ InUse(p) /\ ~process[p].exited /\ process[p].queue # 0
    /\ QueueValid /\ ~closed /\ process[p].queue = id
    /\ \E i \in WatchOf(p) :
          /\ slots' = [slots EXCEPT ![i].state = "PENDING", ![i].process = None]
          /\ pending_order' = [pending_order EXCEPT ![pending_tail] = i]
    /\ pending_tail' = (pending_tail + 1) % Capacity
    /\ watch_count' = watch_count - 1 /\ pending_count' = pending_count + 1
    /\ process' = [process EXCEPT ![p].queue = 0, ![p].exited = TRUE]
    /\ wait_result' = PublishWakes
    /\ UNCHANGED <<process_ids, id, closed, pending_head, queue_ids, waiting_receiver, delivered>>

(* process_exit_publish of a process that nobody watches *)
ExitUnwatched(p) ==
    /\ InUse(p) /\ ~process[p].exited /\ process[p].queue = 0
    /\ process' = [process EXCEPT ![p].exited = TRUE]
    /\ UNCHANGED <<process_ids, queueVars, queue_ids, waiting_receiver, wait_result, delivered>>

-----------------------------------------------------------------------------
(* Receivers *)

\* Defect: the newest event first.
TakenFromTail ==
    LET i == Order(pending_count - 1)
    IN  /\ slots' = [slots EXCEPT ![i] = FreeSlot]
        /\ delivered' = Append(delivered, slots[i].id)
        /\ pending_tail' = (pending_tail + Capacity - 1) % Capacity
        /\ UNCHANGED <<pending_order, pending_head>>

(* receive_locked *)
TakenFromHead ==
    LET i == Order(0)
    IN  /\ slots' = [slots EXCEPT ![i] = FreeSlot]
        /\ delivered' = Append(delivered, slots[i].id)
        /\ pending_order' = [pending_order EXCEPT ![pending_head] = 0]
        /\ pending_head' = (pending_head + 1) % Capacity
        /\ UNCHANGED pending_tail

Take ==
    /\ TakenFromHead
    /\ pending_count' = pending_count - 1
    /\ UNCHANGED <<process, process_ids, id, closed, watch_count, queue_ids>>

TryReceive ==
    /\ QueueValid /\ waiting_receiver = None /\ pending_count # 0
    /\ Take
    /\ UNCHANGED <<waiting_receiver, wait_result>>

(* receive_blocking with an event at hand: a receiver that already waits   *)
(* is not looked for, and may find its event gone.                         *)
ReceiveNow(r) ==
    /\ wait_result[r] = "NONE"
    /\ QueueValid /\ pending_count # 0
    /\ Take
    /\ UNCHANGED <<waiting_receiver, wait_result>>

Park(r) ==
    /\ wait_result[r] = "NONE"
    /\ QueueValid /\ pending_count = 0 /\ ~closed /\ waiting_receiver = None
    /\ waiting_receiver' = r
    /\ wait_result' = [wait_result EXCEPT ![r] = "PENDING"]
    /\ UNCHANGED <<process, process_ids, queueVars, queue_ids, delivered>>

WaitEnds(r) ==
    /\ waiting_receiver' = None
    /\ wait_result' = [wait_result EXCEPT ![r] = "NONE"]

FindsEvent(r) == wait_result[r] = "COMPLETED" /\ pending_count # 0

(* The woken receiver leaves its loop. *)
Resume(r) ==
    /\ waiting_receiver = r /\ wait_result[r] # "PENDING"
    /\ WaitEnds(r)
    /\ IF FindsEvent(r) THEN Take
       ELSE UNCHANGED <<process, process_ids, queueVars, queue_ids, delivered>>

(* The receiver's thread is torn down while it waits. *)
AbortWait(r) ==
    /\ waiting_receiver = r /\ QueueValid
    /\ WaitEnds(r)
    /\ UNCHANGED <<process, process_ids, queueVars, queue_ids, delivered>>

-----------------------------------------------------------------------------
Next ==
    \/ Create \/ Close \/ Destroy \/ TryReceive
    \/ \E p \in Processes : \/ ProcessCreate(p) \/ ProcessDestroy(p) \/ Watch(p)
                            \/ Unwatch(p) \/ Publish(p) \/ ExitUnwatched(p)
    \/ \E r \in Receivers : ReceiveNow(r) \/ Park(r) \/ Resume(r) \/ AbortWait(r)

Spec == Init /\ [][Next]_vars

-----------------------------------------------------------------------------
(* The types of the queue, its slots and its waiters. *)
TypeOK ==
    /\ process \in [Processes -> [id : 0 .. ProcessIdLimit, exited : BOOLEAN,
                                  queue : 0 .. QueueIdLimit]]
    /\ process_ids \in 0 .. ProcessIdLimit /\ queue_ids \in 0 .. QueueIdLimit
    /\ id \in 0 .. QueueIdLimit /\ closed \in BOOLEAN
    /\ slots \in [Index -> [state : {"FREE", "WATCHING", "PENDING"},
                            process : Processes \cup {None}, id : 0 .. ProcessIdLimit]]
    /\ pending_order \in [Index -> Index]
    /\ pending_head \in Index /\ pending_tail \in Index
    /\ watch_count \in 0 .. Capacity /\ pending_count \in 0 .. Capacity
    /\ waiting_receiver \in Receivers \cup {None}
    /\ wait_result \in [Receivers -> {"NONE", "PENDING", "COMPLETED", "PEER_CLOSED"}]
    /\ delivered \in Seq(1 .. ProcessIdLimit)

(* A live queue is always valid: no call on it ever fails because of what  *)
(* an earlier call left behind, and a process that has a watcher can       *)
(* always publish into a slot of its own (so that process_exit_publish,    *)
(* whose failure halts the machine in kernel/task.c, does not fail).       *)
WatchersCanPublish ==
    /\ TypeOK
    /\ Live => QueueValid
    /\ \A p \in Processes : process[p].queue # 0 =>
           process[p].queue = id /\ ~closed /\ Cardinality(WatchOf(p)) = 1

(* A receiver sleeps only while there is nothing to receive. *)
NoSleepingReceiver ==
    waiting_receiver # None /\ wait_result[waiting_receiver] = "PENDING" =>
        pending_count = 0 /\ ~closed

(* The slots, the order ring and the counters implement reserved, in-order,*)
(* exactly-once delivery (module ExitEvents).                              *)
WatchedIds == {slots[i].id : i \in Watching}
EventOrder == [k \in 1 .. pending_count |-> slots[Order(k - 1)].id]
Abstract == INSTANCE ExitEvents WITH
    ProcessIds <- 1 .. ProcessIdLimit, watched <- WatchedIds, pending <- EventOrder

ImplementsExitEvents == Abstract!Spec
=============================================================================
