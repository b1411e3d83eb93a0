----------------------------- MODULE Scheduler ------------------------------
(***************************************************************************)
(* The run ring (kernel/scheduler.c) and the part of a thread's state it   *)
(* owns (kernel/thread.c): a circular singly linked list through run_next, *)
(* its head, tail and count, the saved interrupt frame of every suspended  *)
(* thread, timer preemption, and the private idle context that runs when   *)
(* the last runnable thread has exited.                                    *)
(*                                                                         *)
(* A thread's code is free to call any operation whenever it runs, and     *)
(* interrupt handlers may wake a blocked thread at any time.               *)
(***************************************************************************)
EXTENDS Integers, FiniteSets, FiniteSetsExt

CONSTANTS Threads, Boot, None

ASSUME SchedulerAssumption ==
    Boot \in Threads /\ None \notin Threads /\ IsFiniteSet(Threads)

VARIABLES
    state, run_next, on_run_queue,
    ctx,                \* interrupt_context_ready: a saved frame can be resumed
    g_run_head, g_run_tail, g_run_count,
    current,            \* g_current_thread; None in the idle context
    g_idle_active, g_preemption_enabled,
    halted              \* cpu_halt_forever was reached

ringVars == <<run_next, on_run_queue, g_run_head, g_run_tail, g_run_count>>
modeVars == <<g_idle_active, g_preemption_enabled, halted>>
vars == <<state, ringVars, ctx, current, modeVars>>

Absent == "ABSENT"   \* storage that holds no thread

Init ==
    /\ state = [t \in Threads |-> IF t = Boot THEN "RUNNING" ELSE Absent]
    /\ run_next = [t \in Threads |-> IF t = Boot THEN Boot ELSE None]
    /\ on_run_queue = [t \in Threads |-> t = Boot]
    /\ ctx = [t \in Threads |-> FALSE]
    /\ g_run_head = Boot /\ g_run_tail = Boot /\ g_run_count = 1
    /\ current = Boot
    /\ g_idle_active = FALSE /\ g_preemption_enabled = FALSE /\ halted = FALSE

\* A thread is executing kernel code on the processor.
Active == ~halted /\ current # None

Halt == halted' = TRUE /\ UNCHANGED <<state, ringVars, ctx, current, g_idle_active, g_preemption_enabled>>

-----------------------------------------------------------------------------
(* The ring *)

\* The threads met by following run_next from t, g_run_count hops at most.
Hops(t) ==
    LET hop[n \in 0 .. g_run_count] ==
            IF n = 0 THEN t
            ELSE IF hop[n - 1] = None THEN None ELSE run_next[hop[n - 1]]
    IN  hop

Resumable(t) == t # None /\ on_run_queue[t] /\ state[t] = "READY" /\ ctx[t]

\* First resumable thread among those hops, None if there is none.
FirstAmong(from, hops) ==
    LET found == {n \in hops : Resumable(Hops(from)[n])}
    IN  IF found = {} THEN None ELSE Hops(from)[Min(found)]

\* Defect: the search starts at the head.
FindNextFromHead(t) == FirstAmong(g_run_head, 0 .. g_run_count - 1)
FindNext(t) == IF g_run_count < 2 THEN None ELSE FirstAmong(t, 1 .. g_run_count - 1)

FindIdleReady == FirstAmong(g_run_head, 0 .. g_run_count - 1)

\* The fields the ring consists of, before a step.
Ring == [next |-> run_next, queued |-> on_run_queue,
         head |-> g_run_head, tail |-> g_run_tail, count |-> g_run_count]

RingBecomes(r) ==
    /\ run_next' = r.next /\ on_run_queue' = r.queued
    /\ g_run_head' = r.head /\ g_run_tail' = r.tail /\ g_run_count' = r.count

\* scheduler_add refuses unless the thread is off the ring and can be resumed.
Addable(t, s) == ~on_run_queue[t] /\ s = "READY" /\ ctx[t] /\ (g_run_count = 0 => g_idle_active)

\* Defect: the tail is not moved.
AddedWithoutTail(t) ==
    [next |-> [run_next EXCEPT ![t] = g_run_head, ![g_run_tail] = t],
     queued |-> [on_run_queue EXCEPT ![t] = TRUE],
     head |-> g_run_head, tail |-> g_run_tail, count |-> g_run_count + 1]

Added(t) ==
    IF g_run_count = 0
    THEN [next |-> [run_next EXCEPT ![t] = t], queued |-> [on_run_queue EXCEPT ![t] = TRUE],
          head |-> t, tail |-> t, count |-> 1]
    ELSE [next |-> [run_next EXCEPT ![t] = g_run_head, ![g_run_tail] = t],
          queued |-> [on_run_queue EXCEPT ![t] = TRUE],
          head |-> g_run_head, tail |-> t, count |-> g_run_count + 1]

\* The predecessor scheduler_unlink finds, walking from the head.
Previous(t) ==
    LET found == {n \in 0 .. g_run_count - 1 : Hops(g_run_head)[n + 1] = t}
    IN  IF found = {} THEN None ELSE Hops(g_run_head)[Min(found)]

Linked(t) ==
    /\ on_run_queue[t] /\ g_run_count # 0 /\ Previous(t) # None
    /\ g_run_count = 1 => g_run_head = t /\ g_run_tail = t

Unlinked(t) ==
    LET head == IF g_run_head = t THEN run_next[t] ELSE g_run_head
        tail == IF g_run_tail = t THEN Previous(t) ELSE g_run_tail
    IN  IF g_run_count = 1
        THEN [next |-> [run_next EXCEPT ![t] = None],
              queued |-> [on_run_queue EXCEPT ![t] = FALSE],
              head |-> None, tail |-> None, count |-> 0]
        ELSE [next |-> [run_next EXCEPT ![Previous(t)] = run_next[t], ![tail] = head, ![t] = None],
              queued |-> [on_run_queue EXCEPT ![t] = FALSE],
              head |-> head, tail |-> tail, count |-> g_run_count - 1]

-----------------------------------------------------------------------------
(* Threads *)

ThreadCreate(t) ==
    /\ Active /\ state[t] = Absent
    /\ state' = [state EXCEPT ![t] = "READY"]
    /\ ctx' = [ctx EXCEPT ![t] = FALSE]
    /\ UNCHANGED <<ringVars, current, modeVars>>

ThreadPrepare(t) ==
    /\ Active /\ t # current /\ state[t] = "READY" /\ ~ctx[t]
    /\ ctx' = [ctx EXCEPT ![t] = TRUE]
    /\ UNCHANGED <<state, ringVars, current, modeVars>>

\* The wait and capability conditions are those of Ipc and Capability.
ThreadDestroy(t) ==
    /\ Active /\ t # current /\ state[t] \in {"READY", "DEAD"}
    /\ ~on_run_queue[t] /\ run_next[t] = None
    /\ state' = [state EXCEPT ![t] = Absent]
    /\ ctx' = [ctx EXCEPT ![t] = FALSE]
    /\ UNCHANGED <<ringVars, current, modeVars>>

-----------------------------------------------------------------------------
(* Scheduler operations *)

Add(t) ==
    /\ Active /\ Addable(t, state[t])
    /\ RingBecomes(Added(t))
    /\ UNCHANGED <<state, ctx, current, modeVars>>

RemoveFromRing(t) ==
    /\ Active /\ t # current /\ Linked(t)
    /\ RingBecomes(Unlinked(t))
    /\ UNCHANGED <<state, ctx, current, modeVars>>

\* scheduler_wake, from a thread or from an interrupt handler.
Wake(t) ==
    /\ ~halted /\ t # current
    /\ state[t] = "BLOCKED" /\ run_next[t] = None /\ Addable(t, "READY")
    /\ state' = [state EXCEPT ![t] = "READY"]
    /\ RingBecomes(Added(t))
    /\ UNCHANGED <<ctx, current, modeVars>>

CanSwitch == Active /\ on_run_queue[current] /\ state[current] = "RUNNING" /\ run_next[current] # None

\* The frame of a thread that is switched to is consumed.
\* Defect: it is kept.
SavedBothFrames(from, to) == [ctx EXCEPT ![from] = TRUE]
Saved(from, to) == [ctx EXCEPT ![from] = TRUE, ![to] = FALSE]

\* scheduler_switch_ready_from_interrupt, for a yield and for the timer.
SwitchReady ==
    LET to == FindNext(current) IN
    /\ CanSwitch /\ to # None
    /\ ctx' = Saved(current, to)
    /\ state' = [state EXCEPT ![current] = "READY", ![to] = "RUNNING"]
    /\ current' = to
    /\ UNCHANGED <<ringVars, modeVars>>

Yield == SwitchReady

\* scheduler_wait_current with another runnable thread; with none it halts for one
\* interrupt and returns, which changes nothing.
Block ==
    LET to == FindNext(current) IN
    /\ CanSwitch /\ to # None
    /\ IF Linked(current)
       THEN /\ RingBecomes(Unlinked(current))
            /\ ctx' = Saved(current, to)
            /\ state' = [state EXCEPT ![current] = "BLOCKED", ![to] = "RUNNING"]
            /\ current' = to
            /\ UNCHANGED modeVars
       ELSE Halt

\* scheduler_can_terminate_current
CanExit ==
    /\ CanSwitch /\ ~g_idle_active
    /\ IF g_run_count = 1
       THEN g_run_head = current /\ g_run_tail = current /\ run_next[current] = current
       ELSE FindNext(current) # None

\* The idle context takes over when no thread is left.
EntersIdle(to) == to = None

\* scheduler_exit_from_interrupt: a thread that exits or is terminated by a fault.
Exit ==
    LET to == IF g_run_count = 1 THEN None ELSE FindNext(current) IN
    /\ CanExit
    /\ IF Linked(current)
       THEN /\ RingBecomes(Unlinked(current))
            /\ ctx' = [t \in Threads |-> ctx[t] /\ t \notin {current, to}]
            /\ state' = [t \in Threads |-> IF t = current THEN "DEAD"
                                           ELSE IF t = to THEN "RUNNING" ELSE state[t]]
            /\ current' = to
            /\ g_idle_active' = EntersIdle(to)
            /\ UNCHANGED <<g_preemption_enabled, halted>>
       ELSE Halt

CanTerminate(t) ==
    /\ Active /\ t # current
    /\ \/ /\ state[t] = "READY"
          /\ IF on_run_queue[t] THEN run_next[t] # None /\ ctx[t] ELSE run_next[t] = None
       \/ state[t] = "BLOCKED" /\ ~on_run_queue[t] /\ run_next[t] = None /\ ctx[t]

TerminatedRing(t) == IF on_run_queue[t] THEN Unlinked(t) ELSE Ring

Terminate(t) ==
    /\ CanTerminate(t) /\ (on_run_queue[t] => Linked(t))
    /\ RingBecomes(TerminatedRing(t))
    /\ state' = [state EXCEPT ![t] = "DEAD"]
    /\ ctx' = [ctx EXCEPT ![t] = FALSE]
    /\ UNCHANGED <<current, modeVars>>

PreemptionEnable ==
    /\ CanSwitch /\ ~g_preemption_enabled /\ ~g_idle_active
    /\ \A n \in 0 .. g_run_count - 1 :
          LET t == Hops(g_run_head)[n] IN t = current \/ Resumable(t)
    /\ g_preemption_enabled' = TRUE
    /\ UNCHANGED <<state, ringVars, ctx, current, g_idle_active, halted>>

PreemptionDisable ==
    /\ Active /\ g_preemption_enabled
    /\ g_preemption_enabled' = FALSE
    /\ UNCHANGED <<state, ringVars, ctx, current, g_idle_active, halted>>

ResumeFromIdle ==
    LET to == FindIdleReady IN
    /\ ~halted /\ g_idle_active /\ g_run_count # 0
    /\ IF to # None /\ current = None
       THEN /\ ctx' = [ctx EXCEPT ![to] = FALSE]
            /\ state' = [state EXCEPT ![to] = "RUNNING"]
            /\ current' = to
            /\ g_idle_active' = FALSE
            /\ UNCHANGED <<ringVars, g_preemption_enabled, halted>>
       ELSE Halt

\* scheduler_preempt, at the end of every timer interrupt.
TimerInterrupt ==
    \/ ResumeFromIdle
    \/ ~g_idle_active /\ g_preemption_enabled /\ SwitchReady

\* A timer interrupt that finds nothing to switch to returns to where it came from.
TimerNoSwitch == ~halted /\ ~ENABLED TimerInterrupt /\ UNCHANGED vars

Next ==
    \/ Yield \/ Block \/ Exit \/ PreemptionEnable \/ PreemptionDisable
    \/ TimerInterrupt \/ TimerNoSwitch
    \/ \E t \in Threads :
          \/ ThreadCreate(t) \/ ThreadPrepare(t) \/ ThreadDestroy(t)
          \/ Add(t) \/ RemoveFromRing(t) \/ Wake(t) \/ Terminate(t)

Spec == Init /\ [][Next]_vars

\* The PIT keeps interrupting; nothing else is assumed of the threads.
FairSpec == Spec /\ WF_vars(TimerInterrupt)
-----------------------------------------------------------------------------
(* Properties *)

\* Every variable keeps its type, and no thread is current exactly in the idle context.
TypeOK ==
    /\ state \in [Threads -> {Absent, "READY", "RUNNING", "BLOCKED", "DEAD"}]
    /\ run_next \in [Threads -> Threads \cup {None}]
    /\ on_run_queue \in [Threads -> BOOLEAN] /\ ctx \in [Threads -> BOOLEAN]
    /\ {g_run_head, g_run_tail, current} \subseteq Threads \cup {None}
    /\ g_run_count \in 0 .. Cardinality(Threads)
    /\ g_idle_active = (current = None) /\ g_preemption_enabled \in BOOLEAN /\ halted \in BOOLEAN

Queued == {t \in Threads : on_run_queue[t]}

\* The links scheduler_add and scheduler_unlink maintain always form one cycle that
\* starts at g_run_head, ends at g_run_tail, has g_run_count members and contains
\* exactly the threads marked on_run_queue; all others have no link.  So none of the
\* scheduler's failure paths (an unlink that fails after the switch, an idle resume
\* that finds no resumable thread) halts the machine.
RingWellFormed ==
    /\ TypeOK /\ ~halted
    /\ {Hops(g_run_head)[n] : n \in 0 .. g_run_count - 1} = Queued
    /\ Cardinality(Queued) = g_run_count
    /\ g_run_count # 0 =>
          Hops(g_run_head)[g_run_count - 1] = g_run_tail /\ run_next[g_run_tail] = g_run_head
    /\ \A t \in Threads \ Queued : run_next[t] = None

\* A suspended thread that may run again has exactly one saved frame, and the frame
\* is gone while the thread runs and after it is dead: no frame is resumed twice and
\* no dead thread's stack is returned to.
FrameConsumedOnce ==
    /\ \A t \in Queued : t # current => state[t] = "READY" /\ ctx[t]
    /\ \A t \in Threads :
          /\ state[t] = "BLOCKED" => ctx[t]
          /\ state[t] \in {"RUNNING", "DEAD"} => ~ctx[t]
          /\ state[t] = "RUNNING" <=> t = current

\* The linked ring implements the cyclic order of RunQueue.
RingOrder == [i \in 1 .. g_run_count |-> Hops(g_run_head)[i - 1]]
Promise == INSTANCE RunQueue WITH ring <- RingOrder, running <- current
RefinesRunQueue == Promise!Spec

\* Once no thread joins the ring any more, preemption stays on and the timer keeps
\* interrupting, every thread on the ring gets the processor again and again, however
\* unwilling the running thread is to yield.
StableRingIsFair ==
    (<>[][\A t \in Threads : on_run_queue'[t] => on_run_queue[t]]_vars /\ <>[]g_preemption_enabled)
        => \A t \in Threads : [](on_run_queue[t] => <>(current = t \/ ~on_run_queue[t]))

\* The linked ring is whole and implements the cyclic order of RunQueue, and each
\* saved frame is resumed once (scheduler_add, scheduler_unlink, resume paths).
RingKeepsOrder == RefinesRunQueue /\ [](RingWellFormed /\ FrameConsumedOnce)
=============================================================================
