------------------------------ MODULE RunQueue ------------------------------
(***************************************************************************)
(* What the scheduler promises: the runnable threads form a cyclic order,  *)
(* one of them runs, the processor passes from a thread to its successor,  *)
(* a newly runnable thread joins at the end of the order, and the order of *)
(* the others never changes.  With no runnable thread the processor idles. *)
(***************************************************************************)
EXTENDS Integers, Sequences

CONSTANTS Threads, None, Boot

VARIABLES ring, running

Members == {ring[i] : i \in 1 .. Len(ring)}
Position(t) == CHOOSE i \in 1 .. Len(ring) : ring[i] = t
Successor(t) == IF Position(t) = Len(ring) THEN ring[1] ELSE ring[Position(t) + 1]
Without(t) ==
    [i \in 1 .. Len(ring) - 1 |-> IF i < Position(t) THEN ring[i] ELSE ring[i + 1]]

Init == ring = <<Boot>> /\ running = Boot

Join(t) == t \notin Members /\ ring' = Append(ring, t) /\ UNCHANGED running

Withdraw(t) == t \in Members \ {running} /\ ring' = Without(t) /\ UNCHANGED running

PassOn == running \in Members /\ running' = Successor(running) /\ UNCHANGED ring

\* The running thread leaves the order: it blocked or died.
Leave ==
    /\ running \in Members
    /\ ring' = Without(running)
    /\ running' = IF Len(ring) = 1 THEN None ELSE Successor(running)

Restart == running = None /\ ring # <<>> /\ running' = ring[1] /\ UNCHANGED ring

Next == PassOn \/ Leave \/ Restart \/ \E t \in Threads : Join(t) \/ Withdraw(t)

Spec == Init /\ [][Next]_<<ring, running>>
=============================================================================
