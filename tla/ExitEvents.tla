----------------------------- MODULE ExitEvents -----------------------------
(***************************************************************************)
(* What a process exit queue promises (kernel/process_exit_queue.h): a     *)
(* watch reserves the storage of one exit event, so that publication never *)
(* fails for want of space; events are received once, in the order in      *)
(* which they were published.                                              *)
(***************************************************************************)
EXTENDS Naturals, Sequences, FiniteSets

CONSTANTS ProcessIds, Capacity

VARIABLES watched, pending, delivered

Init == watched = {} /\ pending = <<>> /\ delivered = <<>>

Watch(p) ==
    /\ p \notin watched
    /\ Cardinality(watched) + Len(pending) < Capacity
    /\ watched' = watched \cup {p}
    /\ UNCHANGED <<pending, delivered>>

Unwatch(p) ==
    /\ p \in watched
    /\ watched' = watched \ {p}
    /\ UNCHANGED <<pending, delivered>>

Publish(p) ==
    /\ p \in watched
    /\ watched' = watched \ {p}
    /\ pending' = Append(pending, p)
    /\ UNCHANGED delivered

Receive ==
    /\ pending # <<>>
    /\ delivered' = Append(delivered, Head(pending))
    /\ pending' = Tail(pending)
    /\ UNCHANGED watched

\* Closing gives up the watches and keeps what was published.
Close ==
    /\ watched' = {}
    /\ UNCHANGED <<pending, delivered>>

Next ==
    \/ \E p \in ProcessIds : Watch(p) \/ Unwatch(p) \/ Publish(p)
    \/ Receive \/ Close

Spec == Init /\ [][Next]_<<watched, pending, delivered>>
=============================================================================
