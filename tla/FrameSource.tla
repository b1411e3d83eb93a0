---------------------------- MODULE FrameSource -----------------------------
(***************************************************************************)
(* What the physical memory manager promises its clients: a frame is free, *)
(* or held by exactly one client.  An allocation hands out free frames, and*)
(* a release gives back frames that are held, all of them or none.         *)
(***************************************************************************)
CONSTANT Frames

VARIABLES free, held

SourceInit == free = {} /\ held = {}

(* The firmware's memory becomes available. *)
Supply == free = {} /\ held = {} /\ free' \in SUBSET Frames /\ held' = {}

Allocate == \E S \in SUBSET free : S # {} /\ free' = free \ S /\ held' = held \cup S

Release == \E S \in SUBSET held : S # {} /\ free' = free \cup S /\ held' = held \ S

SourceSpec == SourceInit /\ [][Supply \/ Allocate \/ Release]_<<free, held>>

=============================================================================
