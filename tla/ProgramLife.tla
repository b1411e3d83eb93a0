---------------------------- MODULE ProgramLife -----------------------------
(***************************************************************************)
(* What program_launch, program_reap and program_terminate promise their   *)
(* callers (kernel/program.h): a launch is all or nothing, only a program  *)
(* that was published ends, it is reported at most once, and its storage   *)
(* becomes free only after it ended.                                       *)
(***************************************************************************)
EXTENDS Naturals

CONSTANT Instances

VARIABLES
    life,     \* of each ProgramInstance
    reports   \* exit events of its present life

vars == <<life, reports>>

Init == life = [i \in Instances |-> "FREE"] /\ reports = [i \in Instances |-> 0]

Start(i) ==
    /\ life[i] = "FREE"
    /\ life' = [life EXCEPT ![i] = "RUNNING"] /\ UNCHANGED reports

\* The launch failed and so did a part of its rollback: nothing ran.
Retain(i) ==
    /\ life[i] = "FREE"
    /\ life' = [life EXCEPT ![i] = "RETAINED"] /\ UNCHANGED reports

End(i) ==
    /\ life[i] = "RUNNING"
    /\ life' = [life EXCEPT ![i] = "ENDED"]
    /\ \E n \in {0, 1} : reports' = [reports EXCEPT ![i] = n]

Release(i) ==
    /\ life[i] \in {"ENDED", "RETAINED"}
    /\ life' = [life EXCEPT ![i] = "FREE"]
    /\ reports' = [reports EXCEPT ![i] = 0]

Next == \E i \in Instances : Start(i) \/ Retain(i) \/ End(i) \/ Release(i)

Spec == Init /\ [][Next]_vars
=============================================================================
