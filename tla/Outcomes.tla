------------------------------- MODULE Outcomes -------------------------------
(***************************************************************************)
(* Kernel operations of one thread as operators from a state record to the *)
(* set of their outcomes [ok, c]: whether the operation succeeded, and the *)
(* state it left.  A state has a field "faults": the failures of lower     *)
(* layers so far, at most FaultLimit of them.                              *)
(***************************************************************************)
EXTENDS Integers

CONSTANT FaultLimit

Ok(s) == {[ok |-> TRUE, c |-> s]}
Fail(s) == {[ok |-> FALSE, c |-> s]}
Check(s, condition) == {[ok |-> condition, c |-> s]}

\* One lower-level failure, as long as the bound allows.
Faults(s) == IF s.faults < FaultLimit THEN Fail([s EXCEPT !.faults = @ + 1]) ELSE {}

\* S and, where it succeeded, Op.
Then(S, Op(_)) == UNION {IF o.ok THEN Op(o.c) ELSE {o} : o \in S}

\* S and, where it failed, the clean-up Op, whose own result is ignored.
Recover(S, Op(_)) ==
  UNION {IF o.ok THEN {o} ELSE {[ok |-> FALSE, c |-> p.c] : p \in Op(o.c)} : o \in S}

\* S and then Op whatever S gave: the result is that both succeeded.
Both(S, Op(_)) == UNION {{[ok |-> o.ok /\ p.ok, c |-> p.c] : p \in Op(o.c)} : o \in S}
=============================================================================
