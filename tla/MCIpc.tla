------------------------------- MODULE MCIpc -------------------------------
(* Small instances of Ipc for TLC. *)
EXTENDS Ipc, TLC

CONSTANTS t1, t2, t3, e1, e2, m1, m2, m3, kernel, user

\* One kernel thread and two threads of one user process.
MCProcessOf == [t \in Threads |-> IF t = t1 THEN kernel ELSE user]
MessageSymmetry == Permutations(Messages)

\* A call with a timeout returns, and what ends it by time ends it on its
\* deadline, also when the tick counter wraps (ipc_timeout_poll).
TimedCallsEnd == TimedCallReturns /\ TimeoutOnDeadline
=============================================================================
