----------------------------- MODULE Supervisor -----------------------------
(***************************************************************************)
(* The supervisor (kernel/supervisor.c): the managed-service lifecycle,    *)
(* shared by several kernel threads.  Calls are serialised by the gate     *)
(* g_rpc_owner; observers are not, and may consume the exit event in the   *)
(* middle of another thread's call.                                        *)
(***************************************************************************)
EXTENDS ManagedService

VARIABLE g_rpc_owner   \* the thread inside the gate

supervisor_vars == <<vars, g_rpc_owner>>

SupervisorInit == Init /\ g_rpc_owner = None

\* Defect: a call is admitted whoever is inside.
Ungated(c) == TRUE

\* supervisor_call_enter.
Admitted(c) == call[c].op = "none" => g_rpc_owner = None

\* A step of a call between supervisor_call_enter and supervisor_call_leave.
Gated(c, step) ==
    /\ step /\ Admitted(c)
    /\ g_rpc_owner' = IF call'[c].op = "none" THEN None ELSE c

-----------------------------------------------------------------------------
\* supervisor_start refuses to run beside another runnable thread.
SupervisorStart(c) ==
    /\ \A d \in Callers \ {c} : ~Calling(d)
    /\ StartService(c) /\ UNCHANGED last_stop_result

\* supervisor_ping and the other exchanges go to whatever incarnation is running.
Exchange(c) == Request(c, "call", incarnation, "receive")

\* Defect: a session that remembers an earlier supervisor stops the present one.
IdentityForgotten(c) == connection[c] # 0

IdentityMatches(c) == connection[c] = incarnation

\* supervisor_stop_identity, for the (process, thread) pair its session remembers.
StopIdentity(c) ==
    /\ connection[c] # 0 /\ IdentityMatches(c)
    /\ ~Calling(c) /\ state # "STOPPED"
    /\ last_stop_result' = "NONE" /\ Refresh
    /\ call' = [call EXCEPT ![c] = [op |-> "stop", step |-> "decide",
                                    request |-> connection[c], force |-> FALSE]]
    /\ UNCHANGED <<incarnation, next_incarnation, held, program, thread, command, reply,
                   serving, connection, requests, faults, history>>

\* supervisor_test_fault, up to the wait for the thread's end.
TestFault(c) == Request(c, "fault", incarnation, "dead")

\* supervisor_wait_fault_exit.
FaultSeen(c) ==
    /\ call[c].op = "fault" /\ call[c].step \in {"event", "fail"}
    /\ IF At(c, "event") /\ event # "NONE" THEN Recorded ELSE UNCHANGED <<last_exit, event>>
    /\ state' = IF At(c, "event") \/ state = "RUNNING" THEN "FAILED" ELSE state
    /\ Return(c)
    /\ UNCHANGED <<incarnation, next_incarnation, last_stop_result, held, program, thread,
                   command, reply, serving, connection, requests, faults, history>>

\* supervisor_test_spin leaves the state alone, even when the answer does not come.
TestSpin(c) == Request(c, "spin", incarnation, "receive")

SpinEnds(c) ==
    /\ call[c].op = "spin" /\ call[c].step \in {"dead", "fail"}
    /\ Return(c)
    /\ UNCHANGED <<state, incarnation, next_incarnation, last_exit, last_stop_result, objects,
                   connection, requests, faults, history>>

\* The event that supervisor_release saw was consumed by an observer.
RecordRaced(c) ==
    /\ (At(c, "take") \/ At(c, "take_last")) /\ event = "NONE"
    /\ Retained(c)
    /\ UNCHANGED <<incarnation, next_incarnation, last_exit, objects, connection, requests,
                   faults, history>>

-----------------------------------------------------------------------------
Enter(c) ==
    \/ SupervisorStart(c) \/ Exchange(c) \/ Stop(c) \/ StopIdentity(c) \/ Recover(c)
    \/ TestFault(c) \/ TestSpin(c)

\* The steps of ManagedService that end a call belong to its own calls.
Proceed(c) ==
    \/ call[c].op \notin {"fault", "spin"} /\ CallStep(c)
    \/ call[c].op = "fault" /\ (TimesOut(c) \/ WaitDead(c))
    \/ call[c].op = "spin" /\ (TimesOut(c) \/ ReceiveReply(c))
    \/ FaultSeen(c) \/ SpinEnds(c) \/ RecordRaced(c)

SupervisorNext ==
    \/ \E c \in Callers :
           \/ Gated(c, Enter(c)) \/ Gated(c, Proceed(c))
           \/ (Observe(c) \/ Connect(c)) /\ UNCHANGED g_rpc_owner
    \/ Serve /\ UNCHANGED g_rpc_owner

SupervisorSpec == SupervisorInit /\ [][SupervisorNext]_supervisor_vars

-----------------------------------------------------------------------------
(* Properties *)

(***************************************************************************)
(* A stop on behalf of a session reaches only the supervisor the session   *)
(* was made with, however long the thread waited at the gate and whatever  *)
(* ran meanwhile.                                                          *)
(***************************************************************************)
StopsOnlyItsOwn ==
    \A c \in Callers :
        call[c].op = "stop" /\ call[c].request # 0 => call[c].request = incarnation

(***************************************************************************)
(* supervisor.c: the READY->BLOCKED window of the service is settled       *)
(* "instead of treating scheduler ordering as a service failure": after a  *)
(* good reply, a wait for readiness that is not out of time does not fail  *)
(* a service that is ready.                                                *)
(***************************************************************************)
ReadyWindowIsSettled ==
    [][\A c \in Callers : call[c].op = "call" /\ WaitGivesUp(c) => ~Ready]_supervisor_vars
=============================================================================
