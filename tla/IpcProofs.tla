----------------------------- MODULE IpcProofs ------------------------------
(***************************************************************************)
(* The wait protocol of endpoint IPC, proved for any number of threads,    *)
(* endpoints, messages and processes: the inductive invariant and what it  *)
(* gives its users, the operations that keep it, one section for each      *)
(* kind, the mailboxes and the answers of the send calls, which every step *)
(* keeps consistent with what was accepted, and the theorems that follow.  *)
(*                                                                         *)
(* NeverHalts and NoLostWakeup are not inductive by themselves: a link that*)
(* names a thread which waits for something else sends the next wake-up    *)
(* astray.  ReservationsAgree excludes that.  LinkFacts (thread and link   *)
(* determine each other) and Valid (every check made on a reservation      *)
(* succeeds) are its consequences that carry the proofs.                   *)
(*                                                                         *)
(* ExactlyOnceInOrder speaks of live endpoints; EndpointsIssued adds that  *)
(* an identity names one endpoint and that nothing was recorded under an   *)
(* identity before it was issued.  TruthfulSend speaks of the end of a     *)
(* call; SendCalls adds that a message belongs to one call at a time.      *)
(***************************************************************************)
EXTENDS Ipc, FiniteSetTheorems, TLAPS

(* The inductive invariant. *)
IInv ==
    /\ TypeOK /\ NeverHalts /\ ReservationsAgree /\ NoLostWakeup /\ ExitedProcessIsStopped

States == {"READY", "RUNNING", "BLOCKED", "DEAD"}

USE IpcAssumption DEF schedVars, waitVars, objectVars, boxVars, history

-----------------------------------------------------------------------------
(* Facts about the helpers *)

(* The values that stand for an absence are of their types. *)
LEMMA Absent == NoWait \in Wait /\ NoFrame \in Frame /\ NoLink \in Link /\ NoSlot \in Slot
BY DEF NoWait, NoFrame, NoLink, NoSlot, Wait, Frame, Link, Slot, Modulus

(* ipc_make_ready only moves threads from BLOCKED to READY. *)
LEMMA MadeReadyType ==
    ASSUME state \in [Threads -> States], NEW S
    PROVE  /\ MadeReady(S) \in [Threads -> States]
           /\ \A t \in Threads : MadeReady(S)[t] =
                  IF t \in S /\ state[t] = "BLOCKED" THEN "READY" ELSE state[t]
BY Zenon DEF MadeReady, States

(* Identities: 0 is none, and an identity not issued yet is another one. *)
LEMMA IssuedId == \A n \in 0 .. EndpointIdLimit : n # 0 => n \in 1 .. EndpointIdLimit
OBVIOUS

LEMMA LaterId ==
    ASSUME NEW g \in 0 .. EndpointIdLimit, NEW i \in 1 .. EndpointIdLimit, g = 0 \/ i < g
    PROVE  \A j \in 1 .. EndpointIdLimit : g # 0 /\ j >= g => j # i
OBVIOUS

(* Completing waits changes only the result of pending ones. *)
LEMMA CompletedType ==
    ASSUME wait \in [Threads -> Wait], NEW S, NEW result \in Terminal
    PROVE  /\ Completed(S, result) \in [Threads -> Wait]
           /\ \A t \in Threads :
                  /\ Completed(S, result)[t].kind = wait[t].kind
                  /\ Completed(S, result)[t].object = wait[t].object
                  /\ Completed(S, result)[t].id = wait[t].id
                  /\ Completed(S, result)[t].result =
                         IF t \in S /\ wait[t].result = "PENDING" THEN result ELSE wait[t].result
                  /\ (t \notin S \/ wait[t].result # "PENDING") => Completed(S, result)[t] = wait[t]
BY DEF Completed, Pending, Wait, Terminal

(* A switch makes at most one thread RUNNING, the new current one, which was READY. *)
LEMMA SwitchFacts ==
    ASSUME NEW st \in [Threads -> States], NEW left \in States, current \in Threads \cup {None},
           \A t \in Threads : st[t] = "RUNNING" <=> t = current,
           left # "RUNNING", SwitchAway(st, left)
    PROVE  /\ state' \in [Threads -> States] /\ current' \in Threads \cup {None} /\ halting' = FALSE
           /\ \A t \in Threads : state'[t] = "RUNNING" <=> t = current'
           /\ \A t \in Threads : state'[t] = IF t = current' THEN "RUNNING"
                                            ELSE IF t = current THEN left ELSE st[t]
           /\ \A t \in Threads : t = current' => st[t] = "READY"
<1>1. CASE \E n \in {t \in Threads : st[t] = "READY"} :
               current' = n /\ state' = Switched(st, current, left, n)
    BY <1>1 DEF SwitchAway, Switched, States
<1>2. CASE current' = None /\ state' = Switched(st, current, left, None)
    BY Zenon, <1>2 DEF SwitchAway, Switched, States
<1> QED
    BY ZenonT(30), <1>1, <1>2 DEF SwitchAway

(* The link of an endpoint and the call of a thread determine each other. *)
LEMMA LinkFacts ==
    ASSUME IInv, NEW t \in Threads, NEW e \in Endpoints
    PROVE  /\ waiting_receiver[e].thread = t <=> (frame[t].kind = Receive /\ frame[t].endpoint = e)
           /\ waiting_sender[e].thread = t <=> (frame[t].kind = Send /\ frame[t].endpoint = e)
           /\ frame[t] = NoFrame <=> frame[t].kind = "NONE"
<1>1. CallAgrees(t) /\ EndpointAgrees(e) /\ t # None
    BY Zenon DEF IInv, ReservationsAgree
<1>2. Receive # Send /\ Receive # "NONE" /\ Send # "NONE"
    BY Zenon DEF Receive, Send
<1>3. NoFrame.kind = "NONE"
    BY Zenon DEF NoFrame
<1> QED
    BY <1>1, <1>2, <1>3 DEF CallAgrees, EndpointAgrees, LinkOf, NoLink

(* Every reservation passes the checks the code makes on it. *)
LEMMA Valid ==
    ASSUME IInv, NEW e \in Endpoints
    PROVE  ReservationValid(e, Receive) /\ ReservationValid(e, Send) /\ StagingConsistent(e)
<1>1. waiting_receiver[e] \in Link /\ waiting_sender[e] \in Link
    BY Zenon DEF IInv, TypeOK
<1>2. Receive # Send /\ Receive # "NONE" /\ Send # "NONE"
    BY Zenon DEF Receive, Send
<1>3. ASSUME NEW k \in {Receive, Send}, NEW l, l = LinkOf(e, k)
      PROVE  ReservationValid(e, k)
  <2>1. CASE l.thread = None
      BY <2>1, <1>3 DEF IInv, ReservationsAgree, EndpointAgrees, ReservationValid, LinkOf, NoLink
  <2>2. CASE l.thread # None
    <3>1. l.thread \in Threads
        BY Zenon, <2>2, <1>1, <1>3 DEF LinkOf, Link
    <3>2. frame[l.thread].kind = k /\ frame[l.thread].endpoint = e
        BY Zenon, <3>1, <2>2, <1>2, <1>3 DEF IInv, ReservationsAgree, EndpointAgrees, LinkOf
    <3>3. frame[l.thread] # NoFrame
        BY <3>2, <1>2 DEF NoFrame
    <3>4. CallAgrees(l.thread)
        BY Zenon, <3>1 DEF IInv, ReservationsAgree
    <3>5. WaitMatches(l.thread, k, e, l.id) /\ wait[l.thread].result # "NONE" /\ state[l.thread] # "DEAD"
        BY <3>2, <3>3, <3>4, <1>3 DEF CallAgrees
    <3>6. wait[l.thread].result \in Terminal \cup {"PENDING"}
        BY ZenonT(30), <3>5, <3>1 DEF IInv, TypeOK, Wait
    <3>7. (l.thread = current /\ state[l.thread] = "RUNNING") \/ state[l.thread] \in {"BLOCKED", "READY"}
        BY Zenon, <3>5, <3>1 DEF IInv, TypeOK, ReservationsAgree
    <3> QED
        BY Zenon, <3>5, <3>6, <3>7, <2>2, <1>3 DEF ReservationValid
  <2> QED
      BY Zenon, <2>1, <2>2
<1>4. StagingConsistent(e)
  <2>1. CASE waiting_sender[e].thread = None
      BY Zenon, <2>1 DEF IInv, ReservationsAgree, EndpointAgrees, StagingConsistent
  <2>2. CASE waiting_sender[e].thread # None
    <3>1. waiting_sender[e].thread \in Threads
        BY Zenon, <2>2, <1>1 DEF Link
    <3>2. frame[waiting_sender[e].thread].kind = Send /\ frame[waiting_sender[e].thread].endpoint = e
        BY Zenon, <2>2 DEF IInv, ReservationsAgree, EndpointAgrees
    <3>3. frame[waiting_sender[e].thread] # NoFrame
        BY <3>2, <1>2 DEF NoFrame
    <3>4. CallAgrees(waiting_sender[e].thread) /\ EndpointAgrees(e)
        BY Zenon, <3>1 DEF IInv, ReservationsAgree
    <3>5. Pending(waiting_sender[e].thread) => staged[e] # None
        BY Zenon, <3>2, <3>3, <3>4 DEF CallAgrees
    <3> QED
        BY Zenon, <2>2, <3>4, <3>5 DEF EndpointAgrees, StagingConsistent
  <2> QED
      BY Zenon, <2>1, <2>2
<1> QED
    BY Zenon, <1>3, <1>4
-----------------------------------------------------------------------------
(* Initial states *)

(* Initially no thread waits and no endpoint exists. *)
LEMMA InitInv == Init => IInv
<1> SUFFICES ASSUME Init PROVE IInv
    BY Zenon
<1>1. TypeOK
  <2>1. /\ state \in [Threads -> States] /\ current \in Threads \cup {None} /\ halting \in BOOLEAN
        /\ halted \in BOOLEAN /\ exit_info \in [Processes -> {"NONE", "NORMAL", "FAULT", "TERMINATED"}]
      BY ZenonT(30) DEF Init, States
  <2>2. /\ wait \in [Threads -> Wait] /\ frame \in [Threads -> Frame] /\ timed \in [Threads -> Slot]
        /\ waiting_receiver \in [Endpoints -> Link] /\ waiting_sender \in [Endpoints -> Link]
      BY Zenon, Absent DEF Init
  <2>3. ticks \in 0 .. Modulus - 1
      BY DEF Init, Modulus
  <2>4. /\ g_next_wait_id \in 0 .. WaitIdLimit /\ g_next_endpoint_id \in 0 .. EndpointIdLimit
        /\ endpoint_id \in [Endpoints -> 0 .. EndpointIdLimit]
      BY DEF Init
  <2>5. /\ owner \in [Endpoints -> Processes \cup {None}] /\ closed \in [Endpoints -> BOOLEAN]
        /\ message \in [Endpoints -> Messages \cup {None}]
        /\ staged \in [Endpoints -> Messages \cup {None}] /\ caps \subseteq Processes \X Endpoints
      BY Zenon DEF Init
  <2>6. /\ outcome \in [Messages -> {"unsent", "calling", "ok", "failed", "aborted"}]
        /\ accepted \in [1 .. EndpointIdLimit -> Seq(Messages)]
        /\ received \in [1 .. EndpointIdLimit -> Seq(Messages)]
      BY DEF Init
  <2> QED
      BY Zenon, <2>1, <2>2, <2>3, <2>4, <2>5, <2>6 DEF TypeOK, States
<1>2. NeverHalts
    BY Zenon DEF Init, NeverHalts
<1>3. ReservationsAgree
    BY Zenon DEF Init, ReservationsAgree, CallAgrees, EndpointAgrees, NoWait, NoFrame, NoLink, NoSlot
<1>4. NoLostWakeup
    BY Zenon DEF Init, NoLostWakeup
<1>5. ExitedProcessIsStopped
    BY Zenon DEF Init, ExitedProcessIsStopped
<1> QED
    BY Zenon, <1>1, <1>2, <1>3, <1>4, <1>5 DEF IInv

(* The three kinds of a call are distinct, and the running thread is RUNNING. *)
LEMMA Basics ==
    ASSUME IInv
    PROVE  /\ Receive # Send /\ Receive # "NONE" /\ Send # "NONE"
           /\ NoFrame.kind = "NONE" /\ NoWait.result = "NONE" /\ NoLink.thread = None
           /\ \A t \in Threads : t # None /\ (state[t] = "RUNNING" <=> t = current)
BY Zenon DEF IInv, ReservationsAgree, Receive, Send, NoFrame, NoWait, NoLink

(* A blocked call holds the link it names, so a free link is not the one it waits on. *)
LEMMA FreeLink ==
    ASSUME IInv, NEW e, NEW kind, LinkOf(e, kind) = NoLink,
           NEW t \in Threads, CallAgrees(t), frame[t] # NoFrame
    PROVE  frame[t].endpoint \in Endpoints /\ ~(frame[t].kind = kind /\ frame[t].endpoint = e)
<1>1. /\ frame[t].endpoint \in Endpoints
      /\ LinkOf(frame[t].endpoint, frame[t].kind) = [thread |-> t, id |-> frame[t].id]
    BY Zenon DEF CallAgrees
<1>2. ASSUME NEW i PROVE [thread |-> t, id |-> i].thread = t
    OBVIOUS
<1>3. [thread |-> t, id |-> frame[t].id] # NoLink
    BY Zenon, <1>2, Basics
<1> QED
    BY Zenon, <1>1, <1>3

(* A call stays consistent when its link, its registration and its endpoint's identity stay, and *)
(* when a wait that remains PENDING keeps an open endpoint, its message staged and the mailbox full. *)
LEMMA CallKept ==
    ASSUME NEW t, CallAgrees(t), frame'[t] = frame[t], timed'[t] = timed[t],
           frame[t] = NoFrame => wait'[t] = wait[t],
           frame[t] # NoFrame =>
               /\ state'[t] # "DEAD"
               /\ endpoint_id'[frame[t].endpoint] = endpoint_id[frame[t].endpoint]
               /\ WaitMatches(t, frame[t].kind, frame[t].endpoint, frame[t].id)'
               /\ wait'[t].result # "NONE"
               /\ LinkOf(frame[t].endpoint, frame[t].kind)' = LinkOf(frame[t].endpoint, frame[t].kind)
               /\ Pending(t)' =>
                     /\ Pending(t) /\ ~closed'[frame[t].endpoint]
                     /\ frame[t].kind = Send =>
                           /\ staged'[frame[t].endpoint] = staged[frame[t].endpoint]
                           /\ message'[frame[t].endpoint] # None
    PROVE  CallAgrees(t)'
<1>1. CASE frame[t] = NoFrame
    BY Zenon, <1>1 DEF CallAgrees
<1>2. CASE frame[t] # NoFrame
  <2>1. Registered(t)' <=> Registered(t)
      BY Zenon DEF Registered
  <2>2. Live(frame[t].endpoint)' <=> Live(frame[t].endpoint)
      BY Zenon, <1>2 DEF Live
  <2> QED
      BY Zenon, <1>2, <2>1, <2>2 DEF CallAgrees
<1> QED
    BY Zenon, <1>1, <1>2

(* An endpoint stays consistent when its links, the calls they name and a staged message's wait stay. *)
LEMMA EndpointKept ==
    ASSUME NEW e, EndpointAgrees(e),
           waiting_receiver'[e] = waiting_receiver[e], waiting_sender'[e] = waiting_sender[e],
           waiting_receiver[e].thread # None =>
               frame'[waiting_receiver[e].thread] = frame[waiting_receiver[e].thread],
           waiting_sender[e].thread # None =>
               /\ frame'[waiting_sender[e].thread] = frame[waiting_sender[e].thread]
               /\ staged[e] # None => wait'[waiting_sender[e].thread].result = "PENDING",
           staged'[e] # None => staged[e] # None
    PROVE  EndpointAgrees(e)'
BY Zenon DEF EndpointAgrees, Pending

(* Nothing is disturbed when waits, links and mailboxes stay and live endpoints in use stay as they are. *)
LEMMA SameCalls ==
    ASSUME ReservationsAgree,
           UNCHANGED <<state, current, wait, frame, timed, message, staged, waiting_receiver,
                       waiting_sender>>,
           \A t \in Threads : frame[t] # NoFrame =>
               /\ endpoint_id'[frame[t].endpoint] = endpoint_id[frame[t].endpoint]
               /\ closed'[frame[t].endpoint] = closed[frame[t].endpoint],
           \A c \in caps' : Live(c[2])'
    PROVE  ReservationsAgree'
<1>1. ASSUME NEW t \in Threads PROVE CallAgrees(t)'
  <2>1. CallAgrees(t)
      BY Zenon DEF ReservationsAgree
  <2>2. CASE frame[t] = NoFrame
      BY Zenon, <2>1, <2>2, CallKept
  <2>3. CASE frame[t] # NoFrame
    <3>1. /\ state[t] # "DEAD" /\ wait[t].result # "NONE"
          /\ WaitMatches(t, frame[t].kind, frame[t].endpoint, frame[t].id)
          /\ Pending(t) => /\ ~closed[frame[t].endpoint]
                           /\ frame[t].kind = Send => message[frame[t].endpoint] # None
        BY Zenon, <2>1, <2>3 DEF CallAgrees
    <3>2. /\ WaitMatches(t, frame[t].kind, frame[t].endpoint, frame[t].id)'
          /\ LinkOf(frame[t].endpoint, frame[t].kind)' = LinkOf(frame[t].endpoint, frame[t].kind)
          /\ Pending(t)' <=> Pending(t)
        BY Zenon, <3>1 DEF WaitMatches, LinkOf, Pending
    <3> QED
        BY Zenon, <2>1, <2>3, <3>1, <3>2, CallKept
  <2> QED
      BY Zenon, <2>2, <2>3
<1>2. ASSUME NEW e \in Endpoints PROVE EndpointAgrees(e)'
    BY Zenon, EndpointKept DEF ReservationsAgree, EndpointAgrees, Pending
<1> QED
    BY Zenon, <1>1, <1>2 DEF ReservationsAgree

-----------------------------------------------------------------------------
(* Endpoint objects and capabilities *)

(* Creating an endpoint in unused storage disturbs no call. *)
LEMMA CreateInv ==
    ASSUME IInv, NEW e \in Endpoints, NEW p \in Processes \cup {None}, EndpointCreate(e, p)
    PROVE  IInv'
<1>1. TypeOK'
  <2>1. g_next_endpoint_id \in 0 .. EndpointIdLimit /\ g_next_endpoint_id # 0
      BY Zenon DEF IInv, EndpointCreate, TypeOK
  <2>2. NextId(g_next_endpoint_id, EndpointIdLimit) \in 0 .. EndpointIdLimit
      BY <2>1 DEF NextId
  <2> QED
      BY ZenonT(30), <2>1, <2>2 DEF IInv, EndpointCreate, TypeOK
<1>2. ReservationsAgree'
  <2>1. /\ ReservationsAgree /\ endpoint_id[e] = 0 /\ g_next_endpoint_id # 0
        /\ endpoint_id' = [endpoint_id EXCEPT ![e] = g_next_endpoint_id]
        /\ closed' = [closed EXCEPT ![e] = FALSE]
        /\ endpoint_id \in [Endpoints -> 0 .. EndpointIdLimit] /\ closed \in [Endpoints -> BOOLEAN]
        /\ UNCHANGED <<state, current, wait, frame, timed, boxVars, caps>>
      BY Zenon DEF IInv, EndpointCreate, Live, TypeOK
  <2>2. \A f \in Endpoints : endpoint_id[f] # 0 => /\ endpoint_id'[f] = endpoint_id[f]
                                                 /\ closed'[f] = closed[f]
      BY Zenon, <2>1
  <2>3. \A t \in Threads : frame[t] # NoFrame => frame[t].endpoint \in Endpoints /\ endpoint_id[frame[t].endpoint] # 0
      BY Zenon, <2>1 DEF ReservationsAgree, CallAgrees, Live
  <2>4. \A c \in caps' : Live(c[2])'
    <3>1. ASSUME NEW c \in caps PROVE Live(c[2])'
      <4>1. c[2] \in Endpoints
          BY DEF IInv, TypeOK
      <4> QED
          BY Zenon, <2>1, <2>2, <3>1, <4>1 DEF ReservationsAgree, Live
    <3> QED
        BY Zenon, <2>1, <3>1
  <2> QED
      BY Zenon, <2>1, <2>2, <2>3, <2>4, SameCalls
<1>3. NoLostWakeup'
    BY Zenon DEF IInv, EndpointCreate, TypeOK, NoLostWakeup, Pending, ReservationsAgree, CallAgrees, Live
<1>4. NeverHalts' /\ ExitedProcessIsStopped'
    BY Zenon DEF IInv, EndpointCreate, NeverHalts, ExitedProcessIsStopped
<1> QED
    BY Zenon, <1>1, <1>2, <1>3, <1>4 DEF IInv

(* Destroying an endpoint that nobody waits on or holds disturbs no call. *)
LEMMA DestroyInv ==
    ASSUME IInv, NEW e \in Endpoints, EndpointDestroy(e)
    PROVE  IInv'
<1>1. TypeOK'
  <2>1. 0 \in 0 .. EndpointIdLimit
      OBVIOUS
  <2> QED
      BY ZenonT(30), <2>1 DEF IInv, EndpointDestroy, TypeOK
<1>2. ReservationsAgree'
  <2>1. /\ ReservationsAgree /\ waiting_receiver[e] = NoLink /\ waiting_sender[e] = NoLink
        /\ \A p \in Processes : <<p, e>> \notin caps
        /\ endpoint_id' = [endpoint_id EXCEPT ![e] = 0] /\ closed' = [closed EXCEPT ![e] = FALSE]
        /\ endpoint_id \in [Endpoints -> 0 .. EndpointIdLimit] /\ closed \in [Endpoints -> BOOLEAN]
        /\ UNCHANGED <<state, current, wait, frame, timed, boxVars, caps>>
      BY Zenon DEF IInv, EndpointDestroy, Destroyable, Holds, TypeOK
  <2>2. \A f \in Endpoints : f # e => endpoint_id'[f] = endpoint_id[f] /\ closed'[f] = closed[f]
      BY Zenon, <2>1
  <2>3. ASSUME NEW t \in Threads, frame[t] # NoFrame
        PROVE  frame[t].endpoint \in Endpoints /\ frame[t].endpoint # e
    <3>1. CallAgrees(t)
        BY Zenon, <2>1 DEF ReservationsAgree
    <3>2. LinkOf(e, frame[t].kind) = NoLink
        BY Zenon, <2>1 DEF LinkOf
    <3> QED
        BY Zenon, <2>3, <3>1, <3>2, FreeLink
  <2>4. \A c \in caps' : Live(c[2])'
    <3>1. ASSUME NEW c \in caps PROVE Live(c[2])'
      <4>1. c[2] \in Endpoints /\ c[1] \in Processes /\ c = <<c[1], c[2]>>
          BY DEF IInv, TypeOK
      <4>2. PICK p \in Processes, x \in Endpoints : c = <<p, x>> /\ p = c[1] /\ x = c[2]
          BY Zenon, <4>1
      <4>3. x # e
          BY Zenon, <2>1, <3>1, <4>2
      <4>4. endpoint_id'[x] = endpoint_id[x]
          BY Zenon, <2>2, <4>3
      <4>5. Live(c[2])
          BY Zenon, <2>1, <3>1 DEF ReservationsAgree
      <4> QED
          BY Zenon, <4>2, <4>4, <4>5 DEF Live
    <3> QED
        BY Zenon, <2>1, <3>1
  <2> QED
      BY Zenon, <2>1, <2>2, <2>3, <2>4, SameCalls
<1>3. NoLostWakeup'
    BY DEF IInv, EndpointDestroy, TypeOK, NoLostWakeup, Pending
<1>4. NeverHalts' /\ ExitedProcessIsStopped'
    BY Zenon DEF IInv, EndpointDestroy, NeverHalts, ExitedProcessIsStopped
<1> QED
    BY Zenon, <1>1, <1>2, <1>3, <1>4 DEF IInv

(* A change of capabilities that adds only live endpoints disturbs no call. *)
LEMMA CapabilityInv ==
    ASSUME IInv, NEW e \in Endpoints, NEW p \in Processes,
           CapabilityInsert(p, e) \/ CapabilityRevoke(p, e)
    PROVE  IInv'
<1>1. /\ caps' \subseteq Processes \X Endpoints
      /\ \A c \in caps' : c \in caps \/ Live(c[2])
    BY SMTT(30) DEF IInv, TypeOK, CapabilityInsert, CapabilityRevoke
<1>2. UNCHANGED <<schedVars, waitVars, endpoint_id, owner, closed, g_next_endpoint_id, boxVars,
                  timed, ticks, exit_info, halted, history>>
    BY Zenon DEF CapabilityInsert, CapabilityRevoke
<1>3. TypeOK'
    BY ZenonT(30), <1>1, <1>2 DEF IInv, TypeOK
<1>4. ReservationsAgree'
  <2>1. ReservationsAgree /\ \A c \in caps' : Live(c[2])'
      BY Zenon, <1>1, <1>2 DEF IInv, ReservationsAgree, Live
  <2> QED
      BY Zenon, <2>1, <1>2, SameCalls
<1>5. NeverHalts' /\ ExitedProcessIsStopped' /\ NoLostWakeup'
    BY Zenon, <1>2 DEF IInv, NeverHalts, ExitedProcessIsStopped, NoLostWakeup, Pending
<1> QED
    BY Zenon, <1>3, <1>4, <1>5 DEF IInv

-----------------------------------------------------------------------------
(* Nonblocking transfer *)

(* A message that enters the mailbox wakes the receiver. *)
LEMMA DeliverInv ==
    ASSUME IInv, NEW e \in Endpoints, NEW m \in Messages, CanSend(e), Deliver(e, m),
           UNCHANGED <<current, waitVars, objectVars, timed, ticks, exit_info, halted>>,
           halting' \in BOOLEAN
    PROVE  IInv'
<1>1. Live(e) /\ ~closed[e] /\ message[e] = None
    BY Zenon DEF CanSend
<1>2. state' = MadeReady({waiting_receiver[e].thread})
    BY Zenon DEF Deliver
<1>3. /\ state' \in [Threads -> States]
      /\ \A t \in Threads : state'[t] = IF t = waiting_receiver[e].thread /\ state[t] = "BLOCKED"
                                        THEN "READY" ELSE state[t]
    BY ZenonT(30), <1>2, MadeReadyType DEF IInv, TypeOK, States
<1>4. message' = [message EXCEPT ![e] = m]
      /\ UNCHANGED <<staged, waiting_receiver, waiting_sender, received>>
    BY ZenonT(30) DEF Deliver
<1>5. TypeOK'
  <2>1. endpoint_id[e] \in 1 .. EndpointIdLimit
      BY <1>1 DEF IInv, TypeOK, Live
  <2>2. accepted' \in [1 .. EndpointIdLimit -> Seq(Messages)]
      BY <2>1 DEF IInv, TypeOK, Deliver
  <2>3. outcome' \in [Messages -> {"unsent", "calling", "ok", "failed", "aborted"}]
      BY ZenonT(30) DEF IInv, TypeOK, Deliver
  <2> QED
      BY Zenon, <1>3, <1>4, <2>2, <2>3 DEF IInv, TypeOK, States
<1>6. ReservationsAgree'
  <2>1. ASSUME NEW t \in Threads PROVE CallAgrees(t)'
    <3>1. CallAgrees(t)
        BY Zenon DEF IInv, ReservationsAgree
    <3>2. state'[t] = "DEAD" => state[t] = "DEAD"
        BY Zenon, <1>3
    <3>3. m # None /\ \A f \in Endpoints : message[f] # None => message'[f] # None
        BY Zenon, <1>4 DEF IInv, TypeOK
    <3> QED
        BY Zenon, <3>1, <3>2, <3>3, <1>4 DEF CallAgrees, Live, WaitMatches, LinkOf, Registered, Pending
  <2>2. ASSUME NEW f \in Endpoints PROVE EndpointAgrees(f)'
      BY Zenon, <1>4 DEF IInv, ReservationsAgree, EndpointAgrees, Pending
  <2>3. \A t \in Threads : state'[t] = "RUNNING" <=> t = current'
      BY Zenon, <1>3 DEF IInv, ReservationsAgree
  <2> QED
      BY Zenon, <2>1, <2>2, <2>3 DEF IInv, ReservationsAgree, Live
<1>7. NoLostWakeup'
  <2> SUFFICES ASSUME NEW t \in Threads, state'[t] = "BLOCKED"
               PROVE  LET f == frame'[t].endpoint
                      IN  /\ frame'[t] # NoFrame /\ Pending(t)' /\ ~closed'[f]
                          /\ frame'[t].kind = Receive => message'[f] = None
                          /\ frame'[t].kind = Send => /\ message'[f] # None
                                                      /\ staged'[f] = frame'[t].message
      BY Zenon DEF NoLostWakeup
  <2>1. state[t] = "BLOCKED" /\ t # waiting_receiver[e].thread
      BY Zenon, <1>3
  <2>2. frame[t].kind = Receive => frame[t].endpoint # e
      BY Zenon, <2>1, LinkFacts
  <2>3. frame[t].endpoint # e => message'[frame[t].endpoint] = message[frame[t].endpoint]
      BY <1>4 DEF IInv, TypeOK
  <2>4. m # None /\ message'[e] = m
      BY Zenon, <1>4 DEF IInv, TypeOK
  <2> QED
      BY <1>4, <2>1, <2>2, <2>3, <2>4 DEF IInv, NoLostWakeup, Pending
<1>8. NeverHalts' /\ ExitedProcessIsStopped'
    BY Zenon, <1>3 DEF IInv, NeverHalts, ExitedProcessIsStopped
<1> QED
    BY Zenon, <1>5, <1>6, <1>7, <1>8 DEF IInv
(* Parking keeps every other thread as it is; only the parked thread may become BLOCKED. *)
LEMMA ParkFacts ==
    ASSUME IInv, current \in Threads, Park
    PROVE  /\ state' \in [Threads -> States] /\ current' \in Threads \cup {None} /\ halting' \in BOOLEAN
           /\ \A t \in Threads : state'[t] = "RUNNING" <=> t = current'
           /\ \A t \in Threads : state'[t] = "DEAD" <=> state[t] = "DEAD"
           /\ \A t \in Threads \ {current} : state'[t] = "BLOCKED" => state[t] = "BLOCKED"
<1>1. state \in [Threads -> States] /\ current \in Threads \cup {None} /\ "BLOCKED" \in States
      /\ \A t \in Threads : state[t] = "RUNNING" <=> t = current
    BY Zenon DEF IInv, TypeOK, States, ReservationsAgree
<1>2. CASE SwitchAway(state, "BLOCKED")
  <2>1. /\ state' \in [Threads -> States] /\ current' \in Threads \cup {None} /\ halting' = FALSE
        /\ \A t \in Threads : state'[t] = "RUNNING" <=> t = current'
        /\ \A t \in Threads : state'[t] = IF t = current' THEN "RUNNING"
                                         ELSE IF t = current THEN "BLOCKED" ELSE state[t]
        /\ \A t \in Threads : t = current' => state[t] = "READY"
      BY ZenonT(30), <1>1, <1>2, SwitchFacts
  <2> QED
      BY ZenonT(30), <2>1, <1>1
<1>3. CASE halting' = TRUE /\ UNCHANGED <<state, current>>
    BY ZenonT(30), <1>3, <1>1
<1> QED
    BY ZenonT(30), <1>2, <1>3 DEF Park

(* What a call in progress can rely on when its thread runs again. *)
LEMMA CallFacts ==
    ASSUME IInv, NEW c \in Threads, frame[c] # NoFrame
    PROVE  /\ frame[c].kind \in {Receive, Send} /\ frame[c].endpoint \in Endpoints
           /\ Live(frame[c].endpoint) /\ state[c] # "DEAD"
           /\ WaitMatches(c, frame[c].kind, frame[c].endpoint, frame[c].id)
           /\ wait[c].result # "NONE"
           /\ LinkOf(frame[c].endpoint, frame[c].kind) = [thread |-> c, id |-> frame[c].id]
           /\ IF frame[c].timed
              THEN Registered(c) /\ timed[c].endpoint_id = endpoint_id[frame[c].endpoint]
              ELSE timed[c] = NoSlot
           /\ Pending(c) => /\ ~closed[frame[c].endpoint]
                            /\ frame[c].kind = Send => /\ staged[frame[c].endpoint] = frame[c].message
                                                       /\ frame[c].message # None
                                                       /\ message[frame[c].endpoint] # None
<1>1. CallAgrees(c)
    BY Zenon DEF IInv, ReservationsAgree
<1> QED
    BY Zenon, <1>1 DEF CallAgrees

-----------------------------------------------------------------------------
(* The timer interrupt *)

(* A registered timeout belongs to the call its thread is suspended in, and passes the *)
(* checks of ipc_timeout_poll.                                                         *)
LEMMA SlotFacts ==
    ASSUME IInv, NEW t \in Threads, timed[t] # NoSlot
    PROVE  /\ frame[t] # NoFrame /\ SlotIntact(t)
           /\ timed[t].endpoint = frame[t].endpoint /\ timed[t].kind = frame[t].kind
           /\ Pending(t) /\ timed[t].kind = Send => staged[timed[t].endpoint] # None
<1>1. frame[t] # NoFrame
    BY ZenonT(30) DEF IInv, ReservationsAgree, CallAgrees
<1>2. Registered(t) /\ timed[t].endpoint_id = endpoint_id[frame[t].endpoint]
    BY ZenonT(30), <1>1, CallFacts
<1>3. timed[t].endpoint = frame[t].endpoint /\ timed[t].kind = frame[t].kind /\ timed[t].id = frame[t].id
    BY Zenon, <1>2 DEF Registered
<1>4. /\ frame[t].endpoint \in Endpoints /\ frame[t].kind \in {Receive, Send}
      /\ endpoint_id[frame[t].endpoint] # 0
      /\ WaitMatches(t, frame[t].kind, frame[t].endpoint, frame[t].id)
    BY ZenonT(30), <1>1, CallFacts DEF Live
<1>5. ReservationValid(frame[t].endpoint, frame[t].kind)
    BY Zenon, <1>4, Valid
<1>6. SlotIntact(t)
    BY Zenon, <1>2, <1>3, <1>4, <1>5 DEF SlotIntact
<1>7. Pending(t) /\ timed[t].kind = Send => staged[timed[t].endpoint] # None
    BY ZenonT(30), <1>1, <1>3, CallFacts
<1> QED
    BY Zenon, <1>1, <1>3, <1>6, <1>7

(* The waits of X are decided by timeout and their threads made READY before the switch. *)
LEMMA ExpireInv ==
    ASSUME IInv, NEW X \in SUBSET Threads,
           \A t \in X : timed[t] # NoSlot /\ Pending(t),
           wait' = Completed(X, "TIMED_OUT"),
           staged' = [e \in Endpoints |->
                        IF \E t \in X : timed[t].kind = Send /\ timed[t].endpoint = e
                        THEN None ELSE staged[e]],
           ticks' \in 0 .. Modulus - 1,
           state' \in [Threads -> States], current' \in Threads \cup {None}, halting' \in BOOLEAN,
           \A t \in Threads : state'[t] = "RUNNING" <=> t = current',
           \A t \in Threads : state'[t] = "DEAD" <=> state[t] = "DEAD",
           \A t \in Threads : state'[t] = "BLOCKED" => state[t] = "BLOCKED" /\ t \notin X,
           UNCHANGED <<frame, g_next_wait_id, objectVars, message, waiting_receiver,
                       waiting_sender, timed, exit_info, halted, history>>
    PROVE  IInv'
<1>1. TypeOK /\ "TIMED_OUT" \in Terminal
    BY Zenon DEF IInv, Terminal
<1>2. /\ wait' \in [Threads -> Wait]
      /\ \A t \in Threads :
             /\ wait'[t].kind = wait[t].kind /\ wait'[t].object = wait[t].object
             /\ wait'[t].id = wait[t].id
             /\ wait'[t].result = IF t \in X /\ wait[t].result = "PENDING" THEN "TIMED_OUT"
                                  ELSE wait[t].result
             /\ (t \notin X \/ wait[t].result # "PENDING") => wait'[t] = wait[t]
  <2>1. wait \in [Threads -> Wait]
      BY Zenon, <1>1 DEF TypeOK
  <2> QED
      BY ONLY SMTT(30), <1>1, <2>1, wait' = Completed(X, "TIMED_OUT"), CompletedType
<1>3. \A t \in Threads : /\ Pending(t)' <=> (Pending(t) /\ t \notin X)
                         /\ wait'[t].result # "NONE" <=> wait[t].result # "NONE"
    BY ZenonT(30), <1>2 DEF Pending
<1>4. staged' \in [Endpoints -> Messages \cup {None}]
    BY Zenon, <1>1 DEF TypeOK
<1>5. ASSUME NEW t \in Threads, frame[t].kind = Send, frame[t].endpoint \in Endpoints, t \notin X
      PROVE  staged'[frame[t].endpoint] = staged[frame[t].endpoint]
  <2>1. ASSUME NEW u \in X, timed[u].kind = Send, timed[u].endpoint = frame[t].endpoint PROVE FALSE
    <3>1. u \in Threads /\ frame[u].kind = Send /\ frame[u].endpoint = frame[t].endpoint
        BY Zenon, <2>1, SlotFacts
    <3>2. waiting_sender[frame[t].endpoint].thread = u
        BY Zenon, <3>1, <1>5, LinkFacts
    <3>3. waiting_sender[frame[t].endpoint].thread = t
        BY Zenon, <1>5, LinkFacts
    <3> QED
        BY Zenon, <3>2, <3>3, <1>5
  <2> QED
      BY ZenonT(30), <2>1, <1>5
<1>6. TypeOK'
    BY ZenonT(30), <1>1, <1>2, <1>4 DEF TypeOK, States
<1>7. ASSUME NEW t \in Threads PROVE CallAgrees(t)'
  <2>1. CASE frame[t] = NoFrame
    <3>1. wait[t] = NoWait /\ timed[t] = NoSlot
        BY ZenonT(30), <2>1 DEF IInv, ReservationsAgree, CallAgrees
    <3>2. wait'[t] = NoWait
        BY Zenon, <3>1, <1>2, Basics
    <3> QED
        BY ZenonT(30), <2>1, <3>1, <3>2 DEF CallAgrees
  <2>2. CASE frame[t] # NoFrame
    <3>1. frame[t].kind = Send /\ Pending(t)' => staged'[frame[t].endpoint] = staged[frame[t].endpoint]
        BY ZenonT(30), <2>2, <1>3, <1>5, CallFacts
    <3>2. WaitMatches(t, frame[t].kind, frame[t].endpoint, frame[t].id)'
      <4>1. WaitMatches(t, frame[t].kind, frame[t].endpoint, frame[t].id)
          BY Zenon, <2>2, CallFacts
      <4>2. /\ wait'[t].kind = wait[t].kind /\ wait'[t].object = wait[t].object
            /\ wait'[t].id = wait[t].id
          BY Zenon, <1>2
      <4>3. UNCHANGED <<frame, endpoint_id>>
          BY Zenon DEF objectVars
      <4> QED
          BY ONLY Zenon, <4>1, <4>2, <4>3 DEF WaitMatches
    <3>3. Registered(t)' <=> Registered(t)
        BY Zenon DEF Registered
    <3>4. LinkOf(frame[t].endpoint, frame[t].kind)' = LinkOf(frame[t].endpoint, frame[t].kind)
        BY Zenon DEF LinkOf
    <3>5. CallAgrees(t)
        BY Zenon DEF IInv, ReservationsAgree
    <3> QED
        BY ZenonT(30), <2>2, <3>1, <3>2, <3>3, <3>4, <3>5, <1>3 DEF CallAgrees, Live
  <2> QED
      BY ZenonT(30), <2>1, <2>2
<1>8. ASSUME NEW e \in Endpoints PROVE EndpointAgrees(e)'
  <2>1. EndpointAgrees(e) /\ waiting_sender[e] \in Link
      BY ZenonT(30), <1>1 DEF IInv, ReservationsAgree, TypeOK
  <2>2. waiting_sender[e].thread \in Threads \cup {None}
      BY ZenonT(30), <2>1 DEF Link
  <2>3. staged'[e] # None => waiting_sender[e].thread # None /\ Pending(waiting_sender[e].thread)'
    <3> SUFFICES ASSUME staged'[e] # None
                 PROVE  waiting_sender[e].thread # None /\ Pending(waiting_sender[e].thread)'
        BY Zenon
    <3>1. staged[e] # None /\ \A t \in X : ~(timed[t].kind = Send /\ timed[t].endpoint = e)
        BY Zenon
    <3>2. waiting_sender[e].thread \in Threads /\ Pending(waiting_sender[e].thread)
        BY Zenon, <2>1, <2>2, <3>1 DEF EndpointAgrees
    <3>3. frame[waiting_sender[e].thread].kind = Send /\ frame[waiting_sender[e].thread].endpoint = e
        BY <3>2, LinkFacts
    <3>4. waiting_sender[e].thread \notin X
        BY Zenon, <3>1, <3>2, <3>3, SlotFacts
    <3> QED
        BY Zenon, <3>2, <3>4, <1>3
  <2> QED
      BY Zenon, <2>1, <2>3 DEF EndpointAgrees
<1>9. ReservationsAgree'
    BY ZenonT(30), <1>7, <1>8 DEF IInv, ReservationsAgree, Live
<1>10. NoLostWakeup'
  <2> SUFFICES ASSUME NEW t \in Threads, state'[t] = "BLOCKED"
               PROVE  LET f == frame[t].endpoint
                      IN  /\ frame[t] # NoFrame /\ Pending(t)' /\ ~closed[f]
                          /\ frame[t].kind = Receive => message[f] = None
                          /\ frame[t].kind = Send => message[f] # None /\ staged'[f] = frame[t].message
      BY ZenonT(30) DEF NoLostWakeup
  <2>1. state[t] = "BLOCKED" /\ t \notin X
      BY Zenon
  <2>2. /\ frame[t] # NoFrame /\ Pending(t) /\ ~closed[frame[t].endpoint]
        /\ frame[t].kind = Receive => message[frame[t].endpoint] = None
        /\ frame[t].kind = Send => /\ message[frame[t].endpoint] # None
                                   /\ staged[frame[t].endpoint] = frame[t].message
      BY Zenon, <2>1 DEF IInv, NoLostWakeup
  <2>3. frame[t].endpoint \in Endpoints
      BY ZenonT(30), <2>2, CallFacts
  <2> QED
      BY ZenonT(30), <2>1, <2>2, <2>3, <1>3, <1>5
<1>11. ExitedProcessIsStopped'
  <2> SUFFICES ASSUME NEW t \in Threads, exit_info[ProcessOf[t]] # "NONE"
               PROVE  state'[t] = "DEAD" /\ wait'[t] = NoWait /\ frame[t] = NoFrame
      BY Zenon DEF ExitedProcessIsStopped
  <2>1. state[t] = "DEAD" /\ wait[t] = NoWait /\ frame[t] = NoFrame
      BY Zenon DEF IInv, ExitedProcessIsStopped
  <2> QED
      BY ZenonT(30), <2>1, <1>2, Basics
<1>12. NeverHalts'
    BY Zenon DEF IInv, NeverHalts
<1> QED
    BY ZenonT(30), <1>6, <1>9, <1>10, <1>11, <1>12 DEF IInv

(* The timer interrupt: no check of the poll fails, and the switch follows it. *)
LEMMA TimerInv ==
    ASSUME IInv, TimerInterrupt
    PROVE  IInv'
<1> DEFINE now == (ticks + 1) % Modulus
           X == Expired(now)
           st == MadeReady(X)
<1>1. X \in SUBSET Threads /\ \A t \in X : timed[t] # NoSlot /\ Pending(t)
    BY Zenon DEF Expired
<1>2. /\ \A t \in Threads : timed[t] # NoSlot => SlotIntact(t)
      /\ \A t \in X : timed[t].kind = Send => staged[timed[t].endpoint] # None
    BY Zenon, <1>1, SlotFacts
<1>3. now \in 0 .. Modulus - 1
    BY DEF IInv, TypeOK, Modulus
<1>4. /\ ticks' = now /\ wait' = Completed(X, "TIMED_OUT")
      /\ staged' = [e \in Endpoints |->
                      IF \E t \in X : timed[t].kind = Send /\ timed[t].endpoint = e
                      THEN None ELSE staged[e]]
      /\ \/ SwitchAway(st, "READY")
         \/ state' = st /\ halting' = FALSE /\ UNCHANGED current
      /\ UNCHANGED <<frame, g_next_wait_id, objectVars, message, waiting_receiver,
                     waiting_sender, timed, exit_info, halted, history>>
    BY ZenonT(30), <1>2 DEF TimerInterrupt
<1> HIDE DEF now, X
<1>5. /\ state \in [Threads -> States] /\ current \in Threads \cup {None} /\ "READY" \in States
      /\ \A t \in Threads : state[t] = "RUNNING" <=> t = current
    BY Zenon DEF IInv, TypeOK, States, ReservationsAgree
<1>6. /\ st \in [Threads -> States]
      /\ \A t \in Threads : st[t] = IF t \in X /\ state[t] = "BLOCKED" THEN "READY" ELSE state[t]
    BY Zenon, <1>5, MadeReadyType
<1> HIDE DEF st
<1>7. \A t \in Threads : st[t] = "RUNNING" <=> t = current
    BY Zenon, <1>5, <1>6
<1>8. /\ state' \in [Threads -> States] /\ current' \in Threads \cup {None} /\ halting' \in BOOLEAN
      /\ \A t \in Threads : state'[t] = "RUNNING" <=> t = current'
      /\ \A t \in Threads : state'[t] = "DEAD" <=> st[t] = "DEAD"
      /\ \A t \in Threads : state'[t] = "BLOCKED" => st[t] = "BLOCKED"
  <2>1. CASE SwitchAway(st, "READY")
    <3>1. /\ state' \in [Threads -> States] /\ current' \in Threads \cup {None} /\ halting' = FALSE
          /\ \A t \in Threads : state'[t] = "RUNNING" <=> t = current'
          /\ \A t \in Threads : state'[t] = IF t = current' THEN "RUNNING"
                                           ELSE IF t = current THEN "READY" ELSE st[t]
          /\ \A t \in Threads : t = current' => st[t] = "READY"
        BY ZenonT(30), <1>5, <1>6, <1>7, <2>1, SwitchFacts
    <3> QED
        BY ZenonT(30), <3>1, <1>7
  <2>2. CASE state' = st /\ halting' = FALSE /\ UNCHANGED current
      BY ZenonT(30), <2>2, <1>5, <1>6, <1>7
  <2> QED
      BY ZenonT(30), <1>4, <2>1, <2>2
<1>9. /\ \A t \in Threads : state'[t] = "DEAD" <=> state[t] = "DEAD"
      /\ \A t \in Threads : state'[t] = "BLOCKED" => state[t] = "BLOCKED" /\ t \notin X
    BY Zenon, <1>6, <1>8
<1> QED
    BY ZenonT(30), <1>1, <1>3, <1>4, <1>8, <1>9, ExpireInv

-----------------------------------------------------------------------------
(* Closing endpoints and stopping threads *)

(* Stopped kills the threads of T, wakes the waiters of E and leaves the rest alone. *)
LEMMA StoppedFacts ==
    ASSUME IInv, NEW E \in SUBSET Endpoints, NEW T \in SUBSET Threads, current \notin T
    PROVE  /\ Stopped(E, T) \in [Threads -> States]
           /\ \A t \in Threads : Stopped(E, T)[t] = "RUNNING" <=> t = current
           /\ \A t \in Threads : Stopped(E, T)[t] = "DEAD" <=> (t \in T \/ state[t] = "DEAD")
           /\ \A t \in Threads : Stopped(E, T)[t] = "BLOCKED" =>
                                     state[t] = "BLOCKED" /\ t \notin T /\ t \notin Waiters(E)
<1>1. state \in [Threads -> States] /\ \A t \in Threads : state[t] = "RUNNING" <=> t = current
    BY Zenon DEF IInv, TypeOK, States, ReservationsAgree
<1>2. /\ MadeReady(Waiters(E)) \in [Threads -> States]
      /\ \A t \in Threads : MadeReady(Waiters(E))[t] =
             IF t \in Waiters(E) /\ state[t] = "BLOCKED" THEN "READY" ELSE state[t]
    BY Zenon, <1>1, MadeReadyType
<1>3. \A t \in Threads : Stopped(E, T)[t] = IF t \in T THEN "DEAD" ELSE MadeReady(Waiters(E))[t]
    BY Zenon DEF Stopped
<1>4. Stopped(E, T) \in [Threads -> States]
    BY Zenon, <1>2 DEF Stopped, States
<1> QED
    BY Zenon, <1>1, <1>2, <1>3, <1>4

(* The waiters of E are the threads suspended in a call on one of its endpoints. *)
LEMMA WaiterFacts ==
    ASSUME IInv, NEW E \in SUBSET Endpoints, NEW t \in Threads
    PROVE  t \in Waiters(E) <=> frame[t] # NoFrame /\ frame[t].endpoint \in E
<1>1. ASSUME t \in Waiters(E) PROVE frame[t] # NoFrame /\ frame[t].endpoint \in E
  <2>1. PICK e \in E : waiting_receiver[e].thread = t \/ waiting_sender[e].thread = t
      BY Zenon, <1>1 DEF Waiters
  <2>2. frame[t].kind \in {Receive, Send} /\ frame[t].endpoint = e
      BY <2>1, LinkFacts
  <2> QED
      BY Zenon, <2>2, Basics
<1>2. ASSUME frame[t] # NoFrame, frame[t].endpoint \in E PROVE t \in Waiters(E)
  <2>1. frame[t].kind \in {Receive, Send}
      BY ZenonT(30), <1>2, CallFacts
  <2>2. waiting_receiver[frame[t].endpoint].thread = t \/ waiting_sender[frame[t].endpoint].thread = t
      BY Zenon, <1>2, <2>1, LinkFacts
  <2> QED
      BY Zenon, <1>2, <2>2 DEF Waiters
<1> QED
    BY Zenon, <1>1, <1>2

(* Closing endpoints and stopping threads together: every surviving call agrees with its *)
(* endpoint, and no survivor sleeps on a closed one.                                     *)
LEMMA CloseInv ==
    ASSUME IInv, NEW E \in SUBSET Endpoints, NEW T \in SUBSET Threads, CloseAndStop(E, T),
           state' \in [Threads -> States], current' \in Threads \cup {None}, halting' \in BOOLEAN,
           \A t \in Threads : state'[t] = "RUNNING" <=> t = current',
           \A t \in Threads : state'[t] = "DEAD" => t \in T \/ state[t] = "DEAD" \/ frame[t] = NoFrame,
           \A t \in Threads : state'[t] = "BLOCKED" =>
                                  state[t] = "BLOCKED" /\ t \notin T /\ t \notin Waiters(E),
           exit_info' \in [Processes -> {"NONE", "NORMAL", "FAULT", "TERMINATED"}],
           \A t \in Threads : exit_info'[ProcessOf[t]] # "NONE" =>
                                  state'[t] = "DEAD" /\ (t \in T \/ frame[t] = NoFrame),
           caps' \in SUBSET caps,
           UNCHANGED <<g_next_wait_id, endpoint_id, owner, g_next_endpoint_id, ticks, halted,
                       accepted, received>>
    PROVE  IInv'
<1>1. TypeOK /\ "PEER_CLOSED" \in Terminal /\ None \notin T
    BY Zenon DEF IInv, Terminal
<1>2. /\ Completed(Waiters(E), "PEER_CLOSED") \in [Threads -> Wait]
      /\ \A t \in Threads :
             /\ Completed(Waiters(E), "PEER_CLOSED")[t].kind = wait[t].kind
             /\ Completed(Waiters(E), "PEER_CLOSED")[t].object = wait[t].object
             /\ Completed(Waiters(E), "PEER_CLOSED")[t].id = wait[t].id
             /\ Completed(Waiters(E), "PEER_CLOSED")[t].result =
                    IF t \in Waiters(E) /\ wait[t].result = "PENDING" THEN "PEER_CLOSED"
                    ELSE wait[t].result
             /\ (t \notin Waiters(E) \/ wait[t].result # "PENDING") =>
                    Completed(Waiters(E), "PEER_CLOSED")[t] = wait[t]
  <2>1. wait \in [Threads -> Wait]
      BY Zenon, <1>1 DEF TypeOK
  <2> QED
      BY ONLY SMTT(30), <1>1, <2>1, CompletedType
<1>3. wait' = [t \in Threads |-> IF t \in T THEN NoWait ELSE Completed(Waiters(E), "PEER_CLOSED")[t]]
    BY Zenon DEF CloseAndStop
<1>4. /\ wait' \in [Threads -> Wait]
      /\ \A t \in T : wait'[t] = NoWait
      /\ \A t \in Threads \ T :
             /\ wait'[t].kind = wait[t].kind /\ wait'[t].object = wait[t].object
             /\ wait'[t].id = wait[t].id
             /\ wait'[t].result = IF t \in Waiters(E) /\ wait[t].result = "PENDING" THEN "PEER_CLOSED"
                                  ELSE wait[t].result
             /\ (t \notin Waiters(E) \/ wait[t].result # "PENDING") => wait'[t] = wait[t]
    BY Zenon, <1>2, <1>3, Absent
<1>5. /\ frame' \in [Threads -> Frame] /\ timed' \in [Threads -> Slot]
      /\ \A t \in T : frame'[t] = NoFrame /\ timed'[t] = NoSlot
      /\ \A t \in Threads \ T : frame'[t] = frame[t] /\ timed'[t] = timed[t]
    BY SMTT(30), <1>1, Absent DEF TypeOK, CloseAndStop
<1>6. /\ waiting_receiver' \in [Endpoints -> Link] /\ waiting_sender' \in [Endpoints -> Link]
      /\ \A e \in Endpoints :
             /\ waiting_receiver'[e] = IF waiting_receiver[e].thread \in T THEN NoLink
                                       ELSE waiting_receiver[e]
             /\ waiting_sender'[e] = IF waiting_sender[e].thread \in T THEN NoLink
                                     ELSE waiting_sender[e]
    BY <1>1, Absent DEF TypeOK, CloseAndStop
<1>7. /\ closed' \in [Endpoints -> BOOLEAN] /\ message' \in [Endpoints -> Messages \cup {None}]
      /\ staged' \in [Endpoints -> Messages \cup {None}]
      /\ \A e \in Endpoints :
             /\ closed'[e] <=> (closed[e] \/ e \in E)
             /\ message'[e] = IF e \in E THEN None ELSE message[e]
             /\ staged'[e] = IF e \in E \/ waiting_sender[e].thread \in T THEN None ELSE staged[e]
    BY ZenonT(30), <1>1 DEF TypeOK, CloseAndStop
<1>8. outcome' \in [Messages -> {"unsent", "calling", "ok", "failed", "aborted"}]
    BY Zenon, <1>1 DEF TypeOK, CloseAndStop
<1>9. TypeOK'
    BY Zenon, <1>1, <1>4, <1>5, <1>6, <1>7, <1>8 DEF TypeOK, States
<1>10. \A t \in Threads \ T : Pending(t)' <=> (Pending(t) /\ t \notin Waiters(E))
    BY <1>4 DEF Pending
<1>11. ASSUME NEW t \in Threads PROVE CallAgrees(t)'
  <2>1. CASE t \in T
      BY ZenonT(30), <2>1, <1>4, <1>5 DEF CallAgrees
  <2>2. CASE t \notin T /\ frame[t] = NoFrame
    <3>1. wait[t] = NoWait /\ timed[t] = NoSlot
        BY ZenonT(30), <2>2 DEF IInv, ReservationsAgree, CallAgrees
    <3>2. wait'[t] = NoWait
        BY ZenonT(30), <2>2, <3>1, <1>4, Basics
    <3> QED
        BY ZenonT(30), <2>2, <3>1, <3>2, <1>5 DEF CallAgrees
  <2>3. CASE t \notin T /\ frame[t] # NoFrame
    <3>1. t \in Threads \ T /\ frame'[t] = frame[t] /\ timed'[t] = timed[t] /\ CallAgrees(t)
        BY ZenonT(30), <2>3, <1>5 DEF IInv, ReservationsAgree
    <3>2. frame[t].kind \in {Receive, Send} /\ frame[t].endpoint \in Endpoints
        BY ZenonT(30), <2>3, CallFacts
    <3>3. Pending(t)' => Pending(t) /\ frame[t].endpoint \notin E
        BY ZenonT(30), <2>3, <3>1, <1>10, WaiterFacts
    <3>4. LinkOf(frame[t].endpoint, frame[t].kind)' = LinkOf(frame[t].endpoint, frame[t].kind)
      <4>1. LinkOf(frame[t].endpoint, frame[t].kind) = [thread |-> t, id |-> frame[t].id]
          BY ZenonT(30), <2>3, CallFacts
      <4>2. CASE frame[t].kind = Receive
        <5>1. waiting_receiver[frame[t].endpoint].thread = t
            BY ZenonT(30), <3>2, <4>2, LinkFacts
        <5> QED
            BY ONLY Zenon, <4>2, <5>1, <3>1, <3>2, <1>6 DEF LinkOf
      <4>3. CASE frame[t].kind # Receive
        <5>1. waiting_sender[frame[t].endpoint].thread = t
            BY ZenonT(30), <3>2, <4>3, LinkFacts
        <5> QED
            BY ONLY Zenon, <4>3, <5>1, <3>1, <3>2, <1>6 DEF LinkOf
      <4> QED
          BY Zenon, <4>2, <4>3
    <3>5. frame[t].kind = Send => waiting_sender[frame[t].endpoint].thread = t
        BY ZenonT(30), <3>2, LinkFacts
    <3>6. Pending(t)' => /\ ~closed'[frame[t].endpoint] <=> ~closed[frame[t].endpoint]
                         /\ message'[frame[t].endpoint] = message[frame[t].endpoint]
                         /\ frame[t].kind = Send =>
                                staged'[frame[t].endpoint] = staged[frame[t].endpoint]
        BY ONLY Zenon, <3>2, <3>3, <3>5, <2>3, <1>7
    <3>7. WaitMatches(t, frame[t].kind, frame[t].endpoint, frame[t].id)' <=>
          WaitMatches(t, frame[t].kind, frame[t].endpoint, frame[t].id)
        BY ZenonT(30), <3>1, <1>4 DEF WaitMatches
    <3>9. wait'[t].result # "NONE" <=> wait[t].result # "NONE"
        BY Zenon, <3>1, <1>4
    <3>10. state'[t] # "DEAD" /\ wait'[t].result # "NONE"
        BY ZenonT(30), <2>3, <3>9, CallFacts
    <3>11. /\ WaitMatches(t, frame[t].kind, frame[t].endpoint, frame[t].id)'
           /\ UNCHANGED endpoint_id
           /\ Pending(t) => /\ ~closed[frame[t].endpoint]
                            /\ frame[t].kind = Send => message[frame[t].endpoint] # None
        BY ZenonT(30), <2>3, <3>7, CallFacts
    <3> QED
        BY Zenon, <2>3, <3>1, <3>3, <3>4, <3>6, <3>9, <3>10, <3>11, CallKept
  <2> QED
      BY Zenon, <2>1, <2>2, <2>3
<1>12. ASSUME NEW e \in Endpoints PROVE EndpointAgrees(e)'
  <2>1. EndpointAgrees(e) /\ waiting_receiver[e] \in Link /\ waiting_sender[e] \in Link
      BY ZenonT(30), <1>1 DEF IInv, ReservationsAgree, TypeOK
  <2>2. waiting_receiver[e].thread \in Threads \cup {None} /\ waiting_sender[e].thread \in Threads \cup {None}
      BY ZenonT(30), <2>1 DEF Link
  <2>3. IF waiting_receiver'[e].thread = None THEN waiting_receiver'[e] = NoLink
        ELSE /\ frame'[waiting_receiver'[e].thread].kind = Receive
             /\ frame'[waiting_receiver'[e].thread].endpoint = e
    <3>1. CASE waiting_receiver[e].thread \in T
        BY ZenonT(30), <3>1, <1>6, Basics
    <3>2. CASE waiting_receiver[e].thread \notin T
      <4>1. waiting_receiver'[e] = waiting_receiver[e]
          BY Zenon, <3>2, <1>6
      <4>2. waiting_receiver[e].thread # None =>
                frame'[waiting_receiver[e].thread] = frame[waiting_receiver[e].thread]
          BY Zenon, <3>2, <2>2, <1>5
      <4> QED
          BY ONLY ZenonT(30), <2>1, <4>1, <4>2 DEF EndpointAgrees
    <3> QED
        BY Zenon, <3>1, <3>2
  <2>4. IF waiting_sender'[e].thread = None THEN waiting_sender'[e] = NoLink
        ELSE /\ frame'[waiting_sender'[e].thread].kind = Send
             /\ frame'[waiting_sender'[e].thread].endpoint = e
    <3>1. CASE waiting_sender[e].thread \in T
        BY ZenonT(30), <3>1, <1>6, Basics
    <3>2. CASE waiting_sender[e].thread \notin T
      <4>1. waiting_sender'[e] = waiting_sender[e]
          BY Zenon, <3>2, <1>6
      <4>2. waiting_sender[e].thread # None =>
                frame'[waiting_sender[e].thread] = frame[waiting_sender[e].thread]
          BY ZenonT(30), <3>2, <2>2, <1>5
      <4> QED
          BY ONLY ZenonT(30), <2>1, <4>1, <4>2 DEF EndpointAgrees
    <3> QED
        BY Zenon, <3>1, <3>2
  <2>5. ASSUME staged'[e] # None
        PROVE  waiting_sender'[e] = waiting_sender[e] /\ waiting_sender[e].thread # None
               /\ Pending(waiting_sender[e].thread)'
    <3>1. e \notin E /\ waiting_sender[e].thread \notin T /\ staged[e] # None
        BY Zenon, <2>5, <1>7
    <3>2. waiting_sender[e].thread \in Threads \ T /\ Pending(waiting_sender[e].thread)
        BY Zenon, <3>1, <2>1, <2>2 DEF EndpointAgrees
    <3>3. frame[waiting_sender[e].thread].endpoint = e
        BY SMTT(30), <3>2, LinkFacts
    <3>4. waiting_sender[e].thread \notin Waiters(E)
        BY SMTT(30), <3>1, <3>2, <3>3, WaiterFacts
    <3>5. UNCHANGED waiting_sender[e]
        BY Zenon, <3>1, <1>6
    <3>6. wait'[waiting_sender[e].thread].result = "PENDING"
        BY ZenonT(30), <3>2, <3>4, <1>10, <1>4 DEF Pending
    <3> QED
        BY ZenonT(30), <3>2, <3>5, <3>6 DEF Pending
  <2> QED
      BY Zenon, <2>3, <2>4, <2>5 DEF EndpointAgrees
<1>13. ReservationsAgree'
    BY ZenonT(30), <1>11, <1>12 DEF IInv, ReservationsAgree, Live
<1>14. NoLostWakeup'
  <2> SUFFICES ASSUME NEW t \in Threads, state'[t] = "BLOCKED"
               PROVE  LET f == frame'[t].endpoint
                      IN  /\ frame'[t] # NoFrame /\ Pending(t)' /\ ~closed'[f]
                          /\ frame'[t].kind = Receive => message'[f] = None
                          /\ frame'[t].kind = Send => /\ message'[f] # None
                                                      /\ staged'[f] = frame'[t].message
      BY Zenon DEF NoLostWakeup
  <2>1. state[t] = "BLOCKED" /\ t \in Threads \ T /\ t \notin Waiters(E) /\ frame'[t] = frame[t]
      BY ZenonT(30), <1>5
  <2>2. /\ frame[t] # NoFrame /\ Pending(t) /\ ~closed[frame[t].endpoint]
        /\ frame[t].kind = Receive => message[frame[t].endpoint] = None
        /\ frame[t].kind = Send => /\ message[frame[t].endpoint] # None
                                   /\ staged[frame[t].endpoint] = frame[t].message
      BY Zenon, <2>1 DEF IInv, NoLostWakeup
  <2>3. frame[t].endpoint \in Endpoints /\ frame[t].endpoint \notin E
      BY ZenonT(30), <2>1, <2>2, CallFacts, WaiterFacts
  <2>4. frame[t].kind = Send => waiting_sender[frame[t].endpoint].thread = t
      BY ZenonT(30), <2>3, LinkFacts
  <2>5. Pending(t)'
      BY ZenonT(30), <2>1, <2>2, <1>10
  <2> QED
      BY SMTT(30), <2>1, <2>2, <2>3, <2>4, <2>5, <1>7
<1>15. ExitedProcessIsStopped'
  <2> SUFFICES ASSUME NEW t \in Threads, exit_info'[ProcessOf[t]] # "NONE"
               PROVE  state'[t] = "DEAD" /\ wait'[t] = NoWait /\ frame'[t] = NoFrame
      BY Zenon DEF ExitedProcessIsStopped
  <2>1. CASE t \in T
      BY Zenon, <2>1, <1>4, <1>5
  <2>2. CASE t \notin T
    <3>1. frame'[t] = NoFrame
        BY Zenon, <2>2, <1>5
    <3> QED
        BY ZenonT(30), <3>1, <1>11 DEF CallAgrees
  <2> QED
      BY Zenon, <2>1, <2>2
<1>16. NeverHalts'
    BY Zenon DEF IInv, NeverHalts
<1> QED
    BY Zenon, <1>9, <1>13, <1>14, <1>15, <1>16 DEF IInv

-----------------------------------------------------------------------------
(* Blocking calls *)

(* A new reservation on a free link: the thread parks only while its event has not happened. *)
LEMMA ReserveInv ==
    ASSUME IInv, NEW e \in Endpoints, NEW kind \in {Receive, Send}, NEW m, NEW isTimed \in BOOLEAN,
           NEW d \in 0 .. Modulus - 1, NEW c \in Threads, NEW id \in 1 .. WaitIdLimit, c = current,
           frame[c] = NoFrame, Live(e), ~closed[e], LinkOf(e, kind) = NoLink,
           kind = Receive => m = None /\ message[e] = None,
           kind = Send => m \in Messages /\ message[e] # None,
           wait' = [wait EXCEPT ![c] = [kind |-> kind, object |-> e, id |-> id, result |-> "PENDING"]],
           frame' = [frame EXCEPT ![c] = [kind |-> kind, endpoint |-> e, id |-> id,
                                          timed |-> isTimed, message |-> m]],
           timed' = IF ~isTimed THEN timed
                    ELSE [timed EXCEPT ![c] = [endpoint |-> e, endpoint_id |-> endpoint_id[e],
                                               kind |-> kind, id |-> id, deadline |-> d]],
           waiting_receiver' = IF kind = Receive
                               THEN [waiting_receiver EXCEPT ![e] = [thread |-> c, id |-> id]]
                               ELSE waiting_receiver,
           waiting_sender' = IF kind = Send THEN [waiting_sender EXCEPT ![e] = [thread |-> c, id |-> id]]
                             ELSE waiting_sender,
           staged' = IF kind = Send THEN [staged EXCEPT ![e] = m] ELSE staged,
           outcome' = IF kind = Send THEN [outcome EXCEPT ![m] = "calling"] ELSE outcome,
           g_next_wait_id' \in 0 .. WaitIdLimit, Park,
           UNCHANGED <<objectVars, message, ticks, exit_info, halted, accepted, received>>
    PROVE  IInv'
<1>1. TypeOK /\ id # 0 /\ state[c] = "RUNNING" /\ timed[c] = NoSlot
  <2>1. CallAgrees(c)
      BY Zenon DEF IInv, ReservationsAgree
  <2>2. timed[c] = NoSlot
      BY Zenon, <2>1 DEF CallAgrees
  <2> QED
      BY <2>2, Basics DEF IInv
<1>2. /\ state' \in [Threads -> States] /\ current' \in Threads \cup {None} /\ halting' \in BOOLEAN
      /\ \A t \in Threads : state'[t] = "RUNNING" <=> t = current'
      /\ \A t \in Threads : state'[t] = "DEAD" <=> state[t] = "DEAD"
      /\ \A t \in Threads \ {c} : state'[t] = "BLOCKED" => state[t] = "BLOCKED"
    BY Zenon, ParkFacts
<1>3. /\ wait' \in [Threads -> Wait]
      /\ wait'[c] = [kind |-> kind, object |-> e, id |-> id, result |-> "PENDING"]
      /\ \A t \in Threads \ {c} : wait'[t] = wait[t]
  <2>1. [kind |-> kind, object |-> e, id |-> id, result |-> "PENDING"] \in Wait
      BY DEF Wait
  <2> QED
      BY Zenon, <1>1, <2>1 DEF TypeOK
<1>4. /\ frame' \in [Threads -> Frame]
      /\ frame'[c] = [kind |-> kind, endpoint |-> e, id |-> id, timed |-> isTimed, message |-> m]
      /\ \A t \in Threads \ {c} : frame'[t] = frame[t]
  <2>1. [kind |-> kind, endpoint |-> e, id |-> id, timed |-> isTimed, message |-> m] \in Frame
      BY DEF Frame
  <2> QED
      BY Zenon, <1>1, <2>1 DEF TypeOK
<1>5. /\ timed' \in [Threads -> Slot]
      /\ IF isTimed THEN timed'[c] = [endpoint |-> e, endpoint_id |-> endpoint_id[e],
                                      kind |-> kind, id |-> id, deadline |-> d]
         ELSE timed'[c] = NoSlot
      /\ \A t \in Threads \ {c} : timed'[t] = timed[t]
  <2>1. [endpoint |-> e, endpoint_id |-> endpoint_id[e], kind |-> kind, id |-> id,
         deadline |-> d] \in Slot
      BY <1>1 DEF Slot, TypeOK
  <2> QED
      BY ZenonT(30), <1>1, <2>1 DEF TypeOK
<1>6. /\ waiting_receiver' \in [Endpoints -> Link] /\ waiting_sender' \in [Endpoints -> Link]
      /\ IF kind = Receive THEN waiting_receiver'[e] = [thread |-> c, id |-> id]
         ELSE waiting_receiver'[e] = waiting_receiver[e]
      /\ IF kind = Send THEN waiting_sender'[e] = [thread |-> c, id |-> id]
         ELSE waiting_sender'[e] = waiting_sender[e]
      /\ \A f \in Endpoints \ {e} : /\ waiting_receiver'[f] = waiting_receiver[f]
                                    /\ waiting_sender'[f] = waiting_sender[f]
  <2>1. [thread |-> c, id |-> id] \in Link
      BY DEF Link
  <2> QED
      BY ZenonT(30), <1>1, <2>1 DEF TypeOK
<1>7. /\ staged' \in [Endpoints -> Messages \cup {None}]
      /\ outcome' \in [Messages -> {"unsent", "calling", "ok", "failed", "aborted"}]
      /\ kind = Send => staged'[e] = m /\ m # None
      /\ kind = Receive => staged'[e] = staged[e]
      /\ \A f \in Endpoints \ {e} : staged'[f] = staged[f]
    BY ZenonT(30), <1>1, Basics DEF TypeOK
<1>8. TypeOK'
    BY ZenonT(30), <1>1, <1>2, <1>3, <1>4, <1>5, <1>6, <1>7 DEF TypeOK, States
<1>9. ASSUME NEW t \in Threads PROVE CallAgrees(t)'
  <2>1. CASE t = c
    <3>1. frame'[c] # NoFrame
        BY <1>4, Basics
    <3>2. WaitMatches(c, kind, e, id)' /\ Pending(c)' /\ wait'[c].result # "NONE"
        BY Zenon, <1>1, <1>3 DEF WaitMatches, Pending
    <3>3. LinkOf(e, kind)' = [thread |-> c, id |-> id]
        BY Zenon, <1>6, Basics DEF LinkOf
    <3>4. IF isTimed THEN Registered(c)' /\ timed'[c].endpoint_id = endpoint_id[e] ELSE timed'[c] = NoSlot
        BY Zenon, <1>4, <1>5 DEF Registered
    <3>5. state'[c] # "DEAD"
        BY Zenon, <1>1, <1>2
    <3>6. /\ frame'[c].kind = kind /\ frame'[c].endpoint = e /\ frame'[c].id = id
          /\ frame'[c].timed = isTimed /\ frame'[c].message = m
        BY Zenon, <1>4
    <3>7. /\ kind \in {Receive, Send} /\ e \in Endpoints /\ id # 0
          /\ endpoint_id'[e] = endpoint_id[e] /\ endpoint_id[e] # 0 /\ ~closed'[e]
          /\ kind = Send => staged'[e] = m /\ m # None /\ message'[e] # None
        BY Zenon, <1>1, <1>7 DEF Live
    <3> QED
        BY ONLY ZenonT(30), <2>1, <3>1, <3>2, <3>3, <3>4, <3>5, <3>6, <3>7 DEF CallAgrees, Live
  <2>2. CASE t # c
    <3>1. CallAgrees(t) /\ wait'[t] = wait[t] /\ frame'[t] = frame[t] /\ timed'[t] = timed[t]
        BY ZenonT(30), <2>2, <1>3, <1>4, <1>5 DEF IInv, ReservationsAgree
    <3>2. CASE frame[t] = NoFrame
        BY ZenonT(30), <3>1, <3>2 DEF CallAgrees
    <3>3. CASE frame[t] # NoFrame
      <4>1. ~(frame[t].kind = kind /\ frame[t].endpoint = e)
          BY Zenon, <3>1, <3>3, FreeLink
      <4>2. frame[t].kind \in {Receive, Send} /\ frame[t].endpoint \in Endpoints
          BY ZenonT(30), <3>1, <3>3 DEF CallAgrees
      <4>3. LinkOf(frame[t].endpoint, frame[t].kind)' = LinkOf(frame[t].endpoint, frame[t].kind)
        <5>1. kind \in {Receive, Send} /\ Receive # Send
            BY Zenon, Basics
        <5> QED
            BY ONLY SMTT(30), <3>1, <4>1, <4>2, <5>1, <1>6 DEF LinkOf
      <4>4. frame[t].kind = Send => staged'[frame[t].endpoint] = staged[frame[t].endpoint]
          BY ZenonT(30), <4>1, <4>2, <1>7, Basics
      <4>5. /\ (Pending(t)' <=> Pending(t)) /\ wait[t].result # "NONE"
            /\ WaitMatches(t, frame[t].kind, frame[t].endpoint, frame[t].id)'
            /\ Pending(t) => /\ ~closed[frame[t].endpoint]
                             /\ frame[t].kind = Send => message[frame[t].endpoint] # None
          BY ZenonT(30), <3>1, <3>3, CallFacts DEF Pending, WaitMatches
      <4>6. state'[t] # "DEAD"
          BY ZenonT(30), <3>3, <1>2, CallFacts
      <4> QED
          BY ZenonT(30), <3>1, <3>3, <4>3, <4>4, <4>5, <4>6, CallKept
    <3> QED
        BY Zenon, <3>2, <3>3
  <2> QED
      BY ZenonT(30), <2>1, <2>2
<1>10. ASSUME NEW f \in Endpoints PROVE EndpointAgrees(f)'
  <2>1. EndpointAgrees(f) /\ waiting_receiver[f] \in Link /\ waiting_sender[f] \in Link
      BY ZenonT(30), <1>1 DEF IInv, ReservationsAgree, TypeOK
  <2>2. waiting_receiver[f].thread # c /\ waiting_sender[f].thread # c
      BY SMTT(30), LinkFacts, Basics
  <2>3. \A t \in Threads \ {c} : Pending(t)' <=> Pending(t)
      BY Zenon, <1>3 DEF Pending
  <2>4. Pending(c)'
      BY Zenon, <1>3 DEF Pending
  <2>5. waiting_receiver[f].thread \in Threads \cup {None} /\ waiting_sender[f].thread \in Threads \cup {None}
      BY ZenonT(30), <2>1 DEF Link
  <2>6. CASE f # e
    <3>1. /\ waiting_receiver'[f] = waiting_receiver[f] /\ waiting_sender'[f] = waiting_sender[f]
          /\ staged'[f] = staged[f]
        BY Zenon, <2>6, <1>6, <1>7
    <3>2. staged[f] # None => wait'[waiting_sender[f].thread].result = "PENDING"
        BY Zenon, <2>1, <2>2, <2>3, <2>5 DEF EndpointAgrees, Pending
    <3>3. \A t \in Threads \ {c} : frame'[t] = frame[t]
        BY Zenon, <1>4
    <3> QED
        BY ONLY ZenonT(30), <2>1, <2>2, <2>5, <3>1, <3>2, <3>3, EndpointKept
  <2>7. CASE f = e /\ kind = Receive
    <3>1. /\ waiting_receiver'[f].thread = c /\ waiting_sender'[f] = waiting_sender[f]
          /\ frame'[c].kind = Receive /\ frame'[c].endpoint = f /\ c # None
          /\ staged'[f] = staged[f]
        BY ZenonT(30), <2>7, <1>4, <1>6, <1>7, Basics
    <3>2. waiting_sender[f].thread # None =>
              /\ frame'[waiting_sender[f].thread] = frame[waiting_sender[f].thread]
              /\ Pending(waiting_sender[f].thread) => wait'[waiting_sender[f].thread].result = "PENDING"
        BY ZenonT(30), <2>2, <2>3, <2>5, <1>4 DEF Pending
    <3> QED
        BY ONLY ZenonT(30), <2>1, <3>1, <3>2 DEF EndpointAgrees, Pending
  <2>8. CASE f = e /\ kind = Send
    <3>1. /\ waiting_sender'[f].thread = c /\ waiting_receiver'[f] = waiting_receiver[f]
          /\ frame'[c].kind = Send /\ frame'[c].endpoint = f /\ c # None
        BY ZenonT(30), <2>8, <1>4, <1>6, Basics
    <3>2. waiting_receiver[f].thread # None =>
              frame'[waiting_receiver[f].thread] = frame[waiting_receiver[f].thread]
        BY ZenonT(30), <2>2, <2>5, <1>4
    <3> QED
        BY ONLY ZenonT(30), <2>1, <2>4, <3>1, <3>2 DEF EndpointAgrees, Pending
  <2> QED
      BY ZenonT(30), <2>6, <2>7, <2>8
<1>11. ReservationsAgree'
    BY ZenonT(30), <1>2, <1>9, <1>10 DEF IInv, ReservationsAgree, Live
<1>12. NoLostWakeup'
  <2> SUFFICES ASSUME NEW t \in Threads, state'[t] = "BLOCKED"
               PROVE  LET f == frame'[t].endpoint
                      IN  /\ frame'[t] # NoFrame /\ Pending(t)' /\ ~closed'[f]
                          /\ frame'[t].kind = Receive => message'[f] = None
                          /\ frame'[t].kind = Send => /\ message'[f] # None
                                                      /\ staged'[f] = frame'[t].message
      BY ZenonT(30) DEF NoLostWakeup
  <2>1. CASE t = c
    <3>1. frame'[c].kind = kind /\ frame'[c].endpoint = e /\ frame'[c].message = m
        BY Zenon, <1>4
    <3>2. Pending(c)' /\ frame'[c] # NoFrame
        BY Zenon, <3>1, <1>3, Basics DEF Pending
    <3> QED
        BY SMTT(30), <2>1, <3>1, <3>2, <1>7, Basics
  <2>2. CASE t # c
    <3>1. state[t] = "BLOCKED" /\ wait'[t] = wait[t] /\ frame'[t] = frame[t]
        BY ZenonT(30), <2>2, <1>2, <1>3, <1>4
    <3>2. frame[t].endpoint \in Endpoints /\ ~(frame[t].kind = kind /\ frame[t].endpoint = e)
      <4>1. CallAgrees(t) /\ frame[t] # NoFrame
          BY ZenonT(30), <3>1 DEF IInv, NoLostWakeup, ReservationsAgree
      <4> QED
          BY Zenon, <4>1, FreeLink
    <3>3. frame[t].kind = Send => staged'[frame[t].endpoint] = staged[frame[t].endpoint]
        BY ZenonT(30), <3>2, <1>7, Basics
    <3> QED
        BY ZenonT(30), <3>1, <3>3 DEF IInv, NoLostWakeup, Pending
  <2> QED
      BY ZenonT(30), <2>1, <2>2
<1>13. ExitedProcessIsStopped' /\ NeverHalts'
  <2>1. exit_info[ProcessOf[c]] = "NONE"
      BY ZenonT(30), <1>1 DEF IInv, ExitedProcessIsStopped
  <2>2. \A t \in Threads : exit_info'[ProcessOf[t]] # "NONE" =>
            t \in Threads \ {c} /\ state[t] = "DEAD" /\ wait[t] = NoWait /\ frame[t] = NoFrame
      BY ZenonT(30), <2>1 DEF IInv, ExitedProcessIsStopped
  <2>3. ExitedProcessIsStopped'
      BY ONLY Zenon, <2>2, <1>2, <1>3, <1>4 DEF ExitedProcessIsStopped
  <2>4. NeverHalts'
      BY Zenon DEF IInv, NeverHalts
  <2> QED
      BY ZenonT(30), <1>1, <1>2, <2>3, <2>4
<1> QED
    BY ZenonT(30), <1>8, <1>11, <1>12, <1>13 DEF IInv

(* Only the identity of the wait is spent when the call cannot park. *)
LEMMA RefusedInv ==
    ASSUME IInv, g_next_wait_id' \in 0 .. WaitIdLimit,
           UNCHANGED <<schedVars, wait, frame, timed, waiting_receiver, waiting_sender, staged, outcome,
                       objectVars, message, ticks, exit_info, halted, accepted, received>>
    PROVE  IInv'
<1>1. TypeOK'
    BY ZenonT(30) DEF IInv, TypeOK
<1>2. ReservationsAgree'
  <2>1. ReservationsAgree /\ \A c \in caps' : Live(c[2])'
      BY Zenon DEF IInv, ReservationsAgree, Live
  <2> QED
      BY Zenon, <2>1, SameCalls
<1>3. NoLostWakeup' /\ ExitedProcessIsStopped' /\ NeverHalts'
    BY Zenon DEF IInv, NoLostWakeup, Pending, ExitedProcessIsStopped, NeverHalts
<1> QED
    BY Zenon, <1>1, <1>2, <1>3 DEF IInv

(* The blocking calls. *)
LEMMA BeginWaitInv ==
    ASSUME IInv, NEW e \in Endpoints, NEW kind \in {Receive, Send}, NEW m, NEW n \in 0 .. TimeoutMaxTicks,
           kind = Receive => m = None /\ message[e] = None,
           kind = Send => m \in Messages /\ message[e] # None,
           BeginWait(e, kind, m, n)
    PROVE  IInv'
<1>1. /\ current \in Threads /\ frame[current] = NoFrame /\ TypeOK /\ ~closed[e]
      /\ LinkOf(e, kind) = NoLink /\ g_next_wait_id # 0
    BY ZenonT(30) DEF BeginWait, Calling, IInv, TypeOK
<1>2. Live(e)
    BY ZenonT(30) DEF BeginWait, Holds, IInv, ReservationsAgree
<1>3. g_next_wait_id \in 1 .. WaitIdLimit /\ g_next_wait_id' \in 0 .. WaitIdLimit
    BY <1>1 DEF BeginWait, NextId, TypeOK
<1>4. (ticks + n) % Modulus \in 0 .. Modulus - 1 /\ (n # 0) \in BOOLEAN
    BY SMTT(30), <1>1 DEF TypeOK, Modulus, TimeoutMaxTicks
<1>5. CASE UNCHANGED <<schedVars, wait, frame, timed, waiting_receiver, waiting_sender, staged, outcome>>
    BY ZenonT(30), <1>3, <1>5, RefusedInv DEF BeginWait
<1>6. CASE ~UNCHANGED <<schedVars, wait, frame, timed, waiting_receiver, waiting_sender, staged, outcome>>
  <2> DEFINE isTimed == n # 0
             d == (ticks + n) % Modulus
             c == current
             id == g_next_wait_id
  <2>1. /\ wait' = [wait EXCEPT ![c] = [kind |-> kind, object |-> e, id |-> id, result |-> "PENDING"]]
        /\ frame' = [frame EXCEPT ![c] = [kind |-> kind, endpoint |-> e, id |-> id,
                                          timed |-> isTimed, message |-> m]]
        /\ timed' = IF ~isTimed THEN timed
                    ELSE [timed EXCEPT ![c] = [endpoint |-> e, endpoint_id |-> endpoint_id[e],
                                               kind |-> kind, id |-> id, deadline |-> d]]
        /\ waiting_receiver' = IF kind = Receive
                               THEN [waiting_receiver EXCEPT ![e] = [thread |-> c, id |-> id]]
                               ELSE waiting_receiver
        /\ waiting_sender' = IF kind = Send THEN [waiting_sender EXCEPT ![e] = [thread |-> c, id |-> id]]
                             ELSE waiting_sender
        /\ staged' = IF kind = Send THEN [staged EXCEPT ![e] = m] ELSE staged
        /\ outcome' = IF kind = Send THEN [outcome EXCEPT ![m] = "calling"] ELSE outcome
        /\ Park
      BY ZenonT(30), <1>6 DEF BeginWait
  <2>2. UNCHANGED <<objectVars, message, ticks, exit_info, halted, accepted, received>>
      BY Zenon DEF BeginWait
  <2>3. isTimed \in BOOLEAN /\ d \in 0 .. Modulus - 1 /\ c \in Threads /\ id \in 1 .. WaitIdLimit
      BY Zenon, <1>1, <1>3, <1>4
  <2>4. c = current /\ frame[c] = NoFrame
      BY Zenon, <1>1
  <2> HIDE DEF isTimed, d, c, id
  <2> QED
      BY ZenonT(30), <1>1, <1>2, <1>3, <2>1, <2>2, <2>3, <2>4, ReserveInv
<1> QED
    BY ZenonT(30), <1>5, <1>6

-----------------------------------------------------------------------------
(* Deadlines *)

(* The deadline of a pending wait lies less than half the range of the counter ahead, so *)
(* that the signed comparison of ipc_timeout_poll cannot mistake it for one that passed. *)
Ahead(d) == (d - ticks) % Modulus \in 1 .. HalfRange - 1
DeadlinesAhead ==
    \A t \in Threads : timed[t] # NoSlot /\ Pending(t) => Ahead(timed[t].deadline)

(* The remainder of a number at most one modulus away from the range. *)
LEMMA Remainder ==
    ASSUME NEW M \in Nat \ {0}, NEW a \in -M .. 2 * M - 1
    PROVE  a % M = IF a < 0 THEN a + M ELSE IF a < M THEN a ELSE a - M
<1>1. CASE a < 0
    BY <1>1
<1>2. CASE a >= 0 /\ a < M
    BY <1>2
<1>3. CASE a >= M
    BY <1>3
<1> QED
    BY <1>1, <1>2, <1>3

(* What one tick does to a deadline that lies ahead. *)
LEMMA OneTick ==
    ASSUME NEW k \in 0 .. Modulus - 1, NEW d \in 0 .. Modulus - 1,
           (d - k) % Modulus \in 1 .. HalfRange - 1
    PROVE  LET now == (k + 1) % Modulus
           IN  /\ DeadlineReached(now, d) <=> now = d
               /\ now # d => (d - now) % Modulus \in 1 .. HalfRange - 1
<1> DEFINE M == Modulus
           now == (k + 1) % M
<1>1. M \in Nat \ {0} /\ HalfRange \in Nat /\ M = 2 * HalfRange
    BY DEF Modulus
<1> HIDE DEF M
<1>2. k \in 0 .. M - 1 /\ d \in 0 .. M - 1
    BY Zenon DEF M
<1>3. d - k \in -M .. 2 * M - 1 /\ k + 1 \in -M .. 2 * M - 1
    BY <1>1, <1>2
<1>4. (d - k) % M = IF d - k < 0 THEN d - k + M ELSE d - k
  <2>1. (d - k) % M = IF d - k < 0 THEN d - k + M ELSE IF d - k < M THEN d - k ELSE d - k - M
      BY ZenonT(30), <1>1, <1>3, Remainder
  <2> QED
      BY <1>1, <1>2, <2>1
<1>5. now = IF k + 1 < M THEN k + 1 ELSE k + 1 - M
  <2> DEFINE a == k + 1
  <2> HIDE DEF a
  <2>1. a \in -M .. 2 * M - 1 /\ a > 0
      BY <1>1, <1>2 DEF a
  <2>2. a % M = IF a < 0 THEN a + M ELSE IF a < M THEN a ELSE a - M
      BY ZenonT(30), <1>1, <2>1, Remainder
  <2>3. a % M = IF a < M THEN a ELSE a - M
      BY <1>1, <2>1, <2>2
  <2>4. now = a % M /\ a = k + 1
      BY Zenon DEF a
  <2> HIDE DEF now
  <2> QED
      BY SMTT(20), <1>1, <1>2, <2>3, <2>4
<1> HIDE DEF now
<1>6. now \in 0 .. M - 1
    BY <1>1, <1>2, <1>5
<1>7. now - d \in -M .. 2 * M - 1 /\ d - now \in -M .. 2 * M - 1 /\ now - d < M /\ d - now < M
    BY <1>1, <1>2, <1>6
<1>8. (now - d) % M = IF now - d < 0 THEN now - d + M ELSE now - d
    BY ZenonT(30), <1>1, <1>2, <1>6, <1>7, Remainder
<1>9. (d - now) % M = IF d - now < 0 THEN d - now + M ELSE d - now
    BY ZenonT(30), <1>1, <1>2, <1>6, <1>7, Remainder
<1>10. (d - k) % M \in 1 .. HalfRange - 1
    BY Zenon DEF M
<1>11. /\ (now - d) % M < HalfRange <=> now = d
       /\ now # d => (d - now) % M \in 1 .. HalfRange - 1
    BY SMTT(20), <1>1, <1>2, <1>4, <1>5, <1>6, <1>8, <1>9, <1>10
<1> QED
    BY Zenon, <1>11 DEF DeadlineReached, M, now

(* A timeout of n ticks sets a deadline n ticks ahead. *)
LEMMA DeadlineSet ==
    ASSUME ticks \in 0 .. Modulus - 1, NEW n \in 1 .. TimeoutMaxTicks
    PROVE  Ahead((ticks + n) % Modulus)
<1> DEFINE M == Modulus
           d == (ticks + n) % M
<1>1. M \in Nat \ {0} /\ HalfRange \in Nat /\ M = 2 * HalfRange /\ n \in 1 .. HalfRange - 1
    BY DEF Modulus, TimeoutMaxTicks
<1> HIDE DEF M
<1>2. ticks \in 0 .. M - 1
    BY Zenon DEF M
<1>3. ticks + n \in -M .. 2 * M - 1
    BY <1>1, <1>2
<1>4. d = IF ticks + n < M THEN ticks + n ELSE ticks + n - M
  <2> DEFINE a == ticks + n
  <2> HIDE DEF a
  <2>1. a \in -M .. 2 * M - 1 /\ a > 0
      BY <1>1, <1>2 DEF a
  <2>2. a % M = IF a < 0 THEN a + M ELSE IF a < M THEN a ELSE a - M
      BY ZenonT(30), <1>1, <2>1, Remainder
  <2>3. a % M = IF a < M THEN a ELSE a - M
      BY <1>1, <2>1, <2>2
  <2>4. d = a % M /\ a = ticks + n
      BY Zenon DEF a
  <2> HIDE DEF d
  <2> QED
      BY <1>1, <1>2, <2>3, <2>4
<1> HIDE DEF d
<1>5. d \in 0 .. M - 1 /\ d - ticks \in -M .. 2 * M - 1
    BY <1>1, <1>2, <1>4
<1>6. (d - ticks) % M = IF d - ticks < 0 THEN d - ticks + M ELSE d - ticks
  <2>1. (d - ticks) % M = IF d - ticks < 0 THEN d - ticks + M
                          ELSE IF d - ticks < M THEN d - ticks ELSE d - ticks - M
      BY ZenonT(30), <1>1, <1>5, Remainder
  <2> QED
      BY <1>1, <1>2, <1>5, <2>1
<1>7. (d - ticks) % M \in 1 .. HalfRange - 1
    BY <1>1, <1>2, <1>4, <1>6
<1> QED
    BY Zenon, <1>7 DEF Ahead, d, M

(* A step that neither registers a wait nor lets time pass. *)
LEMMA DeadlinesKept ==
    ASSUME DeadlinesAhead, UNCHANGED ticks,
           \A t \in Threads : Pending(t)' /\ timed'[t] # NoSlot => Pending(t) /\ timed'[t] = timed[t]
    PROVE  DeadlinesAhead'
BY ZenonT(30) DEF DeadlinesAhead, Ahead

(* The poll ends exactly the pending waits whose deadline is the new tick. *)
LEMMA TimerDeadlines ==
    ASSUME IInv, DeadlinesAhead, TimerInterrupt
    PROVE  /\ DeadlinesAhead'
           /\ ticks' # ticks => \A t \in Threads : Pending(t) /\ timed[t] # NoSlot =>
                  (wait'[t].result = "TIMED_OUT" <=> ticks' = timed[t].deadline)
<1> DEFINE now == (ticks + 1) % Modulus
           X == Expired(now)
<1>1. CASE Halt
  <2>1. UNCHANGED <<ticks, timed, wait>>
      BY Zenon, <1>1 DEF Halt
  <2> QED
      BY Zenon, <2>1, DeadlinesKept DEF Pending
<1>2. CASE ~Halt
  <2>1. ticks' = now /\ wait' = Completed(X, "TIMED_OUT") /\ UNCHANGED timed
      BY ZenonT(30), <1>2 DEF TimerInterrupt
  <2>2. /\ ticks \in 0 .. Modulus - 1
        /\ \A t \in Threads : timed[t].deadline \in 0 .. Modulus - 1
      BY ZenonT(30) DEF IInv, TypeOK, Slot
  <2>3. ASSUME NEW t \in Threads, Pending(t), timed[t] # NoSlot
        PROVE  /\ t \in X <=> now = timed[t].deadline
               /\ now # timed[t].deadline => (timed[t].deadline - now) % Modulus \in 1 .. HalfRange - 1
    <3>1. (timed[t].deadline - ticks) % Modulus \in 1 .. HalfRange - 1
        BY ZenonT(30), <2>3 DEF DeadlinesAhead, Ahead
    <3>2. /\ DeadlineReached(now, timed[t].deadline) <=> now = timed[t].deadline
          /\ now # timed[t].deadline => (timed[t].deadline - now) % Modulus \in 1 .. HalfRange - 1
        BY ZenonT(30), <2>2, <3>1, OneTick
    <3> QED
        BY ZenonT(30), <2>3, <3>2 DEF Expired
  <2> HIDE DEF now, X
  <2>4. ASSUME NEW t \in Threads
        PROVE  wait'[t].result = IF t \in X /\ Pending(t) THEN "TIMED_OUT" ELSE wait[t].result
    <3>1. wait \in [Threads -> Wait] /\ "TIMED_OUT" \in Terminal
        BY Zenon DEF IInv, TypeOK, Terminal
    <3> QED
        BY <2>1, <3>1, CompletedType DEF Pending
  <2>5. DeadlinesAhead'
    <3> SUFFICES ASSUME NEW t \in Threads, timed'[t] # NoSlot, Pending(t)'
                 PROVE  (timed'[t].deadline - ticks') % Modulus \in 1 .. HalfRange - 1
        BY Zenon DEF DeadlinesAhead, Ahead
    <3>1. Pending(t) /\ t \notin X
        BY Zenon, <2>4 DEF Pending
    <3> QED
        BY ZenonT(30), <2>1, <2>3, <3>1
  <2>6. ASSUME NEW t \in Threads, Pending(t), timed[t] # NoSlot
        PROVE  wait'[t].result = "TIMED_OUT" <=> ticks' = timed[t].deadline
    <3>1. wait[t].result # "TIMED_OUT"
        BY Zenon, <2>6 DEF Pending
    <3> QED
        BY ZenonT(30), <2>1, <2>3, <2>4, <2>6, <3>1
  <2> QED
      BY Zenon, <2>5, <2>6
<1> QED
    BY Zenon, <1>1, <1>2

(* A new registration looks less than half the range ahead. *)
LEMMA BeginDeadlines ==
    ASSUME IInv, DeadlinesAhead, NEW e \in Endpoints, NEW kind, NEW m, NEW n \in 0 .. TimeoutMaxTicks,
           BeginWait(e, kind, m, n)
    PROVE  DeadlinesAhead' /\ UNCHANGED ticks
<1> DEFINE c == current
<1>1. c \in Threads /\ frame[c] = NoFrame /\ UNCHANGED ticks
    BY ZenonT(30) DEF BeginWait, Calling, IInv, TypeOK
<1>2. CASE UNCHANGED <<wait, timed>>
    BY Zenon, <1>1, <1>2, DeadlinesKept DEF Pending
<1>3. CASE ~UNCHANGED <<wait, timed>>
  <2>1. /\ \A t \in Threads \ {c} : wait'[t] = wait[t] /\ timed'[t] = timed[t]
        /\ n = 0 => timed'[c] = timed[c]
        /\ n # 0 => timed'[c].deadline = (ticks + n) % Modulus
    <3>1. /\ wait' = [wait EXCEPT ![c] = [kind |-> kind, object |-> e, id |-> g_next_wait_id,
                                          result |-> "PENDING"]]
          /\ timed' = IF ~(n # 0) THEN timed
                      ELSE [timed EXCEPT ![c] =
                              [endpoint |-> e, endpoint_id |-> endpoint_id[e], kind |-> kind,
                               id |-> g_next_wait_id, deadline |-> (ticks + n) % Modulus]]
        BY ZenonT(30), <1>3 DEF BeginWait
    <3> QED
        BY Zenon, <1>1, <3>1 DEF IInv, TypeOK
  <2>2. timed[c] = NoSlot
      BY ZenonT(30), <1>1 DEF IInv, ReservationsAgree, CallAgrees
  <2>3. n # 0 => Ahead((ticks + n) % Modulus)
    <3>1. n # 0 => n \in 1 .. TimeoutMaxTicks
        BY DEF TimeoutMaxTicks
    <3>2. ticks \in 0 .. Modulus - 1
        BY Zenon DEF IInv, TypeOK
    <3> QED
        BY ZenonT(30), <3>1, <3>2, DeadlineSet
  <2> SUFFICES ASSUME NEW t \in Threads, timed'[t] # NoSlot, Pending(t)'
               PROVE  Ahead(timed[t].deadline)'
      BY Zenon, <1>1 DEF DeadlinesAhead
  <2>4. CASE t = c
      BY ZenonT(30), <1>1, <2>1, <2>2, <2>3, <2>4 DEF Ahead
  <2>5. CASE t # c
      BY ZenonT(30), <1>1, <2>1, <2>5 DEF DeadlinesAhead, Ahead, Pending
  <2> QED
      BY ZenonT(30), <2>4, <2>5
<1> QED
    BY Zenon, <1>1, <1>2, <1>3

(* Initially nothing is registered. *)
LEMMA InitDeadlines == Init => DeadlinesAhead
BY ZenonT(30) DEF Init, DeadlinesAhead

(* Every step keeps the deadlines of pending waits ahead, and only the poll lets time pass. *)
LEMMA NextDeadlines ==
    ASSUME IInv, DeadlinesAhead, [Next]_vars
    PROVE  /\ DeadlinesAhead'
           /\ ticks' # ticks => \A t \in Threads : Pending(t) /\ timed[t] # NoSlot =>
                  (wait'[t].result = "TIMED_OUT" <=> ticks' = timed[t].deadline)
<1>1. wait \in [Threads -> Wait] /\ timed \in [Threads -> Slot]
    BY Zenon DEF IInv, TypeOK
<1>2. NoWait.result # "PENDING"
    BY Zenon DEF NoWait
<1>3. ASSUME NEW S, NEW r \in Terminal, NEW t \in Threads, Completed(S, r)[t].result = "PENDING"
      PROVE  Pending(t)
    BY <1>1, <1>3, CompletedType DEF Pending, Terminal
<1> DEFINE Kept == UNCHANGED ticks /\ DeadlinesAhead'
<1>4. ASSUME UNCHANGED <<ticks, timed, wait>> PROVE Kept
    BY Zenon, <1>4, DeadlinesKept DEF Pending
<1>5. ASSUME NEW e, NEW c \in Threads, Take(e, c, NoWait), UNCHANGED ticks,
             timed' = timed \/ timed' = [timed EXCEPT ![c] = NoSlot]
      PROVE  Kept
  <2>1. PICK S : wait' = [Completed(S, "COMPLETED") EXCEPT ![c] = NoWait]
      BY ZenonT(30), <1>5 DEF Take
  <2>2. \A t \in Threads : wait'[t] = IF t = c THEN NoWait ELSE Completed(S, "COMPLETED")[t]
      BY Zenon, <2>1 DEF Completed
  <2>3. \A t \in Threads : Pending(t)' => Pending(t) /\ t # c
      BY <1>2, <1>3, <2>2 DEF Pending, Terminal
  <2>4. \A t \in Threads : t # c => timed'[t] = timed[t]
      BY Zenon, <1>1, <1>5
  <2> QED
      BY ZenonT(30), <1>5, <2>3, <2>4, DeadlinesKept
<1>6. ASSUME NEW E, NEW T, CloseAndStop(E, T), UNCHANGED ticks PROVE Kept
  <2>1. \A t \in Threads : /\ wait'[t] = IF t \in T THEN NoWait
                                         ELSE Completed(Waiters(E), "PEER_CLOSED")[t]
                           /\ timed'[t] = IF t \in T THEN NoSlot ELSE timed[t]
      BY ZenonT(30), <1>6 DEF CloseAndStop
  <2>2. \A t \in Threads : Pending(t)' => Pending(t) /\ t \notin T
      BY <1>2, <1>3, <2>1 DEF Pending, Terminal
  <2> QED
      BY ZenonT(30), <1>6, <2>1, <2>2, DeadlinesKept
<1>7. CASE Resume
  <2>1. current \in Threads
      BY Zenon, <1>7 DEF Resume, Masked, IInv, TypeOK
  <2>2. ASSUME ReturnFrom(current) /\ UNCHANGED ticks PROVE Kept
    <3>1. \A t \in Threads : /\ wait'[t] = IF t = current THEN NoWait ELSE wait[t]
                             /\ timed'[t] = IF t = current THEN NoSlot ELSE timed[t]
        BY Zenon, <1>1, <2>2 DEF ReturnFrom, EndReservation
    <3>2. \A t \in Threads : Pending(t)' => Pending(t) /\ t # current
        BY Zenon, <1>2, <3>1 DEF Pending
    <3> QED
        BY ZenonT(30), <2>2, <3>1, <3>2, DeadlinesKept
  <2>3. ASSUME ResumeTake(current) /\ UNCHANGED ticks PROVE Kept
      BY ZenonT(30), <2>1, <2>3, <1>5 DEF ResumeTake, EndReservation
  <2>4. ASSUME ResumePark(current) /\ UNCHANGED ticks PROVE Kept
      BY ZenonT(30), <2>4, <1>4 DEF ResumePark
  <2>5. ASSUME Halt PROVE Kept
      BY Zenon, <2>5, <1>4 DEF Halt
  <2>6. Kept
    <3>1. \/ Halt
          \/ /\ ReturnFrom(current) \/ ResumeTake(current) \/ ResumePark(current)
             /\ UNCHANGED ticks
        BY ZenonT(30), <1>7 DEF Resume, ResumeReturn
    <3> HIDE DEF Kept
    <3> QED
        BY ZenonT(30), <2>2, <2>3, <2>4, <2>5, <3>1
  <2> QED
      BY Zenon, <2>6
<1>8. ASSUME NEW e \in Endpoints, TryReceive(e) PROVE Kept
  <2>1. current \in Threads /\ Take(e, current, NoWait) /\ UNCHANGED <<timed, ticks>>
      BY Zenon, <1>8 DEF TryReceive, Calling, IInv, TypeOK
  <2> QED
      BY ZenonT(30), <2>1, <1>5
<1>9. ASSUME UserExit \/ UserFault PROVE Kept
  <2>1. (\E E, T : CloseAndStop(E, T) /\ UNCHANGED ticks) \/ UNCHANGED <<ticks, timed, wait>>
      BY ZenonT(30), <1>9 DEF UserExit, UserFault, Leave, Halt
  <2> QED
      BY Zenon, <2>1, <1>4, <1>6
<1>10. ASSUME NEW e \in Endpoints, EndpointClose(e) PROVE Kept
    BY Zenon, <1>6, <1>10 DEF EndpointClose
<1>11. ASSUME NEW u \in Threads, TerminateThread(u) PROVE Kept
    BY Zenon, <1>6, <1>11 DEF TerminateThread
<1>12. ASSUME NEW p \in Processes, QuiesceProcess(p) PROVE Kept
    BY ZenonT(30), <1>6, <1>12 DEF QuiesceProcess
<1>13. ASSUME NEW e \in Endpoints, NEW n \in 0 .. TimeoutMaxTicks,
              ReceiveBlocking(e, n) \/ \E m \in Messages : SendBlocking(e, m, n)
       PROVE  Kept
    BY Zenon, <1>13, BeginDeadlines DEF ReceiveBlocking, SendBlocking
<1>14. CASE TimerInterrupt
    BY Zenon, <1>14, TimerDeadlines
<1>15. \/ UNCHANGED <<ticks, timed, wait>> \/ Resume \/ TimerInterrupt \/ UserExit \/ UserFault
       \/ \E e \in Endpoints : EndpointClose(e) \/ TryReceive(e)
       \/ \E e \in Endpoints, n \in 0 .. TimeoutMaxTicks :
             ReceiveBlocking(e, n) \/ \E m \in Messages : SendBlocking(e, m, n)
       \/ \E u \in Threads : TerminateThread(u)
       \/ \E p \in Processes : QuiesceProcess(p)
    BY ZenonT(30) DEF Next, vars, EndpointCreate, EndpointDestroy, CapabilityInsert,
                      CapabilityRevoke, TrySend, InterruptSend, KernelThreadExit
<1>16. CASE ~Resume /\ ~TimerInterrupt
  <2> HIDE DEF Kept
  <2>1. Kept
      BY ZenonT(30), <1>4, <1>8, <1>9, <1>10, <1>11, <1>12, <1>13, <1>15, <1>16
  <2> QED
      BY Zenon, <2>1 DEF Kept
<1> QED
    BY Zenon, <1>7, <1>14, <1>16

-----------------------------------------------------------------------------
(* Moving messages *)

(* Taking a message ends the receiver's own wait and commits the staged sender; every *)
(* other call still agrees with its endpoint.                                         *)
LEMMA TakeInv ==
    ASSUME IInv, NEW e \in Endpoints, NEW c \in Threads, c = current, CanReceive(e, c),
           frame[c] = NoFrame \/ (frame[c].kind = Receive /\ frame[c].endpoint = e),
           Take(e, c, NoWait),
           frame' = [frame EXCEPT ![c] = NoFrame], timed' = [timed EXCEPT ![c] = NoSlot],
           waiting_receiver' = [waiting_receiver EXCEPT ![e] = NoLink],
           UNCHANGED <<current, halting, g_next_wait_id, objectVars, waiting_sender, ticks,
                       exit_info, halted, outcome>>
    PROVE  IInv'
<1> DEFINE s == waiting_sender[e].thread
           promoted == IF staged[e] = None THEN {} ELSE {s}
<1>1. /\ TypeOK /\ state[c] = "RUNNING" /\ Live(e)
      /\ \A t \in Threads : t = waiting_receiver[e].thread => t = c
    BY Zenon, Basics DEF IInv, CanReceive
<1>2. frame[c].kind # Send
    BY Zenon, Basics
<1>3. s # c
    BY ZenonT(30), <1>2, LinkFacts
<1>4. /\ state' \in [Threads -> States]
      /\ \A t \in Threads : state'[t] = IF t \in promoted /\ state[t] = "BLOCKED" THEN "READY" ELSE state[t]
  <2>1. state \in [Threads -> States]
      BY Zenon, <1>1 DEF TypeOK, States
  <2>2. state' = MadeReady(promoted)
      BY Zenon DEF Take
  <2> HIDE DEF promoted
  <2> QED
      BY Zenon, <2>1, <2>2, MadeReadyType
<1>5. "COMPLETED" \in Terminal
    BY ZenonT(30) DEF Terminal
<1>6. /\ Completed(promoted, "COMPLETED") \in [Threads -> Wait]
      /\ \A t \in Threads :
             /\ Completed(promoted, "COMPLETED")[t].kind = wait[t].kind
             /\ Completed(promoted, "COMPLETED")[t].object = wait[t].object
             /\ Completed(promoted, "COMPLETED")[t].id = wait[t].id
             /\ Completed(promoted, "COMPLETED")[t].result =
                    IF t \in promoted /\ wait[t].result = "PENDING" THEN "COMPLETED" ELSE wait[t].result
             /\ (t \notin promoted \/ wait[t].result # "PENDING") =>
                    Completed(promoted, "COMPLETED")[t] = wait[t]
  <2>1. wait \in [Threads -> Wait]
      BY Zenon, <1>1 DEF TypeOK
  <2> HIDE DEF promoted
  <2> QED
      BY SMTT(30), <1>5, <2>1, CompletedType
<1>7. wait' = [Completed(promoted, "COMPLETED") EXCEPT ![c] = NoWait]
    BY ZenonT(30) DEF Take
<1> HIDE DEF promoted
<1>8. /\ wait' \in [Threads -> Wait] /\ wait'[c] = NoWait
      /\ \A t \in Threads \ {c} :
             /\ wait'[t].kind = wait[t].kind /\ wait'[t].object = wait[t].object
             /\ wait'[t].id = wait[t].id
             /\ wait'[t].result = IF t \in promoted /\ wait[t].result = "PENDING" THEN "COMPLETED"
                                  ELSE wait[t].result
             /\ (t \notin promoted \/ wait[t].result # "PENDING") => wait'[t] = wait[t]
    BY Zenon, <1>6, <1>7, Absent
<1>9. /\ message' = [message EXCEPT ![e] = staged[e]] /\ staged' = [staged EXCEPT ![e] = None]
      /\ message' \in [Endpoints -> Messages \cup {None}] /\ staged' \in [Endpoints -> Messages \cup {None}]
    BY Zenon, <1>1 DEF TypeOK, Take
<1>10. /\ frame' \in [Threads -> Frame] /\ timed' \in [Threads -> Slot]
       /\ waiting_receiver' \in [Endpoints -> Link]
       /\ frame'[c] = NoFrame /\ timed'[c] = NoSlot /\ waiting_receiver'[e] = NoLink
       /\ \A t \in Threads \ {c} : frame'[t] = frame[t] /\ timed'[t] = timed[t]
       /\ \A f \in Endpoints \ {e} : waiting_receiver'[f] = waiting_receiver[f]
    BY Zenon, <1>1, Absent DEF TypeOK
<1>11. TypeOK'
  <2>1. endpoint_id[e] \in 1 .. EndpointIdLimit /\ message[e] \in Messages
    <3>1. endpoint_id[e] \in 0 .. EndpointIdLimit /\ message[e] \in Messages \cup {None}
        BY Zenon, <1>1 DEF TypeOK
    <3> QED
        BY Zenon, <1>1, <3>1, IssuedId DEF Live, CanReceive
  <2>2. received' \in [1 .. EndpointIdLimit -> Seq(Messages)]
    <3>1. /\ received \in [1 .. EndpointIdLimit -> Seq(Messages)]
          /\ received' = [received EXCEPT ![endpoint_id[e]] = Append(received[endpoint_id[e]], message[e])]
        BY Zenon, <1>1 DEF TypeOK, Take
    <3>2. received[endpoint_id[e]] \in Seq(Messages)
        BY Zenon, <2>1, <3>1
    <3>3. Append(received[endpoint_id[e]], message[e]) \in Seq(Messages)
        BY ONLY SMTT(30), <2>1, <3>2
    <3> QED
        BY Zenon, <2>1, <3>1, <3>3
  <2>3. accepted' \in [1 .. EndpointIdLimit -> Seq(Messages)]
      BY <1>1, <2>1 DEF TypeOK, Take
  <2> QED
      BY Zenon, <1>1, <1>4, <1>8, <1>9, <1>10, <2>2, <2>3 DEF TypeOK, States
<1>12. ASSUME NEW t \in Threads \ {c}, frame[t].kind = Send, frame[t].endpoint = e,
              wait[t].result = "PENDING"
       PROVE  t \in promoted /\ t = s
  <2>1. t = s
      BY Zenon, <1>12, LinkFacts
  <2>2. staged[e] # None
      BY ZenonT(30), <1>12, Basics DEF IInv, ReservationsAgree, CallAgrees, Pending
  <2> QED
      BY Zenon, <2>1, <2>2 DEF promoted
<1>13. ReservationsAgree'
  <2>1. \A t \in Threads : state'[t] = "RUNNING" <=> t = current'
      BY Zenon, <1>4, Basics
  <2>2. ASSUME NEW t \in Threads PROVE CallAgrees(t)'
    <3>1. CASE t = c
        BY Zenon, <3>1, <1>8, <1>10 DEF CallAgrees
    <3>2. CASE t # c /\ frame[t] = NoFrame
      <4>1. wait[t] = NoWait /\ timed[t] = NoSlot
          BY ZenonT(30), <3>2 DEF IInv, ReservationsAgree, CallAgrees
      <4>2. wait'[t] = NoWait
          BY ZenonT(30), <3>2, <4>1, <1>8, Basics
      <4> QED
          BY Zenon, <3>2, <4>1, <4>2, <1>10 DEF CallAgrees
    <3>3. CASE t # c /\ frame[t] # NoFrame
      <4>1. CallAgrees(t) /\ t \in Threads \ {c}
          BY ZenonT(30), <3>3 DEF IInv, ReservationsAgree
      <4>2. frame[t].kind = Receive => frame[t].endpoint # e
          BY <1>1, <3>3, LinkFacts
      <4>3. Pending(t)' => Pending(t) /\ (frame[t].kind = Send => frame[t].endpoint # e)
          BY Zenon, <4>1, <1>8, <1>12 DEF Pending
      <4>4. frame'[t] = frame[t] /\ timed'[t] = timed[t]
          BY Zenon, <4>1, <1>10
      <4>5. frame[t].kind \in {Receive, Send} /\ frame[t].endpoint \in Endpoints
          BY Zenon, <4>1, <3>3 DEF CallAgrees
      <4>6. LinkOf(frame[t].endpoint, frame[t].kind)' = LinkOf(frame[t].endpoint, frame[t].kind)
          BY <4>5, <4>2, <1>10, Basics DEF LinkOf
      <4>7. state'[t] # "DEAD" <=> state[t] # "DEAD"
          BY Zenon, <1>4
      <4>8. wait'[t].result # "NONE" <=> wait[t].result # "NONE"
          BY ZenonT(30), <4>1, <1>8
      <4>9. WaitMatches(t, frame[t].kind, frame[t].endpoint, frame[t].id)' <=>
            WaitMatches(t, frame[t].kind, frame[t].endpoint, frame[t].id)
          BY <4>1, <1>8 DEF WaitMatches
      <4>10. Registered(t)' <=> Registered(t)
          BY Zenon, <4>4 DEF Registered
      <4>11. frame[t].endpoint # e => /\ message'[frame[t].endpoint] = message[frame[t].endpoint]
                                      /\ staged'[frame[t].endpoint] = staged[frame[t].endpoint]
          BY Zenon, <4>5, <1>9, <1>1 DEF TypeOK
      <4> QED
          BY ZenonT(30), <3>3, <4>1, <4>3, <4>4, <4>5, <4>6, <4>7, <4>8, <4>9, <4>10, <4>11 DEF CallAgrees, Live
    <3> QED
        BY Zenon, <3>1, <3>2, <3>3
  <2>3. ASSUME NEW f \in Endpoints PROVE EndpointAgrees(f)'
    <3>1. EndpointAgrees(f)
        BY ZenonT(30) DEF IInv, ReservationsAgree
    <3>2. waiting_receiver[f] \in Link /\ waiting_sender[f] \in Link
        BY Zenon, <1>1 DEF TypeOK
    <3>3. waiting_sender[f].thread # c
        BY Zenon, <1>2, LinkFacts
    <3>4. f # e => waiting_receiver[f].thread # c
        BY LinkFacts, Basics
    <3>5. f # e => staged'[f] = staged[f] /\ (staged[f] # None => waiting_sender[f].thread \notin promoted)
      <4>1. f # e => staged'[f] = staged[f]
          BY Zenon, <1>9, <1>1 DEF TypeOK
      <4>2. ASSUME f # e, staged[f] # None, waiting_sender[f].thread \in promoted PROVE FALSE
        <5>1. waiting_sender[f].thread = s /\ waiting_sender[f].thread # None
            BY Zenon, <4>2, <3>1 DEF promoted, EndpointAgrees
        <5>2. s \in Threads
            BY Zenon, <5>1, <3>2 DEF Link
        <5> QED
            BY <4>2, <5>1, <5>2, LinkFacts
      <4> QED
          BY Zenon, <4>1, <4>2
    <3>6. staged'[e] = None
        BY Zenon, <1>9, <1>1 DEF TypeOK
    <3>7. \A t \in Threads \ {c} : t \notin promoted => (Pending(t)' <=> Pending(t))
        BY Zenon, <1>8 DEF Pending
    <3>8. waiting_receiver[f].thread \in Threads \cup {None} /\ waiting_sender[f].thread \in Threads \cup {None}
        BY Zenon, <3>2 DEF Link
    <3> QED
      <4>1. waiting_sender'[f] = waiting_sender[f] /\ NoLink.thread = None
          BY Zenon, Basics
      <4>2. waiting_sender[f].thread # None =>
                frame'[waiting_sender[f].thread] = frame[waiting_sender[f].thread]
          BY Zenon, <3>3, <3>8, <1>10
      <4>3. CASE f = e
          BY ONLY Zenon, <4>1, <4>2, <4>3, <3>1, <3>6, <1>10 DEF EndpointAgrees
      <4>4. CASE f # e
        <5>1. /\ waiting_receiver'[f] = waiting_receiver[f]
              /\ waiting_receiver[f].thread # None =>
                     frame'[waiting_receiver[f].thread] = frame[waiting_receiver[f].thread]
            BY Zenon, <4>4, <3>4, <3>8, <1>10
        <5>2. staged[f] # None => waiting_sender[f].thread # None /\ Pending(waiting_sender[f].thread)
            BY Zenon, <3>1 DEF EndpointAgrees
        <5>3. staged[f] # None => wait'[waiting_sender[f].thread].result = "PENDING"
            BY Zenon, <5>2, <4>4, <3>3, <3>5, <3>7, <3>8 DEF Pending
        <5> QED
            BY Zenon, <4>1, <4>2, <4>4, <5>1, <5>3, <3>1, <3>5, EndpointKept
      <4> QED
          BY Zenon, <4>3, <4>4
  <2>4. \A x \in caps' : Live(x[2])'
      BY Zenon DEF IInv, ReservationsAgree, Live
  <2> QED
      BY ZenonT(30), <2>1, <2>2, <2>3, <2>4 DEF ReservationsAgree
<1>14. NoLostWakeup'
  <2> SUFFICES ASSUME NEW t \in Threads, state'[t] = "BLOCKED"
               PROVE  LET f == frame'[t].endpoint
                      IN  /\ frame'[t] # NoFrame /\ Pending(t)' /\ ~closed'[f]
                          /\ frame'[t].kind = Receive => message'[f] = None
                          /\ frame'[t].kind = Send => /\ message'[f] # None
                                                      /\ staged'[f] = frame'[t].message
      BY Zenon DEF NoLostWakeup
  <2>1. state[t] = "BLOCKED" /\ t \notin promoted /\ t \in Threads \ {c}
      BY Zenon, <1>4, <1>1
  <2>2. frame[t] # NoFrame /\ Pending(t) /\ ~closed[frame[t].endpoint]
      BY Zenon, <2>1 DEF IInv, NoLostWakeup
  <2>3. frame[t].endpoint # e /\ frame[t].endpoint \in Endpoints
    <3>1. frame[t].kind \in {Receive, Send} /\ frame[t].endpoint \in Endpoints
        BY ZenonT(30), <2>2 DEF IInv, ReservationsAgree, CallAgrees
    <3>2. ~(frame[t].kind = Receive /\ frame[t].endpoint = e)
        BY <2>1, <1>1, LinkFacts
    <3>3. ~(frame[t].kind = Send /\ frame[t].endpoint = e)
        BY Zenon, <2>1, <2>2, <1>12 DEF Pending
    <3> QED
        BY Zenon, <3>1, <3>2, <3>3
  <2>4. /\ message'[frame[t].endpoint] = message[frame[t].endpoint]
        /\ staged'[frame[t].endpoint] = staged[frame[t].endpoint]
      BY Zenon, <2>3, <1>9, <1>1 DEF TypeOK
  <2>5. Pending(t)'
      BY Zenon, <2>1, <2>2, <1>8 DEF Pending
  <2>6. /\ frame[t].kind = Receive => message[frame[t].endpoint] = None
        /\ frame[t].kind = Send => /\ message[frame[t].endpoint] # None
                                   /\ staged[frame[t].endpoint] = frame[t].message
      BY Zenon, <2>1 DEF IInv, NoLostWakeup
  <2>7. frame'[t] = frame[t] /\ closed' = closed
      BY Zenon, <2>1, <1>10
  <2> QED
      BY ONLY Zenon, <2>2, <2>4, <2>5, <2>6, <2>7
<1>15. NeverHalts'
    BY Zenon DEF IInv, NeverHalts
<1>16. ExitedProcessIsStopped'
  <2> SUFFICES ASSUME NEW t \in Threads, exit_info[ProcessOf[t]] # "NONE"
               PROVE  state'[t] = "DEAD" /\ wait'[t] = NoWait /\ frame'[t] = NoFrame
      BY ZenonT(30) DEF ExitedProcessIsStopped
  <2>1. state[t] = "DEAD" /\ wait[t] = NoWait /\ frame[t] = NoFrame
      BY Zenon DEF IInv, ExitedProcessIsStopped
  <2>2. t # c
      BY Zenon, <2>1, <1>1
  <2> QED
      BY Zenon, <2>1, <2>2, <1>4, <1>8, <1>10, Basics
<1> QED
    BY Zenon, <1>11, <1>13, <1>14, <1>15, <1>16 DEF IInv
(* Nonblocking sends, from a thread or from an interrupt handler. *)
LEMMA SendInv ==
    ASSUME IInv, NEW e \in Endpoints, NEW m \in Messages, TrySend(e, m) \/ InterruptSend(e, m)
    PROVE  IInv'
<1>1. halting' \in BOOLEAN
    BY ZenonT(30) DEF TrySend, InterruptSend, IInv, TypeOK
<1> QED
    BY Zenon, <1>1, DeliverInv DEF TrySend, InterruptSend

(* A nonblocking receive finds no receiver parked on the endpoint. *)
LEMMA TryReceiveInv ==
    ASSUME IInv, NEW e \in Endpoints, TryReceive(e)
    PROVE  IInv'
<1>1. current \in Threads /\ frame[current] = NoFrame /\ TypeOK
    BY ZenonT(30) DEF TryReceive, Calling, IInv, TypeOK
<1>2. CallAgrees(current) /\ EndpointAgrees(e)
    BY ZenonT(30), <1>1 DEF IInv, ReservationsAgree
<1>3. timed[current] = NoSlot
    BY Zenon, <1>1, <1>2 DEF CallAgrees
<1>4. waiting_receiver[e].thread # None => waiting_receiver[e].thread = current
    BY ZenonT(30) DEF TryReceive, CanReceive
<1>5. waiting_receiver[e] = NoLink
    BY Zenon, <1>1, <1>2, <1>4, Basics DEF EndpointAgrees
<1>6. frame' = [frame EXCEPT ![current] = NoFrame] /\ timed' = [timed EXCEPT ![current] = NoSlot]
      /\ waiting_receiver' = [waiting_receiver EXCEPT ![e] = NoLink]
    BY Zenon, <1>1, <1>3, <1>5 DEF TryReceive, TypeOK
<1> QED
    BY ZenonT(30), <1>1, <1>6, TakeInv DEF TryReceive

-----------------------------------------------------------------------------
(* Scheduling *)

(* A kernel thread that leaves for good has no call in progress. *)
LEMMA KernelThreadExitInv ==
    ASSUME IInv, KernelThreadExit
    PROVE  IInv'
<1>1. current \in Threads /\ frame[current] = NoFrame /\ TypeOK
    BY Zenon DEF KernelThreadExit, Calling, IInv, TypeOK
<1>2. state \in [Threads -> States] /\ "DEAD" \in States
      /\ \A t \in Threads : state[t] = "RUNNING" <=> t = current
    BY Zenon DEF IInv, TypeOK, States, ReservationsAgree
<1>3. /\ state' \in [Threads -> States] /\ current' \in Threads \cup {None} /\ halting' = FALSE
      /\ \A t \in Threads : state'[t] = "RUNNING" <=> t = current'
      /\ \A t \in Threads : state'[t] = IF t = current' THEN "RUNNING"
                                       ELSE IF t = current THEN "DEAD" ELSE state[t]
      /\ \A t \in Threads : t = current' => state[t] = "READY"
    BY ZenonT(30), <1>1, <1>2, SwitchFacts DEF KernelThreadExit
<1>4. UNCHANGED <<waitVars, objectVars, boxVars, timed, ticks, exit_info, halted, history>>
    BY Zenon DEF KernelThreadExit
<1>5. TypeOK'
    BY ZenonT(30), <1>1, <1>3, <1>4 DEF TypeOK, States
<1>6. ASSUME NEW t \in Threads PROVE CallAgrees(t)'
  <2>1. CallAgrees(t)
      BY Zenon DEF IInv, ReservationsAgree
  <2>2. CASE frame[t] = NoFrame
      BY Zenon, <1>4, <2>1, <2>2, CallKept
  <2>3. CASE frame[t] # NoFrame
    <3>1. /\ state[t] # "DEAD" /\ wait[t].result # "NONE"
          /\ WaitMatches(t, frame[t].kind, frame[t].endpoint, frame[t].id)
          /\ Pending(t) => /\ ~closed[frame[t].endpoint]
                           /\ frame[t].kind = Send => message[frame[t].endpoint] # None
        BY Zenon, <2>3, CallFacts
    <3>2. state'[t] # "DEAD"
        BY Zenon, <1>1, <1>3, <2>3, <3>1
    <3>3. /\ WaitMatches(t, frame[t].kind, frame[t].endpoint, frame[t].id)'
          /\ LinkOf(frame[t].endpoint, frame[t].kind)' = LinkOf(frame[t].endpoint, frame[t].kind)
          /\ Pending(t)' <=> Pending(t)
        BY Zenon, <1>4, <3>1 DEF WaitMatches, LinkOf, Pending
    <3> QED
        BY Zenon, <1>4, <2>1, <2>3, <3>1, <3>2, <3>3, CallKept
  <2> QED
      BY Zenon, <2>2, <2>3
<1>7. \A e \in Endpoints : EndpointAgrees(e)'
    BY ZenonT(30), <1>4 DEF IInv, ReservationsAgree, EndpointAgrees, Pending
<1>8. ReservationsAgree'
    BY ZenonT(30), <1>3, <1>4, <1>6, <1>7 DEF IInv, ReservationsAgree, Live
<1>9. NoLostWakeup'
    BY Zenon, <1>3, <1>4 DEF IInv, NoLostWakeup, Pending
<1>10. ExitedProcessIsStopped' /\ NeverHalts'
    BY <1>3, <1>4 DEF IInv, ExitedProcessIsStopped, NeverHalts
<1> QED
    BY Zenon, <1>5, <1>8, <1>9, <1>10 DEF IInv

-----------------------------------------------------------------------------
(* One pass of the wait loop *)

(* None of the wait loop's cpu_halt_forever() checks can fail. *)
LEMMA LoopIsIntact ==
    ASSUME IInv, NEW c \in Threads, frame[c] # NoFrame
    PROVE  LoopIntact(c)
<1> DEFINE e == frame[c].endpoint
<1>1. e \in Endpoints /\ frame[c].kind \in {Receive, Send}
    BY ZenonT(30), CallFacts
<1>2. ReservationValid(e, frame[c].kind)
    BY Zenon, <1>1, Valid
<1>3. frame[c].kind = Send /\ Pending(c) => staged[e] # None
    BY ZenonT(30), CallFacts
<1>4. frame[c].kind = Send /\ wait[c].result = "COMPLETED" => staged[e] = None
  <2>1. frame[c].kind = Send => waiting_sender[e].thread = c
      BY Zenon, <1>1, LinkFacts
  <2>2. staged[e] # None => Pending(waiting_sender[e].thread)
      BY Zenon, <1>1 DEF IInv, ReservationsAgree, EndpointAgrees
  <2> QED
      BY Zenon, <2>1, <2>2 DEF Pending
<1> QED
    BY ZenonT(30), <1>2, <1>3, <1>4, CallFacts DEF LoopIntact

(* Returning from a call takes its own reservation away and no other. *)
LEMMA ReturnInv ==
    ASSUME IInv, NEW c \in Threads, c = current, frame[c] # NoFrame, ReturnFrom(c),
           UNCHANGED <<g_next_wait_id, objectVars, ticks, exit_info, halted>>
    PROVE  IInv'
<1> DEFINE e == frame[c].endpoint
           kind == frame[c].kind
<1>1. TypeOK /\ e \in Endpoints /\ kind \in {Receive, Send} /\ state[c] = "RUNNING"
    BY ZenonT(30), CallFacts, Basics DEF IInv
<1>2. UNCHANGED <<schedVars, message, accepted, received>>
    BY Zenon DEF ReturnFrom
<1>3. /\ wait' \in [Threads -> Wait] /\ frame' \in [Threads -> Frame] /\ timed' \in [Threads -> Slot]
      /\ wait'[c] = NoWait /\ frame'[c] = NoFrame /\ timed'[c] = NoSlot
      /\ \A t \in Threads \ {c} : wait'[t] = wait[t] /\ frame'[t] = frame[t] /\ timed'[t] = timed[t]
    BY Zenon, <1>1, Absent DEF TypeOK, ReturnFrom, EndReservation
<1>4. /\ waiting_receiver' \in [Endpoints -> Link] /\ waiting_sender' \in [Endpoints -> Link]
      /\ IF kind = Receive THEN waiting_receiver'[e] = NoLink ELSE waiting_receiver'[e] = waiting_receiver[e]
      /\ IF kind = Send THEN waiting_sender'[e] = NoLink ELSE waiting_sender'[e] = waiting_sender[e]
      /\ \A f \in Endpoints \ {e} : /\ waiting_receiver'[f] = waiting_receiver[f]
                                    /\ waiting_sender'[f] = waiting_sender[f]
  <2>1. CASE kind = Receive
    <3>1. waiting_receiver' = [waiting_receiver EXCEPT ![e] = NoLink] /\ waiting_sender' = waiting_sender
        BY ZenonT(30), <2>1 DEF ReturnFrom, EndReservation
    <3> QED
        BY Zenon, <1>1, <2>1, <3>1, Absent, Basics DEF TypeOK
  <2>2. CASE kind = Send
    <3>1. waiting_sender' = [waiting_sender EXCEPT ![e] = NoLink] /\ waiting_receiver' = waiting_receiver
        BY ZenonT(30), <2>2, Basics DEF ReturnFrom, EndReservation
    <3> QED
        BY ZenonT(30), <1>1, <2>2, <3>1, Absent, Basics DEF TypeOK
  <2> QED
      BY Zenon, <1>1, <2>1, <2>2
<1>5. /\ staged' \in [Endpoints -> Messages \cup {None}]
      /\ IF kind = Send THEN staged'[e] = None ELSE staged'[e] = staged[e]
      /\ \A f \in Endpoints \ {e} : staged'[f] = staged[f]
    BY Zenon, <1>1 DEF TypeOK, ReturnFrom
<1>6. outcome' \in [Messages -> {"unsent", "calling", "ok", "failed", "aborted"}]
    BY ZenonT(30), <1>1 DEF TypeOK, ReturnFrom
<1> HIDE DEF e, kind
<1>7. TypeOK'
    BY Zenon, <1>1, <1>2, <1>3, <1>4, <1>5, <1>6 DEF TypeOK
<1>8. ASSUME NEW t \in Threads \ {c}, frame[t] # NoFrame
      PROVE  ~(frame[t].kind = kind /\ frame[t].endpoint = e)
  <2>1. LinkOf(frame[t].endpoint, frame[t].kind) = [thread |-> t, id |-> frame[t].id]
    <3>1. t \in Threads
        BY Zenon
    <3> QED
        BY ZenonT(30), <3>1, <1>8, CallFacts
  <2>2. LinkOf(e, kind) = [thread |-> c, id |-> frame[c].id]
      BY Zenon, CallFacts DEF e, kind
  <2> QED
      BY <2>1, <2>2
<1>9. ASSUME NEW t \in Threads PROVE CallAgrees(t)'
  <2>1. CASE t = c
      BY ZenonT(30), <2>1, <1>3 DEF CallAgrees
  <2>2. CASE t # c
    <3>1. CallAgrees(t) /\ wait'[t] = wait[t] /\ frame'[t] = frame[t] /\ timed'[t] = timed[t]
        BY Zenon, <2>2, <1>3 DEF IInv, ReservationsAgree
    <3>2. CASE frame[t] = NoFrame
        BY ZenonT(30), <3>1, <3>2 DEF CallAgrees
    <3>3. CASE frame[t] # NoFrame
      <4>1. ~(frame[t].kind = kind /\ frame[t].endpoint = e)
          BY Zenon, <2>2, <3>3, <1>8
      <4>2. frame[t].kind \in {Receive, Send} /\ frame[t].endpoint \in Endpoints
          BY ZenonT(30), <3>3, CallFacts
      <4>3. LinkOf(frame[t].endpoint, frame[t].kind)' = LinkOf(frame[t].endpoint, frame[t].kind)
        <5>1. CASE frame[t].endpoint = e
            BY ONLY Zenon, <5>1, <3>1, <4>1, <4>2, <1>1, <1>4, Basics DEF LinkOf
        <5>2. CASE frame[t].endpoint # e
            BY ONLY Zenon, <5>2, <3>1, <4>2, <1>4 DEF LinkOf
        <5> QED
            BY Zenon, <5>1, <5>2
      <4>4. frame[t].kind = Send => staged'[frame[t].endpoint] = staged[frame[t].endpoint]
          BY ZenonT(30), <4>1, <4>2, <1>1, <1>5, Basics
      <4>5. (Pending(t)' <=> Pending(t)) /\ (Registered(t)' <=> Registered(t))
            /\ (WaitMatches(t, frame[t].kind, frame[t].endpoint, frame[t].id)' <=>
                WaitMatches(t, frame[t].kind, frame[t].endpoint, frame[t].id))
          BY Zenon, <3>1 DEF Pending, Registered, WaitMatches
      <4> QED
          BY ZenonT(30), <3>1, <3>3, <4>2, <4>3, <4>4, <4>5, <1>2 DEF CallAgrees, Live
    <3> QED
        BY ZenonT(30), <3>2, <3>3
  <2> QED
      BY Zenon, <2>1, <2>2
<1>10. ASSUME NEW f \in Endpoints PROVE EndpointAgrees(f)'
  <2>1. EndpointAgrees(f) /\ waiting_receiver[f] \in Link /\ waiting_sender[f] \in Link
      BY Zenon, <1>1 DEF IInv, ReservationsAgree, TypeOK
  <2>2. waiting_receiver[f].thread \in Threads \cup {None} /\ waiting_sender[f].thread \in Threads \cup {None}
      BY ZenonT(30), <2>1 DEF Link
  <2>3. /\ waiting_receiver[f].thread = c => kind = Receive /\ f = e
        /\ waiting_sender[f].thread = c => kind = Send /\ f = e
      BY SMTT(30), LinkFacts DEF e, kind
  <2>4. \A t \in Threads \ {c} : Pending(t)' <=> Pending(t)
      BY Zenon, <1>3 DEF Pending
  <2>5. IF waiting_receiver'[f].thread = None THEN waiting_receiver'[f] = NoLink
        ELSE /\ frame'[waiting_receiver'[f].thread].kind = Receive
             /\ frame'[waiting_receiver'[f].thread].endpoint = f
    <3>1. waiting_receiver'[f] \in {waiting_receiver[f], NoLink} /\ (kind = Receive /\ f = e => waiting_receiver'[f] = NoLink)
        BY ZenonT(30), <1>1, <1>4
    <3>2. NoLink.thread = None
        BY Zenon, Basics
    <3>3. CASE waiting_receiver'[f] = NoLink
        BY Zenon, <3>2, <3>3
    <3>4. CASE waiting_receiver'[f] # NoLink
      <4>1. waiting_receiver'[f] = waiting_receiver[f] /\ waiting_receiver[f].thread # c
          BY ZenonT(30), <2>3, <3>1, <3>4
      <4>2. /\ waiting_receiver[f].thread = None => waiting_receiver[f] = NoLink
            /\ waiting_receiver[f].thread # None =>
                   /\ frame[waiting_receiver[f].thread].kind = Receive
                   /\ frame[waiting_receiver[f].thread].endpoint = f
          BY ZenonT(30), <2>1 DEF EndpointAgrees
      <4>3. waiting_receiver[f].thread \in Threads \ {c} =>
                frame'[waiting_receiver[f].thread] = frame[waiting_receiver[f].thread]
          BY ZenonT(30), <1>3
      <4> QED
          BY ZenonT(30), <2>2, <3>4, <4>1, <4>2, <4>3
    <3> QED
        BY Zenon, <3>3, <3>4
  <2>6. IF waiting_sender'[f].thread = None THEN waiting_sender'[f] = NoLink
        ELSE /\ frame'[waiting_sender'[f].thread].kind = Send
             /\ frame'[waiting_sender'[f].thread].endpoint = f
    <3>1. waiting_sender'[f] \in {waiting_sender[f], NoLink} /\ (kind = Send /\ f = e => waiting_sender'[f] = NoLink)
        BY ZenonT(30), <1>1, <1>4
    <3>2. NoLink.thread = None
        BY Zenon, Basics
    <3>3. CASE waiting_sender'[f] = NoLink
        BY Zenon, <3>2, <3>3
    <3>4. CASE waiting_sender'[f] # NoLink
      <4>1. waiting_sender'[f] = waiting_sender[f] /\ waiting_sender[f].thread # c
          BY ZenonT(30), <2>3, <3>1, <3>4
      <4>2. /\ waiting_sender[f].thread = None => waiting_sender[f] = NoLink
            /\ waiting_sender[f].thread # None =>
                   /\ frame[waiting_sender[f].thread].kind = Send
                   /\ frame[waiting_sender[f].thread].endpoint = f
          BY ZenonT(30), <2>1 DEF EndpointAgrees
      <4>3. waiting_sender[f].thread \in Threads \ {c} =>
                frame'[waiting_sender[f].thread] = frame[waiting_sender[f].thread]
          BY ZenonT(30), <1>3
      <4> QED
          BY ZenonT(30), <2>2, <3>4, <4>1, <4>2, <4>3
    <3> QED
        BY Zenon, <3>3, <3>4
  <2>7. staged'[f] # None => waiting_sender'[f].thread # None /\ Pending(waiting_sender[f].thread)'
      BY ZenonT(30), <2>1, <2>2, <2>3, <2>4, <1>1, <1>4, <1>5, Basics DEF EndpointAgrees
  <2> QED
      BY Zenon, <2>5, <2>6, <2>7 DEF EndpointAgrees
<1>11. ReservationsAgree'
    BY ZenonT(30), <1>2, <1>9, <1>10 DEF IInv, ReservationsAgree, Live
<1>12. NoLostWakeup'
  <2> SUFFICES ASSUME NEW t \in Threads, state'[t] = "BLOCKED"
               PROVE  LET f == frame'[t].endpoint
                      IN  /\ frame'[t] # NoFrame /\ Pending(t)' /\ ~closed'[f]
                          /\ frame'[t].kind = Receive => message'[f] = None
                          /\ frame'[t].kind = Send => /\ message'[f] # None
                                                      /\ staged'[f] = frame'[t].message
      BY Zenon DEF NoLostWakeup
  <2>1. state[t] = "BLOCKED" /\ t \in Threads \ {c} /\ wait'[t] = wait[t] /\ frame'[t] = frame[t]
      BY Zenon, <1>1, <1>2, <1>3
  <2>2. frame[t] # NoFrame
      BY Zenon, <2>1 DEF IInv, NoLostWakeup
  <2>3. frame[t].endpoint \in Endpoints /\ ~(frame[t].kind = kind /\ frame[t].endpoint = e)
      BY ZenonT(30), <2>1, <2>2, <1>8, CallFacts
  <2>4. frame[t].kind = Send => staged'[frame[t].endpoint] = staged[frame[t].endpoint]
      BY ZenonT(30), <2>3, <1>1, <1>5, Basics
  <2> QED
      BY ZenonT(30), <2>1, <2>4, <1>2 DEF IInv, NoLostWakeup, Pending
<1>13. ExitedProcessIsStopped'
    BY ZenonT(30), <1>2, <1>3 DEF IInv, ExitedProcessIsStopped
<1>14. NeverHalts'
    BY Zenon DEF IInv, NeverHalts
<1> QED
    BY Zenon, <1>7, <1>11, <1>12, <1>13, <1>14 DEF IInv

(* Parking again keeps the call as it was; its event has not happened. *)
LEMMA ResumeParkInv ==
    ASSUME IInv, NEW c \in Threads, c = current, frame[c] # NoFrame, ResumePark(c),
           UNCHANGED <<g_next_wait_id, objectVars, ticks, exit_info, halted>>
    PROVE  IInv'
<1>1. TypeOK /\ state[c] = "RUNNING"
    BY Zenon, Basics DEF IInv
<1>2. UNCHANGED <<wait, frame, timed, boxVars, history>> /\ Pending(c)
      /\ (frame[c].kind = Receive => message[frame[c].endpoint] = None)
    BY Zenon DEF ResumePark
<1>3. /\ state' \in [Threads -> States] /\ current' \in Threads \cup {None} /\ halting' \in BOOLEAN
      /\ \A t \in Threads : state'[t] = "RUNNING" <=> t = current'
      /\ \A t \in Threads : state'[t] = "DEAD" <=> state[t] = "DEAD"
      /\ \A t \in Threads \ {c} : state'[t] = "BLOCKED" => state[t] = "BLOCKED"
    BY Zenon, ParkFacts DEF ResumePark
<1>4. TypeOK'
    BY ZenonT(30), <1>1, <1>2, <1>3 DEF TypeOK, States
<1>5. \A t \in Threads : CallAgrees(t)'
  <2> SUFFICES ASSUME NEW t \in Threads PROVE CallAgrees(t)'
      BY Zenon
  <2>1. CallAgrees(t)
      BY ZenonT(30) DEF IInv, ReservationsAgree
  <2>2. /\ LinkOf(frame[t].endpoint, frame[t].kind)' = LinkOf(frame[t].endpoint, frame[t].kind)
        /\ (Pending(t)' <=> Pending(t)) /\ (Registered(t)' <=> Registered(t))
        /\ (WaitMatches(t, frame[t].kind, frame[t].endpoint, frame[t].id)' <=>
            WaitMatches(t, frame[t].kind, frame[t].endpoint, frame[t].id))
      BY Zenon, <1>2 DEF LinkOf, Pending, Registered, WaitMatches
  <2> QED
      BY ZenonT(30), <1>2, <1>3, <2>1, <2>2 DEF CallAgrees, Live
<1>6. \A e \in Endpoints : EndpointAgrees(e)'
    BY ZenonT(30), <1>2 DEF IInv, ReservationsAgree, EndpointAgrees, Pending
<1>7. ReservationsAgree'
    BY Zenon, <1>3, <1>5, <1>6 DEF IInv, ReservationsAgree, Live
<1>8. NoLostWakeup'
  <2> SUFFICES ASSUME NEW t \in Threads, state'[t] = "BLOCKED"
               PROVE  LET f == frame[t].endpoint
                      IN  /\ frame[t] # NoFrame /\ Pending(t) /\ ~closed[f]
                          /\ frame[t].kind = Receive => message[f] = None
                          /\ frame[t].kind = Send => message[f] # None /\ staged[f] = frame[t].message
      BY ZenonT(30), <1>2 DEF NoLostWakeup, Pending
  <2>1. CASE t = c
      BY ZenonT(30), <2>1, <1>2, CallFacts
  <2>2. CASE t # c
      BY ZenonT(30), <2>2, <1>3 DEF IInv, NoLostWakeup
  <2> QED
      BY ZenonT(30), <2>1, <2>2
<1>9. ExitedProcessIsStopped' /\ NeverHalts'
    BY ZenonT(30), <1>2, <1>3 DEF IInv, ExitedProcessIsStopped, NeverHalts
<1> QED
    BY Zenon, <1>4, <1>7, <1>8, <1>9 DEF IInv

(* A pass of the wait loop. *)
LEMMA ResumeInv ==
    ASSUME IInv, Resume
    PROVE  IInv'
<1>1. current \in Threads /\ frame[current] # NoFrame
    BY Zenon DEF Resume, Masked, IInv, TypeOK
<1>2. LoopIntact(current)
    BY Zenon, <1>1, LoopIsIntact
<1>3. UNCHANGED <<g_next_wait_id, objectVars, ticks, exit_info, halted>>
    BY Zenon, <1>2 DEF Resume
<1>4. CASE ResumeReturn(current)
    BY Zenon, <1>1, <1>3, <1>4, ReturnInv DEF ResumeReturn
<1>5. CASE ResumeTake(current)
  <2>1. /\ frame[current].kind = Receive /\ CanReceive(frame[current].endpoint, current)
        /\ Take(frame[current].endpoint, current, NoWait) /\ EndReservation(current)
        /\ UNCHANGED <<current, halting, outcome>>
      BY Zenon, <1>5 DEF ResumeTake
  <2>2. frame[current].endpoint \in Endpoints
      BY ZenonT(30), <1>1, CallFacts
  <2>3. /\ frame' = [frame EXCEPT ![current] = NoFrame] /\ timed' = [timed EXCEPT ![current] = NoSlot]
        /\ waiting_receiver' = [waiting_receiver EXCEPT ![frame[current].endpoint] = NoLink]
        /\ UNCHANGED waiting_sender
      BY Zenon, <2>1 DEF EndReservation
  <2> QED
      BY ZenonT(30), <1>1, <1>3, <2>1, <2>2, <2>3, TakeInv
<1>6. CASE ResumePark(current)
    BY Zenon, <1>1, <1>3, <1>6, ResumeParkInv
<1> QED
    BY Zenon, <1>2, <1>4, <1>5, <1>6 DEF Resume

EndpointsIssued ==
    /\ \A e \in Endpoints : Live(e) =>
          g_next_endpoint_id = 0 \/ endpoint_id[e] < g_next_endpoint_id
    /\ \A e, f \in Endpoints : Live(e) /\ endpoint_id[e] = endpoint_id[f] => e = f
    /\ \A i \in 1 .. EndpointIdLimit :
          g_next_endpoint_id # 0 /\ i >= g_next_endpoint_id =>
              accepted[i] = <<>> /\ received[i] = <<>>
    /\ \A e \in Endpoints : ~Live(e) => message[e] = None

SendCalls ==
    /\ \A t \in Threads :
          IF frame[t].kind = Send
          THEN frame[t].message \in Messages /\ outcome[frame[t].message] = "calling"
          ELSE frame[t].message = None
    /\ \A t, u \in Threads :
          frame[t].kind = Send /\ frame[t].message = frame[u].message => t = u

(* What the mailboxes hold, and what the send calls answer. *)
BoxInv == EndpointsIssued /\ ExactlyOnceInOrder
SendInvariant == SendCalls /\ TruthfulSend
MInv == BoxInv /\ SendInvariant

(* Two send calls never carry the same message. *)
LEMMA OneSender ==
    ASSUME SendInvariant, NEW t \in Threads, NEW u \in Threads,
           frame[t].kind = Send, frame[t].message = frame[u].message
    PROVE  t = u
BY Zenon DEF SendInvariant, SendCalls

-----------------------------------------------------------------------------
(* Sequences of messages *)

(* What the mailbox adds to a sequence of messages. *)
LEMMA Appending ==
    ASSUME NEW q \in Seq(Messages), NEW x \in Messages
    PROVE  /\ Append(q, x) \in Seq(Messages)
           /\ q \o <<>> = q /\ q \o <<x>> = Append(q, x)
           /\ \A m : (\E k \in DOMAIN Append(q, x) : Append(q, x)[k] = m)
                         <=> (m = x \/ \E k \in DOMAIN q : q[k] = m)
<1>1. Append(q, x) \in Seq(Messages) /\ q \o <<>> = q /\ q \o <<x>> = Append(q, x)
    OBVIOUS
<1>2. /\ Len(q) \in Nat /\ DOMAIN q = 1 .. Len(q) /\ DOMAIN Append(q, x) = 1 .. Len(q) + 1
      /\ Append(q, x)[Len(q) + 1] = x
      /\ \A k \in 1 .. Len(q) : Append(q, x)[k] = q[k]
    OBVIOUS
<1>3. \A k \in 1 .. Len(q) + 1 : k \in 1 .. Len(q) \/ k = Len(q) + 1
    BY <1>2
<1>4. 1 .. Len(q) \subseteq 1 .. Len(q) + 1 /\ Len(q) + 1 \in 1 .. Len(q) + 1
    BY <1>2
<1>5. ASSUME NEW m
      PROVE  (\E k \in DOMAIN Append(q, x) : Append(q, x)[k] = m)
                 <=> (m = x \/ \E k \in DOMAIN q : q[k] = m)
    BY ZenonT(30), <1>2, <1>3, <1>4
<1> QED
    BY Zenon, <1>1, <1>5

(* Appending to what was accepted under one identity makes exactly that message accepted. *)
LEMMA Accepting ==
    ASSUME accepted \in [1 .. EndpointIdLimit -> Seq(Messages)],
           NEW i \in 1 .. EndpointIdLimit, NEW x \in Messages,
           accepted' = [accepted EXCEPT ![i] = Append(@, x)]
    PROVE  \A m : AcceptedSomewhere(m)' <=> (AcceptedSomewhere(m) \/ m = x)
<1>1. /\ accepted'[i] = Append(accepted[i], x) /\ accepted[i] \in Seq(Messages)
      /\ \A j \in 1 .. EndpointIdLimit : j # i => accepted'[j] = accepted[j]
    BY Zenon
<1>2. \A m : (\E k \in DOMAIN accepted'[i] : accepted'[i][k] = m)
                 <=> (m = x \/ \E k \in DOMAIN accepted[i] : accepted[i][k] = m)
  <2> DEFINE q == accepted[i]
  <2> HIDE DEF q
  <2>1. q \in Seq(Messages)
      BY Zenon, <1>1 DEF q
  <2>2. \A m : (\E k \in DOMAIN Append(q, x) : Append(q, x)[k] = m)
                   <=> (m = x \/ \E k \in DOMAIN q : q[k] = m)
      BY ONLY <2>1, x \in Messages, Appending, ZenonT(30)
  <2>3. accepted'[i] = Append(q, x)
      BY Zenon, <1>1 DEF q
  <2> QED
      BY ZenonT(30), <2>2, <2>3 DEF q
<1> SUFFICES ASSUME NEW m PROVE AcceptedSomewhere(m)' <=> (AcceptedSomewhere(m) \/ m = x)
    BY Zenon
<1> DEFINE Here(j) == \E k \in DOMAIN accepted[j] : accepted[j][k] = m
           Then(j) == \E k \in DOMAIN accepted'[j] : accepted'[j][k] = m
<1>3. (Then(i) <=> m = x \/ Here(i)) /\ \A j \in 1 .. EndpointIdLimit : j # i => (Then(j) <=> Here(j))
    BY ZenonT(30), <1>1, <1>2
<1>4. /\ AcceptedSomewhere(m) <=> \E j \in 1 .. EndpointIdLimit : Here(j)
      /\ AcceptedSomewhere(m)' <=> \E j \in 1 .. EndpointIdLimit : Then(j)
    BY ZenonT(30) DEF AcceptedSomewhere
<1> HIDE DEF Here, Then
<1> QED
    BY ZenonT(30), <1>3, <1>4

-----------------------------------------------------------------------------
(* Mailboxes *)

(* One live endpoint changes, and what it holds still is what it accepted and not gave. *)
LEMMA BoxStep ==
    ASSUME IInv, BoxInv, NEW e \in Endpoints, Live(e), ~closed[e],
           NEW in \in Seq(Messages), NEW out \in Seq(Messages), NEW m \in Messages \cup {None},
           accepted' = [accepted EXCEPT ![endpoint_id[e]] = in],
           received' = [received EXCEPT ![endpoint_id[e]] = out],
           message' = [message EXCEPT ![e] = m],
           in = out \o (IF m = None THEN <<>> ELSE <<m>>),
           UNCHANGED objectVars
    PROVE  BoxInv'
<1> DEFINE i == endpoint_id[e]
<1>1. /\ i \in 1 .. EndpointIdLimit /\ g_next_endpoint_id \in 0 .. EndpointIdLimit
      /\ endpoint_id \in [Endpoints -> 0 .. EndpointIdLimit]
    BY DEF IInv, TypeOK, Live
<1>2. /\ accepted'[i] = in /\ received'[i] = out /\ message'[e] = m
      /\ \A j \in 1 .. EndpointIdLimit : j # i => accepted'[j] = accepted[j] /\ received'[j] = received[j]
      /\ \A f \in Endpoints : f # e => message'[f] = message[f]
    BY ZenonT(30), <1>1 DEF IInv, TypeOK
<1>3. EndpointsIssued'
  <2>1. g_next_endpoint_id = 0 \/ i < g_next_endpoint_id
      BY Zenon DEF BoxInv, EndpointsIssued
  <2>2. \A j \in 1 .. EndpointIdLimit : g_next_endpoint_id # 0 /\ j >= g_next_endpoint_id => j # i
      BY Zenon, <1>1, <2>1, LaterId
  <2> QED
      BY ZenonT(30), <1>2, <2>2 DEF BoxInv, EndpointsIssued, Live
<1>4. ExactlyOnceInOrder'
  <2> SUFFICES ASSUME NEW f \in Endpoints, Live(f)'
               PROVE  LET in1 == accepted'[endpoint_id'[f]]
                          out1 == received'[endpoint_id'[f]]
                      IN  /\ ~closed'[f] => in1 = out1 \o (IF message'[f] = None THEN <<>>
                                                           ELSE <<message'[f]>>)
                          /\ closed'[f] => /\ message'[f] = None
                                           /\ \/ in1 = out1
                                              \/ \E x \in Messages : in1 = Append(out1, x)
      BY ZenonT(30) DEF ExactlyOnceInOrder
  <2>1. CASE f = e
      BY ZenonT(30), <2>1, <1>2
  <2>2. CASE f # e
    <3>1. endpoint_id[f] # i /\ endpoint_id[f] \in 1 .. EndpointIdLimit /\ Live(f)
      <4>1. endpoint_id' = endpoint_id
          BY Zenon DEF objectVars
      <4>2. Live(f)
          BY Zenon, <4>1 DEF Live
      <4>3. endpoint_id[f] # i
          BY Zenon, <2>2, <4>2 DEF BoxInv, EndpointsIssued
      <4>4. endpoint_id[f] \in 0 .. EndpointIdLimit
          BY Zenon, <1>1
      <4> QED
          BY Zenon, <4>2, <4>3, <4>4, IssuedId DEF Live
    <3>2. /\ message'[f] = message[f] /\ closed'[f] = closed[f] /\ endpoint_id'[f] = endpoint_id[f]
          /\ accepted'[endpoint_id[f]] = accepted[endpoint_id[f]]
          /\ received'[endpoint_id[f]] = received[endpoint_id[f]]
        BY ZenonT(30), <2>2, <3>1, <1>2
    <3>3. LET in1 == accepted[endpoint_id[f]]
              out1 == received[endpoint_id[f]]
          IN  /\ ~closed[f] => in1 = out1 \o (IF message[f] = None THEN <<>> ELSE <<message[f]>>)
              /\ closed[f] => /\ message[f] = None
                              /\ in1 = out1 \/ \E x \in Messages : in1 = Append(out1, x)
        BY ZenonT(30), <3>1 DEF BoxInv, ExactlyOnceInOrder
    <3> QED
        BY ZenonT(60), <3>2, <3>3
  <2> QED
      BY ZenonT(30), <2>1, <2>2
<1> QED
    BY ZenonT(30), <1>3, <1>4 DEF BoxInv

(* ipc_send_locked into an empty mailbox. *)
LEMMA DeliverBox ==
    ASSUME IInv, BoxInv, NEW e \in Endpoints, NEW m \in Messages, CanSend(e), Deliver(e, m),
           UNCHANGED objectVars
    PROVE  BoxInv'
<1> DEFINE i == endpoint_id[e]
<1>1. Live(e) /\ ~closed[e] /\ message[e] = None
    BY Zenon DEF CanSend
<1>2. /\ i \in 1 .. EndpointIdLimit /\ accepted[i] \in Seq(Messages) /\ received[i] \in Seq(Messages)
      /\ received = [received EXCEPT ![i] = received[i]]
    BY <1>1 DEF IInv, TypeOK, Live
<1>3. accepted[i] = received[i]
  <2>1. accepted[i] = received[i] \o <<>>
      BY ZenonT(30), <1>1 DEF BoxInv, ExactlyOnceInOrder
  <2>2. received[i] \o <<>> = received[i]
      BY Zenon, <1>2, Appending
  <2> QED
      BY Zenon, <2>1, <2>2
<1>4. /\ Append(received[i], m) \in Seq(Messages) /\ m # None
      /\ Append(received[i], m) = received[i] \o <<m>>
    BY Zenon, <1>2, Appending
<1>5. /\ accepted' = [accepted EXCEPT ![i] = Append(received[i], m)]
      /\ received' = [received EXCEPT ![i] = received[i]]
      /\ message' = [message EXCEPT ![e] = m]
    BY Zenon, <1>2, <1>3 DEF Deliver
<1> QED
    BY ZenonT(30), <1>1, <1>2, <1>4, <1>5, BoxStep

(* ipc_receive_locked, with or without the promotion of a staged message. *)
LEMMA TakeBox ==
    ASSUME IInv, BoxInv, NEW e \in Endpoints, NEW c \in Threads, CanReceive(e, c),
           Take(e, c, NoWait), UNCHANGED objectVars
    PROVE  BoxInv'
<1> DEFINE i == endpoint_id[e]
           out == Append(received[i], message[e])
           in == IF staged[e] = None THEN accepted[i] ELSE Append(accepted[i], staged[e])
<1>1. Live(e) /\ ~closed[e] /\ message[e] \in Messages /\ staged[e] \in Messages \cup {None}
    BY Zenon DEF CanReceive, IInv, TypeOK
<1>2. /\ i \in 1 .. EndpointIdLimit /\ accepted[i] \in Seq(Messages) /\ received[i] \in Seq(Messages)
      /\ accepted = [accepted EXCEPT ![i] = accepted[i]]
    BY <1>1 DEF IInv, TypeOK, Live
<1>3. out \in Seq(Messages) /\ accepted[i] = out
  <2>1. accepted[i] = received[i] \o <<message[e]>>
      BY ZenonT(30), <1>1 DEF BoxInv, ExactlyOnceInOrder
  <2> QED
      BY Zenon, <1>1, <1>2, <2>1, Appending
<1>4. in \in Seq(Messages) /\ in = out \o (IF staged[e] = None THEN <<>> ELSE <<staged[e]>>)
  <2>1. CASE staged[e] = None
      BY ZenonT(30), <1>1, <1>3, <2>1, Appending
  <2>2. CASE staged[e] # None
    <3>1. staged[e] \in Messages
        BY Zenon, <1>1, <2>2
    <3>2. /\ Append(accepted[i], staged[e]) \in Seq(Messages)
          /\ accepted[i] \o <<staged[e]>> = Append(accepted[i], staged[e])
        BY Zenon, <1>2, <3>1, Appending
    <3> QED
        BY Zenon, <1>3, <2>2, <3>2
  <2> QED
      BY ZenonT(30), <2>1, <2>2
<1>5. /\ accepted' = [accepted EXCEPT ![i] = in]
      /\ received' = [received EXCEPT ![i] = out]
      /\ message' = [message EXCEPT ![e] = staged[e]]
    BY ZenonT(30), <1>2 DEF Take
<1> QED
    BY ZenonT(30), <1>1, <1>3, <1>4, <1>5, BoxStep

(* A fresh identity starts with nothing accepted and nothing received. *)
LEMMA CreateBox ==
    ASSUME IInv, BoxInv, NEW e \in Endpoints, NEW p \in Processes \cup {None}, EndpointCreate(e, p)
    PROVE  BoxInv'
<1> DEFINE i == g_next_endpoint_id
<1>1. /\ i \in 1 .. EndpointIdLimit /\ endpoint_id \in [Endpoints -> 0 .. EndpointIdLimit]
      /\ ~Live(e) /\ message[e] = None /\ closed \in [Endpoints -> BOOLEAN]
  <2>1. TypeOK /\ i # 0 /\ ~Live(e)
      BY Zenon DEF EndpointCreate, IInv
  <2>2. message[e] = None
      BY Zenon, <2>1 DEF BoxInv, EndpointsIssued
  <2> QED
      BY <2>1, <2>2 DEF TypeOK
<1>2. /\ endpoint_id' = [endpoint_id EXCEPT ![e] = i]
      /\ g_next_endpoint_id' = NextId(i, EndpointIdLimit)
      /\ closed' = [closed EXCEPT ![e] = FALSE]
      /\ UNCHANGED <<message, accepted, received>>
    BY ZenonT(30) DEF EndpointCreate
<1>3. \A f \in Endpoints : endpoint_id[f] < i \/ endpoint_id[f] = 0
    BY <1>1 DEF BoxInv, EndpointsIssued, Live
<1>4. i # 0 /\ accepted[i] = <<>> /\ received[i] = <<>>
  <2>1. i # 0 /\ i >= i
      BY <1>1
  <2> QED
      BY Zenon, <1>1, <2>1 DEF BoxInv, EndpointsIssued
<1>5. EndpointsIssued'
  <2>1. EndpointsIssued /\ endpoint_id'[e] = i /\ i # 0
      BY Zenon, <1>1, <1>2, <1>4 DEF BoxInv
  <2>2. \A f \in Endpoints : f # e => endpoint_id'[f] = endpoint_id[f]
      BY Zenon, <1>1, <1>2
  <2>3. /\ NextId(i, EndpointIdLimit) = 0 \/ i < NextId(i, EndpointIdLimit)
        /\ \A j \in 0 .. EndpointIdLimit : j < i =>
               NextId(i, EndpointIdLimit) = 0 \/ j < NextId(i, EndpointIdLimit)
        /\ \A j \in 1 .. EndpointIdLimit :
               NextId(i, EndpointIdLimit) # 0 /\ j >= NextId(i, EndpointIdLimit) => j >= i
      BY <1>1 DEF NextId
  <2>4. \A f \in Endpoints : endpoint_id[f] # 0 => endpoint_id[f] # i /\ endpoint_id[f] < i
    <3>1. \A j \in 0 .. EndpointIdLimit : j < i => j # i
        BY <1>1
    <3>2. \A f \in Endpoints : endpoint_id[f] \in 0 .. EndpointIdLimit
        BY Zenon, <1>1
    <3> QED
        BY Zenon, <1>3, <3>1, <3>2
  <2>5. ASSUME NEW f \in Endpoints, Live(f)'
        PROVE  g_next_endpoint_id' = 0 \/ endpoint_id'[f] < g_next_endpoint_id'
      BY Zenon, <1>1, <1>2, <2>1, <2>2, <2>3, <2>4, <2>5 DEF Live
  <2>6. ASSUME NEW f \in Endpoints, NEW h \in Endpoints, Live(f)', endpoint_id'[f] = endpoint_id'[h]
        PROVE  f = h
    <3>1. CASE f = e \/ h = e
        BY Zenon, <2>1, <2>2, <2>4, <2>6, <3>1 DEF Live
    <3>2. CASE f # e /\ h # e
        BY ZenonT(30), <2>1, <2>2, <2>6, <3>2 DEF Live, EndpointsIssued
    <3> QED
        BY Zenon, <3>1, <3>2
  <2>7. ASSUME NEW j \in 1 .. EndpointIdLimit, g_next_endpoint_id' # 0, j >= g_next_endpoint_id'
        PROVE  accepted'[j] = <<>> /\ received'[j] = <<>>
      BY Zenon, <1>2, <2>1, <2>3, <2>7 DEF EndpointsIssued
  <2>8. ASSUME NEW f \in Endpoints, ~Live(f)' PROVE message'[f] = None
      BY Zenon, <1>1, <1>2, <2>1, <2>2, <2>8 DEF Live, EndpointsIssued
  <2> QED
      BY Zenon, <2>5, <2>6, <2>7, <2>8 DEF EndpointsIssued
<1>6. ExactlyOnceInOrder'
  <2>1. <<>> = <<>> \o <<>>
      OBVIOUS
  <2> QED
      BY ZenonT(30), <1>1, <1>2, <1>4, <2>1 DEF BoxInv, ExactlyOnceInOrder, Live
<1> QED
    BY Zenon, <1>5, <1>6 DEF BoxInv

(* A destroyed endpoint has an empty mailbox. *)
LEMMA DestroyBox ==
    ASSUME IInv, BoxInv, NEW e \in Endpoints, EndpointDestroy(e)
    PROVE  BoxInv'
<1>1. /\ endpoint_id \in [Endpoints -> 0 .. EndpointIdLimit] /\ closed \in [Endpoints -> BOOLEAN]
      /\ endpoint_id' = [endpoint_id EXCEPT ![e] = 0]
      /\ closed' = [closed EXCEPT ![e] = FALSE] /\ message[e] = None
      /\ UNCHANGED <<message, accepted, received, g_next_endpoint_id>>
    BY Zenon DEF EndpointDestroy, Destroyable, IInv, TypeOK
<1>2. EndpointsIssued'
    BY Zenon, <1>1 DEF BoxInv, EndpointsIssued, Live
<1>3. ExactlyOnceInOrder'
    BY ZenonT(30), <1>1 DEF BoxInv, ExactlyOnceInOrder, Live
<1> QED
    BY Zenon, <1>2, <1>3 DEF BoxInv

(* A close discards at most the message in the mailbox. *)
LEMMA CloseBox ==
    ASSUME IInv, BoxInv, NEW E \in SUBSET Endpoints, NEW T, CloseAndStop(E, T),
           UNCHANGED <<endpoint_id, g_next_endpoint_id, accepted, received>>
    PROVE  BoxInv'
<1>1. /\ closed' = [e \in Endpoints |-> closed[e] \/ e \in E]
      /\ message' = [e \in Endpoints |-> IF e \in E THEN None ELSE message[e]]
    BY Zenon DEF CloseAndStop
<1>2. EndpointsIssued'
    BY Zenon, <1>1 DEF BoxInv, EndpointsIssued, Live
<1>3. ExactlyOnceInOrder'
  <2> SUFFICES ASSUME NEW f \in Endpoints, Live(f)
               PROVE  LET in == accepted[endpoint_id[f]]
                          out == received[endpoint_id[f]]
                      IN  /\ ~closed'[f] => in = out \o (IF message'[f] = None THEN <<>>
                                                         ELSE <<message'[f]>>)
                          /\ closed'[f] => /\ message'[f] = None
                                           /\ in = out \/ \E m \in Messages : in = Append(out, m)
      BY ZenonT(30) DEF ExactlyOnceInOrder, Live
  <2> DEFINE in == accepted[endpoint_id[f]]
             out == received[endpoint_id[f]]
  <2>1. /\ ~closed[f] => in = out \o (IF message[f] = None THEN <<>> ELSE <<message[f]>>)
        /\ closed[f] => /\ message[f] = None
                        /\ in = out \/ \E m \in Messages : in = Append(out, m)
      BY ZenonT(30) DEF BoxInv, ExactlyOnceInOrder
  <2>2. out \in Seq(Messages) /\ message[f] \in Messages \cup {None}
      BY DEF IInv, TypeOK, Live
  <2>3. ~closed[f] => in = out \/ \E m \in Messages : in = Append(out, m)
    <3>1. CASE message[f] = None
      <4>1. ~closed[f] => in = out \o <<>>
          BY ZenonT(30), <2>1, <3>1
      <4>2. out \o <<>> = out
          BY <2>2
      <4> QED
          BY Zenon, <4>1, <4>2
    <3>2. CASE message[f] # None
      <4>1. ~closed[f] => in = out \o <<message[f]>>
          BY Zenon, <2>1, <3>2
      <4>2. message[f] \in Messages /\ out \o <<message[f]>> = Append(out, message[f])
          BY <2>2, <3>2
      <4> QED
          BY ZenonT(30), <4>1, <4>2
    <3> QED
        BY Zenon, <3>1, <3>2
  <2> HIDE DEF in, out
  <2>4. message'[f] = (IF f \in E THEN None ELSE message[f]) /\ (closed'[f] <=> closed[f] \/ f \in E)
      BY ZenonT(30), <1>1
  <2>5. CASE f \in E
      BY ZenonT(30), <2>1, <2>3, <2>4, <2>5 DEF in, out
  <2>6. CASE f \notin E
      BY ZenonT(30), <2>1, <2>3, <2>4, <2>6 DEF in, out
  <2> QED
      BY ZenonT(30), <2>5, <2>6
<1> QED
    BY Zenon, <1>2, <1>3 DEF BoxInv

-----------------------------------------------------------------------------
(* Send calls *)

(* A step that moves no message and decides no send by completion. *)
LEMMA SendKept ==
    ASSUME SendInvariant, UNCHANGED <<frame, outcome, accepted>>,
           \A t \in Threads : frame[t].kind = Send =>
               (wait'[t].result = "COMPLETED" <=> wait[t].result = "COMPLETED")
    PROVE  SendInvariant'
<1>1. SendCalls'
    BY ZenonT(30) DEF SendInvariant, SendCalls
<1>2. \A m : AcceptedSomewhere(m)' <=> AcceptedSomewhere(m)
    BY Zenon DEF AcceptedSomewhere
<1>3. TruthfulSend'
    BY ZenonT(30), <1>2 DEF SendInvariant, TruthfulSend
<1> QED
    BY Zenon, <1>1, <1>3 DEF SendInvariant

(* A send that succeeds at once: its message was not part of any call. *)
LEMMA DeliverSend ==
    ASSUME IInv, SendInvariant, NEW e \in Endpoints, NEW m \in Messages, Live(e), Deliver(e, m),
           outcome[m] = "unsent", UNCHANGED waitVars
    PROVE  SendInvariant'
<1>1. /\ outcome' = [outcome EXCEPT ![m] = "ok"]
      /\ outcome'[m] = "ok" /\ \A x \in Messages \ {m} : outcome'[x] = outcome[x]
    BY Zenon DEF Deliver, IInv, TypeOK
<1>2. \A x : AcceptedSomewhere(x)' <=> (AcceptedSomewhere(x) \/ x = m)
  <2>1. /\ accepted \in [1 .. EndpointIdLimit -> Seq(Messages)]
        /\ endpoint_id[e] \in 1 .. EndpointIdLimit
        /\ accepted' = [accepted EXCEPT ![endpoint_id[e]] = Append(@, m)]
      BY DEF Deliver, IInv, TypeOK, Live
  <2> QED
      BY ZenonT(30), <2>1, Accepting
<1>3. \A t \in Threads : frame[t].kind = Send => frame[t].message \in Messages \ {m}
    BY Zenon DEF SendInvariant, SendCalls
<1>4. SendCalls'
    BY ZenonT(30), <1>1, <1>3 DEF SendInvariant, SendCalls
<1>5. TruthfulSend'
  <2>1. ASSUME NEW x \in Messages
        PROVE  /\ outcome'[x] = "ok" => AcceptedSomewhere(x)'
               /\ outcome'[x] \in {"unsent", "failed"} => ~AcceptedSomewhere(x)'
    <3>1. CASE x = m
        BY Zenon, <3>1, <1>1, <1>2
    <3>2. CASE x # m
        BY ZenonT(30), <3>2, <1>1, <1>2 DEF SendInvariant, TruthfulSend
    <3> QED
        BY Zenon, <3>1, <3>2
  <2>2. ASSUME NEW t \in Threads, frame'[t].kind = Send
        PROVE  AcceptedSomewhere(frame[t].message)' <=> wait'[t].result = "COMPLETED"
      BY ZenonT(30), <2>2, <1>2, <1>3 DEF SendInvariant, TruthfulSend
  <2> QED
      BY ZenonT(30), <2>1, <2>2 DEF TruthfulSend
<1> QED
    BY Zenon, <1>4, <1>5 DEF SendInvariant

(* A receive that promotes the message of a blocked sender completes that send and no other. *)
LEMMA TakeSend ==
    ASSUME IInv, SendInvariant, NEW e \in Endpoints, NEW c \in Threads, frame[c].kind # Send,
           Live(e), Take(e, c, NoWait), UNCHANGED outcome,
           frame' = frame \/ frame' = [frame EXCEPT ![c] = NoFrame]
    PROVE  SendInvariant'
<1> DEFINE s == waiting_sender[e].thread
           S == IF staged[e] = None THEN {} ELSE {s}
<1>1. /\ wait \in [Threads -> Wait] /\ frame \in [Threads -> Frame]
      /\ waiting_sender[e] \in Link /\ staged[e] \in Messages \cup {None}
      /\ accepted \in [1 .. EndpointIdLimit -> Seq(Messages)]
      /\ endpoint_id[e] \in 1 .. EndpointIdLimit
    BY Zenon, IssuedId DEF IInv, TypeOK, Live
<1>2. /\ \A t \in Threads \ {c} : frame'[t] = frame[t]
      /\ frame'[c].kind # Send /\ frame'[c].message = None
  <2>1. frame[c].message = None /\ NoFrame.message = None /\ NoFrame.kind # Send
      BY ZenonT(30) DEF SendInvariant, SendCalls, NoFrame, Send
  <2> QED
      BY Zenon, <1>1, <2>1
<1>3. /\ wait' = [Completed(S, "COMPLETED") EXCEPT ![c] = NoWait]
      /\ Completed(S, "COMPLETED") \in [Threads -> Wait]
      /\ \A t \in Threads : Completed(S, "COMPLETED")[t].result =
                                IF t \in S /\ wait[t].result = "PENDING" THEN "COMPLETED"
                                ELSE wait[t].result
  <2>1. wait' = [Completed(S, "COMPLETED") EXCEPT ![c] = NoWait]
      BY Zenon DEF Take
  <2> QED
      BY <2>1, <1>1, CompletedType DEF Terminal
<1>4. \A t \in Threads \ {c} : wait'[t].result =
          IF t \in S /\ wait[t].result = "PENDING" THEN "COMPLETED" ELSE wait[t].result
    BY ZenonT(30), <1>3
<1>5. staged[e] # None =>
          /\ s \in Threads /\ s # c /\ frame[s].kind = Send /\ staged[e] = frame[s].message
          /\ wait[s].result = "PENDING" /\ outcome[staged[e]] = "calling"
  <2> SUFFICES ASSUME staged[e] # None
               PROVE  /\ s \in Threads /\ s # c /\ frame[s].kind = Send
                      /\ staged[e] = frame[s].message
                      /\ wait[s].result = "PENDING" /\ outcome[staged[e]] = "calling"
      BY Zenon
  <2>1. s \in Threads /\ Pending(s) /\ frame[s].kind = Send /\ frame[s].endpoint = e
      BY Zenon, <1>1 DEF IInv, ReservationsAgree, EndpointAgrees, Link
  <2>2. frame[s] # NoFrame
      BY Zenon, <2>1, Basics
  <2>3. staged[e] = frame[s].message
      BY ZenonT(30), <2>1, <2>2, CallFacts
  <2> QED
      BY Zenon, <2>1, <2>3 DEF Pending, SendInvariant, SendCalls
<1>6. \A x : AcceptedSomewhere(x)' <=> (AcceptedSomewhere(x) \/ (staged[e] # None /\ x = staged[e]))
  <2>1. CASE staged[e] = None
    <3>1. accepted' = accepted
        BY Zenon, <2>1 DEF Take
    <3> QED
        BY Zenon, <2>1, <3>1 DEF AcceptedSomewhere
  <2>2. CASE staged[e] # None
    <3>1. accepted' = [accepted EXCEPT ![endpoint_id[e]] = Append(@, staged[e])]
        BY Zenon, <2>2 DEF Take
    <3>2. staged[e] \in Messages
        BY Zenon, <2>2, <1>1
    <3>3. \A x : AcceptedSomewhere(x)' <=> (AcceptedSomewhere(x) \/ x = staged[e])
        BY ZenonT(30), <3>1, <3>2, <1>1, Accepting
    <3> QED
        BY Zenon, <2>2, <3>3
  <2> QED
      BY Zenon, <2>1, <2>2
<1> HIDE DEF s
<1>7. SendCalls'
  <2>1. ASSUME NEW t \in Threads
        PROVE  IF frame'[t].kind = Send
               THEN frame'[t].message \in Messages /\ outcome'[frame'[t].message] = "calling"
               ELSE frame'[t].message = None
    <3>1. CASE t = c
        BY ZenonT(30), <3>1, <1>2
    <3>2. CASE t # c
        BY ZenonT(30), <3>2, <1>2 DEF SendInvariant, SendCalls
    <3> QED
        BY Zenon, <3>1, <3>2
  <2>2. ASSUME NEW t \in Threads, NEW u \in Threads, frame'[t].kind = Send,
               frame'[t].message = frame'[u].message
        PROVE  t = u
    <3>1. t # c /\ frame'[t] = frame[t] /\ frame[t].message \in Messages
        BY ZenonT(30), <2>2, <1>2 DEF SendInvariant, SendCalls
    <3>2. u # c
        BY Zenon, <2>2, <3>1, <1>2
    <3> QED
        BY ZenonT(30), <2>2, <3>1, <3>2, <1>2 DEF SendInvariant, SendCalls
  <2> QED
      BY ZenonT(30), <2>1, <2>2 DEF SendCalls
<1>8. TruthfulSend'
  <2>1. ASSUME NEW x \in Messages
        PROVE  /\ outcome'[x] = "ok" => AcceptedSomewhere(x)'
               /\ outcome'[x] \in {"unsent", "failed"} => ~AcceptedSomewhere(x)'
    <3>1. (outcome[x] = "ok" => AcceptedSomewhere(x))
          /\ (outcome[x] \in {"unsent", "failed"} => ~AcceptedSomewhere(x))
        BY ZenonT(30) DEF SendInvariant, TruthfulSend
    <3> QED
        BY Zenon, <3>1, <1>5, <1>6
  <2>2. ASSUME NEW t \in Threads, frame'[t].kind = Send
        PROVE  AcceptedSomewhere(frame[t].message)' <=> wait'[t].result = "COMPLETED"
    <3>1. t # c /\ frame'[t] = frame[t]
        BY Zenon, <2>2, <1>2
    <3>2. AcceptedSomewhere(frame[t].message) <=> wait[t].result = "COMPLETED"
        BY ZenonT(30), <2>2, <3>1 DEF SendInvariant, TruthfulSend
    <3>3. CASE staged[e] # None /\ t = s
        BY Zenon, <3>1, <3>3, <1>4, <1>5, <1>6
    <3>4. CASE staged[e] # None /\ t # s
      <4>1. frame[t].message # staged[e]
          BY ZenonT(30), <2>2, <3>1, <3>4, <1>5 DEF SendInvariant, SendCalls
      <4>2. wait'[t].result = wait[t].result
          BY Zenon, <3>1, <3>4, <1>4
      <4> QED
          BY Zenon, <3>1, <3>2, <4>1, <4>2, <1>6
    <3>5. CASE staged[e] = None
        BY Zenon, <3>1, <3>2, <3>5, <1>4, <1>6
    <3> QED
        BY Zenon, <3>3, <3>4, <3>5
  <2> QED
      BY ZenonT(30), <2>1, <2>2 DEF TruthfulSend
<1> QED
    BY Zenon, <1>7, <1>8 DEF SendInvariant

(* A blocking send takes up a message that no call has used. *)
LEMMA BeginSend ==
    ASSUME IInv, SendInvariant, NEW e \in Endpoints, NEW kind \in {Receive, Send},
           NEW m \in Messages \cup {None}, NEW n, BeginWait(e, kind, m, n),
           kind = Send => m \in Messages /\ outcome[m] = "unsent",
           kind = Receive => m = None
    PROVE  SendInvariant'
<1> DEFINE c == current
<1>1. c \in Threads /\ frame[c] = NoFrame /\ accepted' = accepted
    BY Zenon DEF BeginWait, Calling, IInv, TypeOK
<1>2. CASE UNCHANGED <<wait, frame, outcome>>
    BY Zenon, <1>1, <1>2, SendKept
<1>3. CASE ~UNCHANGED <<wait, frame, outcome>>
  <2>1. /\ frame'[c].kind = kind /\ frame'[c].message = m /\ wait'[c].result = "PENDING"
        /\ \A t \in Threads \ {c} : frame'[t] = frame[t] /\ wait'[t] = wait[t]
        /\ outcome' = IF kind = Send THEN [outcome EXCEPT ![m] = "calling"] ELSE outcome
    <3>1. /\ wait' = [wait EXCEPT ![c] = [kind |-> kind, object |-> e, id |-> g_next_wait_id,
                                          result |-> "PENDING"]]
          /\ frame' = [frame EXCEPT ![c] = [kind |-> kind, endpoint |-> e, id |-> g_next_wait_id,
                                            timed |-> n # 0, message |-> m]]
          /\ outcome' = IF kind = Send THEN [outcome EXCEPT ![m] = "calling"] ELSE outcome
        BY ZenonT(30), <1>3 DEF BeginWait
    <3> QED
        BY Zenon, <1>1, <3>1 DEF IInv, TypeOK
  <2>2. \A x : AcceptedSomewhere(x)' <=> AcceptedSomewhere(x)
      BY Zenon, <1>1 DEF AcceptedSomewhere
  <2>3. /\ \A x \in Messages : x # m => outcome'[x] = outcome[x]
        /\ kind = Send => outcome'[m] = "calling"
      BY Zenon, <2>1 DEF IInv, TypeOK
  <2>4. Receive # Send /\ m \in Messages <=> kind = Send
      BY Zenon, Basics
  <2>5. \A t \in Threads : frame[t].message = m => kind = Receive
      BY Zenon, <2>4 DEF SendInvariant, SendCalls
  <2>6. SendCalls'
    <3>1. ASSUME NEW t \in Threads
          PROVE  IF frame'[t].kind = Send
                 THEN frame'[t].message \in Messages /\ outcome'[frame'[t].message] = "calling"
                 ELSE frame'[t].message = None
      <4>1. CASE t = c
          BY Zenon, <4>1, <2>1, <2>3, <2>4
      <4>2. CASE t # c
        <5>1. frame'[t] = frame[t]
            BY Zenon, <4>2, <2>1
        <5>2. IF frame[t].kind = Send
              THEN frame[t].message \in Messages /\ outcome[frame[t].message] = "calling"
              ELSE frame[t].message = None
            BY ZenonT(30) DEF SendInvariant, SendCalls
        <5> QED
            BY Zenon, <5>1, <5>2, <2>3, <2>4, <2>5
      <4> QED
          BY Zenon, <4>1, <4>2
    <3>2. ASSUME NEW t \in Threads, NEW u \in Threads, frame'[t].kind = Send,
                 frame'[t].message = frame'[u].message
          PROVE  t = u
      <4>1. CASE t = c /\ u # c
          BY ZenonT(30), <3>2, <4>1, <2>1, <2>4, <2>5
      <4>2. CASE t # c /\ u = c
        <5>1. frame[t].message = m /\ frame[t].message \in Messages
            BY ZenonT(30), <3>2, <4>2, <2>1 DEF SendInvariant, SendCalls
        <5> QED
            BY Zenon, <5>1, <2>4, <2>5
      <4>3. CASE t # c /\ u # c
        <5>1. frame'[t] = frame[t] /\ frame'[u] = frame[u]
            BY Zenon, <4>3, <2>1
        <5> QED
            BY Zenon, <3>2, <5>1, OneSender
      <4> QED
          BY Zenon, <4>1, <4>2, <4>3
    <3> QED
        BY ZenonT(30), <3>1, <3>2 DEF SendCalls
  <2>7. TruthfulSend'
    <3>1. ASSUME NEW x \in Messages
          PROVE  /\ outcome'[x] = "ok" => AcceptedSomewhere(x)'
                 /\ outcome'[x] \in {"unsent", "failed"} => ~AcceptedSomewhere(x)'
      <4>1. CASE kind = Send /\ x = m
          BY Zenon, <4>1, <2>3
      <4>2. CASE x # m
          BY ZenonT(30), <4>2, <2>2, <2>3 DEF SendInvariant, TruthfulSend
      <4> QED
          BY Zenon, <4>1, <4>2, <2>4
    <3>2. ASSUME NEW t \in Threads, frame'[t].kind = Send
          PROVE  AcceptedSomewhere(frame[t].message)' <=> wait'[t].result = "COMPLETED"
      <4>1. CASE t = c
        <5>1. kind = Send /\ ~AcceptedSomewhere(m)
            BY Zenon, <3>2, <4>1, <2>1 DEF SendInvariant, TruthfulSend
        <5> QED
            BY ZenonT(30), <5>1, <4>1, <2>1, <2>2
      <4>2. CASE t # c
          BY ZenonT(30), <3>2, <4>2, <2>1, <2>2 DEF SendInvariant, TruthfulSend
      <4> QED
          BY Zenon, <4>1, <4>2
    <3> QED
        BY ZenonT(30), <3>1, <3>2 DEF TruthfulSend
  <2> QED
      BY Zenon, <2>6, <2>7 DEF SendInvariant
<1> QED
    BY Zenon, <1>2, <1>3

(* A send call that returns reports success exactly if its message was accepted. *)
LEMMA ReturnSend ==
    ASSUME IInv, SendInvariant, NEW c \in Threads, ReturnFrom(c)
    PROVE  SendInvariant'
<1> DEFINE m == frame[c].message
           said == IF wait[c].result = "COMPLETED" THEN "ok" ELSE "failed"
<1>1. /\ \A t \in Threads \ {c} : frame'[t] = frame[t] /\ wait'[t] = wait[t]
      /\ frame'[c].kind # Send /\ frame'[c].message = None
      /\ outcome' = (IF frame[c].kind = Send THEN [outcome EXCEPT ![m] = said] ELSE outcome)
      /\ accepted' = accepted
  <2>1. NoFrame.kind # Send /\ NoFrame.message = None
      BY Zenon DEF NoFrame, Send
  <2>2. frame' = [frame EXCEPT ![c] = NoFrame] /\ wait' = [wait EXCEPT ![c] = NoWait]
        /\ accepted' = accepted
      BY Zenon DEF ReturnFrom, EndReservation
  <2>3. outcome' = (IF frame[c].kind = Send THEN [outcome EXCEPT ![m] = said] ELSE outcome)
      BY Zenon DEF ReturnFrom
  <2> QED
      BY Zenon, <2>1, <2>2, <2>3 DEF IInv, TypeOK
<1>2. \A x : AcceptedSomewhere(x)' <=> AcceptedSomewhere(x)
    BY Zenon, <1>1 DEF AcceptedSomewhere
<1>3. /\ \A x \in Messages : x # m => outcome'[x] = outcome[x]
      /\ m \in Messages => outcome'[m] = said /\ frame[c].kind = Send
  <2>1. m \in Messages <=> frame[c].kind = Send
      BY Zenon DEF SendInvariant, SendCalls
  <2> QED
      BY Zenon, <1>1, <2>1 DEF IInv, TypeOK
<1>4. SendCalls'
  <2>1. ASSUME NEW t \in Threads
        PROVE  IF frame'[t].kind = Send
               THEN frame'[t].message \in Messages /\ outcome'[frame'[t].message] = "calling"
               ELSE frame'[t].message = None
    <3>1. CASE t = c
        BY Zenon, <3>1, <1>1
    <3>2. CASE t # c
      <4>1. frame[t].kind = Send => frame[t].message # m
          BY ZenonT(30), <3>2 DEF SendInvariant, SendCalls
      <4>2. IF frame[t].kind = Send
            THEN frame[t].message \in Messages /\ outcome[frame[t].message] = "calling"
            ELSE frame[t].message = None
          BY ZenonT(30) DEF SendInvariant, SendCalls
      <4>3. frame'[t] = frame[t]
          BY Zenon, <3>2, <1>1
      <4> QED
          BY ZenonT(30), <4>1, <4>2, <4>3, <1>3
    <3> QED
        BY Zenon, <3>1, <3>2
  <2>2. ASSUME NEW t \in Threads, NEW u \in Threads, frame'[t].kind = Send,
               frame'[t].message = frame'[u].message
        PROVE  t = u
    <3>1. t # c /\ frame'[t].message \in Messages
        BY Zenon, <2>2, <1>1, <2>1
    <3>2. u # c
        BY Zenon, <2>2, <3>1, <1>1
    <3> QED
        BY ZenonT(30), <2>2, <3>1, <3>2, <1>1 DEF SendInvariant, SendCalls
  <2> QED
      BY ZenonT(30), <2>1, <2>2 DEF SendCalls
<1>5. TruthfulSend'
  <2>1. ASSUME NEW x \in Messages
        PROVE  /\ outcome'[x] = "ok" => AcceptedSomewhere(x)'
               /\ outcome'[x] \in {"unsent", "failed"} => ~AcceptedSomewhere(x)'
    <3>1. CASE x = m
      <4>1. frame[c].kind = Send /\ outcome'[x] = said
          BY Zenon, <3>1, <1>3
      <4>2. AcceptedSomewhere(x) <=> wait[c].result = "COMPLETED"
          BY ZenonT(30), <3>1, <4>1 DEF SendInvariant, TruthfulSend
      <4> QED
          BY Zenon, <4>1, <4>2, <1>2
    <3>2. CASE x # m
        BY ZenonT(30), <3>2, <1>2, <1>3 DEF SendInvariant, TruthfulSend
    <3> QED
        BY Zenon, <3>1, <3>2
  <2>2. ASSUME NEW t \in Threads, frame'[t].kind = Send
        PROVE  AcceptedSomewhere(frame[t].message)' <=> wait'[t].result = "COMPLETED"
    <3>1. t # c
        BY Zenon, <2>2, <1>1
    <3> QED
        BY ZenonT(30), <2>2, <3>1, <1>1, <1>2 DEF SendInvariant, TruthfulSend
  <2> QED
      BY ZenonT(30), <2>1, <2>2 DEF TruthfulSend
<1> QED
    BY Zenon, <1>4, <1>5 DEF SendInvariant

(* A stopped thread's send has no answer; a closed endpoint completes no send. *)
LEMMA CloseSend ==
    ASSUME IInv, SendInvariant, NEW E, NEW T \in SUBSET Threads, CloseAndStop(E, T),
           UNCHANGED accepted
    PROVE  SendInvariant'
<1>1. /\ \A t \in Threads : frame'[t] = IF t \in T THEN NoFrame ELSE frame[t]
      /\ \A m \in Messages : outcome'[m] = IF \E t \in T : frame[t].message = m THEN "aborted"
                                           ELSE outcome[m]
    BY Zenon DEF CloseAndStop
<1>2. NoFrame.kind # Send /\ NoFrame.message = None
    BY Zenon DEF NoFrame, Send
<1>3. ASSUME NEW t \in Threads, t \notin T
      PROVE  wait'[t].result = "COMPLETED" <=> wait[t].result = "COMPLETED"
  <2>1. wait'[t] = Completed(Waiters(E), "PEER_CLOSED")[t]
      BY Zenon, <1>3 DEF CloseAndStop
  <2>2. wait \in [Threads -> Wait] /\ "PEER_CLOSED" \in Terminal
      BY ZenonT(30) DEF IInv, TypeOK, Terminal
  <2>3. wait'[t].result = IF t \in Waiters(E) /\ wait[t].result = "PENDING" THEN "PEER_CLOSED"
                          ELSE wait[t].result
      BY <2>1, <2>2, CompletedType
  <2> QED
      BY ZenonT(30), <2>3
<1>4. \A x : AcceptedSomewhere(x)' <=> AcceptedSomewhere(x)
    BY Zenon DEF AcceptedSomewhere
<1>5. ASSUME NEW t \in Threads, t \notin T, frame[t].kind = Send
      PROVE  frame[t].message \in Messages /\ outcome'[frame[t].message] = "calling"
  <2>1. frame[t].message \in Messages /\ outcome[frame[t].message] = "calling"
      BY Zenon, <1>5 DEF SendInvariant, SendCalls
  <2>2. ~\E u \in T : frame[u].message = frame[t].message
      BY ZenonT(30), <1>5 DEF SendInvariant, SendCalls
  <2> QED
      BY Zenon, <2>1, <2>2, <1>1
<1>6. SendCalls'
  <2>1. ASSUME NEW t \in Threads
        PROVE  IF frame'[t].kind = Send
               THEN frame'[t].message \in Messages /\ outcome'[frame'[t].message] = "calling"
               ELSE frame'[t].message = None
    <3>1. CASE t \in T
        BY Zenon, <3>1, <1>1, <1>2
    <3>2. CASE t \notin T
      <4>1. frame'[t] = frame[t] /\ (frame[t].kind # Send => frame[t].message = None)
          BY Zenon, <3>2, <1>1 DEF SendInvariant, SendCalls
      <4> QED
          BY Zenon, <3>2, <4>1, <1>5
    <3> QED
        BY Zenon, <3>1, <3>2
  <2>2. ASSUME NEW t \in Threads, NEW u \in Threads, frame'[t].kind = Send,
               frame'[t].message = frame'[u].message
        PROVE  t = u
    <3>1. t \notin T /\ frame'[t].message \in Messages
        BY Zenon, <2>2, <1>1, <1>2, <2>1
    <3>2. u \notin T
        BY Zenon, <2>2, <3>1, <1>1, <1>2
    <3> QED
      <4>1. frame'[t] = frame[t] /\ frame'[u] = frame[u]
          BY Zenon, <3>1, <3>2, <1>1
      <4> QED
          BY Zenon, <2>2, <4>1, OneSender
  <2> QED
      BY ZenonT(30), <2>1, <2>2 DEF SendCalls
<1>7. TruthfulSend'
  <2>1. ASSUME NEW x \in Messages
        PROVE  /\ outcome'[x] = "ok" => AcceptedSomewhere(x)'
               /\ outcome'[x] \in {"unsent", "failed"} => ~AcceptedSomewhere(x)'
    <3>1. (outcome[x] = "ok" => AcceptedSomewhere(x))
          /\ (outcome[x] \in {"unsent", "failed"} => ~AcceptedSomewhere(x))
        BY ZenonT(30) DEF SendInvariant, TruthfulSend
    <3>2. outcome'[x] = "aborted" \/ outcome'[x] = outcome[x]
        BY Zenon, <1>1
    <3> QED
        BY Zenon, <3>1, <3>2, <1>4
  <2>2. ASSUME NEW t \in Threads, frame'[t].kind = Send
        PROVE  AcceptedSomewhere(frame[t].message)' <=> wait'[t].result = "COMPLETED"
    <3>1. t \notin T /\ frame'[t] = frame[t]
        BY Zenon, <2>2, <1>1, <1>2
    <3> QED
        BY ZenonT(30), <2>2, <3>1, <1>3, <1>4 DEF SendInvariant, TruthfulSend
  <2> QED
      BY ZenonT(30), <2>1, <2>2 DEF TruthfulSend
<1> QED
    BY Zenon, <1>6, <1>7 DEF SendInvariant

-----------------------------------------------------------------------------
(* All steps *)

(* A step that touches no mailbox. *)
LEMMA BoxKept ==
    ASSUME BoxInv, UNCHANGED <<endpoint_id, closed, g_next_endpoint_id, message, accepted, received>>
    PROVE  BoxInv'
<1>1. EndpointsIssued'
    BY ZenonT(30) DEF BoxInv, EndpointsIssued, Live
<1>2. ExactlyOnceInOrder'
    BY ZenonT(30) DEF BoxInv, ExactlyOnceInOrder, Live
<1> QED
    BY Zenon, <1>1, <1>2 DEF BoxInv

(* Initially no identity was issued and no message sent. *)
LEMMA InitMessages == Init => MInv
<1> SUFFICES ASSUME Init PROVE MInv
    BY Zenon
<1>1. \A m : ~AcceptedSomewhere(m)
    BY DEF Init, AcceptedSomewhere
<1>2. EndpointsIssued /\ ExactlyOnceInOrder
    BY Zenon DEF Init, EndpointsIssued, ExactlyOnceInOrder, Live
<1>3. \A t \in Threads : frame[t].kind # Send /\ frame[t].message = None
    BY Zenon DEF Init, NoFrame, Send
<1>4. SendCalls /\ TruthfulSend
    BY Zenon, <1>1, <1>3 DEF Init, SendCalls, TruthfulSend
<1> QED
    BY Zenon, <1>2, <1>4 DEF MInv, BoxInv, SendInvariant

(* Closing and stopping, by whatever call. *)
LEMMA CloseMessages ==
    ASSUME IInv, MInv, NEW E \in SUBSET Endpoints, NEW T \in SUBSET Threads, CloseAndStop(E, T),
           UNCHANGED <<endpoint_id, g_next_endpoint_id, accepted, received>>
    PROVE  MInv'
<1>1. BoxInv'
    BY Zenon, CloseBox DEF MInv
<1>2. SendInvariant'
    BY Zenon, CloseSend DEF MInv
<1> QED
    BY Zenon, <1>1, <1>2 DEF MInv

(* One pass of the wait loop. *)
LEMMA ResumeMessages ==
    ASSUME IInv, MInv, Resume
    PROVE  MInv'
<1> DEFINE c == current
<1>1. c \in Threads /\ frame[c] # NoFrame
    BY Zenon DEF Resume, Masked, IInv, TypeOK
<1>2. CASE Halt
    BY ZenonT(30), <1>2, BoxKept, SendKept DEF Halt, MInv
<1>3. CASE ReturnFrom(c) /\ UNCHANGED objectVars
  <2>1. UNCHANGED <<message, accepted, received>>
      BY Zenon, <1>3 DEF ReturnFrom
  <2> QED
      BY Zenon, <1>1, <1>3, <2>1, BoxKept, ReturnSend DEF MInv
<1>4. CASE ResumeTake(c) /\ UNCHANGED objectVars
  <2> DEFINE e == frame[c].endpoint
  <2>1. /\ e \in Endpoints /\ frame[c].kind # Send /\ CanReceive(e, c) /\ Take(e, c, NoWait)
        /\ frame' = [frame EXCEPT ![c] = NoFrame] /\ UNCHANGED outcome
    <3>1. e \in Endpoints
        BY ZenonT(30), <1>1, CallFacts
    <3> QED
        BY Zenon, <1>4, <3>1, Basics DEF ResumeTake, EndReservation
  <2>2. Live(e)
      BY Zenon, <2>1 DEF CanReceive
  <2> HIDE DEF e
  <2> QED
      BY ZenonT(30), <1>1, <1>4, <2>1, <2>2, TakeBox, TakeSend DEF MInv
<1>5. CASE ResumePark(c) /\ UNCHANGED objectVars
    BY ZenonT(30), <1>5, BoxKept, SendKept DEF ResumePark, MInv
<1> QED
    BY ZenonT(30), <1>2, <1>3, <1>4, <1>5 DEF Resume, ResumeReturn

(* The timer decides waits by TIMED_OUT and moves no message. *)
LEMMA TimerMessages ==
    ASSUME IInv, MInv, TimerInterrupt
    PROVE  MInv'
<1>1. CASE Halt
    BY ZenonT(30), <1>1, BoxKept, SendKept DEF Halt, MInv
<1>2. CASE ~Halt
  <2>1. /\ wait' = Completed(Expired((ticks + 1) % Modulus), "TIMED_OUT")
        /\ UNCHANGED <<frame, objectVars, message, history>>
      BY ZenonT(30), <1>2 DEF TimerInterrupt
  <2>2. wait \in [Threads -> Wait] /\ "TIMED_OUT" \in Terminal
      BY Zenon DEF IInv, TypeOK, Terminal
  <2>3. \A t \in Threads : \/ wait'[t].result = "TIMED_OUT" /\ wait[t].result = "PENDING"
                           \/ wait'[t].result = wait[t].result
      BY <2>1, <2>2, CompletedType
  <2>4. \A t \in Threads : wait'[t].result = "COMPLETED" <=> wait[t].result = "COMPLETED"
      BY Zenon, <2>3
  <2> QED
      BY Zenon, <2>1, <2>4, BoxKept, SendKept DEF MInv
<1> QED
    BY ZenonT(30), <1>1, <1>2

(* Every step of the kernel keeps the invariant of the messages. *)
LEMMA NextMessages == IInv /\ MInv /\ [Next]_vars => MInv'
<1> SUFFICES ASSUME IInv, MInv, [Next]_vars PROVE MInv'
    BY Zenon
<1>1. ASSUME UNCHANGED <<endpoint_id, closed, g_next_endpoint_id, message, history, wait, frame>>
      PROVE  MInv'
    BY Zenon, <1>1, BoxKept, SendKept DEF MInv
<1>2. ASSUME NEW e \in Endpoints, NEW p \in Processes \cup {None}, EndpointCreate(e, p) PROVE MInv'
  <2>1. SendInvariant'
      BY Zenon, <1>2, SendKept DEF EndpointCreate, MInv
  <2> QED
      BY Zenon, <1>2, <2>1, CreateBox DEF MInv
<1>3. ASSUME NEW e \in Endpoints, EndpointDestroy(e) PROVE MInv'
  <2>1. SendInvariant'
      BY Zenon, <1>3, SendKept DEF EndpointDestroy, MInv
  <2> QED
      BY Zenon, <1>3, <2>1, DestroyBox DEF MInv
<1>4. ASSUME NEW e \in Endpoints, EndpointClose(e) PROVE MInv'
    BY Zenon, <1>4, CloseMessages DEF EndpointClose
<1>5. ASSUME NEW e \in Endpoints, TryReceive(e) PROVE MInv'
  <2>1. /\ current \in Threads /\ frame[current] = NoFrame /\ CanReceive(e, current)
        /\ Take(e, current, NoWait) /\ UNCHANGED <<frame, objectVars, outcome>> /\ Live(e)
      BY ZenonT(30), <1>5 DEF TryReceive, CanReceive, Calling, IInv, TypeOK
  <2>2. frame[current].kind # Send
      BY ZenonT(30), <2>1, Basics
  <2> QED
      BY Zenon, <2>1, <2>2, TakeBox, TakeSend DEF MInv
<1>6. ASSUME NEW e \in Endpoints, NEW m \in Messages, TrySend(e, m) \/ InterruptSend(e, m) PROVE MInv'
  <2>1. /\ outcome[m] = "unsent" /\ CanSend(e) /\ Deliver(e, m) /\ Live(e)
        /\ UNCHANGED <<waitVars, objectVars>>
      BY Zenon, <1>6 DEF TrySend, InterruptSend, CanSend
  <2> QED
      BY ZenonT(30), <2>1, DeliverBox, DeliverSend DEF MInv
<1>7. ASSUME NEW e \in Endpoints, NEW n \in 0 .. TimeoutMaxTicks, ReceiveBlocking(e, n) PROVE MInv'
  <2>1. BeginWait(e, Receive, None, n)
      BY Zenon, <1>7 DEF ReceiveBlocking
  <2>2. UNCHANGED <<endpoint_id, closed, g_next_endpoint_id, message, accepted, received>>
      BY ZenonT(30), <2>1 DEF BeginWait
  <2> QED
      BY Zenon, <2>1, <2>2, BoxKept, BeginSend, Basics DEF MInv
<1>8. ASSUME NEW e \in Endpoints, NEW n \in 0 .. TimeoutMaxTicks, NEW m \in Messages,
             SendBlocking(e, m, n)
      PROVE  MInv'
  <2>1. BeginWait(e, Send, m, n) /\ outcome[m] = "unsent"
      BY Zenon, <1>8 DEF SendBlocking
  <2>2. UNCHANGED <<endpoint_id, closed, g_next_endpoint_id, message, accepted, received>>
      BY ZenonT(30), <2>1 DEF BeginWait
  <2> QED
      BY Zenon, <2>1, <2>2, BoxKept, BeginSend, Basics DEF MInv
<1>9. ASSUME NEW t \in Threads, TerminateThread(t) PROVE MInv'
    BY Zenon, <1>9, CloseMessages DEF TerminateThread
<1>10. ASSUME NEW p \in Processes, QuiesceProcess(p) PROVE MInv'
  <2>1. OpenOwned(p) \in SUBSET Endpoints /\ LiveThreads(p) \in SUBSET Threads
      BY Zenon DEF OpenOwned, LiveThreads
  <2>2. /\ CloseAndStop(OpenOwned(p), LiveThreads(p))
        /\ UNCHANGED <<endpoint_id, g_next_endpoint_id, accepted, received>>
      BY Zenon, <1>10 DEF QuiesceProcess
  <2> QED
      BY Zenon, <2>1, <2>2, CloseMessages
<1>11. ASSUME UserExit \/ UserFault PROVE MInv'
  <2> DEFINE p == ProcessOf[current]
  <2>1. /\ OpenOwned(p) \in SUBSET Endpoints /\ {} \in SUBSET Endpoints /\ {} \in SUBSET Threads
        /\ LiveThreads(p) \ {current} \in SUBSET Threads
      BY Zenon DEF OpenOwned, LiveThreads
  <2>2. PICK E \in SUBSET Endpoints, T \in SUBSET Threads : \E reason : Leave(current, E, T, reason)
      BY Zenon, <1>11, <2>1 DEF UserExit, UserFault
  <2>3. CASE Halt
      BY Zenon, <2>3, <1>1 DEF Halt
  <2>4. CASE CloseAndStop(E, T) /\ UNCHANGED <<endpoint_id, g_next_endpoint_id, accepted, received>>
      BY Zenon, <2>4, CloseMessages
  <2> QED
      BY ZenonT(30), <2>2, <2>3, <2>4 DEF Leave
<1>12. CASE \/ \E e \in Endpoints, p \in Processes : CapabilityInsert(p, e) \/ CapabilityRevoke(p, e)
            \/ KernelThreadExit \/ UNCHANGED vars
    BY ZenonT(30), <1>1, <1>12 DEF CapabilityInsert, CapabilityRevoke, KernelThreadExit, vars
<1> QED
    BY ZenonT(60), <1>2, <1>3, <1>4, <1>5, <1>6, <1>7, <1>8, <1>9, <1>10, <1>11, <1>12,
       ResumeMessages, TimerMessages DEF Next

-----------------------------------------------------------------------------
(* Stopping threads *)

(* A thread that is neither running nor dead passes the checks of an abort. *)
LEMMA Stoppable ==
    ASSUME IInv, NEW t \in Threads, t # current, state[t] # "DEAD"
    PROVE  CanStop(t)
<1>1. state[t] \in {"READY", "BLOCKED"}
    BY Zenon DEF IInv, TypeOK, ReservationsAgree
<1>2. ASSUME wait[t] # NoWait
      PROVE  /\ wait[t].kind \in {Receive, Send} /\ Live(wait[t].object)
             /\ ReservationValid(wait[t].object, wait[t].kind)
             /\ LinkOf(wait[t].object, wait[t].kind).thread = t
  <2>1. frame[t] # NoFrame
      BY ZenonT(30), <1>2 DEF IInv, ReservationsAgree, CallAgrees
  <2>2. /\ frame[t].kind \in {Receive, Send} /\ frame[t].endpoint \in Endpoints
        /\ Live(frame[t].endpoint)
        /\ wait[t].kind = frame[t].kind /\ wait[t].object = frame[t].endpoint
      BY ZenonT(30), <2>1, CallFacts DEF WaitMatches
  <2>3. LinkOf(frame[t].endpoint, frame[t].kind) = [thread |-> t, id |-> frame[t].id]
      BY Zenon, <2>1, CallFacts
  <2>4. ReservationValid(frame[t].endpoint, frame[t].kind)
      BY ZenonT(30), <2>2, Valid
  <2> QED
      BY <2>2, <2>3, <2>4
<1> QED
    BY Zenon, <1>1, <1>2 DEF CanStop

(* Closing an endpoint, terminating one thread, quiescing a process: the caller runs on. *)
LEMMA StopInv ==
    ASSUME IInv, NEW E \in SUBSET Endpoints, NEW T \in SUBSET Threads, current \notin T,
           CloseAndStop(E, T), state' = Stopped(E, T),
           exit_info' \in [Processes -> {"NONE", "NORMAL", "FAULT", "TERMINATED"}],
           \A t \in Threads : exit_info'[ProcessOf[t]] # "NONE" =>
                                  exit_info[ProcessOf[t]] # "NONE" \/ t \in T \/ state[t] = "DEAD",
           caps' \in SUBSET caps,
           UNCHANGED <<current, halting, g_next_wait_id, endpoint_id, owner, g_next_endpoint_id,
                       ticks, halted, accepted, received>>
    PROVE  IInv'
<1>1. /\ state' \in [Threads -> States]
      /\ \A t \in Threads : state'[t] = "RUNNING" <=> t = current
      /\ \A t \in Threads : state'[t] = "DEAD" <=> (t \in T \/ state[t] = "DEAD")
      /\ \A t \in Threads : state'[t] = "BLOCKED" =>
                                state[t] = "BLOCKED" /\ t \notin T /\ t \notin Waiters(E)
  <2>1. /\ Stopped(E, T) \in [Threads -> States]
        /\ \A t \in Threads : Stopped(E, T)[t] = "RUNNING" <=> t = current
        /\ \A t \in Threads : Stopped(E, T)[t] = "DEAD" <=> (t \in T \/ state[t] = "DEAD")
        /\ \A t \in Threads : Stopped(E, T)[t] = "BLOCKED" =>
                                  state[t] = "BLOCKED" /\ t \notin T /\ t \notin Waiters(E)
      BY Zenon, StoppedFacts
  <2>2. state' = Stopped(E, T)
      BY Zenon
  <2> QED
      BY ONLY Zenon, <2>1, <2>2
<1>2. current' \in Threads \cup {None} /\ halting' \in BOOLEAN
    BY Zenon DEF IInv, TypeOK
<1>3. ASSUME NEW t \in Threads, exit_info'[ProcessOf[t]] # "NONE"
      PROVE  state'[t] = "DEAD" /\ (t \in T \/ frame[t] = NoFrame)
  <2>1. CASE exit_info[ProcessOf[t]] # "NONE"
      BY ZenonT(30), <2>1, <1>1 DEF IInv, ExitedProcessIsStopped
  <2>2. CASE t \in T
      BY Zenon, <2>2, <1>1
  <2>3. CASE state[t] = "DEAD"
      BY ZenonT(30), <2>3, <1>1, CallFacts
  <2> QED
      BY Zenon, <1>3, <2>1, <2>2, <2>3
<1> QED
    BY SMTT(20), <1>1, <1>2, <1>3, CloseInv

(* The running thread leaves for good; none of the refusals that would halt is possible. *)
LEMMA LeaveInv ==
    ASSUME IInv, NEW c \in Threads, c = current, frame[c] = NoFrame,
           NEW E \in SUBSET Endpoints, \A e \in E : Live(e) /\ ~closed[e],
           NEW T \in SUBSET Threads, \A t \in T : t # c /\ state[t] # "DEAD",
           NEW reason \in {"NONE", "NORMAL", "FAULT"},
           reason # "NONE" => \A t \in Threads : ProcessOf[t] = ProcessOf[c] =>
                                  t \in T \/ t = c \/ state[t] = "DEAD",
           Leave(c, E, T, reason)
    PROVE  IInv'
<1> DEFINE p == ProcessOf[c]
<1>1. state[c] = "RUNNING" /\ p \in Processes /\ TypeOK
    BY Zenon, Basics DEF IInv
<1>2. exit_info[p] = "NONE"
    BY Zenon, <1>1 DEF IInv, ExitedProcessIsStopped
<1>3. \A e \in E : CanClose(e)
    BY Zenon, Valid DEF CanClose
<1>4. \A t \in T : CanStop(t)
    BY Zenon, Stoppable
<1>5. ASSUME NEW t \in Threads, t = c \/ state[t] = "DEAD" PROVE frame[t] = NoFrame /\ wait[t] = NoWait
  <2>1. frame[t] = NoFrame
      BY ZenonT(30), <1>5, CallFacts
  <2> QED
      BY ZenonT(30), <2>1 DEF IInv, ReservationsAgree, CallAgrees
<1>6. reason # "NONE" => \A t \in Threads : ProcessOf[t] = p => t \in T \/ wait[t] = NoWait
    BY Zenon, <1>5
<1>7. /\ CloseAndStop(E, T) /\ exit_info' = [exit_info EXCEPT ![p] = reason]
      /\ SwitchAway(Stopped(E, T), "DEAD")
      /\ UNCHANGED <<g_next_wait_id, endpoint_id, owner, g_next_endpoint_id, caps, ticks, halted,
                     accepted, received>>
    BY Zenon, <1>2, <1>3, <1>4, <1>6 DEF Leave
<1>8. current \notin T /\ current \in Threads \cup {None} /\ "DEAD" \in States
    BY Zenon DEF States
<1>9. /\ Stopped(E, T) \in [Threads -> States]
      /\ \A t \in Threads : Stopped(E, T)[t] = "RUNNING" <=> t = current
      /\ \A t \in Threads : Stopped(E, T)[t] = "DEAD" <=> (t \in T \/ state[t] = "DEAD")
      /\ \A t \in Threads : Stopped(E, T)[t] = "BLOCKED" =>
                                state[t] = "BLOCKED" /\ t \notin T /\ t \notin Waiters(E)
    BY ZenonT(30), <1>8, StoppedFacts
<1>10. /\ state' \in [Threads -> States] /\ current' \in Threads \cup {None} /\ halting' = FALSE
       /\ \A t \in Threads : state'[t] = "RUNNING" <=> t = current'
       /\ \A t \in Threads : state'[t] = IF t = current' THEN "RUNNING"
                                        ELSE IF t = current THEN "DEAD" ELSE Stopped(E, T)[t]
       /\ \A t \in Threads : t = current' => Stopped(E, T)[t] = "READY"
    BY ZenonT(30), <1>7, <1>8, <1>9, SwitchFacts
<1>11. \A t \in Threads : state'[t] = "DEAD" <=> (t \in T \/ state[t] = "DEAD" \/ t = c)
    BY Zenon, <1>9, <1>10
<1>12. \A t \in Threads : state'[t] = "BLOCKED" =>
                              state[t] = "BLOCKED" /\ t \notin T /\ t \notin Waiters(E)
    BY Zenon, <1>9, <1>10
<1>13. exit_info' \in [Processes -> {"NONE", "NORMAL", "FAULT", "TERMINATED"}]
       /\ exit_info'[p] = reason /\ \A q \in Processes \ {p} : exit_info'[q] = exit_info[q]
    BY Zenon, <1>1, <1>7 DEF TypeOK
<1>14. ASSUME NEW t \in Threads, exit_info'[ProcessOf[t]] # "NONE"
       PROVE  state'[t] = "DEAD" /\ (t \in T \/ frame[t] = NoFrame)
  <2>1. CASE ProcessOf[t] = p
      BY ZenonT(30), <2>1, <1>5, <1>11, <1>13, <1>14
  <2>2. CASE ProcessOf[t] # p
    <3>1. exit_info[ProcessOf[t]] # "NONE"
        BY Zenon, <2>2, <1>13, <1>14
    <3>2. state[t] = "DEAD"
        BY Zenon, <3>1 DEF IInv, ExitedProcessIsStopped
    <3> QED
        BY Zenon, <3>2, <1>5, <1>11
  <2> QED
      BY Zenon, <2>1, <2>2
<1>15. \A t \in Threads : state'[t] = "DEAD" => t \in T \/ state[t] = "DEAD" \/ frame[t] = NoFrame
    BY Zenon, <1>5, <1>11
<1> QED
    BY ZenonT(30), <1>7, <1>10, <1>12, <1>13, <1>14, <1>15, CloseInv

(* The exits of user threads. *)
LEMMA UserLeaveInv ==
    ASSUME IInv, UserExit \/ UserFault
    PROVE  IInv'
<1> DEFINE p == ProcessOf[current]
<1>1. current \in Threads /\ frame[current] = NoFrame
    BY Zenon DEF UserExit, UserFault, Calling, IInv, TypeOK
<1>2. OpenOwned(p) \in SUBSET Endpoints /\ \A e \in OpenOwned(p) : Live(e) /\ ~closed[e]
    BY Zenon DEF OpenOwned
<1>3. CASE UserExit /\ LiveThreads(p) = {current}
  <2>1. \A t \in Threads : ProcessOf[t] = p => t = current \/ state[t] = "DEAD"
      BY Zenon, <1>3 DEF LiveThreads
  <2>2. Leave(current, OpenOwned(p), {}, "NORMAL")
      BY Zenon, <1>3 DEF UserExit
  <2> QED
      BY Zenon, <1>1, <1>2, <2>1, <2>2, LeaveInv
<1>4. CASE UserExit /\ LiveThreads(p) # {current}
  <2>1. Leave(current, {}, {}, "NONE")
      BY Zenon, <1>4 DEF UserExit
  <2> QED
      BY Zenon, <1>1, <2>1, LeaveInv
<1>5. CASE UserFault
  <2>1. /\ LiveThreads(p) \ {current} \in SUBSET Threads
        /\ \A t \in LiveThreads(p) \ {current} : t # current /\ state[t] # "DEAD"
        /\ \A t \in Threads : ProcessOf[t] = p =>
               t \in LiveThreads(p) \ {current} \/ t = current \/ state[t] = "DEAD"
      BY Zenon DEF LiveThreads
  <2>2. Leave(current, OpenOwned(p), LiveThreads(p) \ {current}, "FAULT")
      BY Zenon, <1>5 DEF UserFault
  <2> QED
      BY ZenonT(30), <1>1, <1>2, <2>1, <2>2, LeaveInv
<1> QED
    BY Zenon, <1>3, <1>4, <1>5

(* Close, terminate and quiesce. *)
LEMMA CloseStopQuiesceInv ==
    ASSUME IInv,
           \/ \E e \in Endpoints : EndpointClose(e)
           \/ \E t \in Threads : TerminateThread(t)
           \/ \E p \in Processes : QuiesceProcess(p)
    PROVE  IInv'
<1>1. exit_info \in [Processes -> {"NONE", "NORMAL", "FAULT", "TERMINATED"}]
    BY Zenon DEF IInv, TypeOK
<1>2. ASSUME NEW e \in Endpoints, EndpointClose(e) PROVE IInv'
  <2>1. CloseAndStop({e}, {}) /\ state' = Stopped({e}, {})
        /\ UNCHANGED <<current, halting, g_next_wait_id, endpoint_id, owner, g_next_endpoint_id,
                       caps, ticks, exit_info, halted, accepted, received>>
      BY Zenon, <1>2 DEF EndpointClose
  <2> QED
      BY Zenon, <1>1, <2>1, StopInv
<1>3. ASSUME NEW t \in Threads, TerminateThread(t) PROVE IInv'
  <2>1. CloseAndStop({}, {t}) /\ state' = Stopped({}, {t}) /\ t # current
        /\ UNCHANGED <<current, halting, g_next_wait_id, endpoint_id, owner, g_next_endpoint_id,
                       caps, ticks, exit_info, halted, accepted, received>>
      BY ZenonT(30), <1>3 DEF TerminateThread, CanStop
  <2> QED
      BY Zenon, <1>1, <2>1, StopInv
<1>4. ASSUME NEW p \in Processes, QuiesceProcess(p) PROVE IInv'
  <2>1. /\ CloseAndStop(OpenOwned(p), LiveThreads(p)) /\ state' = Stopped(OpenOwned(p), LiveThreads(p))
        /\ UNCHANGED <<current, halting, g_next_wait_id, endpoint_id, owner, g_next_endpoint_id,
                       ticks, halted, accepted, received>>
        /\ ProcessOf[current] # p /\ caps' \in SUBSET caps
        /\ exit_info' = IF exit_info[p] = "NONE" /\ \E t \in Threads : ProcessOf[t] = p
                        THEN [exit_info EXCEPT ![p] = "TERMINATED"] ELSE exit_info
      BY ZenonT(30), <1>4 DEF QuiesceProcess
  <2>2. /\ OpenOwned(p) \in SUBSET Endpoints /\ LiveThreads(p) \in SUBSET Threads
        /\ current \notin LiveThreads(p)
        /\ \A t \in Threads : ProcessOf[t] = p => t \in LiveThreads(p) \/ state[t] = "DEAD"
      BY ZenonT(30), <2>1 DEF OpenOwned, LiveThreads
  <2>3. /\ exit_info' \in [Processes -> {"NONE", "NORMAL", "FAULT", "TERMINATED"}]
        /\ \A q \in Processes \ {p} : exit_info'[q] = exit_info[q]
      BY ZenonT(30), <1>1, <2>1
  <2>4. \A t \in Threads : exit_info'[ProcessOf[t]] # "NONE" =>
            exit_info[ProcessOf[t]] # "NONE" \/ t \in LiveThreads(p) \/ state[t] = "DEAD"
      BY <2>2, <2>3
  <2> QED
      BY Zenon, <2>1, <2>2, <2>3, <2>4, StopInv
<1> QED
    BY Zenon, <1>2, <1>3, <1>4

-----------------------------------------------------------------------------
(* The theorems *)

(* Every step keeps the invariant. *)
LEMMA NextInv == IInv /\ [Next]_vars => IInv'
<1> SUFFICES ASSUME IInv, [Next]_vars PROVE IInv'
    BY Zenon
<1>1. CASE UNCHANGED vars
  <2>1. g_next_wait_id' \in 0 .. WaitIdLimit
      BY Zenon, <1>1 DEF vars, IInv, TypeOK
  <2> QED
      BY Zenon, <1>1, <2>1, RefusedInv DEF vars
<1>2. CASE \E e \in Endpoints, p \in Processes \cup {None} : EndpointCreate(e, p)
    BY Zenon, <1>2, CreateInv
<1>3. CASE \E e \in Endpoints : EndpointDestroy(e) \/ EndpointClose(e) \/ TryReceive(e)
    BY Zenon, <1>3, DestroyInv, CloseStopQuiesceInv, TryReceiveInv
<1>4. CASE \E e \in Endpoints, p \in Processes : CapabilityInsert(p, e) \/ CapabilityRevoke(p, e)
    BY Zenon, <1>4, CapabilityInv
<1>5. CASE \E e \in Endpoints, m \in Messages : TrySend(e, m) \/ InterruptSend(e, m)
    BY Zenon, <1>5, SendInv
<1>6. ASSUME NEW e \in Endpoints, NEW n \in 0 .. TimeoutMaxTicks, ReceiveBlocking(e, n) PROVE IInv'
    BY Zenon, <1>6, BeginWaitInv, Basics DEF ReceiveBlocking
<1>7. ASSUME NEW e \in Endpoints, NEW n \in 0 .. TimeoutMaxTicks, NEW m \in Messages,
             SendBlocking(e, m, n)
      PROVE  IInv'
    BY Zenon, <1>7, BeginWaitInv, Basics DEF SendBlocking
<1>8. CASE Resume \/ TimerInterrupt
    BY Zenon, <1>8, ResumeInv, TimerInv
<1>9. CASE (\E t \in Threads : TerminateThread(t)) \/ \E p \in Processes : QuiesceProcess(p)
    BY Zenon, <1>9, CloseStopQuiesceInv
<1>10. CASE UserExit \/ UserFault \/ KernelThreadExit
    BY Zenon, <1>10, UserLeaveInv, KernelThreadExitInv
<1> QED
    BY ZenonT(30), <1>1, <1>2, <1>3, <1>4, <1>5, <1>6, <1>7, <1>8, <1>9, <1>10 DEF Next

(* IInv holds in every reachable state. *)
THEOREM Inductive == Spec => []IInv
BY InitInv, NextInv, PTL DEF Spec

(* Every variable keeps its type. *)
THEOREM Types == Spec => []TypeOK
<1>1. IInv => TypeOK
    BY Zenon DEF IInv
<1> QED
    BY <1>1, Inductive, PTL

(* No cpu_halt_forever() check of the wait protocol (ipc.c, task.c) is ever reached, for *)
(* any number of threads and endpoints.                                                  *)
THEOREM NoProtocolHalt == Spec => []NeverHalts
<1>1. IInv => NeverHalts
    BY Zenon DEF IInv
<1> QED
    BY <1>1, Inductive, PTL

(* Call frames, wait fields, timeout slots, endpoint links and staged messages agree. *)
THEOREM Agreement == Spec => []ReservationsAgree
<1>1. IInv => ReservationsAgree
    BY Zenon DEF IInv
<1> QED
    BY <1>1, Inductive, PTL

(* A thread sleeps only while the event it waits for has not happened. *)
THEOREM NoSleepPastEvent == Spec => []NoLostWakeup
<1>1. IInv => NoLostWakeup
    BY Zenon DEF IInv
<1> QED
    BY <1>1, Inductive, PTL

(* A published process outcome means that none of its threads runs or waits. *)
THEOREM ExitMeansStopped == Spec => []ExitedProcessIsStopped
<1>1. IInv => ExitedProcessIsStopped
    BY Zenon DEF IInv
<1> QED
    BY <1>1, Inductive, PTL

(* An endpoint object is neither destroyed nor reused under a suspended call. *)
THEOREM PinnedEndpoint == Spec => WaiterPinsEndpoint
<1>1. ASSUME IInv, [Next]_vars, NEW t \in Threads, frame[t] # NoFrame
      PROVE  endpoint_id'[frame[t].endpoint] = endpoint_id[frame[t].endpoint]
  <2> DEFINE f == frame[t].endpoint
  <2>1. f \in Endpoints /\ Live(f) /\ frame[t].kind \in {Receive, Send}
      BY ZenonT(30), <1>1, CallFacts
  <2>2. waiting_receiver[f].thread = t \/ waiting_sender[f].thread = t
      BY Zenon, <1>1, <2>1, LinkFacts
  <2>3. endpoint_id \in [Endpoints -> 0 .. EndpointIdLimit]
      BY Zenon, <1>1 DEF IInv, TypeOK
  <2>4. ASSUME NEW e \in Endpoints, NEW p \in Processes \cup {None}, EndpointCreate(e, p)
        PROVE  endpoint_id'[f] = endpoint_id[f]
      BY ZenonT(30), <2>1, <2>3, <2>4 DEF EndpointCreate, Live
  <2>5. ASSUME NEW e \in Endpoints, EndpointDestroy(e)
        PROVE  endpoint_id'[f] = endpoint_id[f]
    <3>1. e # f
      <4>1. waiting_receiver[e] = NoLink /\ waiting_sender[e] = NoLink
          BY ONLY Zenon, <2>5 DEF EndpointDestroy, Destroyable
      <4> QED
          BY ONLY Zenon, <4>1, <2>2, <1>1, Basics
    <3>2. endpoint_id' = [endpoint_id EXCEPT ![e] = 0]
        BY Zenon, <2>5 DEF EndpointDestroy
    <3> QED
        BY Zenon, <2>1, <2>3, <3>1, <3>2
  <2>6. CASE UNCHANGED endpoint_id
      BY Zenon, <2>6
  <2>7. \/ \E e \in Endpoints, p \in Processes \cup {None} : EndpointCreate(e, p)
        \/ \E e \in Endpoints : EndpointDestroy(e)
        \/ UNCHANGED endpoint_id
      BY ZenonT(30), <1>1 DEF Next, vars, EndpointClose, TryReceive, CapabilityInsert, CapabilityRevoke, TrySend,
                  InterruptSend, ReceiveBlocking, SendBlocking, BeginWait, Resume, Halt, TimerInterrupt,
                  TerminateThread, UserExit, UserFault, Leave, KernelThreadExit, QuiesceProcess
  <2> QED
      BY Zenon, <2>4, <2>5, <2>6, <2>7
<1>2. IInv /\ [Next]_vars =>
          [\A t \in Threads : frame[t] # NoFrame =>
               endpoint_id'[frame[t].endpoint] = endpoint_id[frame[t].endpoint]]_vars
    BY Zenon, <1>1
<1> QED
    BY <1>2, Inductive, PTL DEF Spec, WaiterPinsEndpoint

(* A step that completes waits, ends them or begins one on a thread without a wait keeps *)
(* every decided result.                                                                 *)
LEMMA ResultKept ==
    ASSUME IInv, NEW t \in Threads, wait[t].result \in Terminal, wait'[t].id = wait[t].id,
           \/ (~Pending(t) => wait'[t] = wait[t]) \/ wait'[t] = NoWait
           \/ t = current /\ frame[t] = NoFrame
    PROVE  wait'[t].result = wait[t].result
<1>1. frame[t] # NoFrame
  <2>1. wait[t] # NoWait
      BY DEF NoWait, Terminal
  <2> QED
      BY ZenonT(30), <2>1 DEF IInv, ReservationsAgree, CallAgrees
<1>2. wait[t].id # 0 /\ wait'[t] # NoWait
  <2>1. WaitMatches(t, frame[t].kind, frame[t].endpoint, frame[t].id)
      BY ZenonT(30), <1>1, CallFacts
  <2>2. wait[t].id # 0
      BY Zenon, <2>1 DEF WaitMatches
  <2>3. NoWait.id = 0
      BY Zenon DEF NoWait
  <2> QED
      BY Zenon, <2>2, <2>3
<1>3. ~Pending(t)
    BY Zenon DEF Terminal, Pending
<1> QED
    BY Zenon, <1>1, <1>2, <1>3

(* The first terminal result of a wait is final, whatever races with it. *)
THEOREM DecidedOnce == Spec => FirstResultWins
<1>1. ASSUME IInv, [Next]_vars, NEW t \in Threads
      PROVE  \/ (~Pending(t) => wait'[t] = wait[t]) \/ wait'[t] = NoWait
             \/ t = current /\ frame[t] = NoFrame
  <2> DEFINE Kept == \/ (~Pending(t) => wait'[t] = wait[t]) \/ wait'[t] = NoWait
                     \/ t = current /\ frame[t] = NoFrame
  <2>1. wait \in [Threads -> Wait] /\ \A S, r : ~Pending(t) => Completed(S, r)[t] = wait[t]
      BY Zenon, <1>1 DEF IInv, TypeOK, Completed
  <2>2. ASSUME NEW e, NEW c \in Threads, Take(e, c, NoWait) PROVE Kept
    <3>1. PICK S : wait' = [Completed(S, "COMPLETED") EXCEPT ![c] = NoWait]
        BY ZenonT(30), <2>2 DEF Take
    <3>2. wait'[t] = IF t = c THEN NoWait ELSE Completed(S, "COMPLETED")[t]
        BY Zenon, <3>1 DEF Completed
    <3> QED
        BY Zenon, <3>2, <2>1
  <2>3. ASSUME NEW E, NEW T, CloseAndStop(E, T) PROVE Kept
    <3>1. wait'[t] = IF t \in T THEN NoWait ELSE Completed(Waiters(E), "PEER_CLOSED")[t]
        BY Zenon, <2>3 DEF CloseAndStop
    <3> QED
        BY ZenonT(30), <3>1, <2>1
  <2>4. ASSUME NEW e \in Endpoints, NEW kind, NEW m, NEW n, BeginWait(e, kind, m, n) PROVE Kept
    <3>1. frame[current] = NoFrame
        BY ZenonT(30), <2>4 DEF BeginWait, Calling
    <3>2. t # current => wait'[t] = wait[t]
        BY ZenonT(30), <2>4, <2>1 DEF BeginWait
    <3> QED
        BY <3>1, <3>2
  <2>5. CASE Resume
    <3>1. current \in Threads
        BY Zenon, <2>5, <1>1 DEF Resume, Masked, IInv, TypeOK
    <3>2. CASE ReturnFrom(current)
        BY ZenonT(30), <3>1, <3>2, <2>1 DEF ReturnFrom
    <3>3. CASE ResumeTake(current)
        BY Zenon, <3>1, <3>3, <2>2 DEF ResumeTake
    <3>4. CASE UNCHANGED wait
        BY <3>4
    <3> QED
        BY ZenonT(30), <2>5, <3>2, <3>3, <3>4 DEF Resume, ResumeReturn, ResumePark, Halt
  <2>6. CASE TimerInterrupt
    <3>1. wait' = Completed(Expired((ticks + 1) % Modulus), "TIMED_OUT") \/ UNCHANGED wait
        BY ZenonT(30), <2>6 DEF TimerInterrupt, Halt
    <3> QED
        BY ZenonT(30), <3>1, <2>1
  <2>7. ASSUME NEW e \in Endpoints, TryReceive(e) PROVE Kept
    <3>1. current \in Threads /\ Take(e, current, NoWait)
        BY ZenonT(30), <2>7, <1>1 DEF TryReceive, Calling, IInv, TypeOK
    <3> QED
        BY ZenonT(30), <3>1, <2>2
  <2>8. CASE UserExit \/ UserFault
    <3>1. (\E E, T : CloseAndStop(E, T)) \/ UNCHANGED wait
        BY Zenon, <2>8 DEF UserExit, UserFault, Leave, Halt
    <3> QED
        BY ZenonT(30), <3>1, <2>3
  <2>9. ASSUME NEW e \in Endpoints, EndpointClose(e) PROVE Kept
      BY ZenonT(30), <2>9, <2>3 DEF EndpointClose
  <2>10. ASSUME NEW u \in Threads, TerminateThread(u) PROVE Kept
      BY ZenonT(30), <2>10, <2>3 DEF TerminateThread
  <2>11. ASSUME NEW p \in Processes, QuiesceProcess(p) PROVE Kept
      BY ZenonT(30), <2>11, <2>3 DEF QuiesceProcess
  <2>12. ASSUME NEW e \in Endpoints, NEW n, ReceiveBlocking(e, n) PROVE Kept
      BY ZenonT(30), <2>12, <2>4 DEF ReceiveBlocking
  <2>13. ASSUME NEW e \in Endpoints, NEW m, NEW n, SendBlocking(e, m, n) PROVE Kept
      BY <2>13, <2>4 DEF SendBlocking
  <2>14. CASE UNCHANGED wait
      BY Zenon, <2>14
  <2>15. \/ UNCHANGED wait \/ Resume \/ TimerInterrupt \/ UserExit \/ UserFault
         \/ \E e \in Endpoints : EndpointClose(e) \/ TryReceive(e)
         \/ \E e \in Endpoints, n \in 0 .. TimeoutMaxTicks :
               ReceiveBlocking(e, n) \/ \E m \in Messages : SendBlocking(e, m, n)
         \/ \E u \in Threads : TerminateThread(u)
         \/ \E p \in Processes : QuiesceProcess(p)
      BY ZenonT(30), <1>1 DEF Next, vars, EndpointCreate, EndpointDestroy, CapabilityInsert, CapabilityRevoke,
                  TrySend, InterruptSend, KernelThreadExit
  <2>16. CASE \E e \in Endpoints, n \in 0 .. TimeoutMaxTicks :
                 ReceiveBlocking(e, n) \/ \E m \in Messages : SendBlocking(e, m, n)
    <3>1. PICK e \in Endpoints, n \in 0 .. TimeoutMaxTicks :
                 ReceiveBlocking(e, n) \/ \E m \in Messages : SendBlocking(e, m, n)
        BY ZenonT(30), <2>16
    <3> QED
        BY ZenonT(30), <3>1, <2>12, <2>13
  <2>17. CASE \/ \E e \in Endpoints : EndpointClose(e) \/ TryReceive(e)
              \/ \E u \in Threads : TerminateThread(u)
              \/ \E p \in Processes : QuiesceProcess(p)
      BY ZenonT(30), <2>17, <2>7, <2>9, <2>10, <2>11
  <2> QED
      BY ZenonT(30), <2>5, <2>6, <2>8, <2>14, <2>15, <2>16, <2>17
<1>2. IInv /\ [Next]_vars =>
          [\A t \in Threads : wait[t].result \in Terminal /\ wait'[t].id = wait[t].id =>
               wait'[t].result = wait[t].result]_vars
    BY Zenon, <1>1, ResultKept
<1> QED
    BY <1>2, Inductive, PTL DEF Spec, FirstResultWins

(* Every accepted message is received once and in order while its endpoint is open, and a *)
(* send call answers success exactly if its message was accepted, for any number of       *)
(* senders and receivers and whatever timeouts, closes and exits race with them.          *)
THEOREM MessagesAreKept == Spec => []MessagesKept
<1>1. MInv => MessagesKept
    BY Zenon DEF MInv, BoxInv, SendInvariant, MessagesKept
<1>2. IInv /\ MInv /\ [Next]_vars => MInv'
    BY Zenon, NextMessages
<1>3. Init => MInv
    BY Zenon, InitMessages
<1> QED
    BY <1>1, <1>2, <1>3, Inductive, PTL DEF Spec

-----------------------------------------------------------------------------
(* Timeout slots *)

(* A thread with a timeout registered occupies one of the two links of an endpoint. *)
LEMMA TimedOccupiesLink ==
    ASSUME IInv, NEW t \in Threads, timed[t] # NoSlot
    PROVE  /\ frame[t].kind \in {Receive, Send} /\ frame[t].endpoint \in Endpoints
           /\ LinkOf(frame[t].endpoint, frame[t].kind).thread = t
<1>1. frame[t] # NoFrame
    BY ZenonT(30) DEF IInv, ReservationsAgree, CallAgrees
<1>2. /\ frame[t].kind \in {Receive, Send} /\ frame[t].endpoint \in Endpoints
      /\ LinkOf(frame[t].endpoint, frame[t].kind) = [thread |-> t, id |-> frame[t].id]
    BY ZenonT(30), <1>1, CallFacts
<1> QED
    BY <1>2

(* The timeout table of twice the endpoint capacity has a free slot whenever a blocking   *)
(* call finds the link of its endpoint free: ipc_timeout_register never refuses it.       *)
THEOREM TimeoutTableSuffices == Spec => []TimeoutSlotAvailable
<1>1. ASSUME IInv, NEW e \in Endpoints, NEW kind \in {Receive, Send}, LinkOf(e, kind) = NoLink
      PROVE  Cardinality({t \in Threads : timed[t] # NoSlot}) < TimedWaitCapacity
  <2> DEFINE Timed == {t \in Threads : timed[t] # NoSlot}
             All == Endpoints \X {Receive, Send}
             Free == <<e, kind>>
             Others == All \ {Free}
             place == [t \in Timed |-> <<frame[t].endpoint, frame[t].kind>>]
  <2>1. ASSUME NEW t \in Timed
        PROVE  /\ frame[t].kind \in {Receive, Send} /\ frame[t].endpoint \in Endpoints
               /\ LinkOf(frame[t].endpoint, frame[t].kind).thread = t /\ t # None
      BY ZenonT(30), <1>1, TimedOccupiesLink, Basics
  <2>2. place \in [Timed -> Others]
    <3>1. NoLink.thread = None
        BY Zenon, <1>1, Basics
    <3>2. ASSUME NEW t \in Timed PROVE ~(frame[t].endpoint = e /\ frame[t].kind = kind)
        BY ZenonT(30), <1>1, <2>1, <3>1
    <3>3. ASSUME NEW t \in Timed PROVE <<frame[t].endpoint, frame[t].kind>> \in Others
        BY Zenon, <2>1, <3>2
    <3> QED
        BY ZenonT(30), <3>3
  <2>3. \A t, u \in Timed : place[t] = place[u] => t = u
    <3> SUFFICES ASSUME NEW t \in Timed, NEW u \in Timed, place[t] = place[u] PROVE t = u
        BY ZenonT(30)
    <3>1. frame[t].endpoint = frame[u].endpoint /\ frame[t].kind = frame[u].kind
        BY Zenon
    <3> QED
        BY ZenonT(30), <2>1, <3>1
  <2>4. place \in Injection(Timed, Others)
    <3> HIDE DEF Timed, Others
    <3>1. DOMAIN place = Timed
        BY Zenon
    <3> HIDE DEF place
    <3> QED
        BY ZenonT(30), <2>2, <2>3, <3>1 DEF Injection, IsInjective
  <2>5. IsFiniteSet(All) /\ Cardinality(All) = 2 * Cardinality(Endpoints) /\ Cardinality(Endpoints) \in Nat
    <3>1. IsFiniteSet({Receive}) /\ Cardinality({Receive}) = 1
        BY ZenonT(30), FS_Singleton
    <3>2. Receive # Send
        BY Zenon DEF Receive, Send
    <3>3. IsFiniteSet({Receive} \cup {Send}) /\ Cardinality({Receive} \cup {Send}) = 2
      <4>1. Send \notin {Receive}
          BY Zenon, <3>2
      <4>2. /\ IsFiniteSet({Receive} \cup {Send})
            /\ Cardinality({Receive} \cup {Send}) = Cardinality({Receive}) + 1
          BY Zenon, <3>1, <4>1, FS_AddElement
      <4>3. 1 + 1 = 2
          OBVIOUS
      <4> QED
          BY Zenon, <3>1, <4>2, <4>3
    <3>4. {Receive, Send} = {Receive} \cup {Send}
        BY Zenon
    <3>5. IsFiniteSet({Receive, Send}) /\ Cardinality({Receive, Send}) = 2
        BY Zenon, <3>3, <3>4
    <3>6. IsFiniteSet(All) /\ Cardinality(All) = Cardinality(Endpoints) * Cardinality({Receive, Send})
        BY Zenon, <3>5, EndpointsFinite, FS_Product
    <3>7. Cardinality(Endpoints) \in Nat
        BY Zenon, EndpointsFinite, FS_CardinalityType
    <3> QED
        BY <3>5, <3>6, <3>7
  <2>6. Free \in All
      BY Zenon
  <2>7. IsFiniteSet(Others) /\ Cardinality(Others) = Cardinality(All) - 1
    <3> HIDE DEF All, Free
    <3> QED
        BY Zenon, <2>5, <2>6, FS_RemoveElement
  <2>8. IsFiniteSet(Timed) /\ Cardinality(Timed) <= Cardinality(Others)
    <3> HIDE DEF Timed, Others, place
    <3> QED
        BY Zenon, <2>4, <2>7, FS_Injection
  <2>9. Cardinality(Timed) \in Nat
    <3> HIDE DEF Timed
    <3> QED
        BY Zenon, <2>8, FS_CardinalityType
  <2>10. Cardinality(Timed) < TimedWaitCapacity
    <3> HIDE DEF Timed, Others, All
    <3> QED
        BY SMTT(30), <2>5, <2>7, <2>8, <2>9 DEF TimedWaitCapacity
  <2> QED
      BY Zenon, <2>10
<1>2. IInv => TimeoutSlotAvailable
    BY Zenon, <1>1 DEF TimeoutSlotAvailable
<1> QED
    BY <1>2, Inductive, PTL

(* A timed wait that is still pending is ended by the poll on its deadline, neither a tick *)
(* earlier nor later, also when g_ticks wraps in between.                                  *)
THEOREM EndsOnDeadline == Spec => TimeoutOnDeadline
<1>1. IInv /\ DeadlinesAhead /\ [Next]_vars =>
          /\ DeadlinesAhead'
          /\ [\A t \in Threads : Pending(t) /\ timed[t] # NoSlot /\ ticks' # ticks =>
                  (wait'[t].result = "TIMED_OUT" <=> ticks' = timed[t].deadline)]_vars
    BY ZenonT(30), NextDeadlines
<1> QED
    BY <1>1, InitDeadlines, Inductive, PTL DEF Spec, TimeoutOnDeadline
=============================================================================
