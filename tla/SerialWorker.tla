---------------------------- MODULE SerialWorker ----------------------------
(***************************************************************************)
(* kernel/serial_worker.c: one privileged control thread that executes the *)
(* operations of one owner, a call at a time, over a pair of endpoints.    *)
(*                                                                         *)
(* The owner gives up after a time-out, so its view and the worker's may   *)
(* part: the flag "poisoned" is all that keeps a worker that is still      *)
(* running from acting for an owner that has already been told the call    *)
(* failed.  Both threads are preemptible: one action is the code between   *)
(* two points where the other can be seen to have moved.                   *)
(***************************************************************************)
EXTENDS Integers, Sequences, FiniteSets

CONSTANTS
  CallLimit,     \* calls one worker is given (bounds w.sequence)
  FaultLimit     \* lower-level failures in one behaviour

VARIABLES
  w,        \* the SerialWorker: flags, sequence numbers, objects that exist
  owner,    \* where the owner thread is: "idle", "receive", "waiting"
  worker,   \* where the worker thread is
  request,  \* message in the request endpoint, 0 if none
  reply,    \* message in the reply endpoint
  served,   \* operations dispatched by this worker, in order
  told,     \* result of the owner's last call
  faults    \* lower-level failures so far

vars == <<w, owner, worker, request, reply, served, told, faults>>

NoReply == [sequence |-> 0, stop |-> FALSE]

\* The order in which serial_worker_reap takes the objects down.
ReapOrder == <<"thread", "request_send", "request_receive", "reply_send",
               "reply_receive", "request", "reply">>

\* The order in which serial_worker_start creates them.
StartOrder == <<"request", "reply", "request_send", "request_receive",
                "reply_send", "reply_receive", "thread">>

Elements(s) == {s[i] : i \in DOMAIN s}

Zeroed == [objects |-> {}, published |-> FALSE, active |-> FALSE, calling |-> FALSE,
           poisoned |-> FALSE, sequence |-> 0, received |-> 0, aborted |-> FALSE]

Init ==
  /\ w = Zeroed /\ owner = "idle" /\ worker = "none"
  /\ request = 0 /\ reply = NoReply /\ served = <<>> /\ told = "none" /\ faults = 0

serial_worker_present == w.objects /= {}

serial_worker_dead == "thread" \in w.objects /\ worker = "dead"

\* The outcomes of a reap of the worker v after f failures: all is taken down
\* and the structure cleared, or a step fails and what follows it remains.
Reaps(v, f) ==
  {[w |-> Zeroed, faults |-> f]} \union
  {[w |-> [v EXCEPT !.objects = @ \ Elements(SubSeq(ReapOrder, 1, i - 1)), !.calling = FALSE],
    faults |-> f + 1] : i \in {j \in DOMAIN ReapOrder : ReapOrder[j] \in v.objects /\ f < FaultLimit}}

\* The guards of serial_worker_reap: a thread that may run is never destroyed.
ReapSafe ==
  /\ ~w.calling
  /\ "thread" \notin w.objects \/ serial_worker_dead \/ (~w.published /\ worker = "none")

\* A reap stops at the first step that fails and can be called again.
ReapTo(o) ==
  /\ w' = o.w /\ faults' = o.faults
  /\ worker' = IF "thread" \in o.w.objects THEN worker ELSE "none"
  /\ request' = IF o.w = Zeroed THEN 0 ELSE request
  /\ reply' = IF o.w = Zeroed THEN NoReply ELSE reply
  /\ served' = IF o.w = Zeroed THEN <<>> ELSE served

serial_worker_reap ==
  /\ owner = "idle" /\ serial_worker_present /\ ReapSafe
  /\ \E o \in Reaps(w, faults) : ReapTo(o)
  /\ UNCHANGED <<owner, told>>

\* Creation stops after the first k objects and what exists is reaped, or all
\* is created and the thread is made runnable.
serial_worker_start ==
  /\ owner = "idle" /\ ~serial_worker_present
  /\ \/ /\ w' = [Zeroed EXCEPT !.objects = Elements(StartOrder),
                               !.published = TRUE, !.active = TRUE]
        /\ worker' = "loop"
        /\ UNCHANGED faults
     \/ /\ faults < FaultLimit
        /\ \E k \in 0..Len(StartOrder) :
             \E o \in Reaps([Zeroed EXCEPT !.objects = Elements(SubSeq(StartOrder, 1, k))], faults + 1) :
               w' = o.w /\ faults' = o.faults
        /\ UNCHANGED worker
  /\ UNCHANGED <<owner, request, reply, served, told>>

(***************************************************************************)
(* The owner.                                                              *)
(***************************************************************************)

\* serial_worker_call up to the sent request.  The send is timed: when the
\* request endpoint stays full the call fails and poisons the worker.
CallSend ==
  /\ owner = "idle" /\ w.active /\ ~w.poisoned /\ ~w.calling /\ w.sequence < CallLimit
  /\ \/ /\ request = 0
        /\ request' = w.sequence + 1
        /\ w' = [w EXCEPT !.calling = TRUE, !.sequence = @ + 1]
        /\ owner' = "receive" /\ told' = "none"
     \/ /\ w' = [w EXCEPT !.sequence = @ + 1, !.poisoned = TRUE]
        /\ told' = "failed"
        /\ UNCHANGED <<owner, request>>
  /\ UNCHANGED <<worker, reply, served, faults>>

\* The reply is accepted only when it carries the sequence number of this call.
Accepts(r) == r.sequence = w.sequence

CallReceive ==
  /\ owner = "receive" /\ reply /= NoReply
  /\ reply' = NoReply
  /\ IF ~Accepts(reply)
       THEN /\ w' = [w EXCEPT !.poisoned = TRUE, !.calling = FALSE]
            /\ owner' = "idle" /\ told' = "failed"
       ELSE IF reply.stop
       THEN owner' = "waiting" /\ UNCHANGED <<w, told>>
       ELSE /\ w' = [w EXCEPT !.calling = FALSE]
            /\ owner' = "idle" /\ told' = "done"
  /\ UNCHANGED <<worker, request, served, faults>>

\* The thirty seconds of the receive, or the two of wait_dead, are over.
CallTimeout ==
  /\ owner \in {"receive", "waiting"}
  /\ owner = "receive" => reply = NoReply
  /\ owner = "waiting" => ~serial_worker_dead
  /\ w' = [w EXCEPT !.poisoned = TRUE, !.calling = FALSE]
  /\ owner' = "idle" /\ told' = "failed"
  /\ UNCHANGED <<worker, request, reply, served, faults>>

\* wait_dead saw the thread dead; the reap that follows may fail.
CallStopped ==
  /\ owner = "waiting" /\ serial_worker_dead
  /\ owner' = "idle"
  /\ \E o \in Reaps(w, faults) :
       ReapTo(o) /\ told' = IF o.w = Zeroed THEN "done" ELSE "failed"

(***************************************************************************)
(* The worker.                                                             *)
(***************************************************************************)

abort_work == w' = [w EXCEPT !.poisoned = TRUE, !.aborted = TRUE]

\* The head of the loop and the periodic dispatch: a lost timer, disabled
\* preemption or a failing tick aborts as a poisoned worker does.
WorkerTick ==
  /\ worker = "loop"
  /\ \/ /\ ~w.poisoned /\ worker' = "receive" /\ UNCHANGED <<w, faults>>
     \/ /\ w.poisoned /\ abort_work /\ worker' = "leaving" /\ UNCHANGED faults
     \/ /\ faults < FaultLimit /\ faults' = faults + 1
        /\ abort_work /\ worker' = "leaving"
  /\ UNCHANGED <<owner, request, reply, served, told>>

\* The timed receive returns without a message after a full interval.
WorkerInterval ==
  /\ worker = "receive" /\ request = 0
  /\ worker' = "loop"
  /\ UNCHANGED <<w, owner, request, reply, served, told, faults>>

\* Defect: the flag is checked at the head of the loop only, before the wait.
AcceptableUnchecked == request = w.received + 1

\* A request is taken and checked; the check reads poisoned after the wait.
Acceptable == ~w.poisoned /\ request = w.received + 1

WorkerTake ==
  /\ worker = "receive" /\ request /= 0
  /\ IF Acceptable
       THEN worker' = "dispatch" /\ w' = [w EXCEPT !.received = request]
       ELSE worker' = "leaving" /\ abort_work
  /\ request' = 0
  /\ UNCHANGED <<owner, reply, served, told, faults>>

\* The operation runs; its result may ask for a stop, or be none the protocol
\* knows, which aborts without a reply.
WorkerDispatch ==
  /\ worker = "dispatch"
  /\ served' = Append(served, w.received)
  /\ \/ \E stop \in BOOLEAN : worker' = (IF stop THEN "reply_stop" ELSE "reply") /\ UNCHANGED <<w, faults>>
     \/ /\ faults < FaultLimit /\ faults' = faults + 1
        /\ abort_work /\ worker' = "leaving"
  /\ UNCHANGED <<owner, request, reply, told>>

\* The timed send of the reply, or its time-out while an older reply fills the
\* endpoint.
WorkerReply ==
  /\ worker \in {"reply", "reply_stop"}
  /\ IF reply = NoReply
       THEN /\ reply' = [sequence |-> w.received, stop |-> worker = "reply_stop"]
            /\ worker' = IF worker = "reply_stop" THEN "leaving" ELSE "loop"
            /\ UNCHANGED w
       ELSE /\ abort_work /\ worker' = "leaving" /\ UNCHANGED reply
  /\ UNCHANGED <<owner, request, served, told, faults>>

WorkerExit ==
  /\ worker = "leaving"
  /\ w' = [w EXCEPT !.active = FALSE]
  /\ worker' = "dead"
  /\ UNCHANGED <<owner, request, reply, served, told, faults>>

Next ==
  \/ serial_worker_start \/ serial_worker_reap
  \/ CallSend \/ CallReceive \/ CallTimeout \/ CallStopped
  \/ WorkerTick \/ WorkerInterval \/ WorkerTake \/ WorkerDispatch \/ WorkerReply \/ WorkerExit

Spec == Init /\ [][Next]_vars

(***************************************************************************)
(* Properties.                                                             *)
(***************************************************************************)

\* Once a call has been reported failed, the worker begins no operation that
\* it had not accepted before: the owner may take the silence as final up to
\* the one dispatch in progress.  Operations are dispatched once, in the order
\* of the calls, and a call reported done has had its own operation run.
ServedInOrder ==
  /\ \A i \in DOMAIN served : served[i] = i
  /\ told = "done" /\ serial_worker_present => Len(served) = w.sequence
PoisonStep == w.poisoned /\ worker /= "dispatch" => worker' /= "dispatch"
PoisonStopsDispatch == []ServedInOrder /\ [][PoisonStep]_vars
=============================================================================
