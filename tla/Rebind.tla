-------------------------------- MODULE Rebind --------------------------------
(***************************************************************************)
(* Programming the display plane: the Ring-3 driver (user/polaris_native.c,*)
(* its recipe user/drivers/amd_polaris_plane.c and its sequencer           *)
(* user/drivers/amd_polaris_program.c) asks for one register operation at  *)
(* a time; the kernel's broker (kernel/polaris_broker.c) passes each to a  *)
(* gate (kernel/polaris_program_gate.c) that knows on its own what must    *)
(* come next and performs it.  The plan was agreed step by step before     *)
(* (kernel/polaris_plane.c).                                               *)
(*                                                                         *)
(* A driver is honest, or sends any request.  Register values are "good"   *)
(* or "bad" but for the update register (its pending bits) and the frame   *)
(* counter, whose modulus and largest credible advance are constants.      *)
(***************************************************************************)
EXTENDS Integers, Sequences

CONSTANTS Polls,    \* POLARIS_REBIND_POLLS
          Modulus,  \* POLARIS_CRTC_FRAME_COUNT_MASK + 1
          MaxDelta  \* the advance above which the counter is not believed (512)

VARIABLES
  honest,   \* is the driver the program of the boot image?
  plan,     \* the recipe's conversation: steps accepted, or closed
  gate,     \* PolarisProgramGate and the plane registers it touches
  driver,   \* the sequencer: its place, poll, values seen, frame delta
  talk      \* the broker: "none", "open" (waiting for a request), "ended", "complete"

rebindVars == <<honest, plan, gate, driver, talk>>

Fields == 0..5     \* low, high, crtc, update, flip, frame
Messages == 10 + 6 * Polls + Polls - 1
RecipeSteps == <<"HIGH", "LOW", "POST_READ", "CHECK_IDLE", "CHECK_FRAME">>

Init ==
  /\ honest \in BOOLEAN
  /\ plan = [next |-> 0, closed |-> FALSE]
  /\ gate = [state |-> "BEFORE", field |-> 0, sequence |-> 0, baseline |-> 0, pending |-> FALSE,
             polls |-> 0, delta |-> 0, complete |-> FALSE, why |-> "none", stores |-> <<>>, frame |-> 0]
  /\ driver = [pc |-> "recipe", field |-> 0, poll |-> 0, sequence |-> 0, baseline |-> 0,
               pending |-> FALSE, delta |-> 0]
  /\ talk = "none"

(***************************************************************************)
(* The plan: recipe steps (user) against the kernel's own expectation.     *)
(***************************************************************************)

polaris_plane_recipe_step(i) == RecipeSteps[i + 1]

polaris_plane_preview_accept(p, tag) ==
  IF p.next < 5 /\ tag = <<"HIGH", "LOW", "POST_READ", "CHECK_IDLE", "CHECK_FRAME">>[p.next + 1]
  THEN [next |-> p.next + 1, closed |-> p.next = 4]
  ELSE [p EXCEPT !.closed = TRUE]

\* polaris_driver_plan: the driver answers STEP only in order.
PlanStep ==
  /\ talk = "none" /\ ~plan.closed
  /\ \E tag \in IF honest THEN {polaris_plane_recipe_step(plan.next)} ELSE {RecipeSteps[j] : j \in 1..5} :
       plan' = polaris_plane_preview_accept(plan, tag)
  /\ UNCHANGED <<honest, gate, driver, talk>>

\* polaris_driver_program: EXECUTE, once, for a plan accepted to its end.
Execute ==
  /\ talk = "none" /\ plan = [next |-> 5, closed |-> TRUE]
  /\ talk' = "open" /\ driver' = [driver EXCEPT !.pc = "before"]
  /\ UNCHANGED <<honest, plan, gate>>

(***************************************************************************)
(* The plane (external): a read is good or bad; updates settle and frames  *)
(* advance on their own between two operations.                            *)
(***************************************************************************)

Advance ==
  /\ talk = "open"
  /\ gate' = [gate EXCEPT !.frame = (@ + 1) % Modulus]
  /\ UNCHANGED <<honest, plan, driver, talk>>

Bad == -1          \* a value the register may not have
Expects == 0       \* the value the plan expects; for the update register: idle
Pending == 1

ReadOf(g, f) ==
  CASE f = 3 -> {Expects, Pending, Bad}
    [] f = 5 -> {g.frame, Bad}
    [] OTHER -> {Expects, Bad}

(***************************************************************************)
(* polaris_program_gate_step.                                              *)
(***************************************************************************)

Poison(g, why) == [g EXCEPT !.why = why]

\* Defect: the gate allows one message less than the longest conversation has.
ShortOfMessages(g) == g.sequence < Messages - 1

WithinMessages(g) == g.sequence < Messages

Expected(g) ==
  CASE g.state \in {"HIGH", "LOW"} -> <<"WRITE", g.state>>
    [] g.state = "WAIT" -> <<"WAIT", 0>>
    [] g.state = "POSTED" -> <<"READ", 0>>
    [] g.state = "BASELINE" -> <<"READ", 5>>
    [] OTHER -> <<"READ", g.field>>

\* Defect: any register write is performed once writing has begun.
ExpectedAnyWrite(g, s, req) == s = g.sequence + 1 /\ (req = Expected(g) \/ (g.state = "LOW" /\ req[1] = "WRITE"))

\* Sequence numbers never repeat, and operation, field and value are the plan's.
IsExpected(g, s, req) == s = g.sequence + 1 /\ req = Expected(g)

read_valid(g, f, v) == v /= Bad /\ (f = 3 /\ v = Pending => g.state = "POLL")

\* After the sixth value of a poll.
PollEnds(g, v) ==
  LET delta == (v - g.baseline) % Modulus
  IN IF delta > MaxDelta THEN Poison(g, "hardware")
     ELSE IF delta >= 2 /\ ~g.pending THEN [g EXCEPT !.complete = TRUE, !.delta = delta, !.state = "DONE"]
     ELSE IF g.polls >= Polls THEN Poison(g, "hardware") ELSE [g EXCEPT !.state = "WAIT"]

AfterRead(g, f, v) ==
  CASE g.state = "BEFORE" -> IF f = 5 THEN [g EXCEPT !.state = "HIGH", !.field = 0] ELSE [g EXCEPT !.field = f + 1]
    [] g.state = "POSTED" -> [g EXCEPT !.state = "BASELINE"]
    [] g.state = "BASELINE" -> [g EXCEPT !.baseline = v, !.state = "POLL", !.field = 0]
    [] OTHER -> LET h == [g EXCEPT !.pending = IF f = 3 THEN v = Pending ELSE @, !.field = f + 1]
                IN IF f = 5 THEN PollEnds(h, v) ELSE h

\* The outcomes of one request: the gate after it and the value returned.
polaris_program_gate_step(g, s, req) ==
  LET taken == [g EXCEPT !.sequence = s]
      polled == [taken EXCEPT !.polls = IF g.state = "POLL" /\ req[2] = 0 THEN @ + 1 ELSE @]
  IN IF g.why /= "none" \/ g.complete THEN {[g |-> g, ok |-> FALSE, v |-> Bad]}
     ELSE IF ~WithinMessages(g) \/ ~IsExpected(g, s, req) THEN {[g |-> Poison(g, "protocol"), ok |-> FALSE, v |-> Bad]}
     ELSE {[g |-> Poison(taken, "hardware"), ok |-> FALSE, v |-> Bad]}
          \union CASE req[1] = "WRITE" -> {[g |-> [taken EXCEPT !.stores = Append(@, req[2]),
                                                   !.state = IF @ = "HIGH" THEN "LOW" ELSE "POSTED"], ok |-> TRUE, v |-> 0]}
                   [] req[1] = "WAIT" -> {[g |-> [taken EXCEPT !.state = "POLL", !.field = 0], ok |-> TRUE, v |-> 0]}
                   [] OTHER -> {IF read_valid(g, req[2], v) THEN [g |-> AfterRead(polled, req[2], v), ok |-> TRUE, v |-> v]
                                ELSE [g |-> Poison(polled, "hardware"), ok |-> FALSE, v |-> Bad] : v \in ReadOf(g, req[2])}

(***************************************************************************)
(* The driver: polaris_user_program, one exchange at a time.               *)
(***************************************************************************)

Request(d) ==
  CASE d.pc \in {"before", "poll"} -> <<"READ", d.field>>
    [] d.pc = "high" -> <<"WRITE", "HIGH">>
    [] d.pc = "low" -> <<"WRITE", "LOW">>
    [] d.pc = "posted" -> <<"READ", 0>>
    [] d.pc = "baseline" -> <<"READ", 5>>
    [] OTHER -> <<"WAIT", 0>>

DriverPollEnds(d, v) ==
  LET progress == (v - d.baseline) % Modulus
  IN IF progress > MaxDelta THEN [d EXCEPT !.pc = "exit"]
     ELSE IF progress >= 2 /\ ~d.pending THEN [d EXCEPT !.pc = "done", !.delta = progress]
     ELSE IF d.poll + 1 < Polls THEN [d EXCEPT !.pc = "wait"] ELSE [d EXCEPT !.pc = "exit"]

\* The next place after an answered exchange.
Answered(d, v) ==
  CASE d.pc = "before" -> IF d.field = 5 THEN [d EXCEPT !.pc = "high", !.field = 0] ELSE [d EXCEPT !.field = @ + 1]
    [] d.pc = "high" -> [d EXCEPT !.pc = "low"]
    [] d.pc = "low" -> [d EXCEPT !.pc = "posted"]
    [] d.pc = "posted" -> [d EXCEPT !.pc = "baseline"]
    [] d.pc = "baseline" -> [d EXCEPT !.pc = "poll", !.field = 0, !.baseline = v]
    [] d.pc = "wait" -> [d EXCEPT !.pc = "poll", !.field = 0, !.poll = @ + 1]
    [] OTHER -> LET e == [d EXCEPT !.pending = IF d.field = 3 THEN v = Pending ELSE @]
                IN IF d.field = 5 THEN DriverPollEnds(e, v) ELSE [e EXCEPT !.field = @ + 1]

\* A request reaches the broker, the gate performs it and the answer returns.
\* The conversation ends with a refusal, or with its time (remaining).
Exchange(req, s) ==
  \E r \in polaris_program_gate_step(gate, s, req) :
    /\ gate' = r.g
    /\ \E late \in BOOLEAN :
         talk' = IF ~r.ok \/ late THEN "ended" ELSE "open"
    /\ driver' = IF talk' = "ended" THEN [driver EXCEPT !.pc = "exit"]
                 ELSE IF honest THEN [Answered(driver, r.v) EXCEPT !.sequence = s] ELSE driver
    /\ UNCHANGED <<honest, plan>>

HonestRequest ==
  /\ talk = "open" /\ honest /\ driver.pc \notin {"done", "exit", "recipe"} /\ driver.sequence < Messages
  /\ Exchange(Request(driver), driver.sequence + 1)

AnyRequest ==
  /\ talk = "open" /\ ~honest
  /\ \E s \in {gate.sequence, gate.sequence + 1}, req \in {<<"READ", f>> : f \in Fields}
        \union {<<"WRITE", "HIGH">>, <<"WRITE", "LOW">>, <<"WRITE", "other">>, <<"WAIT", 0>>} : Exchange(req, s)

\* The reply to EXECUTE: the broker believes only its own gate.
Reply ==
  /\ talk = "open" /\ (honest => driver.pc = "done")
  /\ \E delta \in IF honest THEN {driver.delta} ELSE {0, gate.delta} :
       talk' = IF gate.complete /\ gate.why = "none" /\ delta = gate.delta THEN "complete" ELSE "ended"
  /\ UNCHANGED <<honest, plan, gate, driver>>

\* The driver gives up or dies; the broker times out.
Ends ==
  talk = "open" /\ talk' = "ended" /\ driver' = [driver EXCEPT !.pc = "exit"] /\ UNCHANGED <<honest, plan, gate>>

Next == PlanStep \/ Execute \/ Advance \/ HonestRequest \/ AnyRequest \/ Reply \/ Ends

Spec == Init /\ [][Next]_rebindVars

(***************************************************************************)
(* Properties.                                                             *)
(***************************************************************************)

\* The two sequencers, written apart, agree: an honest driver is refused only
\* for what the hardware or the clock did, to the last of the longest
\* conversation's messages, and ends with the gate complete and the same frame
\* advance (polaris_user_program, polaris_program_gate_step).
SequencersAgree ==
  honest => /\ gate.why /= "protocol"
            /\ driver.pc = "done" => gate.complete /\ gate.delta = driver.delta
            /\ ~(driver.pc \notin {"done", "exit"} /\ driver.sequence = Messages)

\* Whatever a driver sends, the plane gets the high word and then the low one,
\* once each, and a programming counts as complete only after both.
StoresFollowPlan ==
  /\ gate.stores \in {<<>>, <<"HIGH">>, <<"HIGH", "LOW">>}
  /\ talk = "complete" => Len(gate.stores) = 2 /\ gate.delta >= 2
=============================================================================
