-------------------------------- MODULE Xhci --------------------------------
(***************************************************************************)
(* The USB keyboard driver: the xHCI controller's bring-up and its DMA     *)
(* pages, the search of the root ports for a boot keyboard, the keyboard's *)
(* reports and its removal (usb_xhci.c, usb_xhci_model.c, usb_core.c).     *)
(*                                                                         *)
(* The controller (external) takes commands and transfers from its rings   *)
(* in order and answers through the event ring, at its own pace.  A ring   *)
(* is an array of slots with cycle bits; its last slot of a command or     *)
(* transfer ring is the link back to the first.  The driver waits for one  *)
(* answer at a time and gives up after a bounded wait; the answer may      *)
(* still come.                                                             *)
(***************************************************************************)
EXTENDS Integers, Sequences, FiniteSets

CONSTANTS
  NPorts,        \* root ports, visited in order
  NSlots,        \* max_slots
  RingSize,      \* XHCI_MAX_TRBS of the command ring
  ReportRing,    \* XHCI_MAX_TRBS of the keyboard's transfer ring
  EventRing,     \* XHCI_MAX_TRBS of the event ring
  QueueSize,     \* XHCI_QUEUE_SIZE
  Pages,         \* the pages allocated before the scratchpads
  Scratchpads,   \* scratchpad buffers the controller asks for
  MaxLate,       \* waits that run out
  Reports        \* keyboard reports: [shift, keys], keys a sequence of usages

VARIABLES
  usb,    \* root ports: what is attached, and whether it still is
  hc,     \* the controller
  mem,    \* rings, the transfer buffer and the DMA pages held
  x,      \* g_xhci, g_queue and where the driver is
  late    \* how many waits have run out

xhciVars == <<usb, hc, mem, x, late>>

Ports == 1 .. NPorts
Steps == <<"enable", "address", "descriptor", "evaluate", "header", "configuration",
           "set_configuration", "set_protocol", "configure">>
Commands == {"enable", "address", "evaluate", "configure", "disable"}

NoTrb == [cycle |-> 0, op |-> "none", slot |-> 0]
Blank(size) == [i \in 0 .. (size - 1) |-> NoTrb]
NoEvent == [cycle |-> 0, type |-> "none", slot |-> 0, ep |-> 0, code |-> "none"]
Off == [state |-> "off", port |-> 0, set |-> {}]

-----------------------------------------------------------------------------
(* Rings                                                                   *)

\* A producer's or consumer's place in a ring.
Place(i, c) == [at |-> i, cycle |-> c]

\* The slot after this one; past the last usable one lies the link.
Advance(place, link) ==
  IF place.at + 1 = link THEN Place(0, 1 - place.cycle) ELSE Place(place.at + 1, place.cycle)

\* ring_command and submit_keyboard_report: write the slot, and the link when
\* it is the last before it.
Put(ring, link, place, trb) ==
  LET written == [ring EXCEPT ![place.at] = [trb EXCEPT !.cycle = place.cycle]] IN
    [ring |-> IF place.at + 1 = link
                THEN [written EXCEPT ![link] = [NoTrb EXCEPT !.cycle = place.cycle, !.op = "link"]]
                ELSE written,
     place |-> Advance(place, link)]

\* Whether the controller finds a TRB at its place.
Ready(ring, place) == ring[place.at].op /= "none" /\ ring[place.at].cycle = place.cycle

\* The controller's answer, when the event ring has room: the driver's place
\* is what it last wrote to ERDP.
CanPost(n) == ((hc.event.at - x.event.at) % EventRing) + n < EventRing

RECURSIVE PostAll(_, _, _)
PostAll(ring, place, events) ==
  IF events = <<>> THEN [ring |-> ring, place |-> place]
  ELSE PostAll([ring EXCEPT ![place.at] = [Head(events) EXCEPT !.cycle = place.cycle]],
               Advance(place, EventRing), Tail(events))

Posted(events) == PostAll(mem.events, hc.event, events)

HasEvent == mem.events[x.event.at].cycle = x.event.cycle
Event == mem.events[x.event.at]

\* Memory once the event has been copied out.  Of what the entry held only the
\* cycle bit is kept: it is not read again before the controller has written it,
\* which ReportsDecodedOnce checks.
Taken == [mem EXCEPT !.events[x.event.at] = [NoEvent EXCEPT !.cycle = Event.cycle]]

-----------------------------------------------------------------------------
(* The controller and the devices (external)                               *)

Answer(type, slot, ep, code) == [cycle |-> 0, type |-> type, slot |-> slot, ep |-> ep, code |-> code]

\* A command takes effect on the slot it names, or is refused.
ExecuteCommand ==
  /\ hc.run /\ Ready(mem.commands, hc.command) /\ CanPost(1)
  /\ LET trb == mem.commands[hc.command.at]
         free == {s \in 1 .. NSlots : hc.slots[s].state = "off"}
         slot == IF trb.op = "enable" /\ free /= {} THEN CHOOSE s \in free : \A t \in free : s <= t
                 ELSE trb.slot
         was == hc.slots[slot].state
         works == CASE trb.op = "enable" -> free /= {}
                    [] trb.op = "address" -> slot /= 0 /\ was = "enabled"
                    [] trb.op \in {"evaluate", "configure"} -> slot /= 0 /\ was = "addressed"
                    [] trb.op = "disable" -> slot /= 0 /\ was /= "off"
         becomes == CASE trb.op = "enable" -> [Off EXCEPT !.state = "enabled"]
                      [] trb.op = "address" -> [hc.slots[slot] EXCEPT !.state = "addressed",
                                                                      !.port = trb.port]
                      [] trb.op = "evaluate" -> hc.slots[slot]
                      [] trb.op = "configure" -> [hc.slots[slot] EXCEPT !.state = "configured"]
                      [] trb.op = "disable" -> Off
     IN \E ok \in {TRUE, FALSE} :
          LET done == ok /\ works
              after == Posted(<<Answer("command", slot, 0, IF done THEN "ok" ELSE "error")>>)
          IN /\ mem' = [mem EXCEPT !.events = after.ring,
                           !.ep0 = IF done /\ trb.op = "disable" THEN {td \in @ : td.slot /= slot} ELSE @]
             /\ hc' = [hc EXCEPT !.command = Advance(@, RingSize - 1), !.event = after.place,
                         !.slots = IF done THEN [@ EXCEPT ![slot] = becomes] ELSE @,
                         !.report = IF done /\ trb.op = "configure" THEN Place(0, 1) ELSE @]
  /\ UNCHANGED <<usb, x, late>>

\* A control transfer on a slot's default endpoint.  An IN transfer may report
\* a short packet before its status stage.  One that the driver no longer waits
\* for is carried out too, until its slot is disabled.
ExecuteTransfer ==
  /\ hc.run /\ CanPost(2)
  /\ \E td \in mem.ep0 :
       LET port == hc.slots[td.slot].port
           works == hc.slots[td.slot].state \in {"addressed", "configured"} /\ usb[port].connected
           status == Answer("transfer", td.slot, 1, "ok")
           in == td.op \in {"descriptor", "header", "configuration"}
       IN \E events \in {<<Answer("transfer", td.slot, 1, "error")>>}
                        \cup (IF works THEN {<<status>>} ELSE {})
                        \cup (IF works /\ in THEN {<<Answer("transfer", td.slot, 1, "short"), status>>}
                              ELSE {}) :
            LET done == events[Len(events)] = status
                after == Posted(events)
            IN /\ mem' = [mem EXCEPT !.events = after.ring, !.ep0 = @ \ {td},
                                     !.buffer = IF done /\ in THEN <<td.op, usb[port].kind>> ELSE @]
               /\ hc' = [hc EXCEPT !.event = after.place,
                           !.slots = IF done /\ ~in THEN [@ EXCEPT ![td.slot].set = @ \cup {td.op}] ELSE @]
  /\ UNCHANGED <<usb, x, late>>

\* The keyboard answers the report transfer, or the transfer fails.
DeliverReport ==
  /\ hc.run /\ Ready(mem.reports, hc.report) /\ CanPost(1)
  /\ hc.doorbell /= 0 /\ hc.slots[hc.doorbell].state = "configured"
  /\ \E report \in Reports, code \in {"ok", "error"} :
       LET after == Posted(<<Answer("transfer", hc.doorbell, 3, code)>>) IN
         /\ code = "ok" => usb[hc.slots[hc.doorbell].port].connected
         /\ mem' = [mem EXCEPT !.events = after.ring,
                               !.buffer = IF code = "ok" THEN <<"report", report>> ELSE @]
         /\ hc' = [hc EXCEPT !.event = after.place, !.report = Advance(@, ReportRing - 1),
                             !.unread = IF code = "ok" THEN Append(@, report) ELSE @,
                             !.stalled = code = "error"]
  /\ UNCHANGED <<usb, x, late>>

\* A port's status change is an event of its own, at the latest when the
\* device is pulled out.
Unplug(p) ==
  /\ usb[p].kind /= "none" /\ usb[p].connected
  /\ usb' = [usb EXCEPT ![p].connected = FALSE]
  /\ IF hc.run /\ CanPost(1)
       THEN LET after == Posted(<<Answer("port", 0, 0, "ok")>>) IN
              /\ mem' = [mem EXCEPT !.events = after.ring]
              /\ hc' = [hc EXCEPT !.event = after.place]
       ELSE UNCHANGED <<mem, hc>>
  /\ UNCHANGED <<x, late>>

-----------------------------------------------------------------------------
(* Bring-up                                                                *)

Init ==
  /\ usb \in [Ports -> [kind : {"none", "keyboard", "other"}, connected : {TRUE}]]
  /\ hc = [run |-> FALSE, command |-> Place(0, 1), event |-> Place(0, 1), report |-> Place(0, 1),
           slots |-> [s \in 0 .. NSlots |-> Off], doorbell |-> 0, unread |-> <<>>, stalled |-> FALSE]
  /\ mem = [commands |-> Blank(RingSize), reports |-> Blank(ReportRing), ep0 |-> {}, buffer |-> <<"none">>,
            events |-> [i \in 0 .. (EventRing - 1) |-> NoEvent], pages |-> {}]
  /\ x = [at |-> "start", port |-> 0, step |-> 0, slot |-> 0, ready |-> FALSE, wants |-> "none",
          command |-> Place(0, 1), event |-> Place(0, 1), report |-> Place(0, 1),
          previous |-> {}, caps |-> FALSE, queue |-> <<>>]
  /\ late = 0

\* Defect: the scratchpad buffers allocated before the failing one are kept.
ScratchpadsLeaked(got) ==
  IF got = Scratchpads THEN [ok |-> TRUE, pages |-> {<<"scratch", i>> : i \in 0 .. got}]
  ELSE [ok |-> FALSE, pages |-> {<<"scratch", i>> : i \in 1 .. got}]

\* The scratchpad array (page 0) and its buffers, of which `got' can be had; on
\* a failure the ones before it and the array are given back.
setup_scratchpads(got) ==
  IF got = Scratchpads THEN [ok |-> TRUE, pages |-> {<<"scratch", i>> : i \in 0 .. got}]
  ELSE [ok |-> FALSE, pages |-> {}]

\* What release_dma_resources frees: the pages g_xhci names, and the
\* scratchpads when its array is recorded.
release_dma_resources(pages) ==
  IF <<"scratch", 0>> \in pages THEN {} ELSE {p \in pages : p[1] = "scratch"}

\* xhci_init up to the RUN bit: registers checked, ownership taken from the
\* firmware, controller halted and reset, pages allocated in order.  When one
\* cannot be had, the halted controller's pages are freed.
StartController ==
  /\ x.at = "start"
  /\ \/ x' = [x EXCEPT !.at = "absent"] /\ UNCHANGED <<mem, hc>>
     \/ \E got \in 0 .. Pages, scratch \in 0 .. Scratchpads :
          LET base == {<<"base", i>> : i \in 1 .. got}
              pads == setup_scratchpads(scratch)
              all == base \cup (IF got = Pages THEN pads.pages ELSE {})
          IN IF got = Pages /\ pads.ok
               THEN /\ mem' = [mem EXCEPT !.pages = all]
                    /\ hc' = [hc EXCEPT !.run = TRUE]
                    /\ x' = [x EXCEPT !.at = "starting"]
               ELSE /\ mem' = [mem EXCEPT !.pages = release_dma_resources(all)]
                    /\ x' = [x EXCEPT !.at = "failed"]
                    /\ UNCHANGED hc
  /\ UNCHANGED <<usb, late>>

\* Defect: the controller is not told to stop.
LeftRunning == {[run |-> hc.run, late |-> late]}

\* RUN is cleared and the halt awaited, but the driver goes on also when the
\* wait runs out.
stop_controller_for_cleanup ==
  {[run |-> FALSE, late |-> late]} \cup (IF late < MaxLate THEN {[run |-> TRUE, late |-> late + 1]} ELSE {})

\* The controller is up, or is still not ready when the wait ends and the start
\* has failed (xhci_fail_after_dma).
AwaitStart ==
  /\ x.at = "starting"
  /\ \/ x' = [x EXCEPT !.at = "scan"] /\ UNCHANGED <<mem, hc, late>>
     \/ \E stop \in stop_controller_for_cleanup :
          /\ hc' = [hc EXCEPT !.run = stop.run]
          /\ late' = stop.late
          /\ mem' = [mem EXCEPT !.pages = release_dma_resources(@)]
          /\ x' = [x EXCEPT !.at = "failed"]
  /\ UNCHANGED usb

\* The next port is reset when something is attached to it; a port that does
\* not come back enabled is passed over.  After the last one the search ends.
ScanPort ==
  /\ x.at = "scan"
  /\ LET p == x.port + 1 IN
       IF p > NPorts THEN x' = [x EXCEPT !.at = "none"]
       ELSE \/ /\ usb[p].kind /= "none" /\ usb[p].connected
               /\ x' = [x EXCEPT !.port = p, !.step = 1, !.at = "issue"]
            \/ x' = [x EXCEPT !.port = p]
  /\ UNCHANGED <<usb, hc, mem, late>>

-----------------------------------------------------------------------------
(* Commands and control transfers                                          *)

\* The input context of an address command names the root port.
prepare_address_context(op) == IF op = "address" THEN x.port ELSE 0

command(op, slot) ==
  LET put == Put(mem.commands, RingSize - 1, x.command,
                 [cycle |-> 0, op |-> op, slot |-> slot, port |-> prepare_address_context(op)]) IN
  /\ mem' = [mem EXCEPT !.commands = put.ring]
  /\ x' = [x EXCEPT !.command = put.place, !.at = "wait", !.wants = "command"]

control_transfer(request) ==
  /\ mem' = [mem EXCEPT !.ep0 = @ \cup {[slot |-> x.slot, op |-> request]}]
  /\ x' = [x EXCEPT !.at = "wait", !.wants = "transfer"]

\* The keyboard's interrupt endpoint is added to the slot.
configure_keyboard == command("configure", x.slot)

IssueStep ==
  /\ x.at = "issue"
  /\ \/ Steps[x.step] \in {"address", "evaluate"} /\ command(Steps[x.step], x.slot)
     \/ Steps[x.step] = "enable" /\ command("enable", 0)
     \/ Steps[x.step] = "configure" /\ configure_keyboard
     \/ Steps[x.step] \notin Commands /\ control_transfer(Steps[x.step])
  /\ UNCHANGED <<usb, hc, late>>

\* release_current_slot: the slot is disabled, whatever the answer.
ReleaseSlot ==
  /\ x.at = "release"
  /\ command("disable", x.slot)
  /\ UNCHANGED <<usb, hc, late>>

\* A wait that ended badly: a slot that was enabled is released first; a
\* disable's answer is ignored.
AfterBad(y) ==
  IF x.step = 0 THEN [y EXCEPT !.at = IF x.port = 0 THEN "gone" ELSE "scan", !.slot = 0]
  ELSE IF x.step = 1 THEN [y EXCEPT !.at = "scan", !.step = 0]
  ELSE [y EXCEPT !.at = "release", !.step = 0]

\* usb_find_boot_keyboard on what the configuration transfer left.
usb_find_boot_keyboard == mem.buffer = <<"configuration", "keyboard">>

\* The step's answer is good.  The descriptors a device sends may still be
\* unusable (packet size, length, no keyboard interface).  After the last
\* step the first report is asked for and the keyboard is ready.
AfterGood(y, slot) ==
  IF x.step = 0 THEN AfterBad(y)
  ELSE IF x.step = 1 THEN [y EXCEPT !.at = "issue", !.step = 2, !.slot = slot, !.report = Place(0, 1)]
  ELSE IF x.step = Len(Steps) THEN [y EXCEPT !.at = "submit"]
  ELSE IF Steps[x.step] = "configuration" /\ ~usb_find_boot_keyboard THEN AfterBad(y)
  ELSE [y EXCEPT !.at = "issue", !.step = @ + 1]

\* Defect: a short packet is taken for the end of the control transfer.
ShortEndsTransfer(e) ==
  IF e.type /= x.wants \/ (x.wants = "transfer" /\ (e.slot /= x.slot \/ e.ep /= 1)) THEN "more"
  ELSE IF e.code \in {"ok", "short"} THEN "good" ELSE "bad"

\* Defect: an event of any slot and endpoint ends the wait for a transfer.
AnySlotEnds(e) ==
  IF e.type /= x.wants \/ (x.wants = "transfer" /\ e.code = "short") THEN "more"
  ELSE IF e.code = "ok" THEN "good" ELSE "bad"

\* What wait_completion makes of an event: events of another type, slot or
\* endpoint and short packets are passed over.  Events are told apart by
\* their type, not by the TRB they answer.
wait_completion(e) ==
  IF e.type /= x.wants THEN "more"
  ELSE IF x.wants = "transfer" /\ (e.slot /= x.slot \/ e.ep /= 1) THEN "more"
  ELSE IF e.code = "ok" THEN "good"
  ELSE IF x.wants = "transfer" /\ e.code = "short" THEN "more"
  ELSE "bad"

WaitEvent ==
  /\ x.at = "wait" /\ HasEvent
  /\ LET y == [x EXCEPT !.event = Advance(@, EventRing)]
         verdict == wait_completion(Event)
     IN \/ verdict = "more" /\ x' = y /\ mem' = Taken
        \/ verdict = "bad" /\ x' = AfterBad(y) /\ mem' = Taken
        \/ /\ verdict = "good" /\ x' = AfterGood(y, Event.slot)
           /\ mem' = IF x.step = 1 THEN [Taken EXCEPT !.reports = Blank(ReportRing)] ELSE Taken
        \/ /\ verdict = "good" /\ x.step > 0 /\ Steps[x.step] \in {"descriptor", "header"}
           /\ x' = AfterBad(y) /\ mem' = Taken
  /\ UNCHANGED <<usb, hc, late>>

\* The wait runs out.
WaitTimeout ==
  /\ x.at = "wait" /\ ~HasEvent /\ late < MaxLate
  /\ late' = late + 1
  /\ x' = AfterBad(x)
  /\ UNCHANGED <<usb, hc, mem>>

-----------------------------------------------------------------------------
(* Reports                                                                 *)

submit_keyboard_report ==
  LET put == Put(mem.reports, ReportRing - 1, x.report,
                 [cycle |-> 0, op |-> "report", slot |-> x.slot, port |-> x.port]) IN
  /\ x.at = "submit"
  /\ mem' = [mem EXCEPT !.reports = put.ring]
  /\ x' = [x EXCEPT !.report = put.place, !.ready = TRUE, !.at = "idle", !.step = 0]
  /\ hc' = [hc EXCEPT !.doorbell = x.slot]
  /\ UNCHANGED <<usb, late>>

\* A full queue drops the key.
queue_event(queue, key) == IF Len(queue) + 1 >= QueueSize THEN queue ELSE Append(queue, key)

\* Keys that were up in the previous report are pressed now, in the report's
\* order; caps lock inverts shift for the letters.
RECURSIVE decode_report(_, _, _)
decode_report(y, shift, keys) ==
  IF keys = <<>> THEN y
  ELSE LET usage == Head(keys)
           z == IF usage \in y.previous THEN y
                ELSE IF usage = "caps" THEN [y EXCEPT !.caps = ~@]
                ELSE [y EXCEPT !.queue = queue_event(@, <<usage, shift /= y.caps>>)]
       IN decode_report(z, shift, Tail(keys))

\* The keyboard and its keys are forgotten and its slot is given back.
disconnect_current_keyboard ==
  [x EXCEPT !.ready = FALSE, !.queue = <<>>, !.previous = {}, !.caps = FALSE,
            !.at = "release", !.step = 0, !.port = 0]

\* xhci_poll looks at the port and at the next event; a failed transfer is not
\* renewed.
xhci_poll ==
  /\ x.at = "idle" /\ x.ready
  /\ IF ~usb[x.port].connected
       THEN x' = disconnect_current_keyboard /\ UNCHANGED mem
       ELSE /\ HasEvent
            /\ mem' = Taken
            /\ x' = [x EXCEPT !.event = Advance(@, EventRing),
                              !.at = IF /\ Event.type = "transfer" /\ Event.slot = x.slot
                                        /\ Event.ep = 3 /\ Event.code = "ok"
                                       THEN "decode" ELSE "idle"]
  /\ UNCHANGED <<usb, hc, late>>

\* The report is copied out of the buffer and decoded; then the next one is
\* asked for.  What a late control transfer left there is decoded as any report.
DecodeReport ==
  /\ x.at = "decode"
  /\ \E report \in IF mem.buffer[1] = "report" THEN {mem.buffer[2]} ELSE Reports :
       LET y == decode_report(x, report.shift, report.keys) IN
         x' = [y EXCEPT !.previous = {report.keys[i] : i \in DOMAIN report.keys}, !.at = "submit"]
  /\ hc' = [hc EXCEPT !.unread = IF @ = <<>> THEN @ ELSE Tail(@)]
  /\ UNCHANGED <<usb, mem, late>>

xhci_get_event ==
  /\ x.at = "idle" /\ x.queue /= <<>>
  /\ x' = [x EXCEPT !.queue = Tail(@)]
  /\ UNCHANGED <<usb, hc, mem, late>>

Next ==
  \/ ExecuteCommand \/ ExecuteTransfer \/ DeliverReport
  \/ \E p \in Ports : Unplug(p)
  \/ StartController \/ AwaitStart \/ ScanPort \/ IssueStep \/ ReleaseSlot
  \/ WaitEvent \/ WaitTimeout
  \/ submit_keyboard_report \/ xhci_poll \/ DecodeReport \/ xhci_get_event

XhciSpec == Init /\ [][Next]_xhciVars

-----------------------------------------------------------------------------
(* Properties                                                              *)

AllPages == {<<"base", i>> : i \in 1 .. Pages} \cup {<<"scratch", i>> : i \in 0 .. Scratchpads}

\* A start that fails gives back every DMA page, whichever allocation of the
\* pages, the scratchpad array and its buffers failed or whether the controller
\* did not come up (setup_scratchpads, xhci_fail_after_dma); after it all of them
\* are kept, also when no keyboard is found and xhci_init returns false.  While
\* no wait has run out, a controller that may be running has all of them: the
\* pages are freed only under a halted one.
DmaHeld ==
  /\ mem.pages = IF x.at \in {"start", "absent", "failed"} THEN {} ELSE AllPages
  /\ late = 0 /\ hc.run => mem.pages = AllPages

\* A keyboard that xhci_init reports ready is configured: its slot is the one
\* the controller addressed for that port, the device's configuration and boot
\* protocol have been set and its endpoint configured.  An answer that came
\* after its wait was over never stands in for the answer to one of these steps,
\* although wait_completion knows a command's answer by its type alone, and a
\* transfer's by its type and slot.
\* While no wait has run out, what is attached is a boot keyboard: a late
\* transfer of another slot may overwrite the shared buffer.
ConfiguredWhenReady ==
  x.ready =>
    LET slot == hc.slots[x.slot] IN
      /\ slot.state = "configured" /\ slot.port = x.port
      /\ slot.set = {"set_configuration", "set_protocol"}
      /\ late = 0 => usb[x.port].kind = "keyboard"

\* Every report the keyboard delivers is decoded once, while no wait has run out
\* before anything overwrites it in the one transfer buffer; and until
\* a transfer fails there is always one asked for or one waiting to be read,
\* however often the rings have wrapped (submit_keyboard_report, next_event):
\* the keyboard never falls silent by itself.  No event is read twice: an entry
\* whose cycle bit matches is one the controller has written since.
ReportsDecodedOnce ==
  /\ HasEvent => Event.type /= "none"
  /\ Len(hc.unread) <= 1
  /\ late = 0 /\ hc.unread /= <<>> => mem.buffer = <<"report", Head(hc.unread)>>
  /\ x.ready /\ x.at = "idle" /\ ~hc.stalled =>
       Ready(mem.reports, hc.report) \/ (HasEvent /\ hc.unread /= <<>>)
=============================================================================
