-------------------------------- MODULE Input --------------------------------
(***************************************************************************)
(* Keyboard input up to the key event a consumer takes: the PS/2 decoder   *)
(* and its ring (kernel/ps2.c), fed by the interrupt handler and by        *)
(* polling, the escape-sequence parser of the serial line and the order of *)
(* the sources (kernel/input.c), and the choice between the focused        *)
(* surface and the shell (kernel/input_router.c).                          *)
(*                                                                         *)
(* The keyboard and the terminal at the other end of the serial line are   *)
(* external: they send the byte sequences of whole keys, and the last byte *)
(* of a key carries, for the properties only, the event it should become.  *)
(***************************************************************************)
EXTENDS Integers, Sequences, SequencesExt

CONSTANTS
  QueueSize,    \* QUEUE_SIZE of the ring, one entry of which stays free
  DrainLimit,   \* bytes drain_controller takes at once
  PollLimit,    \* serial bytes input_poll looks at
  FifoLimit,    \* bytes on their way from a keyboard or a terminal
  KeyLimit      \* keys pressed

VARIABLES
  g_initialized,
  held, caps,        \* keyboard: modifier keys held down, caps lock
  fifo,              \* keyboard: bytes in the controller
  decoder,           \* g_extended, g_caps_lock and the modifier flags
  ring,              \* entries, g_head and g_tail
  line,              \* terminal: bytes received by the UART
  parser,            \* g_serial_state and g_serial_parameter
  focus,             \* does a surface of a running display service have the focus?
  taken,             \* the event last taken by a consumer
  presses

vars == <<g_initialized, held, caps, fifo, decoder, ring, line, parser, focus, taken, presses>>

Nothing == [key |-> "NONE", mods |-> {}]

NoEvent == [key |-> "NONE", mods |-> {}, should |-> Nothing, to |-> "nobody"]

Reset == [extended |-> FALSE, caps |-> FALSE, mods |-> {}]

Init ==
  /\ g_initialized = FALSE /\ held = {} /\ caps = FALSE /\ fifo = <<>>
  /\ decoder = Reset
  /\ ring = [at |-> [i \in 0..(QueueSize - 1) |-> NoEvent], head |-> 0, tail |-> 0]
  /\ line = <<>> /\ parser = [state |-> "IDLE", parameter |-> 0]
  /\ focus = FALSE /\ taken = NoEvent /\ presses = 0

(***************************************************************************)
(* The devices.                                                            *)
(***************************************************************************)

Raw(kind, code) == [kind |-> kind, code |-> code, should |-> Nothing]

\* Modifier keys: their name, whether they are extended, their scan code.
Modifiers == {<<"lshift", FALSE, "2A">>, <<"rctrl", TRUE, "1D">>, <<"lalt", FALSE, "38">>}

Shift(mods) == "lshift" \in mods

\* Keys that become events, with what a user expects of them.
Keys == {<<"a", FALSE, "1E">>, <<"left", TRUE, "4B">>, <<"enter", FALSE, "1C">>}

Expected(key) ==
  [key |-> IF key = "a" /\ Shift(held) /= caps THEN "A" ELSE key, mods |-> held]

Bytes(extended, kind, code) == (IF extended THEN <<Raw("E0", "")>> ELSE <<>>) \o <<Raw(kind, code)>>

Sends(bytes) ==
  /\ presses < KeyLimit /\ Len(fifo) + Len(bytes) <= FifoLimit
  /\ fifo' = fifo \o bytes /\ presses' = presses + 1
  /\ UNCHANGED <<g_initialized, decoder, ring, line, parser, focus, taken>>

ModifierMoves ==
  \E m \in Modifiers :
    /\ held' = IF m[1] \in held THEN held \ {m[1]} ELSE held \union {m[1]}
    /\ Sends(Bytes(m[2], IF m[1] \in held THEN "break" ELSE "make", m[3]))
    /\ UNCHANGED caps

\* With shift held, an extended key is preceded by a fake release of shift.
KeyPressed ==
  \E k \in Keys :
    LET all == (IF k[2] /\ Shift(held) THEN Bytes(TRUE, "break", "2A") ELSE <<>>) \o Bytes(k[2], "make", k[3])
    IN Sends([all EXCEPT ![Len(all)].should = Expected(k[1])]) /\ UNCHANGED <<held, caps>>

KeyReleased == \E k \in Keys : Sends(Bytes(k[2], "break", k[3])) /\ UNCHANGED <<held, caps>>

CapsPressed == caps' = ~caps /\ Sends(Bytes(FALSE, "make", "3A")) /\ UNCHANGED held

\* A mouse byte, and the six bytes of the Pause key.
OtherBytes ==
  /\ \/ Sends(<<Raw("aux", "2A")>>)
     \/ Sends(<<Raw("E1", ""), Raw("make", "1D"), Raw("make", "45"),
                Raw("E1", ""), Raw("break", "1D"), Raw("break", "45")>>)
  /\ UNCHANGED <<held, caps>>

\* What the terminal sends for a key.
TerminalKeys == {<<"x", <<"x">>>>, <<"enter", <<"CR">>>>, <<"up", <<"ESC", "[", "A">>>>,
                 <<"delete", <<"ESC", "[", "3", "~">>>>, <<"home", <<"ESC", "[", "1", "~">>>>,
                 <<"NONE", <<"ESC", "[", "1", "5", "~">>>>}

TerminalSends ==
  /\ presses < KeyLimit
  /\ \E k \in TerminalKeys :
       /\ Len(line) + Len(k[2]) <= FifoLimit
       /\ line' = line \o [i \in DOMAIN k[2] |->
                             [byte |-> k[2][i],
                              should |-> IF i = Len(k[2]) THEN [key |-> k[1], mods |-> {}] ELSE Nothing]]
  /\ presses' = presses + 1
  /\ UNCHANGED <<g_initialized, held, caps, fifo, decoder, ring, parser, focus, taken>>

FocusMoves ==
  /\ focus' = ~focus
  /\ UNCHANGED <<g_initialized, held, caps, fifo, decoder, ring, line, parser, taken, presses>>

(***************************************************************************)
(* The PS/2 decoder.                                                       *)
(***************************************************************************)

Wrap(i) == i % QueueSize

\* A full ring drops the new event.
enqueue_event(s, key, should) ==
  IF Wrap(s.ring.head + 1) = s.ring.tail THEN s
  ELSE [s EXCEPT !.ring.at[s.ring.head] = [key |-> key, mods |-> s.decoder.mods, should |-> should, to |-> "nobody"],
                 !.ring.head = Wrap(@ + 1)]

\* Defect: the fake release of shift before an extended key is taken for one.
ModifierOfAny(extended, code) ==
  CASE code = "2A" -> "lshift"
    [] code = "1D" -> IF extended THEN "rctrl" ELSE "lctrl"
    [] code = "38" -> IF extended THEN "ralt" ELSE "lalt"
    [] OTHER -> "none"

\* The modifier a scan code stands for.
ModifierOf(extended, code) ==
  CASE ~extended /\ code = "2A" -> "lshift"
    [] ~extended /\ code = "1D" -> "lctrl"
    [] ~extended /\ code = "38" -> "lalt"
    [] extended /\ code = "1D" -> "rctrl"
    [] extended /\ code = "38" -> "ralt"
    [] OTHER -> "none"

\* The event a pressed key stands for: extended codes have a table of their own.
EventOf(d, extended, code) ==
  CASE code = "1C" -> "enter"
    [] extended /\ code = "4B" -> "left"
    [] ~extended /\ code = "1E" -> IF Shift(d.mods) /= d.caps THEN "A" ELSE "a"
    [] OTHER -> "NONE"

\* Defect: a prefix is forgotten only when its key is pressed, not when it is
\* released or unknown.
PrefixKept(s, b) ==
  IF s.decoder.extended /\ b.kind = "break" THEN s.decoder ELSE [s.decoder EXCEPT !.extended = FALSE]

PrefixConsumed(s, b) == [s.decoder EXCEPT !.extended = FALSE]

decode_scancode(s, b) ==
  LET extended == s.decoder.extended
      m == ModifierOf(extended, b.code)
      t == [s EXCEPT !.decoder = PrefixConsumed(s, b)]
      e == EventOf(t.decoder, extended, b.code)
  IN CASE b.kind = "E0" -> [s EXCEPT !.decoder.extended = TRUE]
       [] b.kind = "E1" -> [s EXCEPT !.decoder.extended = FALSE]
       [] m /= "none" ->
            [t EXCEPT !.decoder.mods = IF b.kind = "make" THEN @ \union {m} ELSE @ \ {m}]
       [] ~extended /\ b.code = "3A" /\ b.kind = "make" -> [t EXCEPT !.decoder.caps = ~@]
       [] b.kind = "make" /\ e /= "NONE" -> enqueue_event(t, e, b.should)
       [] OTHER -> t

\* drain_controller: bytes of the mouse port are read and skipped.
drain_controller(s) ==
  LET n == IF Len(fifo) < DrainLimit THEN Len(fifo) ELSE DrainLimit
  IN FoldLeft(LAMBDA t, b : IF b.kind = "aux" THEN t ELSE decode_scancode(t, b), s, SubSeq(fifo, 1, n))

Drained == drain_controller([decoder |-> decoder, ring |-> ring])

AfterDrain == SubSeq(fifo, DrainLimit + 1, Len(fifo))

\* ps2_init happens before keys are accepted; it may find no controller.
ps2_init ==
  /\ ~g_initialized /\ presses = 0
  /\ g_initialized' = TRUE
  /\ decoder' = Reset /\ fifo' = <<>>
  /\ UNCHANGED <<held, caps, ring, line, parser, focus, taken, presses>>

ps2_handle_irq ==
  /\ g_initialized /\ fifo /= <<>>
  /\ decoder' = Drained.decoder /\ ring' = Drained.ring /\ fifo' = AfterDrain
  /\ UNCHANGED <<g_initialized, held, caps, line, parser, focus, taken, presses>>

(***************************************************************************)
(* The serial parser.                                                      *)
(***************************************************************************)

NoKey == "NONE"

Digit == [d \in {"1", "3", "5"} |-> CASE d = "1" -> 1 [] d = "3" -> 3 [] OTHER -> 5]

Final(parameter, byte) ==
  CASE byte = "A" -> "up"
    [] byte = "~" /\ parameter = 1 -> "home"
    [] byte = "~" /\ parameter = 3 -> "delete"
    [] OTHER -> NoKey

CsiBegins(p) == [state |-> "CSI", parameter |-> 0]

serial_event_from_byte(p, byte) ==
  LET idle == [p EXCEPT !.state = "IDLE"] IN
  CASE p.state = "IDLE" ->
         CASE byte = "ESC" -> [p |-> [p EXCEPT !.state = "ESCAPE"], key |-> NoKey]
           [] byte = "CR" -> [p |-> p, key |-> "enter"]
           [] OTHER -> [p |-> p, key |-> byte]
    [] p.state = "ESCAPE" ->
         IF byte = "[" THEN [p |-> CsiBegins(p), key |-> NoKey] ELSE [p |-> idle, key |-> "escape"]
    [] byte \in DOMAIN Digit ->
         [p |-> [state |-> "CSI_PARAMETER", parameter |-> p.parameter * 10 + Digit[byte]], key |-> NoKey]
    [] OTHER -> [p |-> idle, key |-> Final(p.parameter, byte)]

\* Bytes are taken until one completes a key or the limit is reached.
SerialScan ==
  FoldLeft(LAMBDA s, b : IF s.key /= NoKey THEN s
                         ELSE LET r == serial_event_from_byte(s.p, b.byte)
                              IN [p |-> r.p, key |-> r.key, should |-> b.should, used |-> s.used + 1],
           [p |-> parser, key |-> NoKey, should |-> Nothing, used |-> 0],
           SubSeq(line, 1, IF Len(line) < PollLimit THEN Len(line) ELSE PollLimit))

(***************************************************************************)
(* Consumers.                                                              *)
(***************************************************************************)

\* input_route_event: the focused surface or, without one, the caller.
input_route_event(e) == [e EXCEPT !.to = IF focus THEN "surface" ELSE "shell"]

\* input_poll: the ring first, then the serial line.
input_poll_routed ==
  LET d == IF g_initialized THEN Drained ELSE [decoder |-> decoder, ring |-> ring] IN
  /\ decoder' = d.decoder /\ fifo' = IF g_initialized THEN AfterDrain ELSE fifo
  /\ IF d.ring.head /= d.ring.tail
       THEN /\ ring' = [d.ring EXCEPT !.tail = Wrap(@ + 1)]
            /\ taken' = input_route_event(d.ring.at[d.ring.tail])
            /\ UNCHANGED <<line, parser>>
       ELSE /\ ring' = d.ring
            /\ parser' = SerialScan.p
            /\ line' = SubSeq(line, SerialScan.used + 1, Len(line))
            /\ taken' = IF SerialScan.key = NoKey THEN NoEvent
                        ELSE input_route_event([key |-> SerialScan.key, mods |-> {}, should |-> SerialScan.should,
                                                to |-> "nobody"])
  /\ UNCHANGED <<g_initialized, held, caps, focus, presses>>

Next ==
  \/ ps2_init \/ ModifierMoves \/ KeyPressed \/ KeyReleased \/ CapsPressed \/ OtherBytes
  \/ TerminalSends \/ FocusMoves
  \/ ps2_handle_irq \/ input_poll_routed

Spec == Init /\ [][Next]_vars

(***************************************************************************)
(* Properties.                                                             *)
(***************************************************************************)

\* Every event a consumer takes is a key that was pressed, read with the
\* modifiers and the caps lock of that moment, however bytes of keys,
\* prefixes, the mouse and the serial line are cut up between interrupts and
\* polls and whatever the ring dropped before.
EventsAreKeysPressed ==
  taken.key /= "NONE" => taken.should = [key |-> taken.key, mods |-> taken.mods]

\* When the controller is empty no modifier is stuck: the decoder agrees with
\* the keys that are held down.
ModifiersFollowKeys ==
  g_initialized /\ fifo = <<>> => decoder = [extended |-> FALSE, caps |-> caps, mods |-> held]
==============================================================================
