------------------------------- MODULE Input --------------------------------
(***************************************************************************)
(* Keyboard and mouse (drivers/keyboard, drivers/mouse, drivers/usb/       *)
(* usb_hid.c) and the common path behind them (drivers/input/input.c).     *)
(* One keyboard is seen twice, as under QEMU: the PS/2 controller queues   *)
(* scan codes for IRQ1, the USB keyboard sends the set of keys held, which *)
(* the timer tick picks up.  Both end in input_keyboard_event_ex, which    *)
(* drops duplicates and delivers to the window manager (WM), if there is   *)
(* one, or to /dev/console.                                                *)
(*                                                                         *)
(* A key code is <<k, upper>>, or CtrlC.  Only "now or in an earlier tick" *)
(* matters of the clock: `fresh' says that the last event is of this tick, *)
(* and a repeat slot counts the ticks that are left.                       *)
(***************************************************************************)
EXTENDS Integers, Sequences, FiniteSets, FiniteSetsExt

CONSTANTS Letters, Digits, Arrows,   \* keys of the three kinds; "c" may be a letter
          Modifiers,                 \* of "shift", "caps", "ctrl"
          NSlots, Delay, Rate,       \* repeat_slots, HID_REPEAT_*_TICKS
          BufSize,                   \* CONSOLE_INPUT_BUF_SIZE
          MaxPort, MaxStrokes, MaxMoves, MaxLost,
          Width                      \* screen_width_pixels

VARIABLES held,      \* keys that are physically down
          port,      \* bytes in the PS/2 controller: [aux, byte]
          kb,        \* state of keyboard.c
          slots,     \* repeat_slots of usb_hid.c
          plugged,   \* there is a USB keyboard
          last,      \* last_key, last_pressed, and whether they are of this tick
          wm,        \* a WM is registered
          seen,      \* the keys the WM believes to be down
          con,       \* console: bytes buffered, viewport scrolled, Ctrl+C pending
          mouse,     \* state of mouse.c and of the pointer
          clean,     \* none of the exceptions of NoStuckKey has happened
          strokes, moves, lost

vars == <<held, port, kb, slots, plugged, last, wm, seen, con, mouse, clean, strokes, moves, lost>>

Plain == Letters \cup Digits \cup Arrows
KeyNames == Plain \cup Modifiers
CtrlC == <<"ctrlc", FALSE>>
None == <<"none", FALSE>>
NoSlot == [usage |-> "none", left |-> 0]

\* keyboard_init, mouse_init (which gives up when a step is not answered).
Init ==
    /\ held = {} /\ port = << >>
    /\ kb = [ext |-> FALSE, shift |-> FALSE, caps |-> FALSE, ctrl |-> FALSE,
             down |-> [k \in Letters \cup Digits |-> None]]
    /\ slots = [j \in 1..NSlots |-> NoSlot] /\ plugged \in BOOLEAN
    /\ last = [key |-> None, pressed |-> FALSE, fresh |-> FALSE]
    /\ wm \in BOOLEAN /\ seen = {} /\ con = [count |-> 0, scrolled |-> FALSE, ctrlc |-> FALSE]
    /\ mouse \in [up : BOOLEAN, packet : {<< >>}, x : {0}]
    /\ clean = TRUE /\ strokes = 0 /\ moves = 0 /\ lost = 0

------------------------------------------------------------------------------
\* input.c.  Its state, as far as events change it, is a record, so that one handler
\* can deliver several events.

State == [last |-> last, seen |-> seen, con |-> con]

console_input_push(c) == IF c.count >= BufSize THEN c ELSE [c EXCEPT !.count = @ + 1]

\* The end of input_keyboard_event_ex, without a WM: only presses count.
ToConsole(c, key, ctrl) ==
    CASE key = CtrlC -> [c EXCEPT !.scrolled = FALSE, !.ctrlc = TRUE]
      [] key[1] = "up" /\ ctrl -> [c EXCEPT !.scrolled = TRUE]
      [] key[1] = "down" /\ ctrl -> [c EXCEPT !.scrolled = FALSE]
      [] OTHER -> console_input_push(c)


is_duplicate(s, key, pressed) ==
    key = s.last.key /\ pressed = s.last.pressed /\ s.last.fresh

\* `full': the mailbox of the WM takes no message.
input_keyboard_event_ex(s, key, pressed, ctrl, full) ==
    IF key = None THEN s
    ELSE [last |-> [key |-> key, pressed |-> pressed, fresh |-> TRUE],
          seen |-> IF ~wm \/ full \/ is_duplicate(s, key, pressed) THEN s.seen
                   ELSE IF pressed THEN s.seen \cup {key} ELSE s.seen \ {key},
          con |-> IF wm \/ ~pressed \/ is_duplicate(s, key, pressed) THEN s.con
                  ELSE ToConsole(s.con, key, ctrl)]

Deliver(s) == last' = s.last /\ seen' = s.seen /\ con' = s.con

\* A message to the WM may meet a full mailbox.
Box(full) == /\ full => wm /\ lost < MaxLost
             /\ lost' = lost + (IF full THEN 1 ELSE 0)

------------------------------------------------------------------------------
\* keyboard.c.

\* Bytes of a key: arrows have a prefix.
Make(k) == IF k \in Arrows THEN <<"E0", <<k, TRUE>> >> ELSE << <<k, TRUE>> >>
Break(k) == IF k \in Arrows THEN <<"E0", <<k, FALSE>> >> ELSE << <<k, FALSE>> >>

Upper(b, k) == IF k \in Letters THEN b.shift # b.caps ELSE b.shift

\* keyboard_scancode_to_key: [kb, key, pressed].  A release gives the code its press
\* gave; a code behind a prefix that is no extended key gives nothing.
keyboard_scancode_to_key(b, byte) ==
    LET k == byte[1] make == byte[2]
        Plainly(b1, key) == [kb |-> [b1 EXCEPT !.ext = FALSE], key |-> key, pressed |-> make]
    IN  IF byte = "E0" THEN [kb |-> [b EXCEPT !.ext = TRUE], key |-> None, pressed |-> TRUE]
        ELSE CASE k = "ctrl" -> Plainly([b EXCEPT !.ctrl = make], None)
               [] b.ext /\ k \in Arrows -> Plainly(b, <<k, FALSE>>)
               [] b.ext \/ k \in Arrows -> Plainly(b, None)
               [] k = "shift" -> Plainly([b EXCEPT !.shift = make], None)
               [] k = "caps" -> Plainly([b EXCEPT !.caps = IF make THEN ~@ ELSE @], None)
               [] make /\ k = "c" /\ b.ctrl -> Plainly(b, CtrlC)
               [] make -> Plainly([b EXCEPT !.down[k] = <<k, Upper(b, k)>>], <<k, Upper(b, k)>>)
               [] OTHER -> Plainly([b EXCEPT !.down[k] = None], b.down[k])

\* keyboard_irq_handler: everything in the port is read, one byte after the other;
\* what the mouse has put there as well, which is some scan code then.
RECURSIVE ReadPort(_, _, _, _)
ReadPort(bytes, b, s, full) ==
    IF bytes = << >> THEN [kb |-> b, s |-> s]
    ELSE LET r == keyboard_scancode_to_key(b, Head(bytes).byte) IN
         ReadPort(Tail(bytes), r.kb,
                  input_keyboard_event_ex(s, r.key, r.pressed, r.kb.ctrl, full), full)

keyboard_irq_handler ==
    \E n \in 1..Len(port), full \in BOOLEAN, k \in Letters :
      \E r \in {
        LET bytes == [i \in 1..n |-> IF port[i].aux THEN [aux |-> TRUE, byte |-> <<k, TRUE>>]
                                     ELSE port[i]]
        IN  ReadPort(bytes, kb, State, full)} :
            /\ ~port[1].aux /\ Box(full)
            /\ kb' = r.kb /\ Deliver(r.s) /\ port' = SubSeq(port, n + 1, Len(port))
            /\ clean' = (clean /\ ~full /\ \A i \in 1..n : ~port[i].aux)
            /\ UNCHANGED <<held, slots, plugged, wm, mouse, strokes, moves>>

------------------------------------------------------------------------------
\* usb_hid.c.

hid_decode_usage(k, shift, ctrl) ==
    IF ctrl /\ k = "c" THEN CtrlC ELSE <<k, shift /\ k \notin Arrows>>

Slot(sl, k) == {j \in 1..NSlots : sl[j].usage = k}

\* A key of the report: fires when it is new, or when its repeat is due.
RECURSIVE Reported(_, _, _, _, _)
Reported(ks, sl, s, sh, full) ==
    IF ks = {} THEN [sl |-> sl, s |-> s]
    ELSE LET k == CHOOSE x \in ks : TRUE
             key == hid_decode_usage(k, sh.shift, sh.ctrl)
             s1 == input_keyboard_event_ex(s, key, TRUE, sh.ctrl, full)
             mine == Slot(sl, k)
             free == Slot(sl, "none")
         IN  IF mine = {} /\ free = {} THEN Reported(ks \ {k}, sl, s1, sh, full)
             ELSE IF mine = {}
             THEN Reported(ks \ {k}, [sl EXCEPT ![Min(free)] = [usage |-> k, left |-> Delay]], s1, sh, full)
             ELSE IF sl[Min(mine)].left = 0
             THEN Reported(ks \ {k}, [sl EXCEPT ![Min(mine)].left = Rate], s1, sh, full)
             ELSE Reported(ks \ {k}, sl, s, sh, full)

\* Slots of keys that are not in the report are freed, and the keys released with the
\* modifiers of this report.
RECURSIVE Released(_, _, _, _, _, _)
Released(j, ks, sl, s, sh, full) ==
    IF j > NSlots THEN [sl |-> sl, s |-> s]
    ELSE IF sl[j].usage = "none" \/ sl[j].usage \in ks THEN Released(j + 1, ks, sl, s, sh, full)
    ELSE Released(j + 1, ks, [sl EXCEPT ![j] = NoSlot],
                  input_keyboard_event_ex(s, hid_decode_usage(sl[j].usage, sh.shift, sh.ctrl),
                                          FALSE, sh.ctrl, full), sh, full)

usb_hid_keyboard_report(sl, s, full) ==
    LET sh == [shift |-> "shift" \in held, ctrl |-> "ctrl" \in held]
        r == Reported(held \ Modifiers, sl, s, sh, full)
    IN  Released(1, held \ Modifiers, r.sl, r.s, sh, full)

\* timer_irq_handler, as far as input goes: the clock moves on, then usb_poll hands
\* over a report if there is one, then Ctrl+C is handled.
Tick ==
    /\ \E full, report \in BOOLEAN :
        LET s == [State EXCEPT !.last.fresh = FALSE]
            sl == [j \in 1..NSlots |-> [slots[j] EXCEPT !.left = Max({0, @ - 1})]]
        IN  \E r \in {IF report THEN usb_hid_keyboard_report(sl, s, full) ELSE [sl |-> sl, s |-> s]} :
            /\ report => plugged
            /\ full => report
            /\ Box(full)
            /\ slots' = r.sl /\ last' = r.s.last /\ seen' = r.s.seen
            /\ kb' = [kb EXCEPT !.ctrl = IF report THEN "ctrl" \in held ELSE @]
            /\ con' = [r.s.con EXCEPT !.ctrlc = FALSE]
            /\ clean' = (clean /\ ~full)
    /\ UNCHANGED <<held, port, plugged, wm, mouse, strokes, moves>>

\* xhci_teardown_slot and usb_hid_keyboard_detached; and a keyboard that comes.
Plug ==
    /\ lost < MaxLost /\ lost' = lost + 1 /\ plugged' = ~plugged
    /\ IF plugged THEN /\ slots' = [j \in 1..NSlots |-> NoSlot]
                       /\ kb' = [kb EXCEPT !.ctrl = FALSE]
       ELSE UNCHANGED <<slots, kb>>
    /\ clean' = FALSE
    /\ UNCHANGED <<held, port, last, wm, seen, con, mouse, strokes, moves>>

------------------------------------------------------------------------------
\* mouse.c.  A packet is a byte with bit 3 and two of movement; bit 3 of those may
\* be set as well.

Clamp(x) == IF x < 0 THEN 0 ELSE IF x >= Width THEN Width - 1 ELSE x

\* mouse_irq_handler, input_mouse_event.  The packet is [sync bit, movement].
mouse_irq_handler ==
    /\ port # << >> /\ port[1].aux
    /\ port' = Tail(port)
    /\ LET byte == port[1].byte
           p == Append(mouse.packet, byte)
       IN  mouse' = IF ~mouse.up \/ (mouse.packet = << >> /\ ~byte[1]) THEN mouse
                    ELSE IF Len(p) < 3 THEN [mouse EXCEPT !.packet = p]
                    ELSE [mouse EXCEPT !.packet = << >>, !.x = Clamp(@ + p[2][2])]
    /\ UNCHANGED <<held, kb, slots, plugged, last, wm, seen, con, clean, strokes, moves, lost>>

------------------------------------------------------------------------------
\* The user, the WM and the programs.

Stroke(k) ==
    /\ strokes < MaxStrokes /\ strokes' = strokes + 1
    /\ held' = IF k \in held THEN held \ {k} ELSE held \cup {k}
    /\ LET bytes == IF k \in held THEN Break(k) ELSE Make(k) IN
           port' = port \o [i \in 1..Len(bytes) |-> [aux |-> FALSE, byte |-> bytes[i]]]
    /\ Len(port') <= MaxPort
    /\ clean' = (clean /\ (k \in Modifiers => held \ Modifiers = {} /\ port = << >>
                                               /\ \A j \in 1..NSlots : slots[j] = NoSlot))
    /\ UNCHANGED <<kb, slots, plugged, last, wm, seen, con, mouse, moves, lost>>

\* A mouse that mouse_init has not enabled sends nothing.
Move ==
    /\ mouse.up /\ moves < MaxMoves /\ moves' = moves + 1 /\ Len(port) + 3 <= MaxPort
    /\ \E d \in {-1, 1}, bit \in BOOLEAN :
        port' = port \o << [aux |-> TRUE, byte |-> <<TRUE, 0>>],
                           [aux |-> TRUE, byte |-> <<bit, d>>],
                           [aux |-> TRUE, byte |-> <<bit, d>>] >>
    /\ UNCHANGED <<held, kb, slots, plugged, last, wm, seen, con, mouse, clean, strokes, lost>>

\* A WM registers, or goes, while no key is down.
SetWm ==
    /\ lost < MaxLost /\ lost' = lost + 1 /\ wm' = ~wm /\ seen' = {}
    /\ clean' = (clean /\ held = {} /\ port = << >> /\ \A j \in 1..NSlots : slots[j] = NoSlot)
    /\ UNCHANGED <<held, port, kb, slots, plugged, last, con, mouse, strokes, moves>>

console_input_read ==
    /\ con.count > 0
    /\ \E max \in 1..BufSize : con' = [con EXCEPT !.count = Max({0, @ - max})]
    /\ UNCHANGED <<held, port, kb, slots, plugged, last, wm, seen, mouse, clean, strokes, moves, lost>>

Next ==
    \/ keyboard_irq_handler \/ mouse_irq_handler \/ Tick
    \/ Plug \/ SetWm \/ console_input_read \/ Move
    \/ \E k \in KeyNames : Stroke(k)

Spec == Init /\ [][Next]_vars

------------------------------------------------------------------------------
=============================================================================
