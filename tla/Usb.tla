-------------------------------- MODULE Usb ---------------------------------
(***************************************************************************)
(* The USB driver (drivers/usb/xhci.c): ports, slots, the command ring and *)
(* the transfer rings, the one event ring that every wait drains, the      *)
(* registry of mass storage devices, and plugging in and out.              *)
(*                                                                         *)
(* The driver is sequential: the boot scan, usb_poll() in the timer        *)
(* handler, or a read or write of blocks in a system call, which runs with *)
(* interrupts off but for its waits.  act is what it is doing.  While it   *)
(* waits, timer ticks come, the controller completes what it was given in  *)
(* any order between rings, devices come and go, and an answer may be      *)
(* later than the timeout.                                                 *)
(*                                                                         *)
(* Memory does not run out.  A ring that is freed and allocated again for  *)
(* the same slot gets the page it had.                                     *)
(***************************************************************************)
EXTENDS Integers, Sequences, FiniteSets, FiniteSetsExt, SequencesExt

CONSTANTS
    MaxPort, MaxSlot,    \* xhci_max_ports, XHCI_MAX_SLOTS_SUPPORTED
    MaxMsd,              \* XHCI_MAX_MSD_DEVICES
    RingTrbs,            \* XHCI_RING_USABLE_TRBS
    Keyboards, Sticks, Gadgets,  \* devices; a gadget has no interface the driver knows
    MaxTimeouts,         \* bound: waits that time out
    MaxEvents,           \* bound: events that nobody has read
    MaxMoves,            \* bound: devices plugged in or out
    CtrlC                \* Ctrl+C is typed

VARIABLES
    plug,     \* the device in each port, 0 for none
    ped,      \* ports that are enabled
    csc,      \* ports whose connect status changed
    hw,       \* the controller's slots: -1 off, 0 without a device, else the port
    todo,     \* TRBs the controller has not completed
    ev,       \* the event ring
    enq,      \* enqueue index of every ring
    slot,     \* xhci_slots
    msd,      \* xhci_msd_devices
    act,      \* what the driver does
    depth,    \* xhci_sync_wait_depth
    busy,     \* xhci_enum_busy
    pending,  \* shell_ctrl_c_pending
    timeouts, \* timeouts so far
    moves     \* pluggings so far

vars == <<plug, ped, csc, hw, todo, ev, enq, slot, msd, act, depth, busy, pending, timeouts, moves>>

Ports == 1..MaxPort
Slots == 1..MaxSlot
Devices == Keyboards \cup Sticks \cup Gadgets
Cmd == <<0, "cmd">>
Rings == {Cmd} \cup (Slots \X {"ep0", "in", "out"})

Free == [in_use |-> FALSE, port |-> 0, dev |-> 0, class |-> "none", hid |-> FALSE, armed |-> 0, idx |-> 0]
NoWait == <<Cmd, -1>>
Idle == [fn |-> "idle", boot |-> FALSE, port |-> 0, slot |-> 0, dev |-> 0, step |-> 0, want |-> NoWait]

Live(sl, p) == {s \in Slots : sl[s].in_use /\ sl[s].port = p}
Ready(sl) == \E s \in Slots : sl[s].in_use /\ sl[s].class = "hid"

------------------------------------------------------------------------------
\* What each activity sends and waits for: <<ring, request>>, step by step.

\* xhci_enumerate_device.
Script(dev) ==
    << <<"cmd", "enable">>, <<"cmd", "address">>, <<"ep0", "desc8">>, <<"cmd", "evaluate">>, <<"ep0", "desc">>,
       <<"ep0", "header">>, <<"ep0", "config">>, <<"ep0", "setconfig">> >>
    \o (CASE dev \in Keyboards -> << <<"ep0", "protocol">>, <<"cmd", "endpoint">> >>
          [] dev \in Sticks -> << <<"cmd", "endpoint">>, <<"out", "ready">>, <<"in", "ready">>,
                                  <<"out", "capacity">>, <<"in", "capacity">>, <<"in", "capacity">> >>
          [] OTHER -> << >>)

\* xhci_msd_command: the command block, the data, the status.
Transfer(dir) == << <<"out", "cbw">>, <<dir, "data">>, <<"in", "csw">> >>

Steps(a) ==
    CASE a.fn = "enum" -> Script(a.dev)
      [] a.fn = "teardown" -> << <<"cmd", "disable">> >>
      [] a.fn = "read" -> Transfer("in")
      [] a.fn = "write" -> Transfer("out")

\* Where it goes on after an error: the next step where the result is not looked at,
\* behind TEST UNIT READY, or nowhere (0).
OnError(a) ==
    LET op == Steps(a)[a.step][2]
    IN  CASE op \in {"evaluate", "protocol"} -> a.step + 1
          [] op = "ready" -> IF Steps(a)[a.step + 1][2] = "ready" THEN a.step + 2 ELSE a.step + 1
          [] OTHER -> 0

------------------------------------------------------------------------------
\* Rings and events.

\* xhci_ring_enqueue: the address of a TRB is its place in its ring.
RingOf(a) == LET kind == Steps(a)[a.step][1] IN IF kind = "cmd" THEN Cmd ELSE <<a.slot, kind>>

\* Fault: the address in the event is not compared.
Matches_type(e, want) == e.op # "hid" /\ (e.ptr[1] = Cmd) = (want[1] = Cmd)

\* xhci_wait_for_event_impl: the event a waiter waits for.
Matches(e, want) == e.ptr = want

\* Fault: a report is decoded and the endpoint not armed again.
service_drop(sl, s) == sl

\* xhci_service_hid_event: any transfer event of a slot with a HID endpoint.
service_hid_event(sl, s) == IF sl[s].in_use /\ sl[s].hid THEN [sl EXCEPT ![s].armed = @ + 1] ELSE sl

Serve(sl, e) == IF e.ptr[1] = Cmd THEN sl ELSE service_hid_event(sl, e.slot)

------------------------------------------------------------------------------
\* What the driver has made of its state, w, before it waits or returns.
Now == [slot |-> slot, msd |-> msd, ev |-> ev, enq |-> enq, todo |-> todo, depth |-> depth]
Commit(w) ==
    slot' = w.slot /\ msd' = w.msd /\ ev' = w.ev /\ enq' = w.enq /\ todo' = w.todo /\ depth' = w.depth

\* The rest of usb_poll: the event ring is drained when there is a HID device.
Drained(w) ==
    IF Ready(w.slot) THEN [w EXCEPT !.slot = FoldLeft(Serve, @, w.ev), !.ev = << >>] ELSE w

\* Activity a sends its next request and waits.
Send(a, w) ==
    LET r == RingOf(a) IN
    /\ act' = [a EXCEPT !.want = <<r, w.enq[r]>>]
    /\ Commit([w EXCEPT !.enq[r] = (@ + 1) % RingTrbs, !.depth = @ + 1,
                        !.todo = Append(@, [ptr |-> <<r, w.enq[r]>>, op |-> Steps(a)[a.step][2], slot |-> a.slot,
                                            port |-> a.port, ok |-> FALSE, late |-> FALSE])])
    /\ UNCHANGED pending

\* xhci_poll_hotplug from port p on (at boot the scan of xhci_init), then the rest
\* of usb_poll.  A port whose status changed is passed over when it has a device and
\* a slot, or neither.
PortWork(sl, boot, q) ==
    IF boot THEN plug[q] # 0 ELSE q \in csc /\ (plug[q] # 0) = (Live(sl, q) = {})

Poll(w, boot, p) ==
    \E work \in {{q \in p..MaxPort : PortWork(w.slot, boot, q)}} :
        /\ csc' = IF boot THEN csc ELSE csc \ (IF work = {} THEN p..MaxPort ELSE p..Min(work))
        /\ IF work = {}
           THEN /\ act' = Idle
                /\ Commit(IF boot THEN w ELSE Drained(w))
                /\ pending' = FALSE
           ELSE LET q == Min(work) IN
                IF plug[q] # 0
                THEN /\ act' = [Idle EXCEPT !.fn = "reset", !.boot = boot, !.port = q]
                     /\ Commit(w)
                     /\ UNCHANGED pending
                ELSE Send([Idle EXCEPT !.fn = "teardown", !.port = q, !.step = 1,
                                       !.slot = Min(Live(w.slot, q))], w)
        /\ busy' = (act'.fn = "reset")

\* What a step of xhci_enumerate_device leaves behind when it succeeds.
Effect(a, s, w) ==
    LET op == Steps(a)[a.step][2] IN
    CASE op = "enable" ->
            [w EXCEPT !.slot[s] = [Free EXCEPT !.in_use = TRUE, !.port = a.port, !.dev = a.dev],
                      !.enq = [r \in Rings |-> IF r[1] = s THEN 0 ELSE @[r]]]
      [] op = "endpoint" /\ a.dev \in Keyboards ->
            [w EXCEPT !.slot[a.slot].class = "hid", !.slot[a.slot].hid = TRUE, !.slot[a.slot].armed = 1]
      [] op = "endpoint" /\ a.dev \in Sticks -> [w EXCEPT !.slot[a.slot].class = "msd"]
      [] a.dev \in Sticks /\ a.step = Len(Steps(a)) /\ Len(w.msd) < MaxMsd ->
            [w EXCEPT !.msd = Append(@, [in_use |-> TRUE, slot |-> a.slot, dev |-> a.dev]),
                      !.slot[a.slot].idx = Len(w.msd) + 1]
      [] OTHER -> w

\* Fault: the entry of the registry is not cleared.
teardown_keep(w, s) == [w EXCEPT !.slot[s] = Free]

\* xhci_teardown_slot, after Disable Slot was answered or not.
xhci_teardown_slot(w, s) ==
    [w EXCEPT !.slot[s] = Free,
              !.msd = IF w.slot[s].class = "msd" /\ w.slot[s].idx # 0
                      THEN [@ EXCEPT ![w.slot[s].idx].in_use = FALSE] ELSE @]

\* The wait of a is over: its answer was a success or not, with the slot s in it.
Resume(a, ok, s, w) ==
    CASE a.fn = "teardown" -> Poll(xhci_teardown_slot(w, a.slot), FALSE, a.port + 1)
      [] a.fn = "enum" ->
            \E w1 \in {IF ok THEN Effect(a, s, w) ELSE w}, i \in {IF ok THEN a.step + 1 ELSE OnError(a)} :
            \E j \in IF i = 4 THEN {4, 5} ELSE {i} :  \* Evaluate Context is not always needed
                IF j \notin DOMAIN Steps(a) THEN Poll(w1, a.boot, a.port + 1)
                ELSE /\ Send([a EXCEPT !.step = j, !.slot = IF a.step = 1 THEN s ELSE @], w1)
                     /\ UNCHANGED <<csc, busy>>
      [] OTHER ->
            IF ok /\ a.step < 3 THEN Send([a EXCEPT !.step = @ + 1], w) /\ UNCHANGED <<csc, busy>>
            ELSE act' = Idle /\ Commit(w) /\ UNCHANGED <<csc, busy, pending>>

------------------------------------------------------------------------------
Init ==
    /\ plug \in [Ports -> Devices \cup {0}] /\ \A p, q \in Ports : plug[p] = plug[q] => p = q \/ plug[p] = 0
    /\ csc = {p \in Ports : plug[p] # 0} /\ ped = {}
    /\ hw = [s \in Slots |-> -1]
    /\ todo = << >> /\ ev = << >> /\ enq = [r \in Rings |-> 0]
    /\ slot = [s \in Slots |-> Free] /\ msd = << >>
    /\ act = [Idle EXCEPT !.fn = "boot", !.boot = TRUE]
    /\ depth = 0 /\ busy = TRUE /\ pending = FALSE /\ timeouts = 0 /\ moves = 0

\* The scan of xhci_init begins.
Boot == act.fn = "boot" /\ Poll(Now, TRUE, 1) /\ UNCHANGED <<plug, ped, hw, timeouts, moves>>

\* The timer handler: usb_poll, which returns at once during a wait and only drains
\* the ring during an enumeration (in pit_wait_ms() of a port reset), then
\* shell_handle_ctrl_c when Ctrl+C was typed: the process the tick interrupted is
\* terminated when it is the foreground process, and what it did is never finished.
Tick ==
    /\ act.fn # "boot"
    /\ IF depth = 0 /\ ~busy THEN act.fn = "idle" /\ Poll(Now, FALSE, 1)
       ELSE /\ Commit(IF depth = 0 THEN Drained(Now) ELSE Now)
            /\ \E typed \in {pending, CtrlC /\ depth = 0 /\ ev # << >>} :
                   act' \in {act, IF typed /\ ~act.boot THEN Idle ELSE act}
            /\ pending' = FALSE
            /\ UNCHANGED <<csc, busy>>
    /\ UNCHANGED <<plug, ped, hw, timeouts, moves>>

\* xhci_port_reset returns, and xhci_check_port looks at PED.
ResetDone ==
    /\ act.fn = "reset"
    /\ \E enabled \in {FALSE, plug[act.port] # 0} :
         /\ ped' = IF enabled THEN ped \cup {act.port} ELSE ped
         /\ IF enabled
            THEN Send([act EXCEPT !.fn = "enum", !.dev = plug[act.port], !.step = 1], Now) /\ UNCHANGED <<csc, busy>>
            ELSE Poll(Now, act.boot, act.port + 1)
    /\ UNCHANGED <<plug, hw, timeouts, moves>>

\* xhci_msd_read_blocks and xhci_msd_write_blocks in a system call.
Block ==
    /\ act.fn = "idle"
    /\ \E i \in DOMAIN msd, fn \in {"read", "write"} :
         /\ msd[i].in_use
         /\ Send([Idle EXCEPT !.fn = fn, !.slot = msd[i].slot, !.dev = msd[i].dev, !.step = 1], Now)
    /\ UNCHANGED <<plug, ped, csc, hw, busy, timeouts, moves>>

\* One round of xhci_wait_for_event_impl: an event is taken off the ring.
Event ==
    /\ act.want # NoWait /\ ev # << >>
    /\ \E e \in {Head(ev)}, w \in {[Now EXCEPT !.ev = Tail(ev)]} :
         IF Matches(e, act.want)
         THEN Resume([act EXCEPT !.want = NoWait], e.ok, e.slot, [w EXCEPT !.depth = @ - 1])
         ELSE /\ Commit([w EXCEPT !.slot = Serve(@, e)])
              /\ pending' \in {pending, CtrlC /\ e.op = "hid"}
              /\ UNCHANGED <<csc, act, busy>>
    /\ UNCHANGED <<plug, ped, hw, timeouts, moves>>

\* No event came in time.  An answer to what was sent is late from now on.
Timeout ==
    /\ act.want # NoWait /\ ev = << >> /\ timeouts < MaxTimeouts
    /\ timeouts' = timeouts + 1
    /\ Resume([act EXCEPT !.want = NoWait], FALSE, 0,
              [Now EXCEPT !.depth = @ - 1,
                          !.todo = [k \in DOMAIN @ |-> [@[k] EXCEPT !.late = @ \/ todo[k].ptr = act.want]]])
    /\ UNCHANGED <<plug, ped, hw, moves>>

\* The controller completes the oldest TRB of a ring.  Disabling a slot ends what it had to do.
Complete ==
    /\ Len(ev) < MaxEvents
    /\ \E k \in DOMAIN todo : \E t \in {todo[k]}, ok \in BOOLEAN :
         /\ \A j \in 1..(k - 1) : todo[j].ptr[1] # t.ptr[1]
         /\ IF t.op = "enable"
            THEN LET off == {s \in Slots : hw[s] = -1} IN
                 /\ ok = (off # {})
                 /\ hw' = IF ok THEN [hw EXCEPT ![Min(off)] = 0] ELSE hw
                 /\ ev' = Append(ev, [t EXCEPT !.ok = ok, !.slot = IF ok THEN Min(off) ELSE 0])
            ELSE /\ ok => \/ t.op = "disable"
                          \/ t.op = "address" /\ t.port \in ped
                          \/ hw[t.slot] > 0
                 /\ hw' = [hw EXCEPT ![t.slot] = CASE t.op = "disable" -> -1
                                                   [] t.op = "address" /\ ok -> t.port
                                                   [] OTHER -> @]
                 /\ ev' = Append(ev, [t EXCEPT !.ok = ok])
         /\ todo' = SelectSeq(RemoveAt(todo, k), LAMBDA u : t.op = "disable" => u.slot # t.slot)
    /\ UNCHANGED <<plug, ped, csc, enq, slot, msd, act, depth, busy, pending, timeouts, moves>>

\* A key is pressed: the report goes to a TRB that waits for it.
Report ==
    /\ Len(ev) < MaxEvents
    /\ \E s \in Slots :
         /\ slot[s].armed > 0 /\ hw[s] > 0
         /\ slot' = [slot EXCEPT ![s].armed = @ - 1]
         /\ ev' = Append(ev, [ptr |-> <<<<s, "hid">>, 0>>, op |-> "hid", slot |-> s, port |-> 0,
                              ok |-> TRUE, late |-> FALSE])
    /\ UNCHANGED <<plug, ped, csc, hw, todo, enq, msd, act, depth, busy, pending, timeouts, moves>>

Plug ==
    /\ moves < MaxMoves /\ moves' = moves + 1
    /\ \E p \in Ports, d \in Devices :
         /\ plug[p] = 0 /\ \A q \in Ports : plug[q] # d
         /\ plug' = [plug EXCEPT ![p] = d] /\ csc' = csc \cup {p}
    /\ UNCHANGED <<ped, hw, todo, ev, enq, slot, msd, act, depth, busy, pending, timeouts>>

Unplug ==
    /\ moves < MaxMoves /\ moves' = moves + 1
    /\ \E p \in Ports :
         /\ plug[p] # 0
         /\ plug' = [plug EXCEPT ![p] = 0] /\ csc' = csc \cup {p} /\ ped' = ped \ {p}
         /\ hw' = [s \in Slots |-> IF hw[s] = p THEN 0 ELSE hw[s]]
    /\ UNCHANGED <<todo, ev, enq, slot, msd, act, depth, busy, pending, timeouts>>

Next ==
    \/ Boot \/ Tick \/ ResetDone \/ Block \/ Event \/ Timeout
    \/ Complete \/ Report \/ Plug \/ Unplug

Spec == Init /\ [][Next]_vars

------------------------------------------------------------------------------
\* The answer a wait takes is the answer to what the waiter sent, however late an
\* answer to an earlier request came and whoever had the slot before.
AnswerIsOwn == act.want # NoWait /\ ev # << >> /\ Matches(Head(ev), act.want) => ~Head(ev).late

\* A keyboard is always listened to: its endpoint has a TRB, or the report that used
\* it up is still to be read, whoever drains the event ring.
KeyboardHeard ==
    \A s \in Slots : slot[s].in_use /\ slot[s].hid =>
        slot[s].armed > 0 \/ \E k \in DOMAIN ev : ev[k].op = "hid" /\ ev[k].slot = s

\* An index that was given to a mount reaches the device it was given for or none,
\* however slots are used again.
IndexReachesItsDevice ==
    \A i \in DOMAIN msd : msd[i].in_use =>
        \E x \in {slot[msd[i].slot]} : x.in_use /\ x.class = "msd" /\ x.idx = i /\ x.dev = msd[i].dev

\* The comment at xhci_sync_wait_depth: greater than 0 means that a synchronous wait
\* is going on.
WaitIsGoingOn == depth > 0 => act.want # NoWait
=============================================================================
