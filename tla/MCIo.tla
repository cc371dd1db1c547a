-------------------------------- MODULE MCIo --------------------------------
(***************************************************************************)
(* Descriptors and pipes and the input path for TLC, checked side by side: *)
(* one of them is chosen at the start and runs.  x1 .. x14 are the         *)
(* variables of Input, in the order of the module, or Off; those of Files  *)
(* stay as they begin unless Files runs.                                   *)
(***************************************************************************)
EXTENDS Files

VARIABLES which, x1, x2, x3, x4, x5, x6, x7, x8, x9, x10, x11, x12, x13, x14

Off == "off"
MCTexts == {<<0>>, <<1, 0, 1>>}

\* A letter and Ctrl; an arrow, whose code has two bytes, Ctrl and the mouse.
Letter == INSTANCE Input WITH
    Letters <- {"c"}, Digits <- {}, Arrows <- {}, Modifiers <- {"ctrl"}, NSlots <- 1, Delay <- 1, Rate <- 0,
    BufSize <- 1, MaxPort <- 3, MaxStrokes <- 4, MaxMoves <- 0, MaxLost <- 1, Width <- 2,
    held <- x1, port <- x2, kb <- x3, slots <- x4, plugged <- x5, last <- x6, wm <- x7, seen <- x8,
    con <- x9, mouse <- x10, clean <- x11, strokes <- x12, moves <- x13, lost <- x14

Arrow == INSTANCE Input WITH
    Letters <- {}, Digits <- {}, Arrows <- {"up"}, Modifiers <- {"ctrl"}, NSlots <- 1, Delay <- 1, Rate <- 0,
    BufSize <- 1, MaxPort <- 3, MaxStrokes <- 4, MaxMoves <- 1, MaxLost <- 1, Width <- 2,
    held <- x1, port <- x2, kb <- x3, slots <- x4, plugged <- x5, last <- x6, wm <- x7, seen <- x8,
    con <- x9, mouse <- x10, clean <- x11, strokes <- x12, moves <- x13, lost <- x14

others == <<x1, x2, x3, x4, x5, x6, x7, x8, x9, x10, x11, x12, x13, x14>>
AllOff ==
    /\ x1 = Off /\ x2 = Off /\ x3 = Off /\ x4 = Off /\ x5 = Off /\ x6 = Off /\ x7 = Off
    /\ x8 = Off /\ x9 = Off /\ x10 = Off /\ x11 = Off /\ x12 = Off /\ x13 = Off /\ x14 = Off

\* The parts that stop when their bound on strokes is used up.
Bounded == {"letter", "arrow"}

MCInit ==
    /\ Init
    /\ \/ which = "files" /\ AllOff
       \/ which = "letter" /\ Letter!Init
       \/ which = "arrow" /\ Arrow!Init

MCNext ==
    /\ UNCHANGED which
    /\ \/ which = "files" /\ Next /\ UNCHANGED others
       \/ which = "letter" /\ Letter!Next /\ UNCHANGED vars
       \/ which = "arrow" /\ Arrow!Next /\ UNCHANGED vars
       \/ which \in Bounded /\ UNCHANGED <<vars, others>>

MCSpec == MCInit /\ [][MCNext]_<<vars, which, others>>

=============================================================================
