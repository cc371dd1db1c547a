------------------------------- MODULE Stream -------------------------------
(***************************************************************************)
(* What a pipe promises: bytes come out in the order they went in, each    *)
(* once, and never more than Size[c] of them wait inside channel c.  A     *)
(* channel that is closed for good loses what is left in it.               *)
(***************************************************************************)
EXTENDS Integers, Sequences

CONSTANTS Channel, Size

VARIABLES
    open,
    queue,
    moved    \* the bytes the last step took from a writer or gave to a reader

Init ==
    /\ open \in [Channel -> BOOLEAN]
    /\ queue = [c \in Channel |-> << >>]
    /\ moved = << >>

Open(c) ==
    /\ ~open[c]
    /\ open' = [open EXCEPT ![c] = TRUE]
    /\ moved' = << >>
    /\ UNCHANGED queue

Write(c) ==
    /\ open[c] /\ moved' # << >>
    /\ Len(queue[c]) + Len(moved') <= Size[c]
    /\ queue' = [queue EXCEPT ![c] = @ \o moved']
    /\ UNCHANGED open

Read(c) ==
    /\ open[c] /\ moved' # << >>
    /\ queue[c] = moved' \o queue'[c]
    /\ queue' = [queue EXCEPT ![c] = queue'[c]]
    /\ UNCHANGED open

(* One process may hold the last ends of several channels. *)
Close(C) ==
    /\ C # {} /\ \A c \in C : open[c]
    /\ open' = [c \in Channel |-> open[c] /\ c \notin C]
    /\ queue' = [c \in Channel |-> IF c \in C THEN << >> ELSE queue[c]]
    /\ moved' = << >>

(* Descriptors and processes come and go. *)
Rest == moved' = << >> /\ UNCHANGED <<open, queue>>

Next ==
    \/ \E c \in Channel : Open(c) \/ Write(c) \/ Read(c)
    \/ \E C \in SUBSET Channel : Close(C)
    \/ Rest

Spec == Init /\ [][Next]_<<open, queue, moved>>
=============================================================================
