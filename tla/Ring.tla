-------------------------------- MODULE Ring --------------------------------
(***************************************************************************)
(* The ring buffer that several parts of the kernel are built on: the pipe *)
(* (fs/vfs/vfs.c), the console input (drivers/input/input.c), the mailbox  *)
(* (system/ipc/mailbox.c) and the sound ring (system/syscall/syscall.c).   *)
(* A ring of n slots is a record: buf holds the slots, rp is the next slot *)
(* to read, wp the next to write, count the number of slots in use.        *)
(***************************************************************************)
EXTENDS Integers, Sequences

RingType(n, Item) ==
    [buf : [0 .. n - 1 -> Item], rp : 0 .. n - 1, wp : 0 .. n - 1, count : 0 .. n]

EmptyRing(n, item) ==
    [buf |-> [i \in 0 .. n - 1 |-> item], rp |-> 0, wp |-> 0, count |-> 0]

Space(r, n) == n - r.count

(* Fault: a write that reaches the end of the buffer stays there. *)
PutWithoutWrap(r, n, s) ==
    [buf |-> [i \in 0 .. n - 1 |->
                IF i >= r.wp /\ i - r.wp < Len(s) THEN s[i - r.wp + 1]
                ELSE r.buf[i]],
     rp |-> r.rp,
     wp |-> (r.wp + Len(s)) % n,
     count |-> r.count + Len(s)]

(* The items of s go into the next Len(s) slots.  There must be space. *)
Put(r, n, s) ==
    [buf |-> [i \in 0 .. n - 1 |->
                LET k == (i - r.wp) % n
                IN  IF k < Len(s) THEN s[k + 1] ELSE r.buf[i]],
     rp |-> r.rp,
     wp |-> (r.wp + Len(s)) % n,
     count |-> r.count + Len(s)]

(* The next k items are taken out.  There must be as many. *)
Take(r, n, k) ==
    [buf |-> r.buf, rp |-> (r.rp + k) % n, wp |-> r.wp, count |-> r.count - k]

(* The items in the order they will be taken *)
Contents(r, n) == [i \in 1 .. r.count |-> r.buf[(r.rp + i - 1) % n]]

(* write_pos is where the slots in use end *)
Aligned(r, n) == r.wp = (r.rp + r.count) % n
=============================================================================
