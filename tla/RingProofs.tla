----------------------------- MODULE RingProofs -----------------------------
(***************************************************************************)
(* The ring buffer keeps its items in order, for every size and whatever   *)
(* the items are: proofs about the operators of module Ring.               *)
(***************************************************************************)
EXTENDS Ring, SequenceTheorems, TLAPS

(* The time a leaf may take: SMT first, then Zenon. *)
USE SMTT(60), ZenonT(60)

(* b slots on from slot a, with the wrap at the end of the buffer. *)
LEMMA ModAdd ==
    ASSUME NEW n \in Nat \ {0}, NEW a \in 0 .. n - 1, NEW b \in 0 .. n
    PROVE  (a + b) % n = IF a + b < n THEN a + b ELSE a + b - n
BY Z3

(* The way from slot w to slot i, with the wrap. *)
LEMMA ModSub ==
    ASSUME NEW n \in Nat \ {0}, NEW i \in 0 .. n - 1, NEW w \in 0 .. n - 1
    PROVE  (i - w) % n = IF i >= w THEN i - w ELSE i - w + n
BY Z3

(* A slot is a slot, however far on from another one. *)
LEMMA ModRange ==
    ASSUME NEW n \in Nat \ {0}, NEW a \in 0 .. n - 1, NEW b \in 0 .. n
    PROVE  (a + b) % n \in 0 .. n - 1
<1>1. (a + b) % n = IF a + b < n THEN a + b ELSE a + b - n
  BY ModAdd, Zenon
<1> QED
  BY <1>1

(* Steps of b and of c slots make a step of b + c slots. *)
LEMMA ModSum ==
    ASSUME NEW n \in Nat \ {0}, NEW a \in 0 .. n - 1, NEW b \in 0 .. n,
           NEW c \in 0 .. n - b
    PROVE  (((a + b) % n) + c) % n = (a + (b + c)) % n
<1> DEFINE m == (a + b) % n
<1>1. m = IF a + b < n THEN a + b ELSE a + b - n
  BY ModAdd, Zenon
<1>2. m \in 0 .. n - 1
  BY ModRange
<1> HIDE DEF m
<1>2a. c \in 0 .. n
  OBVIOUS
<1>3. (m + c) % n = IF m + c < n THEN m + c ELSE m + c - n
  BY <1>2, <1>2a, ModAdd, Zenon
<1>4. b + c \in 0 .. n
  OBVIOUS
<1>5. (a + (b + c)) % n = IF a + (b + c) < n THEN a + (b + c)
                          ELSE a + (b + c) - n
  BY <1>4, ModAdd, Zenon
<1>6. (m + c) % n = (a + (b + c)) % n
  BY <1>1, <1>3, <1>5
<1> QED
  BY <1>6 DEF m

(* The slot of the item at distance k from the read position p, seen from  *)
(* the write position: an old item is out of reach of a write of l items,  *)
(* a new one is the next in turn.                                          *)
LEMMA SlotDistance ==
    ASSUME NEW n \in Nat \ {0}, NEW p \in 0 .. n - 1, NEW c \in 0 .. n,
           NEW l \in 0 .. n - c, NEW k \in 0 .. n, k < c + l
    PROVE  LET d == (((p + k) % n) - ((p + c) % n)) % n
           IN  /\ k < c => ~(d < l)
               /\ k >= c => d = k - c
               /\ d \in 0 .. n - 1
<1> DEFINE j == (p + k) % n
           w == (p + c) % n
<1>1. j = IF p + k < n THEN p + k ELSE p + k - n
  BY ModAdd, Zenon
<1>2. w = IF p + c < n THEN p + c ELSE p + c - n
  BY ModAdd, Zenon
<1>3. j \in 0 .. n - 1 /\ w \in 0 .. n - 1
  BY ModRange
<1> HIDE DEF j, w
<1>4. (j - w) % n = IF j >= w THEN j - w ELSE j - w + n
  BY <1>3, ModSub
<1> DEFINE d == (j - w) % n
<1>5. d = IF j >= w THEN j - w ELSE j - w + n
  BY <1>4
<1> HIDE DEF d
<1>6. (k < c => ~(d < l)) /\ (k >= c => d = k - c) /\ d \in 0 .. n - 1
  BY <1>1, <1>2, <1>3, <1>5
<1> QED
  BY <1>6 DEF d, j, w

(* The types of the fields of a ring, and of what fits into it. *)
LEMMA RingFields ==
    ASSUME NEW n \in Nat \ {0}, NEW Item, NEW r \in RingType(n, Item)
    PROVE  /\ r.rp \in 0 .. n - 1 /\ r.wp \in 0 .. n - 1 /\ r.count \in 0 .. n
           /\ r.buf \in [0 .. n - 1 -> Item]
BY DEF RingType

(* The items of a ring are a sequence of its length. *)
LEMMA ContentsSeq ==
    ASSUME NEW n \in Nat \ {0}, NEW Item, NEW r \in RingType(n, Item)
    PROVE  /\ Contents(r, n) \in Seq(Item) /\ Len(Contents(r, n)) = r.count
           /\ \A i \in 1 .. r.count :
                 Contents(r, n)[i] = r.buf[(r.rp + (i - 1)) % n]
<1>1. /\ r.rp \in 0 .. n - 1 /\ r.count \in 0 .. n
      /\ r.buf \in [0 .. n - 1 -> Item]
  BY RingFields
<1>2. ASSUME NEW i \in 1 .. r.count
      PROVE  /\ (r.rp + i - 1) % n = (r.rp + (i - 1)) % n
             /\ r.buf[(r.rp + i - 1) % n] \in Item
  <2>1. i - 1 \in 0 .. n /\ r.rp + i - 1 = r.rp + (i - 1)
    BY <1>1
  <2>2. (r.rp + (i - 1)) % n = IF r.rp + (i - 1) < n THEN r.rp + (i - 1)
                               ELSE r.rp + (i - 1) - n
    BY <2>1, <1>1, ModAdd, Zenon
  <2>3. (r.rp + (i - 1)) % n \in 0 .. n - 1
    BY <2>2, <2>1, <1>1
  <2> QED
    BY <2>1, <2>3, <1>1
<1>3. Contents(r, n) \in [1 .. r.count -> Item]
  BY <1>2 DEF Contents
<1>4. Contents(r, n) \in Seq(Item) /\ Len(Contents(r, n)) = r.count
  BY <1>3, <1>1
<1> QED
  BY <1>2, <1>4, Zenon DEF Contents

(* pipe_write() and its like: a ring stays a ring when items are put into  *)
(* its free slots, and the write position stays where the used slots end.  *)
THEOREM PutKeepsRing ==
    ASSUME NEW n \in Nat \ {0}, NEW Item, NEW r \in RingType(n, Item),
           Aligned(r, n), NEW s \in Seq(Item), Len(s) <= Space(r, n)
    PROVE  Put(r, n, s) \in RingType(n, Item) /\ Aligned(Put(r, n, s), n)
<1> DEFINE q == Put(r, n, s)
<1>1. /\ r.rp \in 0 .. n - 1 /\ r.wp \in 0 .. n - 1 /\ r.count \in 0 .. n
      /\ r.buf \in [0 .. n - 1 -> Item] /\ Len(s) \in 0 .. n - r.count
  BY RingFields DEF Space
<1>2. q.buf \in [0 .. n - 1 -> Item]
  <2> SUFFICES ASSUME NEW i \in 0 .. n - 1 PROVE q.buf[i] \in Item
    BY DEF Put
  <2> DEFINE d == (i - r.wp) % n
  <2>1. d = IF i >= r.wp THEN i - r.wp ELSE i - r.wp + n
    BY <1>1, ModSub, Zenon
  <2>2. q.buf[i] = IF d < Len(s) THEN s[d + 1] ELSE r.buf[i]
    BY DEF Put
  <2> HIDE DEF d, q
  <2>3. d \in Nat
    BY <2>1, <1>1
  <2>4. CASE d < Len(s)
    <3>1. d + 1 \in 1 .. Len(s)
      BY <2>3, <2>4
    <3> QED
      BY <3>1, <2>2, <2>4
  <2>5. CASE ~(d < Len(s))
    BY <2>2, <2>5, <1>1
  <2> QED
    BY <2>4, <2>5
<1>3. q.wp = (r.wp + Len(s)) % n /\ q.wp \in 0 .. n - 1
  <2>1. Len(s) \in 0 .. n
    BY <1>1
  <2>2. (r.wp + Len(s)) % n \in 0 .. n - 1
    BY <1>1, <2>1, ModRange, Zenon
  <2> QED
    BY <2>2 DEF Put
<1>4. q.rp = r.rp /\ q.count = r.count + Len(s) /\ q.count \in 0 .. n
  BY <1>1 DEF Put
<1>5. Aligned(q, n)
  <2>1. (((r.rp + r.count) % n) + Len(s)) % n = (r.rp + (r.count + Len(s))) % n
    BY <1>1, ModSum, Zenon
  <2> QED
    BY <2>1, <1>3, <1>4 DEF Aligned
<1>7. q = [buf |-> q.buf, rp |-> q.rp, wp |-> q.wp, count |-> q.count]
  BY DEF Put
<1>8. q \in RingType(n, Item)
  <2> HIDE DEF q
  <2> QED
    BY <1>1, <1>2, <1>3, <1>4, <1>7 DEF RingType
<1> QED
  BY <1>5, <1>8

(* What is put into a ring comes out after everything that was there: the  *)
(* bytes of pipe_write() follow those of earlier writes.                   *)
THEOREM PutAppends ==
    ASSUME NEW n \in Nat \ {0}, NEW Item, NEW r \in RingType(n, Item),
           Aligned(r, n), NEW s \in Seq(Item), Len(s) <= Space(r, n)
    PROVE  Contents(Put(r, n, s), n) = Contents(r, n) \o s
<1> DEFINE q == Put(r, n, s)
           A == Contents(q, n)
           B == Contents(r, n) \o s
<1>1. /\ r.rp \in 0 .. n - 1 /\ r.wp \in 0 .. n - 1 /\ r.count \in 0 .. n
      /\ r.buf \in [0 .. n - 1 -> Item] /\ Len(s) \in 0 .. n - r.count
  BY RingFields DEF Space
<1>2. r.wp = (r.rp + r.count) % n
  BY DEF Aligned
<1>3. q.rp = r.rp /\ q.count = r.count + Len(s)
  BY DEF Put
<1>4. Contents(r, n) \in Seq(Item) /\ Len(Contents(r, n)) = r.count
  BY ContentsSeq
<1>5. /\ B \in Seq(Item) /\ Len(B) = r.count + Len(s)
      /\ \A i \in 1 .. r.count + Len(s) :
            B[i] = IF i <= r.count THEN Contents(r, n)[i] ELSE s[i - r.count]
  BY <1>4, ConcatProperties
<1>6. /\ A \in Seq(Item) /\ Len(A) = r.count + Len(s)
      /\ \A i \in 1 .. r.count + Len(s) : A[i] = q.buf[(r.rp + (i - 1)) % n]
  <2>1. q \in RingType(n, Item)
    BY PutKeepsRing
  <2> HIDE DEF q
  <2> QED
    BY <2>1, <1>3, ContentsSeq
<1>7. ASSUME NEW i \in 1 .. r.count + Len(s) PROVE A[i] = B[i]
  <2> DEFINE j == (r.rp + (i - 1)) % n
             d == (j - r.wp) % n
  <2>1. i - 1 \in 0 .. n /\ i - 1 < r.count + Len(s)
    BY <1>1
  <2>2. /\ i - 1 < r.count => ~(d < Len(s))
        /\ i - 1 >= r.count => d = i - 1 - r.count
    <3>1. LET e == (((r.rp + (i - 1)) % n) - ((r.rp + r.count) % n)) % n
          IN  /\ i - 1 < r.count => ~(e < Len(s))
              /\ i - 1 >= r.count => e = (i - 1) - r.count
              /\ e \in 0 .. n - 1
      BY <2>1, <1>1, SlotDistance, Zenon
    <3>2. d = (((r.rp + (i - 1)) % n) - ((r.rp + r.count) % n)) % n
      BY <1>2
    <3> HIDE DEF d, j
    <3> QED
      BY <3>1, <3>2
  <2>3. j \in 0 .. n - 1
    BY <2>1, <1>1, ModRange, Zenon
  <2>4. A[i] = q.buf[j]
    BY <1>6
  <2>5. i <= r.count => Contents(r, n)[i] = r.buf[j]
    BY ContentsSeq, <1>1
  <2>6. q.buf[j] = IF d < Len(s) THEN s[d + 1] ELSE r.buf[j]
    BY <2>3 DEF Put
  <2> HIDE DEF d, j, q, A, B
  <2>7. CASE i <= r.count
    <3>1. ~(d < Len(s))
      BY <2>2, <2>7, <1>1
    <3>2. B[i] = Contents(r, n)[i]
      BY <1>5, <2>7
    <3> QED
      BY <3>1, <3>2, <2>4, <2>5, <2>6, <2>7
  <2>8. CASE i > r.count
    <3>1. d = i - 1 - r.count
      BY <2>2, <2>8, <1>1
    <3>2. B[i] = s[i - r.count]
      BY <1>5, <2>8, <1>1
    <3>3. d < Len(s) /\ d + 1 = i - r.count
      BY <3>1, <2>8, <1>1
    <3> QED
      BY <3>2, <3>3, <2>4, <2>6
  <2> QED
    BY <2>7, <2>8, <1>1
<1> HIDE DEF A, B, q
<1>8. A = B
  BY <1>5, <1>6, <1>7, SeqEqual
<1> QED
  BY <1>8 DEF A, B, q

(* pipe_read() and its like: a ring stays a ring when items are taken out. *)
THEOREM TakeKeepsRing ==
    ASSUME NEW n \in Nat \ {0}, NEW Item, NEW r \in RingType(n, Item),
           Aligned(r, n), NEW k \in 0 .. r.count
    PROVE  Take(r, n, k) \in RingType(n, Item) /\ Aligned(Take(r, n, k), n)
<1> DEFINE q == Take(r, n, k)
<1>1. /\ r.rp \in 0 .. n - 1 /\ r.wp \in 0 .. n - 1 /\ r.count \in 0 .. n
      /\ r.buf \in [0 .. n - 1 -> Item] /\ k \in 0 .. n
  BY RingFields
<1>2. (r.rp + k) % n \in 0 .. n - 1
  BY <1>1, ModRange, Zenon
<1>4. q = [buf |-> r.buf, rp |-> (r.rp + k) % n, wp |-> r.wp,
           count |-> r.count - k]
  BY DEF Take
<1>5. r.count - k \in 0 .. n
  BY <1>1
<1>6. q.rp = (r.rp + k) % n /\ q.count = r.count - k /\ q.wp = r.wp
  BY <1>4
<1> HIDE DEF q
<1>7. Aligned(q, n)
  <2>1. r.count - k \in 0 .. n - k /\ k + (r.count - k) = r.count
    BY <1>1
  <2>2. (((r.rp + k) % n) + (r.count - k)) % n = (r.rp + (k + (r.count - k))) % n
    BY <2>1, <1>1, ModSum, Zenon
  <2> QED
    BY <2>1, <2>2, <1>6 DEF Aligned
<1>8. q \in RingType(n, Item)
  BY <1>1, <1>2, <1>4, <1>5 DEF RingType
<1> QED
  BY <1>7, <1>8 DEF q

(* Taking k items removes the k oldest ones and leaves the others in their *)
(* order: a short read loses nothing.                                      *)
THEOREM TakeRemoves ==
    ASSUME NEW n \in Nat \ {0}, NEW Item, NEW r \in RingType(n, Item),
           Aligned(r, n), NEW k \in 0 .. r.count
    PROVE  Contents(Take(r, n, k), n) = SubSeq(Contents(r, n), k + 1, r.count)
<1> DEFINE q == Take(r, n, k)
           A == Contents(q, n)
           C == Contents(r, n)
           B == SubSeq(C, k + 1, r.count)
<1>1. /\ r.rp \in 0 .. n - 1 /\ r.count \in 0 .. n
      /\ r.buf \in [0 .. n - 1 -> Item] /\ k \in 0 .. n
  BY RingFields
<1>2. q.rp = (r.rp + k) % n /\ q.count = r.count - k /\ q.buf = r.buf
  BY DEF Take, RingType
<1>3. /\ C \in Seq(Item) /\ Len(C) = r.count
      /\ \A i \in 1 .. r.count : C[i] = r.buf[(r.rp + (i - 1)) % n]
  BY ContentsSeq
<1>4. /\ A \in Seq(Item) /\ Len(A) = r.count - k
      /\ \A i \in 1 .. r.count - k : A[i] = r.buf[(q.rp + (i - 1)) % n]
  <2>1. q \in RingType(n, Item)
    BY TakeKeepsRing
  <2> HIDE DEF q
  <2> QED
    BY <2>1, <1>2, ContentsSeq
<1> HIDE DEF A, C, q
<1>5. /\ B \in Seq(Item) /\ Len(B) = r.count - k
      /\ \A i \in 1 .. r.count - k : B[i] = C[k + i]
  <2>1. k + 1 \in Int /\ r.count \in Int /\ k <= r.count
    BY <1>1
  <2>2. \A i \in k + 1 .. r.count : C[i] \in Item
    BY <1>3, <2>1, <1>1
  <2>3. /\ B \in Seq(Item)
        /\ Len(B) = IF k + 1 <= r.count THEN r.count - (k + 1) + 1 ELSE 0
        /\ \A i \in 1 .. r.count - (k + 1) + 1 : B[i] = C[k + 1 + i - 1]
    BY <2>1, <2>2, SubSeqProperties
  <2> HIDE DEF B
  <2>4. Len(B) = r.count - k /\ r.count - (k + 1) + 1 = r.count - k
    BY <2>3, <2>1, <1>1
  <2>5. ASSUME NEW i \in 1 .. r.count - k PROVE B[i] = C[k + i]
    <3>1. k + 1 + i - 1 = k + i
      BY <1>1
    <3> QED
      BY <2>3, <2>4, <3>1
  <2> QED
    BY <2>3, <2>4, <2>5
<1>6. ASSUME NEW i \in 1 .. r.count - k PROVE A[i] = B[i]
  <2>1. i - 1 \in 0 .. n - k /\ k + i \in 1 .. r.count
    BY <1>1
  <2>2. k + (i - 1) = (k + i) - 1
    BY <1>1
  <2>3. (((r.rp + k) % n) + (i - 1)) % n = (r.rp + (k + (i - 1))) % n
    BY <2>1, <1>1, ModSum, Zenon
  <2>4. C[k + i] = r.buf[(r.rp + ((k + i) - 1)) % n]
    BY <2>1, <1>3
  <2> QED
    BY <2>2, <2>3, <2>4, <1>2, <1>4, <1>5
<1> HIDE DEF B
<1>7. A = B
  <2>1. \A i \in 1 .. Len(A) : A[i] = B[i]
    BY <1>4, <1>6
  <2>2. Len(A) = Len(B)
    BY <1>4, <1>5
  <2> QED
    BY <2>1, <2>2, <1>4, <1>5, SeqEqual
<1> QED
  BY <1>7 DEF A, B, C, q
=============================================================================
