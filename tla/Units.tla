------------------------------- MODULE Units --------------------------------
(***************************************************************************)
(* Bytes of files, for the filesystem modules: a block holds UNITS units   *)
(* of data; "0" is a zero, "?" memory nobody initialised.                  *)
(***************************************************************************)
EXTENDS Integers, Sequences, FiniteSets, FiniteSetsExt

CONSTANT UNITS

\* F(v), with v evaluated once.
With(v, F(_)) == CHOOSE y \in {F(x) : x \in {v}} : TRUE

\* Blocks needed for so many units.
NBlocks(size) == (size + UNITS - 1) \div UNITS

\* s written over `old' at offset; a gap is filled with `fill'.
Overwrite(old, offset, s, fill) ==
    [k \in 1..Max({Len(old), offset + Len(s)}) |->
        IF k - offset \in 1..Len(s) THEN s[k - offset]
        ELSE IF k <= Len(old) THEN old[k] ELSE fill]

\* The first n units, zeros behind the end.
Cut(s, n) == [k \in 1..n |-> IF k <= Len(s) THEN s[k] ELSE "0"]

\* Block i (from 1) of s, filled up with zeros.
BlockOf(s, i) == Cut(SubSeq(s, (i - 1) * UNITS + 1, Len(s)), UNITS)

ZeroUnits == Cut(<< >>, UNITS)
=============================================================================
