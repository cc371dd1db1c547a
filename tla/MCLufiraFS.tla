---- MODULE MCLufiraFS ----
(* LufiraFS on a disk of a few blocks. *)
EXTENDS LufiraFS, TLC

\* The names are interchangeable.
Renaming == Permutations(Names)
====
