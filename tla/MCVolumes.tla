----------------------------- MODULE MCVolumes ------------------------------
(***************************************************************************)
(* Volumes on a few clusters.                                              *)
(***************************************************************************)
EXTENDS Volumes, TLC

C == 2..5
XC == 2..5
Renaming == Permutations(Names)
=============================================================================
