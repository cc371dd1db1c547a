------------------------------ MODULE MCMemory ------------------------------
(* Memory for TLC: the constants are given in MCMemory_all.cfg. *)
EXTENDS Memory
=============================================================================
