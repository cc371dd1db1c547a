------------------------------ MODULE MCDriver ------------------------------
(* Module Driver for TLC: two devices of one kind that share a line, and a *)
(* third one.                                                              *)
EXTENDS Driver

MCKindOf == <<1, 1, 2>>
MCLineOf == <<10, 10, 11>>
=============================================================================
