------------------------------- MODULE MCUsb --------------------------------
(* Usb for TLC: the constants are given in MCUsb_*.cfg. *)
EXTENDS Usb
=============================================================================
