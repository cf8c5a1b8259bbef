------------------------------- MODULE MCFraming -------------------------------
(* Framing for TLC; the constants are small numbers, given in framing.cfg. *)
EXTENDS Framing
=============================================================================
