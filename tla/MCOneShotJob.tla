---------------------------- MODULE MCOneShotJob ----------------------------
(***************************************************************************)
(* OneShotJob for TLC: three workers and a queue of two closures.          *)
(***************************************************************************)
EXTENDS OneShotJob
=============================================================================
