------------------------------ MODULE MCLinkWake ------------------------------
(* LinkWake for TLC: model values for the tasks.                            *)
EXTENDS LinkWake
CONSTANTS w1, w2, h1, h2
=============================================================================
