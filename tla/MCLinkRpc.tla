------------------------------- MODULE MCLinkRpc -------------------------------
(* LinkRpc for TLC; the constants are small numbers, given in the .cfg files. *)
EXTENDS LinkRpc
=============================================================================
