--------------------------- MODULE MCAcceptTransfer ---------------------------
(* AcceptTransfer for TLC; the constants are small numbers, given in the .cfg *)
(* files.                                                                     *)
EXTENDS AcceptTransfer
=============================================================================
