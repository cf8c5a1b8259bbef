----------------------------- MODULE MCFsTransfers -----------------------------
(* FsTransfers for TLC: one name and its staging paths, the name a file from  *)
(* the start.                                                                 *)
EXTENDS FsTransfers
CONSTANTS a, r1
OneFile == {<<a, 0>>}
=============================================================================
