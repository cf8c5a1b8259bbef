----------------------------- MODULE MCOtaBoot ------------------------------
(***************************************************************************)
(* OtaBoot for TLC: the image the pager was shipped with, a newer one that *)
(* runs and one that crashes.                                              *)
(***************************************************************************)
EXTENDS OtaBoot
=============================================================================
