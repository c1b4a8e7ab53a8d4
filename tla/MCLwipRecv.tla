----------------------------- MODULE MCLwipRecv ------------------------------
(***************************************************************************)
(* LwipRecv for TLC.                                                       *)
(***************************************************************************)
EXTENDS LwipRecv
=============================================================================
