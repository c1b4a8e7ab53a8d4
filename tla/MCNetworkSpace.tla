--------------------------- MODULE MCNetworkSpace ---------------------------
(***************************************************************************)
(* NetworkSpace for TLC.                                                   *)
(***************************************************************************)
EXTENDS NetworkSpace
=============================================================================
