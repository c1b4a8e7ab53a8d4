--------------------------- MODULE MCPauseControl ---------------------------
(***************************************************************************)
(* PauseControl for TLC.                                                   *)
(***************************************************************************)
EXTENDS PauseControl
=============================================================================
