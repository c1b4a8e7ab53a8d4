----------------------------- MODULE MCTun2Socks -----------------------------
(* Tun2Socks with the bounds given in the .cfg files. *)
EXTENDS Tun2Socks
=============================================================================
