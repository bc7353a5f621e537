----------------------------- MODULE MCRelayPath -----------------------------
(* RelayPath on a small instance. *)
EXTENDS RelayPath
=============================================================================
