---------------------------- MODULE MCEndpoints ----------------------------
(* Endpoints on a small instance. *)
EXTENDS Endpoints
=============================================================================
