-------------------------- MODULE MCDaemonLifecycle --------------------------
(* DaemonLifecycle on a small instance. *)
EXTENDS DaemonLifecycle
=============================================================================
