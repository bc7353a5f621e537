---------------------------- MODULE MCEnrollment ----------------------------
(* Small instances of Enrollment. *)
EXTENDS Enrollment, TLC

\* A request is a slot, and the devices are fresh ids: both interchangeable.
Symmetry == Permutations(Devices) \cup Permutations(Requests)
=============================================================================
