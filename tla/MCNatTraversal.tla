--------------------------- MODULE MCNatTraversal ---------------------------
(* NatTraversal on a small instance: three endpoints, two of the same address. *)
EXTENDS NatTraversal

CONSTANTS e1, e2, e3, a, b

Addresses == [e \in {e1, e2, e3} |-> IF e = e3 THEN b ELSE a]
=============================================================================
