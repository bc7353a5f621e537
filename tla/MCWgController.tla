--------------------------- MODULE MCWgController ---------------------------
(* WgController on small instances. *)
EXTENDS WgController, TLC

CONSTANTS d1, d2, d3, k1, k2, a1, a2, net

\* Two devices that take one address in turn, and a third row that carries
\* the key of the second.
KeyOfThree == (d1 :> k1) @@ (d2 :> k2) @@ (d3 :> k2)
AddrOfThree == (d1 :> a1) @@ (d2 :> a1) @@ (d3 :> a2)

\* Two devices with keys and addresses of their own.
OwnKeys == (d1 :> k1) @@ (d2 :> k2)
OwnAddresses == (d1 :> a1) @@ (d2 :> a2)
=============================================================================
