------------------------- MODULE MCDaemonReconciler -------------------------
(* DaemonReconciler on a small instance: a peer is added, changed and removed. *)
EXTENDS DaemonReconciler

CONSTANTS k1, k2, a, b, e, f

Peer(ips, addr) == [ips |-> ips, endpoint |-> addr]

\* The first revision names one peer, the second takes its endpoint back,
\* gives it another IP and its IP to a new peer, the third removes it, and
\* the fourth takes that back.
Revisions ==
    LET both == [k \in {k1, k2} |-> IF k = k1 THEN Peer({b}, NoEndpoint) ELSE Peer({a}, f)]
    IN  << [k \in {k1, k2} |-> IF k = k1 THEN Peer({a}, e) ELSE Absent],
           both,
           [k \in {k1, k2} |-> IF k = k1 THEN Absent ELSE Peer({a, b}, NoEndpoint)],
           both >>
=============================================================================
