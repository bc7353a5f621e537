--------------------------- MODULE MCNetworkConfig ---------------------------
(* NetworkConfig on a small instance: a server and two devices, one of which *)
(* may have two endpoints of which priority and score prefer different ones. *)
(* A device may advertise the address of another.  One device pulls: pulls   *)
(* write nothing that another reads, and this one may be a client, be named  *)
(* like the server or be its own exit node.                                  *)
EXTENDS NetworkConfig

CONSTANTS srv, d1, d2, near, far, default, lan, a0, a1, a2

AddressOf == [d \in {srv, d1, d2} |-> CASE d = srv -> a0 [] d = d1 -> a1 [] d = d2 -> a2]

Endpoint(addr, score, priority) ==
    [addr |-> addr, score |-> score, reachable |-> TRUE, latency |-> NoLatency,
     priority |-> priority, seen |-> 1]

EndpointRows ==
    [d \in {srv, d1, d2} |->
        IF d = d2 THEN {Endpoint(near, 90, 50), Endpoint(far, 40, 100)} ELSE {}]

Used(d, p, exit) ==
    [state |-> "row", device |-> d, prefix |-> p, is_exit_node |-> exit,
     approved |-> TRUE, enabled |-> TRUE]

Start == {NoRoute, Used(d2, lan, FALSE), Used(d2, default, TRUE)}
=============================================================================
