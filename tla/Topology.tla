------------------------------ MODULE Topology ------------------------------
(***************************************************************************)
(* The peers of a device: the topology generators                          *)
(* (src/backend/app/services/topology.py) and the config-v2 built from     *)
(* their plans (services/wireguard.py).                                    *)
(*                                                                         *)
(* A plan is computed from a snapshot s of the network:                    *)
(*   s.topology   "star", "mesh" or "hybrid"                               *)
(*   s.exit       exit_node_id of the device the plan is for               *)
(*   s.devices    the active devices, all with a key and an address        *)
(*   s.server     the one taken for the server, or NoDevice                *)
(*   s.routes     per device, the prefixes of its routes in use            *)
(*   s.endpoints  per device, its active endpoint rows                     *)
(*                                                                         *)
(* Abstractions.  A device stands for its public key.  A prefix is the     *)
(* text of one, not the network it denotes: two of them may denote the     *)
(* same.  Lists of peers and of prefixes are sets: nothing but the text    *)
(* and the hash depends on their order.  Keepalive, DNS and the interface  *)
(* section are left out.                                                   *)
(***************************************************************************)
EXTENDS EndpointScoring, FiniteSets

CONSTANTS
    Devices,         \* the devices of the network
    Address,         \* per device, its address as a /32 prefix
    NoDevice,        \* no server, no exit node
    Subnet,          \* the prefix of the network
    DefaultRoutes,   \* 0.0.0.0/0 and ::/0
    ServerEndpoint,  \* settings.wireguard_server_endpoint
    NoEndpoint

ASSUME TopologyAssumption ==
    /\ IsFiniteSet(Devices) /\ NoDevice \notin Devices
    /\ DOMAIN Address = Devices /\ ServerEndpoint # NoEndpoint

peer(d, allowed, endpoint, relay) ==
    [device |-> d, allowed |-> allowed, endpoint |-> endpoint, relay |-> relay]

\* _sort_endpoints puts the highest priority first, then the last seen.
best_endpoint(eps) ==
    IF eps = {} THEN NoEndpoint
    ELSE (CHOOSE e \in eps : \A f \in eps :
              \/ f.priority < e.priority
              \/ f.priority = e.priority /\ f.seen <= e.seen).addr

\* The exit node, unless it is the server or already a peer.
exit_node_peer(s, peers) ==
    IF /\ s.exit \in s.devices \ {s.server}
       /\ \A p \in peers : p.device # s.exit
      THEN {peer(s.exit, DefaultRoutes, NoEndpoint, FALSE)}
      ELSE {}

with_exit_node(s, peers) == peers \cup exit_node_peer(s, peers)

routed(s, other) == {Address[other]} \cup s.routes[other]

star_plan(s, d) ==
    CASE s.server \notin s.devices -> {}
      [] s.server \in s.devices /\ d = s.server ->
           {peer(o, routed(s, o), NoEndpoint, FALSE) : o \in s.devices \ {s.server}}
      [] OTHER ->
           with_exit_node(s, {peer(s.server, {Subnet}, ServerEndpoint, FALSE)})

mesh_plan(s, d) ==
    LET ep(o) == best_endpoint(s.endpoints[o])
        use_ep(o) == IF ep(o) = NoEndpoint /\ o = s.server THEN ServerEndpoint ELSE ep(o)
    IN with_exit_node(s, {peer(o, routed(s, o), use_ep(o), s.endpoints[o] = {}) :
                              o \in s.devices \ {d}})

\* Mutant: a device without endpoints is reached through the hub only.
hybrid_plan_HubOnly(s, d) ==
    LET ep(o) == best_endpoint(s.endpoints[o])
        entry(o) ==
          IF o = s.server
            THEN peer(o, {Subnet}, IF ep(o) = NoEndpoint THEN ServerEndpoint ELSE ep(o), FALSE)
            ELSE peer(o, routed(s, o), ep(o), FALSE)
    IN with_exit_node(s, {entry(o) : o \in {x \in s.devices \ {d} :
                                               x = s.server \/ ep(x) # NoEndpoint}})

hybrid_plan(s, d) ==
    LET ep(o) == best_endpoint(s.endpoints[o])
        entry(o) ==
          IF o = s.server
            THEN peer(o, {Subnet}, IF ep(o) = NoEndpoint THEN ServerEndpoint ELSE ep(o), FALSE)
            ELSE peer(o, routed(s, o), ep(o), ep(o) = NoEndpoint)
    IN with_exit_node(s, {entry(o) : o \in s.devices \ {d}})

generate_plan(s, d) ==
    CASE s.topology = "star" -> star_plan(s, d)
      [] s.topology = "mesh" -> mesh_plan(s, d)
      [] s.topology = "hybrid" -> hybrid_plan(s, d)

-----------------------------------------------------------------------------

is_mesh_or_hybrid(s) == s.topology \in {"mesh", "hybrid"}

\* An entry of config-v2: the endpoint with the best score replaces the one
\* of the plan, and a peer with endpoints needs no relay.
peer_info(s, pp) ==
    LET eps == s.endpoints[pp.device]
    IN [pp EXCEPT
          !.endpoint = IF eps # {} /\ is_mesh_or_hybrid(s)
                         THEN (CHOOSE e \in select_best_endpoint(eps) : TRUE).addr ELSE @,
          !.relay = @ /\ eps = {} /\ is_mesh_or_hybrid(s)]

config_v2(s, d) == {peer_info(s, pp) : pp \in generate_plan(s, d)}
=============================================================================
