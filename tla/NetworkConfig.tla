---------------------------- MODULE NetworkConfig ----------------------------
(***************************************************************************)
(* The configuration of one network: the requests that change its          *)
(* topology, devices, routes and exit nodes (src/backend/app/api/v1/       *)
(* networks.py, devices.py, routes.py), and the devices that pull their    *)
(* config-v2 (services/wireguard.py, services/network_state.py).           *)
(*                                                                         *)
(* build_config_v2 loads its inputs one after the other, so a              *)
(* configuration may mix states of the network.  The requests that change  *)
(* a route load it and write it back at their commit; an advertisement     *)
(* looks for the prefix and inserts its row at the commit.                 *)
(*                                                                         *)
(* Abstractions.  Endpoint rows come and go (Endpoints and NatTraversal    *)
(* have how); requests that concern one row of devices or of networks are  *)
(* one step.  Which of the devices named __midscale_server__ is taken for  *)
(* the server depends on the order of an unordered query: a choice.  The   *)
(* gauges and the audit log are left out.                                  *)
(***************************************************************************)
EXTENDS Topology, Naturals

CONSTANTS
    Hub,          \* the server device made with the network
    Prefixes,     \* prefixes a device may ask to advertise
    Unsafe,       \* the ones check_safe_prefix refuses
    MaxRoutes,    \* bound on the rows of advertised_routes
    StartRoutes,  \* the routes in use a run may start with, or NoRoute
    StartExits,   \* the exit nodes the pullers may start with
    Rows,         \* per device, the endpoint rows it may have
    Pullers,      \* the devices whose daemons pull
    Jobs,         \* requests in flight on routes
    MaxChanges    \* bound on the requests that change the network

ASSUME NetworkAssumption ==
    /\ Unsafe \subseteq Prefixes /\ DefaultRoutes \subseteq Prefixes
    /\ Hub \in Devices /\ DOMAIN Rows = Devices /\ Pullers \subseteq Devices
    /\ MaxChanges \in Nat /\ MaxRoutes \in Nat \ {0}

RouteIds == 1..MaxRoutes

VARIABLES
    topology,   \* Network.topology
    active,     \* the devices with is_active
    named,      \* the devices named __midscale_server__
    exitNode,   \* Device.exit_node_id
    route,      \* the rows of advertised_routes
    known,      \* per device, its active endpoint rows
    job,        \* the requests in flight on routes
    pull,       \* what each puller's request has loaded
    config,     \* the configuration each puller received last
    changes,
    overlapped  \* history: prefixes whose advertisements overlapped

vars == <<topology, active, named, exitNode, route, known, job, pull, config,
          changes, overlapped>>

adminVars == <<topology, active, named, exitNode, known, pull, config>>

NoRoute == [state |-> "none"]

RouteRow == [state : {"row"}, device : Devices, prefix : Prefixes, is_exit_node : BOOLEAN,
             approved : BOOLEAN, enabled : BOOLEAN]

ASSUME StartAssumption ==
    StartRoutes \subseteq {NoRoute} \cup RouteRow /\ StartExits \subseteq Devices \cup {NoDevice}

Addresses == {Address[d] : d \in Devices}

Idle == [pc |-> "idle"]

RouteJob == {Idle} \cup [pc : {"insert"}, id : RouteIds, new : RouteRow]
                   \cup [pc : {"write"}, id : RouteIds, old : RouteRow, new : RouteRow]
                   \cup [pc : {"delete"}, id : RouteIds]

Peers == [device : Devices, allowed : SUBSET (Addresses \cup Prefixes \cup {Subnet}),
          endpoint : {NoEndpoint, ServerEndpoint} \cup
                       {e.addr : e \in UNION {Rows[d] : d \in Devices}},
          relay : BOOLEAN]

TypeOK ==
    /\ topology \in {"star", "mesh", "hybrid"}
    /\ active \subseteq Devices /\ named \subseteq Devices
    /\ exitNode \in [Devices -> Devices \cup {NoDevice}]
    /\ route \in [RouteIds -> {NoRoute} \cup RouteRow]
    /\ \A d \in Devices : known[d] \subseteq Rows[d]
    /\ job \in [Jobs -> RouteJob]
    /\ \A p \in Pullers : pull[p].pc \in {"idle", "devices", "routes", "endpoints"}
    /\ \A p \in Pullers : \A e \in config[p] : e \in Peers
    /\ changes \in 0..MaxChanges
    /\ overlapped \subseteq Prefixes

Init ==
    /\ topology \in {"star", "mesh", "hybrid"}
    /\ active = Devices /\ named = {Hub}
    /\ \E x \in StartExits :
         exitNode = [d \in Devices |-> IF d \in Pullers THEN x ELSE NoDevice]
    /\ \E row \in StartRoutes : route = [r \in RouteIds |-> IF r = 1 THEN row ELSE NoRoute]
    /\ known = Rows
    /\ job = [j \in Jobs |-> Idle]
    /\ pull = [p \in Pullers |-> Idle]
    /\ config = [p \in Pullers |-> {}]
    /\ changes = 0 /\ overlapped = {}

Change == changes < MaxChanges /\ changes' = changes + 1

RouteRows == {r \in RouteIds : route[r] # NoRoute}

\* A route in use is approved and enabled.
InUse(r) == route[r] # NoRoute /\ route[r].approved /\ route[r].enabled

-----------------------------------------------------------------------------
(* Networks and devices. *)

update_network(t) ==
    /\ Change /\ t # topology
    /\ topology' = t
    /\ UNCHANGED <<active, named, exitNode, route, known, job, pull, config, overlapped>>

\* update_device with is_active; there is no test on which device it is.
update_device_active(d, on) ==
    /\ Change /\ on # (d \in active)
    /\ active' = IF on THEN active \cup {d} ELSE active \ {d}
    /\ UNCHANGED <<topology, named, exitNode, route, known, job, pull, config, overlapped>>

\* update_device with a name: any device may take the server's or lose it.
update_device_name(d, on) ==
    /\ Change /\ on # (d \in named)
    /\ named' = IF on THEN named \cup {d} ELSE named \ {d}
    /\ UNCHANGED <<topology, active, exitNode, route, known, job, pull, config, overlapped>>

\* update_device with exit_node_id; null is taken as not given.
update_device_exit_node(d, x) ==
    /\ Change
    /\ exitNode' = [exitNode EXCEPT ![d] = IF x = NoDevice THEN @ ELSE x]
    /\ UNCHANGED <<topology, active, named, route, known, job, pull, config, overlapped>>

\* The rows of d for 0.0.0.0/0, of which select_exit_node answers one.
OwnDefault(d) == {r \in RouteRows : route[r].device = d /\ route[r].prefix \in DefaultRoutes}

ExitRoutes(x) == {r \in RouteRows : route[r].device = x /\ route[r].is_exit_node /\ InUse(r)}

\* POST /routes/devices/{id}/exit-node.  The answer is the device's own row
\* for 0.0.0.0/0; without exactly one the answer is 500 and the change is
\* rolled back.
select_exit_node(d, x) ==
    /\ Change
    /\ x # NoDevice => Cardinality(ExitRoutes(x)) = 1
    /\ Cardinality(OwnDefault(d)) = 1
    /\ exitNode' = [exitNode EXCEPT ![d] = x]
    /\ UNCHANGED <<topology, active, named, route, known, job, pull, config, overlapped>>

\* Endpoints of d are reported or deactivated.
endpoints_change(d, eps) ==
    /\ Change /\ eps # known[d]
    /\ known' = [known EXCEPT ![d] = eps]
    /\ UNCHANGED <<topology, active, named, exitNode, route, job, pull, config, overlapped>>

-----------------------------------------------------------------------------
(* Routes. *)

\* The subnet of the network and the address of a device are not refused.
check_safe_prefix(prefix, is_exit_node) ==
    /\ prefix \notin Unsafe
    /\ prefix \in DefaultRoutes => is_exit_node

\* The rows of the network with this very text for a prefix.
overlaps_with_existing(prefix) == {r \in RouteRows : route[r].prefix = prefix}

\* Mutant: the prefix is not looked for.
advertise_route_Unchecked(j, d, prefix, is_exit_node) ==
    /\ job[j] = Idle /\ Change
    /\ check_safe_prefix(prefix, is_exit_node)
    /\ \E r \in RouteIds \ RouteRows :
         /\ \A k \in Jobs : job[k] # Idle => job[k].id # r
         /\ job' = [job EXCEPT ![j] = [pc |-> "insert", id |-> r,
              new |-> [state |-> "row", device |-> d, prefix |-> prefix,
                       is_exit_node |-> is_exit_node, approved |-> FALSE, enabled |-> FALSE]]]
    /\ overlapped' = overlapped \cup
         {p \in {prefix} : \E k \in Jobs : job[k].pc = "insert" /\ job[k].new.prefix = p}
    /\ UNCHANGED <<adminVars, route>>

\* A user advertises for the first of her devices, active or not; a daemon
\* for its own.  The prefix is looked for; the id of the new row is used by
\* no request ...
advertise_route(j, d, prefix, is_exit_node) ==
    /\ job[j] = Idle /\ Change
    /\ check_safe_prefix(prefix, is_exit_node)
    /\ overlaps_with_existing(prefix) = {}
    /\ \E r \in RouteIds \ RouteRows :
         /\ \A k \in Jobs : job[k] # Idle => job[k].id # r
         /\ job' = [job EXCEPT ![j] = [pc |-> "insert", id |-> r,
              new |-> [state |-> "row", device |-> d, prefix |-> prefix,
                       is_exit_node |-> is_exit_node, approved |-> FALSE, enabled |-> FALSE]]]
    /\ overlapped' = overlapped \cup
         {p \in {prefix} : \E k \in Jobs : job[k].pc = "insert" /\ job[k].new.prefix = p}
    /\ UNCHANGED <<adminVars, route>>

\* ... and the row is committed.
commit_route(j) ==
    /\ job[j].pc = "insert"
    /\ route' = [route EXCEPT ![job[j].id] = job[j].new]
    /\ job' = [job EXCEPT ![j] = Idle]
    /\ UNCHANGED <<adminVars, changes, overlapped>>

load_route(j, r, next) ==
    /\ job[j] = Idle /\ route[r] # NoRoute /\ Change
    /\ job' = [job EXCEPT ![j] = next]
    /\ UNCHANGED <<adminVars, route, overlapped>>

approve_route(j, r, approved, enabled) ==
    load_route(j, r, [pc |-> "write", id |-> r, old |-> route[r],
                      new |-> [route[r] EXCEPT !.approved = approved, !.enabled = enabled]])

update_route(j, r, enabled) ==
    load_route(j, r, [pc |-> "write", id |-> r, old |-> route[r],
                      new |-> [route[r] EXCEPT !.enabled = enabled]])

delete_route(j, r) == load_route(j, r, [pc |-> "delete", id |-> r])

\* The commit writes the columns that changed; if the row is gone it fails.
write_route(j) ==
    /\ job[j].pc = "write"
    /\ LET r == job[j].id
       IN route' = [route EXCEPT ![r] =
             IF @ = NoRoute THEN NoRoute
             ELSE [f \in DOMAIN @ |->
                      IF job[j].new[f] # job[j].old[f] THEN job[j].new[f] ELSE @[f]]]
    /\ job' = [job EXCEPT ![j] = Idle]
    /\ UNCHANGED <<adminVars, changes, overlapped>>

remove_route(j) ==
    /\ job[j].pc = "delete"
    /\ route' = [route EXCEPT ![job[j].id] = NoRoute]
    /\ job' = [job EXCEPT ![j] = Idle]
    /\ UNCHANGED <<adminVars, changes, overlapped>>

-----------------------------------------------------------------------------
(* GET /devices/{id}/config-v2. *)

pullFrame == <<topology, active, named, exitNode, route, known, job, changes,
               overlapped>>

\* The device's own row, then the network.
build_network_state(d) ==
    /\ pull[d] = Idle /\ d \in active
    /\ pull' = [pull EXCEPT ![d] = [pc |-> "devices", topology |-> topology, exit |-> exitNode[d]]]
    /\ UNCHANGED <<pullFrame, config>>

\* The devices one of which is taken for the server: the last of that name.
server_device_id == IF named \cap active = {} THEN {NoDevice} ELSE named \cap active

\* The active devices; without this one the request fails.
build_device_states(d) ==
    /\ pull[d].pc = "devices"
    /\ \E server \in server_device_id :
         pull' = [pull EXCEPT ![d] =
            IF d \in active
              THEN [pc |-> "routes", topology |-> @.topology, exit |-> @.exit,
                    devices |-> active, server |-> server]
              ELSE Idle]
    /\ UNCHANGED <<pullFrame, config>>


routes_by_device ==
    [d \in Devices |-> {route[r].prefix : r \in {x \in RouteRows :
                            route[x].device = d /\ InUse(x)}}]

build_routes_by_device(d) ==
    /\ pull[d].pc = "routes"
    /\ pull' = [pull EXCEPT ![d] =
          [pc |-> "endpoints", topology |-> @.topology, exit |-> @.exit,
           devices |-> @.devices, server |-> @.server, routes |-> routes_by_device]]
    /\ UNCHANGED <<pullFrame, config>>

\* The active endpoints of the devices that are active now.
endpoints_by_device == [x \in Devices |-> IF x \in active THEN known[x] ELSE {}]

\* The plan is computed and answered.
build_config_v2(d) ==
    /\ pull[d].pc = "endpoints"
    /\ LET s == [topology |-> pull[d].topology, exit |-> pull[d].exit,
                 devices |-> pull[d].devices, server |-> pull[d].server,
                 routes |-> pull[d].routes, endpoints |-> endpoints_by_device]
       IN config' = [config EXCEPT ![d] = config_v2(s, d)]
    /\ pull' = [pull EXCEPT ![d] = Idle]
    /\ UNCHANGED pullFrame

Pull(d) ==
    \/ build_network_state(d) \/ build_device_states(d)
    \/ build_routes_by_device(d) \/ build_config_v2(d)

RouteRequest(j) ==
    \/ \E d \in Devices, p \in Prefixes, e \in BOOLEAN : advertise_route(j, d, p, e)
    \/ \E r \in RouteIds : \/ \E a \in BOOLEAN, e \in BOOLEAN : approve_route(j, r, a, e)
                           \/ \E e \in BOOLEAN : update_route(j, r, e)
                           \/ delete_route(j, r)

Commit(j) == commit_route(j) \/ write_route(j) \/ remove_route(j)

Next ==
    \/ \E t \in {"star", "mesh", "hybrid"} : update_network(t)
    \/ \E d \in Devices :
         \/ \E on \in BOOLEAN : update_device_active(d, on) \/ update_device_name(d, on)
         \/ \E x \in Devices \cup {NoDevice} :
              update_device_exit_node(d, x) \/ select_exit_node(d, x)
         \/ \E eps \in SUBSET Rows[d] : endpoints_change(d, eps)
    \/ \E j \in Jobs : RouteRequest(j) \/ Commit(j)
    \/ \E d \in Pullers : Pull(d)

Spec == Init /\ [][Next]_vars

\* Requests end, and the daemons poll.
FairSpec ==
    /\ Spec
    /\ \A j \in Jobs : WF_vars(Commit(j))
    /\ \A d \in Pullers : WF_vars(Pull(d))

-----------------------------------------------------------------------------
(* Properties. *)

\* What a pull of device d that meets no change and takes this server computes.
snapshot(d, server) ==
    [topology |-> topology, exit |-> exitNode[d], devices |-> active,
     server |-> server, routes |-> routes_by_device, endpoints |-> endpoints_by_device]

PeersOf(d, server) == {p.device : p \in config_v2(snapshot(d, server), d)}

\* Two devices are peers of each other or not at all (topology.py:294-536):
\* a one-sided peer is never answered.  Only a chosen exit node may be
\* one-sided, and it is in a star.  Both must take the same device for the
\* server, which two devices of that name leave to chance.
PeersAreMutual ==
    \A server \in server_device_id : \A d, e \in active : d \in PeersOf(e, server) =>
        \/ e \in PeersOf(d, server)
        \/ topology = "star" /\ exitNode[e] = d

\* No text of an advertised prefix belongs to two peers of a configuration,
\* where WireGuard would keep only one of them, unless two advertisements of
\* it overlapped (routes.py:120-134, 363-377) or the device has itself as
\* exit node, which makes it a peer of itself.  What the check for an
\* existing row cannot see is left out: the subnet and the addresses of
\* devices have no row, and one network has many texts.
OneOwnerPerPrefix ==
    \A server \in server_device_id, d \in active :
        \A p, q \in config_v2(snapshot(d, server), d) :
            \/ p.device = q.device \/ exitNode[d] = d
            \/ p.allowed \cap q.allowed \subseteq overlapped \cup Addresses \cup {Subnet}

\* The prefixes o is to carry: its address and its routes in use.
Carried(o) ==
    {Address[o]} \cup {x \in Prefixes : \E r \in RouteRows :
                          InUse(r) /\ route[r].device = o /\ route[r].prefix = x}

\* The configuration of d names active devices only, with prefixes that are
\* theirs now: of a route in use, of the server or of the exit node chosen.
\* Where endpoints are given they are ones the device has.
NothingStale(d) ==
    \A p \in config[d] :
        /\ p.device \in active
        /\ p.allowed \subseteq Carried(p.device)
                         \cup (IF p.device \in named THEN {Subnet} ELSE {})
                         \cup (IF p.device = exitNode[d] THEN DefaultRoutes ELSE {})
        /\ topology # "star" /\ known[p.device] # {} =>
             ~ p.relay /\ \E e \in known[p.device] : p.endpoint = e.addr

\* The devices whose routes d is given: all others in a mesh and for the
\* server of a star, all but the server in a hybrid.
Routers(d) ==
    CASE topology = "mesh" -> active \ {d}
      [] topology = "star" -> IF named \cap active = {d} THEN active \ {d} ELSE {}
      [] topology = "hybrid" -> (active \ named) \ {d}

NothingMissing(d) ==
    \A o \in Routers(d) : \E p \in config[d] :
        p.device = o /\ Carried(o) \subseteq p.allowed

=============================================================================
