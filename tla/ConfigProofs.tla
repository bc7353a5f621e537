----------------------------- MODULE ConfigProofs -----------------------------
(***************************************************************************)
(* Proofs about the configurations of a network, for any number of         *)
(* devices, prefixes, routes and requests in flight, and about the         *)
(* endpoint rows they are built from, for any number of probers.           *)
(***************************************************************************)
EXTENDS NetworkConfig, Endpoints, TLAPS

-----------------------------------------------------------------------------
(* The plans. *)

Topologies == {"star", "mesh", "hybrid"}

\* The entry of the device itself, which is there if it is its own exit node.
SelfEntry(s, d, o, a) ==
    o = d /\ s.exit = d /\ d \in s.devices \ {s.server} /\ a = DefaultRoutes

StarEntry(s, d, o, a) ==
    /\ s.server \in s.devices
    /\ \/ d = s.server /\ o \in s.devices \ {s.server} /\ a = routed(s, o)
       \/ d # s.server /\ o = s.server /\ a = {Subnet}
       \/ d # s.server /\ o = s.exit /\ o \in s.devices \ {s.server} /\ a = DefaultRoutes

MeshEntry(s, d, o, a) ==
    (o \in s.devices \ {d} /\ a = routed(s, o)) \/ SelfEntry(s, d, o, a)

HybridEntry(s, d, o, a) ==
    \/ o \in s.devices \ {d} /\ a = (IF o = s.server THEN {Subnet} ELSE routed(s, o))
    \/ SelfEntry(s, d, o, a)

\* What the plan of d for snapshot s gives to o: the prefixes a.
Entry(s, d, o, a) ==
    \/ s.topology = "star" /\ StarEntry(s, d, o, a)
    \/ s.topology = "mesh" /\ MeshEntry(s, d, o, a)
    \/ s.topology = "hybrid" /\ HybridEntry(s, d, o, a)

\* Of a set of entries, one names o with the prefixes a.
Gives(peers, o, a) == \E p \in peers : p.device = o /\ p.allowed = a

\* The entries name the devices of S.
Names(peers, S) == \A x : (\E p \in peers : p.device = x) <=> x \in S

\* The entries are records with these fields.
Records(peers) == \A p \in peers : DOMAIN p = {"device", "allowed", "endpoint", "relay"}

\* The exit node is added unless it is the server or there already.
LEMMA ExitEntries ==
    ASSUME NEW s, NEW peers, NEW o, NEW a
    PROVE  Gives(with_exit_node(s, peers), o, a) <=>
             \/ Gives(peers, o, a)
             \/ /\ o = s.exit /\ s.exit \in s.devices \ {s.server} /\ a = DefaultRoutes
                /\ \A p \in peers : p.device # s.exit
<1> DEFINE entry == peer(s.exit, DefaultRoutes, NoEndpoint, FALSE)
           missing == s.exit \in s.devices \ {s.server} /\ \A p \in peers : p.device # s.exit
<1>1. entry.device = s.exit /\ entry.allowed = DefaultRoutes
  BY DEF peer
<1>2. CASE missing
  <2>1. with_exit_node(s, peers) = peers \cup {entry}
    BY <1>2 DEF with_exit_node, exit_node_peer
  <2> HIDE DEF entry
  <2> QED BY <1>1, <1>2, <2>1 DEF Gives
<1>3. CASE ~ missing
  <2>1. with_exit_node(s, peers) = peers
    BY <1>3 DEF with_exit_node, exit_node_peer
  <2> QED BY <1>3, <2>1 DEF Gives
<1> QED BY <1>2, <1>3

\* With the exit node the entries are still records.
LEMMA ExitRecords ==
    ASSUME NEW s, NEW peers, Records(peers)
    PROVE  Records(with_exit_node(s, peers))
<1> DEFINE entry == peer(s.exit, DefaultRoutes, NoEndpoint, FALSE)
<1>1. DOMAIN entry = {"device", "allowed", "endpoint", "relay"}
  BY DEF peer
<1>2. \A p \in with_exit_node(s, peers) : p \in peers \/ p = entry
  BY DEF with_exit_node, exit_node_peer
<1> HIDE DEF entry
<1> QED BY <1>1, <1>2 DEF Records

\* The entries of a star.
LEMMA StarEntries ==
    ASSUME NEW s, NEW d, NEW o, NEW a
    PROVE  /\ Gives(star_plan(s, d), o, a) <=> StarEntry(s, d, o, a)
           /\ Records(star_plan(s, d))
<1>1. CASE s.server \notin s.devices
  <2>1. star_plan(s, d) = {}
    BY <1>1 DEF star_plan
  <2> QED BY <1>1, <2>1 DEF Gives, Records, StarEntry
<1>2. CASE s.server \in s.devices /\ d = s.server
  <2>1. star_plan(s, d) = {peer(x, routed(s, x), NoEndpoint, FALSE) : x \in s.devices \ {s.server}}
    BY <1>2 DEF star_plan
  <2>2. Gives(star_plan(s, d), o, a) <=>
          \E x \in s.devices \ {s.server} : /\ peer(x, routed(s, x), NoEndpoint, FALSE).device = o
                                          /\ peer(x, routed(s, x), NoEndpoint, FALSE).allowed = a
    BY <2>1 DEF Gives
  <2>3. Gives(star_plan(s, d), o, a) <=> \E x \in s.devices \ {s.server} : x = o /\ routed(s, x) = a
    BY <2>2 DEF peer
  <2>4. Records(star_plan(s, d))
    BY <2>1 DEF Records, peer
  <2> QED BY <1>2, <2>3, <2>4 DEF StarEntry
<1>3. CASE s.server \in s.devices /\ d # s.server
  <2> DEFINE hub == peer(s.server, {Subnet}, ServerEndpoint, FALSE)
  <2>1. star_plan(s, d) = with_exit_node(s, {hub})
    BY <1>3 DEF star_plan
  <2>2. /\ hub.device = s.server /\ hub.allowed = {Subnet}
        /\ DOMAIN hub = {"device", "allowed", "endpoint", "relay"}
    BY DEF peer
  <2> HIDE DEF hub
  <2>3. Gives({hub}, o, a) <=> o = s.server /\ a = {Subnet}
    BY <2>2 DEF Gives
  <2>4. Gives(star_plan(s, d), o, a) <=>
          \/ Gives({hub}, o, a)
          \/ /\ o = s.exit /\ s.exit \in s.devices \ {s.server} /\ a = DefaultRoutes
             /\ \A p \in {hub} : p.device # s.exit
    BY <2>1, ExitEntries
  <2>5. Records(star_plan(s, d))
    BY <2>1, <2>2, ExitRecords DEF Records
  <2> QED BY <1>3, <2>2, <2>3, <2>4, <2>5 DEF StarEntry
<1> QED BY <1>1, <1>2, <1>3

\* A peer for everybody else, and for the device itself if it is its exit node.
LEMMA OtherEntries ==
    ASSUME NEW s, NEW d, NEW peers, NEW o, NEW a, NEW given,
           Gives(peers, o, a) <=> o \in s.devices \ {d} /\ a = given,
           Names(peers, s.devices \ {d})
    PROVE  Gives(with_exit_node(s, peers), o, a) <=>
             (o \in s.devices \ {d} /\ a = given) \/ SelfEntry(s, d, o, a)
<1>1. Gives(with_exit_node(s, peers), o, a) <=>
        \/ Gives(peers, o, a)
        \/ /\ o = s.exit /\ s.exit \in s.devices \ {s.server} /\ a = DefaultRoutes
           /\ \A p \in peers : p.device # s.exit
  BY ExitEntries
<1>2. (\A p \in peers : p.device # s.exit) <=> s.exit \notin s.devices \ {d}
  BY DEF Names
<1> QED BY <1>1, <1>2 DEF SelfEntry

\* The entries of a mesh.
LEMMA MeshEntries ==
    ASSUME NEW s, NEW d, NEW o, NEW a
    PROVE  /\ Gives(mesh_plan(s, d), o, a) <=> MeshEntry(s, d, o, a)
           /\ Records(mesh_plan(s, d))
<1> DEFINE ep(x) == best_endpoint(s.endpoints[x])
           use_ep(x) == IF ep(x) = NoEndpoint /\ x = s.server THEN ServerEndpoint ELSE ep(x)
           entry(x) == peer(x, routed(s, x), use_ep(x), s.endpoints[x] = {})
           peers == {entry(x) : x \in s.devices \ {d}}
<1>1. mesh_plan(s, d) = with_exit_node(s, peers)
  BY DEF mesh_plan
<1> HIDE DEF use_ep
<1>2. \A x : /\ entry(x).device = x /\ entry(x).allowed = routed(s, x)
             /\ DOMAIN entry(x) = {"device", "allowed", "endpoint", "relay"}
  BY DEF peer
<1> HIDE DEF entry
<1>3. Gives(peers, o, a) <=> o \in s.devices \ {d} /\ a = routed(s, o)
  BY <1>2 DEF Gives
<1>4. Names(peers, s.devices \ {d})
  BY <1>2 DEF Names
<1>5. Records(peers)
  BY <1>2 DEF Records
<1> HIDE DEF peers
<1>6. Records(mesh_plan(s, d))
  BY <1>1, <1>5, ExitRecords
<1>7. Gives(mesh_plan(s, d), o, a) <=>
        (o \in s.devices \ {d} /\ a = routed(s, o)) \/ SelfEntry(s, d, o, a)
  BY <1>1, <1>3, <1>4, OtherEntries
<1> QED BY <1>6, <1>7 DEF MeshEntry

\* The entries of a hybrid.
LEMMA HybridEntries ==
    ASSUME NEW s, NEW d, NEW o, NEW a
    PROVE  /\ Gives(hybrid_plan(s, d), o, a) <=> HybridEntry(s, d, o, a)
           /\ Records(hybrid_plan(s, d))
<1> DEFINE ep(x) == best_endpoint(s.endpoints[x])
           entry(x) ==
             IF x = s.server
               THEN peer(x, {Subnet}, IF ep(x) = NoEndpoint THEN ServerEndpoint ELSE ep(x), FALSE)
               ELSE peer(x, routed(s, x), ep(x), ep(x) = NoEndpoint)
           given(x) == IF x = s.server THEN {Subnet} ELSE routed(s, x)
           peers == {entry(x) : x \in s.devices \ {d}}
<1>1. hybrid_plan(s, d) = with_exit_node(s, peers)
  BY DEF hybrid_plan
<1>2. \A x : /\ entry(x).device = x /\ entry(x).allowed = given(x)
             /\ DOMAIN entry(x) = {"device", "allowed", "endpoint", "relay"}
  <2> TAKE x
  <2>1. CASE x = s.server
    BY <2>1 DEF peer
  <2>2. CASE x # s.server
    BY <2>2 DEF peer
  <2> QED BY <2>1, <2>2
<1> HIDE DEF entry, given
<1>3. Gives(peers, o, a) <=> o \in s.devices \ {d} /\ a = given(o)
  BY <1>2 DEF Gives
<1>4. Names(peers, s.devices \ {d})
  BY <1>2 DEF Names
<1>5. Records(peers)
  BY <1>2 DEF Records
<1> HIDE DEF peers
<1>6. Records(hybrid_plan(s, d))
  BY <1>1, <1>5, ExitRecords
<1>7. Gives(hybrid_plan(s, d), o, a) <=>
        (o \in s.devices \ {d} /\ a = given(o)) \/ SelfEntry(s, d, o, a)
  BY <1>1, <1>3, <1>4, OtherEntries
<1> QED BY <1>6, <1>7 DEF HybridEntry, given

\* The plan of d gives each peer what Entry says, and nothing else.
LEMMA PlanEntries ==
    ASSUME NEW s, NEW d, NEW o, NEW a, s.topology \in Topologies
    PROVE  /\ Gives(generate_plan(s, d), o, a) <=> Entry(s, d, o, a)
           /\ Records(generate_plan(s, d))
<1>1. CASE s.topology = "star"
  <2>1. generate_plan(s, d) = star_plan(s, d)
    BY <1>1 DEF generate_plan
  <2> QED BY <1>1, <2>1, StarEntries DEF Entry
<1>2. CASE s.topology = "mesh"
  <2>1. generate_plan(s, d) = mesh_plan(s, d)
    BY <1>2 DEF generate_plan
  <2> QED BY <1>2, <2>1, MeshEntries DEF Entry
<1>3. CASE s.topology = "hybrid"
  <2>1. generate_plan(s, d) = hybrid_plan(s, d)
    BY <1>3 DEF generate_plan
  <2> QED BY <1>3, <2>1, HybridEntries DEF Entry
<1> QED BY <1>1, <1>2, <1>3 DEF Topologies

\* config-v2 changes the endpoint and the relay of an entry only.
LEMMA InfoKeeps ==
    ASSUME NEW s, NEW pp, DOMAIN pp = {"device", "allowed", "endpoint", "relay"}
    PROVE  peer_info(s, pp).device = pp.device /\ peer_info(s, pp).allowed = pp.allowed
<1> DEFINE eps == s.endpoints[pp.device]
           endpoint == IF eps # {} /\ is_mesh_or_hybrid(s)
                         THEN (CHOOSE e \in select_best_endpoint(eps) : TRUE).addr ELSE pp.endpoint
           relay == pp.relay /\ eps = {} /\ is_mesh_or_hybrid(s)
<1>1. peer_info(s, pp) = [pp EXCEPT !.endpoint = endpoint, !.relay = relay]
  BY DEF peer_info
<1> HIDE DEF endpoint, relay
<1> QED BY <1>1

\* So it gives each peer what the plan gives it.
LEMMA ConfigEntries ==
    ASSUME NEW s, NEW d, NEW o, NEW a, s.topology \in Topologies
    PROVE  Gives(config_v2(s, d), o, a) <=> Entry(s, d, o, a)
<1>1. Records(generate_plan(s, d))
  BY PlanEntries
<1>2. \A pp \in generate_plan(s, d) :
        peer_info(s, pp).device = pp.device /\ peer_info(s, pp).allowed = pp.allowed
  BY <1>1, InfoKeeps DEF Records
<1>3. Gives(config_v2(s, d), o, a) <=> Gives(generate_plan(s, d), o, a)
  BY <1>2 DEF config_v2, Gives
<1> QED BY <1>3, PlanEntries

-----------------------------------------------------------------------------
(* The peers are mutual. *)

\* The fields of a snapshot.
LEMMA SnapshotFields ==
    ASSUME NEW d, NEW server
    PROVE  /\ snapshot(d, server).topology = topology /\ snapshot(d, server).exit = exitNode[d]
           /\ snapshot(d, server).devices = active /\ snapshot(d, server).server = server
           /\ snapshot(d, server).routes = routes_by_device
BY DEF snapshot

\* Who is a peer, by the entries.
LEMMA PeersByEntry ==
    ASSUME NEW d, NEW server, NEW o, topology \in Topologies
    PROVE  o \in PeersOf(d, server) <=> \E a : Entry(snapshot(d, server), d, o, a)
<1>1. \A a : Gives(config_v2(snapshot(d, server), d), o, a) <=> Entry(snapshot(d, server), d, o, a)
  BY SnapshotFields, ConfigEntries
<1>2. o \in PeersOf(d, server) <=> \E a : Gives(config_v2(snapshot(d, server), d), o, a)
  BY DEF PeersOf, Gives
<1> QED BY <1>1, <1>2

\* Mutuality rests on the topology alone, not on how the state came about.
LEMMA MutualInState == topology \in Topologies => PeersAreMutual
<1> SUFFICES ASSUME topology \in Topologies, NEW server \in server_device_id,
                    NEW d \in active, NEW e \in active, d \in PeersOf(e, server)
             PROVE  e \in PeersOf(d, server) \/ (topology = "star" /\ exitNode[e] = d)
  BY DEF PeersAreMutual
<1>1. PICK a : Entry(snapshot(e, server), e, d, a)
  BY PeersByEntry
<1>2. /\ snapshot(e, server).topology = topology /\ snapshot(e, server).exit = exitNode[e]
      /\ snapshot(e, server).devices = active
      /\ snapshot(d, server).topology = topology /\ snapshot(d, server).devices = active
      /\ snapshot(e, server).server = server /\ snapshot(d, server).server = server
  BY SnapshotFields
<1>3. SUFFICES \/ \E b : Entry(snapshot(d, server), d, e, b)
               \/ topology = "star" /\ exitNode[e] = d
  BY PeersByEntry
<1>4. CASE d = e
  BY <1>1, <1>4
<1>5. CASE d # e /\ topology = "star"
  <2>1. StarEntry(snapshot(e, server), e, d, a)
    BY <1>1, <1>2, <1>5 DEF Entry
  <2>2. CASE e = server
    <3>1. StarEntry(snapshot(d, server), d, e, {Subnet})
      BY <1>2, <1>5, <2>1, <2>2 DEF StarEntry
    <3> QED BY <1>2, <1>5, <3>1 DEF Entry
  <2>3. CASE d = server
    <3>1. StarEntry(snapshot(d, server), d, e, routed(snapshot(d, server), e))
      BY <1>2, <1>5, <2>1, <2>3 DEF StarEntry
    <3> QED BY <1>2, <1>5, <3>1 DEF Entry
  <2>4. CASE e # server /\ d # server
    BY <1>2, <1>5, <2>1, <2>4 DEF StarEntry
  <2> QED BY <2>2, <2>3, <2>4
<1>6. CASE d # e /\ topology = "mesh"
  <2>1. MeshEntry(snapshot(d, server), d, e, routed(snapshot(d, server), e))
    BY <1>2, <1>6 DEF MeshEntry
  <2> QED BY <1>2, <1>6, <2>1 DEF Entry
<1>7. CASE d # e /\ topology = "hybrid"
  <2>1. HybridEntry(snapshot(d, server), d, e, IF e = server THEN {Subnet} ELSE routed(snapshot(d, server), e))
    BY <1>2, <1>7 DEF HybridEntry
  <2> QED BY <1>2, <1>7, <2>1 DEF Entry
<1> QED BY <1>4, <1>5, <1>6, <1>7 DEF Topologies

-----------------------------------------------------------------------------
(* The routes. *)

\* Two rows have the same prefix only if advertisements of it overlapped.
RowsApart ==
    \A r, q \in RouteRows :
        r # q /\ route[r].prefix = route[q].prefix => route[r].prefix \in overlapped

\* So do two advertisements on their way, and such an advertisement and a row.
ClaimsApart ==
    \A j \in Jobs : job[j].pc = "insert" =>
        /\ \A r \in RouteRows :
             route[r].prefix = job[j].new.prefix => route[r].prefix \in overlapped
        /\ \A k \in Jobs \ {j} : job[k].pc = "insert" /\ job[k].new.prefix = job[j].new.prefix
                                  => job[j].new.prefix \in overlapped

\* A change of a route on its way does not touch the prefix.
PrefixKept ==
    \A j \in Jobs : job[j].pc = "write" => job[j].new.prefix = job[j].old.prefix

RouteTypes ==
    /\ topology \in Topologies /\ active \subseteq Devices
    /\ route \in [RouteIds -> {NoRoute} \cup RouteRow]
    /\ job \in [Jobs -> RouteJob]

RouteInv == RouteTypes /\ RowsApart /\ ClaimsApart /\ PrefixKept

\* What a device is given for a route in use is the prefix of a row.
LEMMA RoutesHaveRows ==
    ASSUME RouteInv, NEW d \in Devices, NEW x \in routes_by_device[d]
    PROVE  x \in Prefixes /\ \E r \in RouteRows : route[r].device = d /\ route[r].prefix = x
<1>1. PICK r \in RouteRows : route[r].device = d /\ route[r].prefix = x
  BY DEF routes_by_device
<1>2. route[r] \in RouteRow
  BY DEF RouteInv, RouteTypes, RouteRows
<1> QED BY <1>1, <1>2 DEF RouteRow

\* What two devices are given for themselves and their routes in use meets
\* only in addresses and in prefixes whose advertisements overlapped.
LEMMA RoutesApart ==
    ASSUME RouteInv, NEW d, NEW server, NEW o \in active, NEW q \in active, o # q
    PROVE  routed(snapshot(d, server), o) \cap routed(snapshot(d, server), q)
             \subseteq overlapped \cup Addresses
<1> SUFFICES ASSUME NEW x, x \in routed(snapshot(d, server), o), x \in routed(snapshot(d, server), q)
             PROVE  x \in overlapped \cup Addresses
  OBVIOUS
<1>1. SUFFICES ASSUME x \notin Addresses PROVE x \in overlapped
  OBVIOUS
<1>2. /\ x = Address[o] \/ x \in routes_by_device[o]
      /\ x = Address[q] \/ x \in routes_by_device[q]
  BY SnapshotFields DEF routed
<1>3. o \in Devices /\ q \in Devices
  BY DEF RouteInv, RouteTypes
<1>4. x \in routes_by_device[o] /\ x \in routes_by_device[q]
  BY <1>1, <1>2, <1>3 DEF Addresses
<1>5. PICK r \in RouteRows : route[r].device = o /\ route[r].prefix = x
  BY <1>3, <1>4, RoutesHaveRows
<1>6. PICK u \in RouteRows : route[u].device = q /\ route[u].prefix = x
  BY <1>3, <1>4, RoutesHaveRows
<1> QED BY <1>5, <1>6 DEF RouteInv, RowsApart

\* The entries of a configuration overlap only where the rows do.
LEMMA OneOwnerInState == RouteInv => OneOwnerPerPrefix
<1> SUFFICES ASSUME RouteInv, NEW server \in server_device_id, NEW d \in active,
                    NEW p \in config_v2(snapshot(d, server), d), NEW q \in config_v2(snapshot(d, server), d),
                    p.device # q.device, exitNode[d] # d
             PROVE  p.allowed \cap q.allowed \subseteq overlapped \cup Addresses \cup {Subnet}
  BY DEF OneOwnerPerPrefix
<1> DEFINE s == snapshot(d, server)
<1>0. topology \in Topologies
  BY DEF RouteInv, RouteTypes
<1>1. /\ s.topology = topology /\ s.exit = exitNode[d] /\ s.devices = active
  BY SnapshotFields
<1>2. Gives(config_v2(s, d), p.device, p.allowed) /\ Gives(config_v2(s, d), q.device, q.allowed)
  BY DEF Gives
<1>3. Entry(s, d, p.device, p.allowed) /\ Entry(s, d, q.device, q.allowed)
  BY <1>0, <1>1, <1>2, ConfigEntries
<1>4. \A o, u \in active : o # u => routed(s, o) \cap routed(s, u) \subseteq overlapped \cup Addresses
  BY RoutesApart
<1> HIDE DEF s
<1> DEFINE o == p.device
           u == q.device
           a == p.allowed
           b == q.allowed
<1>7. CASE topology = "star"
  <2>1. StarEntry(s, d, o, a) /\ StarEntry(s, d, u, b)
    BY <1>1, <1>3, <1>7 DEF Entry
  <2>2. CASE d = s.server
    BY <1>1, <1>4, <2>1, <2>2 DEF StarEntry
  <2>3. CASE d # s.server
    <3>1. a = {Subnet} \/ b = {Subnet}
      BY <1>1, <2>1, <2>3 DEF StarEntry
    <3> QED BY <3>1
  <2> QED BY <2>2, <2>3
<1>8. CASE topology = "mesh"
  <2>1. MeshEntry(s, d, o, a) /\ MeshEntry(s, d, u, b)
    BY <1>1, <1>3, <1>8 DEF Entry
  <2> QED BY <1>1, <1>4, <2>1 DEF MeshEntry, SelfEntry
<1>9. CASE topology = "hybrid"
  <2>1. HybridEntry(s, d, o, a) /\ HybridEntry(s, d, u, b)
    BY <1>1, <1>3, <1>9 DEF Entry
  <2>2. /\ o \in active /\ a = (IF o = s.server THEN {Subnet} ELSE routed(s, o))
        /\ u \in active /\ b = (IF u = s.server THEN {Subnet} ELSE routed(s, u))
    BY <1>1, <2>1 DEF HybridEntry, SelfEntry
  <2> QED BY <1>4, <2>2
<1> QED BY <1>0, <1>7, <1>8, <1>9 DEF Topologies

\* The network starts with at most one row.
LEMMA RouteInit == Init => RouteInv
<1> SUFFICES ASSUME Init PROVE RouteInv
  OBVIOUS
<1>1. PICK row \in StartRoutes : route = [r \in RouteIds |-> IF r = 1 THEN row ELSE NoRoute]
  BY DEF Init
<1>2. route \in [RouteIds -> {NoRoute} \cup RouteRow]
  BY <1>1, StartAssumption
<1>3. \A r \in RouteRows : r = 1
  BY <1>1 DEF RouteRows
<1>4. job \in [Jobs -> RouteJob] /\ \A j \in Jobs : job[j].pc = "idle"
  BY DEF Init, RouteJob, Idle
<1>5. topology \in Topologies /\ active \subseteq Devices
  BY DEF Init, Topologies
<1> QED BY <1>2, <1>3, <1>4, <1>5 DEF RouteInv, RouteTypes, RowsApart, ClaimsApart, PrefixKept

\* The kinds of request and what each carries.
LEMMA JobKinds ==
    ASSUME NEW x \in RouteJob
    PROVE  /\ x.pc = "insert" => x.id \in RouteIds /\ x.new \in RouteRow
           /\ x.pc = "write" => x.id \in RouteIds /\ x.new \in RouteRow /\ x.old \in RouteRow
           /\ x.pc = "delete" => x.id \in RouteIds
BY DEF RouteJob, Idle

\* A row is not NoRoute.
LEMMA RowIsNotNone == NoRoute \notin RouteRow
BY DEF NoRoute, RouteRow

\* The invariant survives every request, commit and pull.
LEMMA RouteStep == RouteInv /\ [Next]_vars => RouteInv'
<1> SUFFICES ASSUME RouteInv, [Next]_vars PROVE RouteInv'
  OBVIOUS
<1> USE DEF RouteInv, RouteTypes, RowsApart, ClaimsApart, PrefixKept
<1>1. CASE UNCHANGED vars
  BY <1>1 DEF vars, RouteRows
<1>2. ASSUME NEW t \in {"star", "mesh", "hybrid"}, update_network(t) PROVE RouteInv'
  BY <1>2 DEF update_network, RouteRows, Topologies
<1>3. ASSUME NEW d \in Devices, NEW on \in BOOLEAN,
             update_device_active(d, on) \/ update_device_name(d, on)
      PROVE  RouteInv'
  BY <1>3 DEF update_device_active, update_device_name, RouteRows
<1>4. ASSUME NEW d \in Devices, NEW x \in Devices \cup {NoDevice},
             update_device_exit_node(d, x) \/ select_exit_node(d, x)
      PROVE  RouteInv'
  BY <1>4 DEF update_device_exit_node, select_exit_node, RouteRows
<1>5. ASSUME NEW d \in Devices, NEW eps \in SUBSET Rows[d], endpoints_change(d, eps)
      PROVE  RouteInv'
  BY <1>5 DEF endpoints_change, RouteRows
<1>6. ASSUME NEW d \in Pullers, Pull(d) PROVE RouteInv'
  BY <1>6 DEF Pull, build_network_state, build_device_states, build_routes_by_device,
              build_config_v2, pullFrame, RouteRows
<1>7. ASSUME NEW j \in Jobs, NEW d \in Devices, NEW prefix \in Prefixes, NEW e \in BOOLEAN,
             advertise_route(j, d, prefix, e)
      PROVE  RouteInv'
  <2>1. PICK i \in RouteIds :
          job' = [job EXCEPT ![j] = [pc |-> "insert", id |-> i,
                    new |-> [state |-> "row", device |-> d, prefix |-> prefix,
                             is_exit_node |-> e, approved |-> FALSE, enabled |-> FALSE]]]
    BY <1>7 DEF advertise_route
  <2> DEFINE row == [state |-> "row", device |-> d, prefix |-> prefix,
                     is_exit_node |-> e, approved |-> FALSE, enabled |-> FALSE]
             new == [pc |-> "insert", id |-> i, new |-> row]
  <2>2. row \in RouteRow /\ row.prefix = prefix
    BY DEF RouteRow
  <2>3. new \in RouteJob /\ new.pc = "insert" /\ new.new.prefix = prefix
    BY <2>2 DEF RouteJob
  <2>4. job' = [job EXCEPT ![j] = new]
    BY <2>1
  <2> HIDE DEF row, new
  <2>5. job' \in [Jobs -> RouteJob]
    BY <2>3, <2>4
  <2>6. /\ overlaps_with_existing(prefix) = {}
        /\ overlapped' = overlapped \cup
             {p \in {prefix} : \E k \in Jobs : job[k].pc = "insert" /\ job[k].new.prefix = p}
        /\ route' = route /\ topology' = topology /\ active' = active
    BY <1>7 DEF advertise_route, adminVars
  <2>7. \A r \in RouteRows : route[r].prefix # prefix
    BY <2>6 DEF overlaps_with_existing
  <2>8. RouteRows' = RouteRows
    BY <2>6 DEF RouteRows
  <2>9. /\ overlapped \subseteq overlapped'
        /\ \A k \in Jobs : job[k].pc = "insert" /\ job[k].new.prefix = prefix => prefix \in overlapped'
    BY <2>6
  <2>10. /\ job'[j] = new
         /\ \A k \in Jobs \ {j} : job'[k] = job[k]
    BY <2>4
  <2> QED BY <2>3, <2>5, <2>6, <2>7, <2>8, <2>9, <2>10
<1>8. ASSUME NEW j \in Jobs, NEW r \in RouteIds, NEW next \in RouteJob, load_route(j, r, next),
             next.pc # "insert", next.pc = "write" => next.new.prefix = next.old.prefix
      PROVE  RouteInv'
  <2>1. /\ job' = [job EXCEPT ![j] = next]
        /\ UNCHANGED <<topology, active, route, overlapped>>
    BY <1>8 DEF load_route, adminVars
  <2> QED BY <1>8, <2>1 DEF RouteRows
<1>9. ASSUME NEW j \in Jobs, NEW r \in RouteIds, NEW new,
             load_route(j, r, [pc |-> "write", id |-> r, old |-> route[r], new |-> new]),
             route[r] \in RouteRow => new \in RouteRow /\ new.prefix = route[r].prefix
      PROVE  RouteInv'
  <2> DEFINE next == [pc |-> "write", id |-> r, old |-> route[r], new |-> new]
  <2>1. route[r] \in RouteRow
    BY <1>9 DEF load_route
  <2>2. next \in RouteJob /\ next.pc = "write" /\ next.new.prefix = next.old.prefix
    BY <1>9, <2>1 DEF RouteJob
  <2>3. load_route(j, r, next)
    BY <1>9
  <2> HIDE DEF next
  <2> QED BY <1>8, <2>2, <2>3
<1>10. ASSUME NEW j \in Jobs, NEW r \in RouteIds, NEW approved \in BOOLEAN, NEW enabled \in BOOLEAN,
              approve_route(j, r, approved, enabled)
       PROVE  RouteInv'
  <2> DEFINE new == [route[r] EXCEPT !.approved = approved, !.enabled = enabled]
  <2>1. route[r] \in RouteRow => new \in RouteRow /\ new.prefix = route[r].prefix
    BY DEF RouteRow
  <2>2. load_route(j, r, [pc |-> "write", id |-> r, old |-> route[r], new |-> new])
    BY <1>10 DEF approve_route
  <2> HIDE DEF new
  <2> QED BY <1>9, <2>1, <2>2
<1>11. ASSUME NEW j \in Jobs, NEW r \in RouteIds, NEW enabled \in BOOLEAN, update_route(j, r, enabled)
       PROVE  RouteInv'
  <2> DEFINE new == [route[r] EXCEPT !.enabled = enabled]
  <2>1. route[r] \in RouteRow => new \in RouteRow /\ new.prefix = route[r].prefix
    BY DEF RouteRow
  <2>2. load_route(j, r, [pc |-> "write", id |-> r, old |-> route[r], new |-> new])
    BY <1>11 DEF update_route
  <2> HIDE DEF new
  <2> QED BY <1>9, <2>1, <2>2
<1>12. ASSUME NEW j \in Jobs, NEW r \in RouteIds, delete_route(j, r) PROVE RouteInv'
  <2> DEFINE next == [pc |-> "delete", id |-> r]
  <2>1. next \in RouteJob /\ next.pc = "delete" /\ load_route(j, r, next)
    BY <1>12 DEF RouteJob, delete_route
  <2> HIDE DEF next
  <2> QED BY <1>8, <2>1
<1>13. ASSUME NEW j \in Jobs, commit_route(j) PROVE RouteInv'
  <2>1. job[j].id \in RouteIds /\ job[j].new \in RouteRow /\ job[j].pc = "insert"
    BY <1>13, JobKinds DEF commit_route
  <2>2. /\ route' = [route EXCEPT ![job[j].id] = job[j].new] /\ job' = [job EXCEPT ![j] = Idle]
        /\ UNCHANGED <<topology, active, overlapped>>
    BY <1>13 DEF commit_route, adminVars
  <2>3. Idle \in RouteJob /\ Idle.pc = "idle"
    BY DEF RouteJob, Idle
  <2>4. \A r \in RouteRows' : r = job[j].id \/ (r \in RouteRows /\ route'[r] = route[r])
    BY <2>1, <2>2 DEF RouteRows
  <2>5. RouteTypes'
    BY <2>1, <2>2, <2>3
  <2>6. RowsApart'
    BY <2>1, <2>2, <2>4 DEF RouteRows
  <2>7. ClaimsApart'
    BY <2>1, <2>2, <2>3, <2>4
  <2>8. PrefixKept'
    BY <2>2, <2>3
  <2> QED BY <2>5, <2>6, <2>7, <2>8
<1>14. ASSUME NEW j \in Jobs, write_route(j) PROVE RouteInv'
  <2> DEFINE r == job[j].id
             row == [f \in DOMAIN route[r] |->
                       IF job[j].new[f] # job[j].old[f] THEN job[j].new[f] ELSE route[r][f]]
  <2>1. /\ r \in RouteIds /\ job[j].new \in RouteRow /\ job[j].old \in RouteRow
        /\ job[j].new.prefix = job[j].old.prefix
    BY <1>14, JobKinds DEF write_route
  <2>2. /\ route' = [route EXCEPT ![r] = IF route[r] = NoRoute THEN NoRoute ELSE row]
        /\ job' = [job EXCEPT ![j] = Idle]
        /\ UNCHANGED <<topology, active, overlapped>>
    BY <1>14 DEF write_route, adminVars
  <2>3. Idle \in RouteJob /\ Idle.pc = "idle"
    BY DEF RouteJob, Idle
  <2>4. route[r] # NoRoute => row \in RouteRow /\ row.prefix = route[r].prefix
    <3> SUFFICES ASSUME route[r] # NoRoute PROVE row \in RouteRow /\ row.prefix = route[r].prefix
      OBVIOUS
    <3>1. route[r] \in RouteRow
      BY <2>1
    <3> QED BY <2>1, <3>1 DEF RouteRow
  <2> HIDE DEF row
  <2>5. \A q \in RouteIds : /\ route'[q] \in {NoRoute} \cup RouteRow
                            /\ q \in RouteRows' => q \in RouteRows /\ route'[q].prefix = route[q].prefix
    BY <2>1, <2>2, <2>4 DEF RouteRows
  <2>6. RouteTypes'
    BY <2>2, <2>3, <2>5
  <2>7. RowsApart'
    BY <2>2, <2>5 DEF RouteRows
  <2>8. ClaimsApart'
    BY <2>2, <2>3, <2>5 DEF RouteRows
  <2>9. PrefixKept'
    BY <2>2, <2>3
  <2> QED BY <2>6, <2>7, <2>8, <2>9
<1>15. ASSUME NEW j \in Jobs, remove_route(j) PROVE RouteInv'
  <2>1. /\ route' = [route EXCEPT ![job[j].id] = NoRoute] /\ job' = [job EXCEPT ![j] = Idle]
        /\ UNCHANGED <<topology, active, overlapped>>
    BY <1>15 DEF remove_route, adminVars
  <2>2. Idle \in RouteJob /\ Idle.pc = "idle"
    BY DEF RouteJob, Idle
  <2>3. \A r \in RouteRows' : r \in RouteRows /\ route'[r] = route[r]
    BY <2>1 DEF RouteRows
  <2>4. RouteTypes'
    BY <2>1, <2>2
  <2>5. RowsApart' /\ PrefixKept'
    BY <2>1, <2>2, <2>3
  <2>6. ClaimsApart'
    BY <2>1, <2>2, <2>3
  <2> QED BY <2>4, <2>5, <2>6
<1> QED
  BY <1>1, <1>2, <1>3, <1>4, <1>5, <1>6, <1>7, <1>10, <1>11, <1>12, <1>13, <1>14, <1>15
  DEF Next, RouteRequest, Commit

\* So it always holds.
LEMMA RoutesHold == Spec => []RouteInv
BY RouteInit, RouteStep, PTL DEF Spec

-----------------------------------------------------------------------------
(* The theorems on configurations. *)

\* Whatever changes overlap, two devices are peers of each other or not at
\* all, but for the exit node of a star (topology.py:294-536).
THEOREM PeersAlwaysMutual == Spec => []PeersAreMutual
<1>1. RouteInv => PeersAreMutual
  BY MutualInState DEF RouteInv, RouteTypes
<1> QED BY <1>1, RoutesHold, PTL

\* No text of an advertised prefix belongs to two peers of a configuration,
\* unless advertisements of it overlapped (routes.py:120-134, 363-377), it
\* is the subnet or an address, or the device is its own exit node.
THEOREM OneOwnerAlways == Spec => []OneOwnerPerPrefix
BY OneOwnerInState, RoutesHold, PTL

-----------------------------------------------------------------------------
(* Scores. *)

\* A score lies between 0 and SCORE_MAX, whatever goes into it.
LEMMA ScoreInRange ==
    ASSUME NEW reachable \in BOOLEAN, NEW latency \in Int, NEW failures \in Int,
           NEW successes \in Int, NEW priority \in Int
    PROVE  compute_endpoint_score(reachable, latency, failures, successes, priority) \in 0..SCORE_MAX
<1> DEFINE bonus == IF reachable THEN 100 ELSE 0
           slow == IF latency = NoLatency THEN 0 ELSE latency \div 10
           n == BASE_SCORE + bonus - least(priority, 100) - slow - failures * 5 + successes * 2
<1>1. bonus \in Int /\ slow \in Int /\ least(priority, 100) \in Int
  BY DEF least
<1>2. n \in Int
  BY <1>1 DEF BASE_SCORE
<1>3. \A k \in Int : clamp(k) \in 0..SCORE_MAX
  BY DEF clamp, least, SCORE_MAX
<1>4. compute_endpoint_score(reachable, latency, failures, successes, priority) = clamp(n)
  BY DEF compute_endpoint_score
<1> HIDE DEF n
<1> QED BY <1>2, <1>3, <1>4

\* Scoring a row yields a row that is scored.
LEMMA RescoredRow ==
    ASSUME NEW row \in Row
    PROVE  /\ rescored(row) \in Row
           /\ rescored(rescored(row)) = rescored(row)
           /\ rescored(row).addr = row.addr
           /\ rescored(row).failures = row.failures /\ rescored(row).successes = row.successes
<1> DEFINE score == compute_endpoint_score(row.reachable, row.latency, row.failures,
                                           row.successes, DEFAULT_PRIORITY)
<1>0. row.reachable \in BOOLEAN
  BY Zenon DEF Row
<1>1. /\ row.latency \in Int /\ row.failures \in Int /\ row.successes \in Int
      /\ DEFAULT_PRIORITY \in Int
  <2>1. /\ row.latency \in Latencies \cup {NoLatency}
        /\ row.failures \in 0..MaxProbes /\ row.successes \in 0..MaxProbes
    BY DEF Row
  <2>2. Latencies \subseteq Int /\ NoLatency \in Int /\ DEFAULT_PRIORITY \in Int
    BY EndpointAssumption DEF NoLatency, DEFAULT_PRIORITY
  <2>3. 0..MaxProbes \subseteq Int
    BY EndpointAssumption
  <2> QED BY <2>1, <2>2, <2>3
<1>2. score \in 0..SCORE_MAX
  BY <1>0, <1>1, ScoreInRange
<1>3. rescored(row) = [row EXCEPT !.score = score]
  BY DEF rescored
<1>4. /\ rescored(row).reachable = row.reachable /\ rescored(row).latency = row.latency
      /\ rescored(row).failures = row.failures /\ rescored(row).successes = row.successes
      /\ rescored(row).addr = row.addr /\ rescored(row) \in Row
  BY <1>2, <1>3 DEF Row
<1>5. rescored(rescored(row)) = [rescored(row) EXCEPT !.score = score]
  BY <1>4 DEF rescored
<1> HIDE DEF score
<1>6. [rescored(row) EXCEPT !.score = score] = rescored(row)
  BY <1>3 DEF Row
<1> QED BY <1>4, <1>5, <1>6

\* The counters of a row are at most n.
Within(row, n) == row.failures <= n /\ row.successes <= n

\* Counters that are within a bound are within a larger one.
LEMMA WithinGrows ==
    ASSUME NEW row \in Row, NEW n \in Nat, Within(row, n)
    PROVE  Within(row, n + 1)
<1>1. row.failures \in 0..MaxProbes /\ row.successes \in 0..MaxProbes
  BY DEF Row
<1>2. row.failures \in Int /\ row.successes \in Int
  BY <1>1, EndpointAssumption
<1> QED BY <1>2 DEF Within

\* A probe leaves a row of the same address that is scored, and adds at most
\* one to its counters.
LEMMA ProbedRow ==
    ASSUME NEW row \in Row, NEW reachable \in BOOLEAN, NEW latency \in Latencies \cup {NoLatency},
           NEW n \in Nat, n < MaxProbes, Within(row, n)
    PROVE  /\ probed(row, reachable, latency) \in Row
           /\ probed(row, reachable, latency).addr = row.addr
           /\ Within(probed(row, reachable, latency), n + 1)
           /\ rescored(probed(row, reachable, latency)) = probed(row, reachable, latency)
<1> DEFINE successes == IF reachable THEN row.successes + 1 ELSE row.successes
           failures == IF reachable THEN row.failures ELSE row.failures + 1
           base == [row EXCEPT !.reachable = reachable, !.latency = latency,
                               !.successes = successes, !.failures = failures]
<1>1. /\ successes \in 0..MaxProbes /\ failures \in 0..MaxProbes
      /\ successes <= n + 1 /\ failures <= n + 1
  <2>1. row.failures \in 0..MaxProbes /\ row.successes \in 0..MaxProbes
    BY DEF Row
  <2> QED BY <2>1, EndpointAssumption DEF Within
<1>2. probed(row, reachable, latency) = rescored(base)
  BY DEF probed
<1> HIDE DEF successes, failures
<1>3. base \in Row
  BY <1>1 DEF Row
<1>4. base.addr = row.addr /\ Within(base, n + 1)
  BY <1>1 DEF Row, Within
<1> HIDE DEF base
<1> QED BY <1>2, <1>3, <1>4, RescoredRow DEF Within

\* A promotion leaves a row of the same address, and adds at most one to its
\* counters.
LEMMA PromotedRow ==
    ASSUME NEW row \in Row, NEW latency \in Latencies \cup {NoLatency},
           NEW n \in Nat, n < MaxProbes, Within(row, n)
    PROVE  /\ promoted(row, latency) \in Row
           /\ promoted(row, latency).addr = row.addr
           /\ Within(promoted(row, latency), n + 1)
<1> DEFINE kept == IF latency = NoLatency THEN row.latency ELSE latency
           score == IF row.score = 0 THEN compute_endpoint_score(TRUE, latency, row.failures,
                                              row.successes + 1, DEFAULT_PRIORITY)
                                     ELSE least(row.score + 30, SCORE_MAX)
<1>1. /\ row.failures \in 0..MaxProbes /\ row.successes \in 0..MaxProbes
      /\ row.latency \in Latencies \cup {NoLatency} /\ row.score \in 0..SCORE_MAX
  BY DEF Row
<1>2. /\ row.successes + 1 \in 0..MaxProbes /\ row.successes + 1 <= n + 1 /\ row.failures <= n + 1
      /\ row.failures \in Int /\ row.successes + 1 \in Int /\ latency \in Int
      /\ DEFAULT_PRIORITY \in Int
  BY <1>1, EndpointAssumption DEF Within, NoLatency, DEFAULT_PRIORITY
<1>3. compute_endpoint_score(TRUE, latency, row.failures, row.successes + 1, DEFAULT_PRIORITY)
        \in 0..SCORE_MAX
  BY <1>2, ScoreInRange
<1>4. least(row.score + 30, SCORE_MAX) \in 0..SCORE_MAX
  BY <1>1 DEF least, SCORE_MAX
<1>5. score \in 0..SCORE_MAX /\ kept \in Latencies \cup {NoLatency}
  BY <1>1, <1>3, <1>4
<1>6. promoted(row, latency) = [row EXCEPT !.reachable = TRUE, !.successes = row.successes + 1,
                                           !.latency = kept, !.score = score]
  BY DEF promoted, Row
<1> HIDE DEF kept, score
<1> QED BY <1>2, <1>5, <1>6 DEF Row, Within

-----------------------------------------------------------------------------
(* The endpoint rows. *)

\* The requests that hold a row.
Holding == {"save", "promote"}

\* No counter exceeds the probes there were: a request in flight carries
\* counters to the row as well.
CountersInv ==
    /\ \A i \in DOMAIN rows : Within(rows[i], probes)
    /\ \A p \in Probers :
         /\ probe[p].pc \in Holding => Within(probe[p].old, probes) /\ Within(probe[p].new, probes)
         /\ probe[p].pc = "insert" => Within(probe[p].new, probes)

\* An answered report is stored, no address is reported twice in a row, and
\* every report that was given up counts as a fault.
MonitorInv ==
    /\ answer = "ok" => report # NoAddr /\ RowsOf(report) # {}
    /\ report # NoAddr => report # current
    /\ \A a \in Addrs : late[a] <= faults

\* A request holds a row that exists and keeps its address.
HeldInv ==
    \A p \in Probers : probe[p].pc \in Holding =>
        probe[p].row \in DOMAIN rows /\ probe[p].new.addr = probe[p].old.addr

\* What a probe will write is scored, and the row of a request is as it was
\* loaded and held by no other request, unless its requests overlapped.
ScoredInv ==
    /\ \A p \in Probers : probe[p].pc \in {"save", "insert"} =>
         rescored(probe[p].new) = probe[p].new
    /\ \A p \in Probers : probe[p].pc \in Holding /\ probe[p].row \notin raced =>
         /\ rows[probe[p].row] = probe[p].old
         /\ \A q \in Probers \ {p} : probe[q].pc \in Holding => probe[q].row # probe[p].row

RowInv == CountersInv /\ HeldInv /\ ScoredInv /\ ScoreIsOfTheRow

EndpointInv == EndpointTypeOK /\ MonitorInv /\ ReportedIsStored /\ RowInv

\* The kinds of probe and what each carries.
LEMMA ProbeKinds ==
    ASSUME NEW x \in Probe
    PROVE  /\ x.pc \in Holding => x.row \in 1..MaxRows /\ x.old \in Row /\ x.new \in Row
           /\ x.pc = "insert" => x.new \in Row
BY DEF Probe, NoProbe, Holding

\* Nothing is held by a request that is not there.
LEMMA NoProbeHolds == NoProbe \in Probe /\ NoProbe.pc = "idle"
BY DEF Probe, NoProbe

\* Appending a row.
LEMMA AppendedRow ==
    ASSUME NEW s \in Seq(Row), NEW row \in Row
    PROVE  /\ Append(s, row) \in Seq(Row) /\ Len(Append(s, row)) = Len(s) + 1
           /\ DOMAIN s \subseteq DOMAIN Append(s, row)
           /\ \A i \in DOMAIN s : Append(s, row)[i] = s[i]
           /\ Len(s) + 1 \in DOMAIN Append(s, row) /\ Append(s, row)[Len(s) + 1] = row
           /\ \A i \in DOMAIN Append(s, row) : i \in DOMAIN s \/ i = Len(s) + 1
           /\ Len(s) + 1 \notin DOMAIN s
OBVIOUS

\* There are no rows and no probes at the start.
LEMMA EndpointStart == EndpointInit => EndpointInv
<1> SUFFICES ASSUME EndpointInit PROVE EndpointInv
  OBVIOUS
<1> USE DEF EndpointInit
<1>1. rows \in Seq(Row) /\ Len(rows) = 0 /\ DOMAIN rows = {}
  OBVIOUS
<1>2. probe \in [Probers -> Probe] /\ \A p \in Probers : probe[p].pc = "idle"
  BY NoProbeHolds
<1>3. EndpointTypeOK
  BY <1>1, <1>2, EndpointAssumption DEF EndpointTypeOK
<1>4. MonitorInv /\ ReportedIsStored
  BY EndpointAssumption DEF MonitorInv, ReportedIsStored
<1>5. RowInv
  BY <1>1, <1>2 DEF RowInv, CountersInv, HeldInv, ScoredInv, ScoreIsOfTheRow, Holding
<1> QED BY <1>3, <1>4, <1>5 DEF EndpointInv

\* What leaves the rows and the probes alone leaves RowInv alone.
LEMMA RowFrame == RowInv /\ UNCHANGED <<rows, probe, probes, raced, lifted>> => RowInv'
BY DEF RowInv, CountersInv, HeldInv, ScoredInv, ScoreIsOfTheRow

\* The steps of the monitor that write no row.
LEMMA MonitorStep ==
    ASSUME EndpointInv, host_moves \/ daemon_restart \/ report_lost \/ detect \/ report_answered
    PROVE  EndpointInv'
<1>1. UNCHANGED <<rows, probe, probes, raced, lifted>>
  BY DEF host_moves, daemon_restart, report_lost, detect, report_answered, history
<1>2. RowInv'
  BY <1>1, RowFrame DEF EndpointInv
<1>3. detect_endpoint = host
  BY DEF detect_endpoint, query_stun_server, detect_endpoint_local
<1>4. /\ late \in [Addrs -> 0..MaxFaults] /\ faults \in Nat /\ MaxFaults \in Nat
      /\ \A a \in Addrs : late[a] \in Nat /\ late[a] <= faults
  BY EndpointAssumption DEF EndpointInv, EndpointTypeOK, MonitorInv
<1>5. late' \in [Addrs -> 0..MaxFaults] /\ \A a \in Addrs : late'[a] <= faults'
  <2>1. CASE late' = late /\ faults' = faults
    BY <1>4, <2>1
  <2>2. CASE abandon /\ faults < MaxFaults /\ faults' = faults + 1
    <3>1. \A a \in Addrs : late'[a] \in 0..MaxFaults /\ late'[a] <= faults'
      BY <1>4, <2>2 DEF abandon
    <3> QED BY <2>2, <3>1 DEF abandon
  <2> QED BY <2>1, <2>2 DEF host_moves, daemon_restart, report_lost, detect, report_answered
<1> USE DEF EndpointInv, EndpointTypeOK, MonitorInv, ReportedIsStored
<1>6. EndpointTypeOK'
  <2>1. /\ rows' \in Seq(Row) /\ Len(rows') <= MaxRows /\ probe' \in [Probers -> Probe]
        /\ probes' \in 0..MaxProbes /\ raced' \subseteq 1..MaxRows /\ lifted' \subseteq 1..MaxRows
    BY <1>1
  <2>2. moves' \in 0..MaxMoves /\ faults' \in 0..MaxFaults
    BY EndpointAssumption DEF host_moves, daemon_restart, report_lost, detect, report_answered
  <2>3. /\ host' \in Addrs \cup {NoAddr} /\ current' \in Addrs \cup {NoAddr}
        /\ report' \in Addrs \cup {NoAddr} /\ answer' \in {"none", "ok", "lost"}
    BY <1>3 DEF host_moves, daemon_restart, report_lost, detect, report_answered
  <2> QED BY <1>5, <2>1, <2>2, <2>3
<1>7. MonitorInv' /\ ReportedIsStored'
  BY <1>1, <1>3, <1>5 DEF host_moves, daemon_restart, report_lost, detect, report_answered, RowsOf
<1> QED BY <1>2, <1>6, <1>7

\* A row is appended, by a report or by a probe: it is unprobed or scored.
LEMMA RowAppended ==
    ASSUME EndpointInv, NEW row \in Row, Len(rows) < MaxRows, rows' = Append(rows, row),
           Within(row, probes), row.successes + row.failures = 0 \/ rescored(row) = row,
           UNCHANGED <<probes, raced, lifted>>,
           \A q \in Probers : probe'[q] = probe[q] \/ probe'[q] = NoProbe
    PROVE  /\ rows' \in Seq(Row) /\ Len(rows') <= MaxRows
           /\ RowInv'
           /\ \A a : RowsOf(a) \subseteq RowsOf(a)'
           /\ \A a : a = row.addr => Len(rows) + 1 \in RowsOf(a)'
           /\ \A a : a # row.addr => RowsOf(a)' = RowsOf(a)
<1>1. rows \in Seq(Row) /\ Len(rows) \in Nat
  BY DEF EndpointInv, EndpointTypeOK
<1>2. /\ rows' \in Seq(Row) /\ Len(rows') = Len(rows) + 1
      /\ DOMAIN rows \subseteq DOMAIN rows' /\ \A i \in DOMAIN rows : rows'[i] = rows[i]
      /\ Len(rows) + 1 \in DOMAIN rows' /\ rows'[Len(rows) + 1] = row
      /\ \A i \in DOMAIN rows' : i \in DOMAIN rows \/ i = Len(rows) + 1
  BY <1>1, AppendedRow
<1>3. \A q \in Probers : probe'[q] = probe[q] \/ (probe'[q] = NoProbe /\ probe'[q].pc = "idle")
  BY NoProbeHolds
<1> USE DEF EndpointInv, RowInv
<1>5. CountersInv'
  BY <1>2, <1>3 DEF CountersInv, Holding
<1>6. HeldInv'
  BY <1>2, <1>3 DEF HeldInv, Holding
<1>7. ScoredInv'
  BY <1>2, <1>3 DEF ScoredInv, HeldInv, Holding
<1>8. ScoreIsOfTheRow'
  BY <1>2 DEF ScoreIsOfTheRow
<1>9. Len(rows') <= MaxRows
  BY <1>1, <1>2, EndpointAssumption
<1>10. /\ \A a : RowsOf(a) \subseteq RowsOf(a)'
       /\ \A a : a = row.addr => Len(rows) + 1 \in RowsOf(a)'
       /\ \A a : a # row.addr => RowsOf(a)' = RowsOf(a)
  BY <1>2 DEF RowsOf
<1> QED BY <1>2, <1>5, <1>6, <1>7, <1>8, <1>9, <1>10

\* The row a report inserts.
LEMMA UnprobedRow ==
    ASSUME NEW a \in Addrs, NEW n \in Nat
    PROVE  /\ unprobed(a) \in Row /\ unprobed(a).addr = a /\ Within(unprobed(a), n)
           /\ unprobed(a).successes + unprobed(a).failures = 0
<1>1. MaxProbes \in Nat
  BY EndpointAssumption
<1> QED BY <1>1 DEF unprobed, Row, SCORE_MAX, Within

\* A report is stored.
LEMMA ReportStep ==
    ASSUME EndpointInv, report_endpoint
    PROVE  EndpointInv'
<1>1. /\ report \in Addrs /\ Len(rows) < MaxRows /\ rows' = Append(rows, unprobed(report))
      /\ answer' = "ok"
      /\ UNCHANGED <<host, current, report, late, probe, moves, probes, faults, raced, lifted>>
  BY DEF report_endpoint, EndpointInv, EndpointTypeOK, history
<1>2. probes \in Nat
  BY EndpointAssumption DEF EndpointInv, EndpointTypeOK
<1>3. PICK row \in Row : /\ row = unprobed(report) /\ row.addr = report /\ Within(row, probes)
                         /\ row.successes + row.failures = 0
  BY <1>1, <1>2, UnprobedRow
<1>6. /\ rows' \in Seq(Row) /\ Len(rows') <= MaxRows
      /\ RowInv'
      /\ \A a : RowsOf(a) \subseteq RowsOf(a)'
      /\ \A a : a = row.addr => Len(rows) + 1 \in RowsOf(a)'
  BY <1>1, <1>3, RowAppended
<1>7. EndpointTypeOK'
  BY <1>1, <1>6 DEF EndpointInv, EndpointTypeOK
<1>8. PICK a : a = report
  OBVIOUS
<1>9. RowsOf(a)' # {} /\ report' = a /\ RowsOf(report)' = RowsOf(a)'
  BY <1>1, <1>3, <1>6, <1>8 DEF RowsOf
<1>10. MonitorInv'
  BY <1>1, <1>9, EndpointAssumption DEF EndpointInv, MonitorInv
<1>11. ReportedIsStored'
  <2>1. PICK c : c = current
    OBVIOUS
  <2>2. RowsOf(current)' = RowsOf(c)' /\ RowsOf(c) \subseteq RowsOf(c)'
    BY <1>1, <1>6, <2>1 DEF RowsOf
  <2> QED BY <1>1, <2>1, <2>2 DEF EndpointInv, ReportedIsStored
<1> QED BY <1>6, <1>7, <1>10, <1>11 DEF EndpointInv

\* Whoever only adds rows keeps what is said of the monitor.
LEMMA MonitorFrame ==
    ASSUME MonitorInv, ReportedIsStored, UNCHANGED <<current, report, answer, late, faults>>,
           \A a : RowsOf(a) \subseteq RowsOf(a)'
    PROVE  MonitorInv' /\ ReportedIsStored'
<1>1. PICK c, r : c = current /\ r = report
  OBVIOUS
<1>2. /\ RowsOf(current)' = RowsOf(c)' /\ RowsOf(c) \subseteq RowsOf(c)'
      /\ RowsOf(report)' = RowsOf(r)' /\ RowsOf(r) \subseteq RowsOf(r)'
  BY <1>1 DEF RowsOf
<1> QED BY <1>1, <1>2 DEF MonitorInv, ReportedIsStored

\* A report that was given up is stored, at its own address only.
LEMMA LateStep ==
    ASSUME EndpointInv, NEW a \in Addrs, report_late(a)
    PROVE  EndpointInv' /\ \A b : b # a => RowsOf(b)' = RowsOf(b)
<1>1. /\ late[a] > 0 /\ late' = [late EXCEPT ![a] = @ - 1]
      /\ Len(rows) < MaxRows /\ rows' = Append(rows, unprobed(a))
      /\ UNCHANGED <<host, current, report, answer, probe, moves, probes, faults, raced, lifted>>
  BY DEF report_late, history
<1>2. /\ probes \in Nat /\ faults \in Nat /\ MaxFaults \in Nat
      /\ late \in [Addrs -> 0..MaxFaults] /\ \A b \in Addrs : late[b] <= faults
  BY EndpointAssumption DEF EndpointInv, EndpointTypeOK, MonitorInv
<1>3. PICK row \in Row : /\ row = unprobed(a) /\ row.addr = a /\ Within(row, probes)
                         /\ row.successes + row.failures = 0
  BY <1>2, UnprobedRow
<1>4. /\ rows' \in Seq(Row) /\ Len(rows') <= MaxRows /\ RowInv'
      /\ \A b : RowsOf(b) \subseteq RowsOf(b)'
      /\ \A b : b # row.addr => RowsOf(b)' = RowsOf(b)
  BY <1>1, <1>3, RowAppended
<1>5. late[a] \in 0..MaxFaults
  BY <1>2
<1>6. late[a] - 1 \in 0..MaxFaults /\ late[a] - 1 <= faults
  BY <1>1, <1>2, <1>5
<1>7. late' \in [Addrs -> 0..MaxFaults] /\ \A b \in Addrs : late'[b] <= faults'
  BY <1>1, <1>2, <1>6
<1>8. EndpointTypeOK'
  BY <1>1, <1>4, <1>7 DEF EndpointInv, EndpointTypeOK
<1>9. PICK c, r : c = current /\ r = report
  OBVIOUS
<1>10. /\ RowsOf(current)' = RowsOf(c)' /\ RowsOf(c) \subseteq RowsOf(c)'
       /\ RowsOf(report)' = RowsOf(r)' /\ RowsOf(r) \subseteq RowsOf(r)'
  BY <1>1, <1>4, <1>9 DEF RowsOf
<1>11. MonitorInv' /\ ReportedIsStored'
  BY <1>1, <1>7, <1>9, <1>10 DEF EndpointInv, MonitorInv, ReportedIsStored
<1> QED BY <1>3, <1>4, <1>8, <1>11 DEF EndpointInv

\* A first probe is stored.
LEMMA InsertStep ==
    ASSUME EndpointInv, NEW p \in Probers, probe_insert(p)
    PROVE  EndpointInv'
<1>1. /\ probe[p].pc = "insert" /\ Len(rows) < MaxRows /\ rows' = Append(rows, probe[p].new)
      /\ probe' = [probe EXCEPT ![p] = NoProbe]
      /\ UNCHANGED <<host, current, report, answer, late, moves, probes, faults, raced, lifted>>
  BY DEF probe_insert, history
<1>2. probe[p] \in Probe /\ probe \in [Probers -> Probe]
  BY DEF EndpointInv, EndpointTypeOK
<1>3. /\ probe[p].new \in Row /\ Within(probe[p].new, probes)
      /\ rescored(probe[p].new) = probe[p].new
  BY <1>1, <1>2, ProbeKinds DEF EndpointInv, RowInv, CountersInv, ScoredInv
<1>4. \A q \in Probers : probe'[q] = probe[q] \/ probe'[q] = NoProbe
  BY <1>1, <1>2
<1>5. /\ rows' \in Seq(Row) /\ Len(rows') <= MaxRows /\ RowInv'
      /\ \A a : RowsOf(a) \subseteq RowsOf(a)'
  BY <1>1, <1>3, <1>4, RowAppended
<1>6. MonitorInv' /\ ReportedIsStored'
  BY <1>1, <1>5, MonitorFrame DEF EndpointInv
<1>7. probe' \in [Probers -> Probe]
  BY <1>1, <1>2, NoProbeHolds
<1>8. EndpointTypeOK'
  BY <1>1, <1>5, <1>7 DEF EndpointInv, EndpointTypeOK
<1> QED BY <1>5, <1>6, <1>8 DEF EndpointInv

\* What a save writes is the row of the same address, and the row that was
\* computed unless requests for it overlapped.
LEMMA SavedRow ==
    ASSUME EndpointInv, NEW p \in Probers, probe_save(p) \/ promote_save(p)
    PROVE  LET i == probe[p].row
           IN /\ i \in DOMAIN rows
              /\ rows' \in Seq(Row) /\ DOMAIN rows' = DOMAIN rows /\ Len(rows') = Len(rows)
              /\ \A k \in DOMAIN rows : k # i => rows'[k] = rows[k]
              /\ rows'[i].addr = rows[i].addr /\ Within(rows'[i], probes)
              /\ i \notin raced => rows'[i] = probe[p].new
<1> DEFINE i == probe[p].row
           new == probe[p].new
           old == probe[p].old
           row == [f \in DOMAIN rows[i] |-> IF new[f] # old[f] THEN new[f] ELSE rows[i][f]]
<1>1. probe[p] \in Probe /\ probe[p].pc \in Holding /\ rows \in Seq(Row)
  BY DEF EndpointInv, EndpointTypeOK, probe_save, promote_save, Holding
<1>2. /\ i \in DOMAIN rows /\ new.addr = old.addr /\ new \in Row /\ old \in Row
      /\ rows[i] \in Row
  BY <1>1, ProbeKinds DEF EndpointInv, RowInv, HeldInv
<1>3. Within(new, probes) /\ Within(rows[i], probes)
  BY <1>1, <1>2 DEF EndpointInv, RowInv, CountersInv
<1>4. rows' = [rows EXCEPT ![i] = row]
  BY DEF probe_save, promote_save, saved
<1>5. row \in Row
  BY <1>2 DEF Row
<1>6. row.addr = rows[i].addr
  BY <1>2 DEF Row
<1>7. Within(row, probes)
  BY <1>2, <1>3 DEF Row, Within
<1>8. i \notin raced => row = new
  <2> SUFFICES ASSUME i \notin raced PROVE row = new
    OBVIOUS
  <2>1. rows[i] = old
    BY <1>1 DEF EndpointInv, RowInv, ScoredInv
  <2>2. DOMAIN old = DOMAIN new
    BY <1>2 DEF Row
  <2>3. \A f \in DOMAIN new : row[f] = new[f]
    BY <2>1, <2>2
  <2>4. row = [f \in DOMAIN new |-> new[f]]
    BY <2>1, <2>2, <2>3
  <2> QED BY <1>2, <2>4 DEF Row
<1> HIDE DEF row
<1>9. /\ rows' \in Seq(Row) /\ DOMAIN rows' = DOMAIN rows /\ Len(rows') = Len(rows)
      /\ rows'[i] = row /\ \A k \in DOMAIN rows : k # i => rows'[k] = rows[k]
  BY <1>1, <1>2, <1>4, <1>5
<1> QED BY <1>2, <1>6, <1>7, <1>8, <1>9

\* A probe or a promotion of a row is committed, and no address gains or
\* loses a row.
LEMMA SaveStep ==
    ASSUME EndpointInv, NEW p \in Probers, probe_save(p) \/ promote_save(p)
    PROVE  EndpointInv' /\ \A a : RowsOf(a)' = RowsOf(a)
<1>1. PICK i : i = probe[p].row
  OBVIOUS
<1>2. /\ i \in DOMAIN rows
      /\ rows' \in Seq(Row) /\ DOMAIN rows' = DOMAIN rows /\ Len(rows') = Len(rows)
      /\ \A k \in DOMAIN rows : k # i => rows'[k] = rows[k]
      /\ rows'[i].addr = rows[i].addr /\ Within(rows'[i], probes)
      /\ i \notin raced => rows'[i] = probe[p].new
  BY <1>1, SavedRow
<1>3. /\ probe[p].pc \in Holding /\ probe' = [probe EXCEPT ![p] = NoProbe]
      /\ UNCHANGED <<host, current, report, answer, late, moves, probes, faults, raced>>
      /\ lifted' = IF probe[p].pc = "save" THEN lifted \ {i} ELSE lifted \cup {i}
  BY <1>1 DEF probe_save, promote_save, Holding
<1>4. probe \in [Probers -> Probe]
  BY DEF EndpointInv, EndpointTypeOK
<1>5. /\ \A q \in Probers : probe'[q] = probe[q] \/ probe'[q].pc = "idle"
      /\ probe'[p].pc = "idle" /\ probe' \in [Probers -> Probe]
  BY <1>3, <1>4, NoProbeHolds
<1>6. \A a : RowsOf(a)' = RowsOf(a)
  BY <1>2 DEF RowsOf
<1>7. MonitorInv' /\ ReportedIsStored'
  BY <1>3, <1>6, MonitorFrame DEF EndpointInv
<1>8. EndpointTypeOK'
  <2>1. i \in 1..MaxRows
    BY <1>2, EndpointAssumption DEF EndpointInv, EndpointTypeOK
  <2> QED BY <1>2, <1>3, <1>5, <2>1 DEF EndpointInv, EndpointTypeOK
<1> USE DEF EndpointInv, RowInv
<1>9. CountersInv'
  BY <1>2, <1>3, <1>5 DEF CountersInv, Holding
<1>10. HeldInv'
  BY <1>2, <1>3, <1>5 DEF HeldInv, Holding
<1>11. ScoredInv'
  <2>1. \A q \in Probers : probe'[q].pc \in Holding =>
          /\ q # p /\ probe'[q] = probe[q] /\ probe[q].row \in DOMAIN rows
          /\ probe[q].row \notin raced => probe[q].row # i
    BY <1>1, <1>3, <1>5 DEF ScoredInv, HeldInv, Holding
  <2>2. \A q \in Probers : probe'[q].pc \in {"save", "insert"} => probe'[q] = probe[q]
    BY <1>5
  <2> QED BY <1>2, <1>3, <1>5, <2>1, <2>2 DEF ScoredInv
<1>12. ScoreIsOfTheRow'
  <2>1. CASE probe[p].pc = "save"
    <3>1. rescored(probe[p].new) = probe[p].new
      BY <2>1 DEF ScoredInv
    <3> QED BY <1>2, <1>3, <2>1, <3>1 DEF ScoreIsOfTheRow
  <2>2. CASE probe[p].pc = "promote"
    BY <1>2, <1>3, <2>2 DEF ScoreIsOfTheRow
  <2> QED BY <1>3, <2>1, <2>2 DEF Holding
<1> QED BY <1>6, <1>7, <1>8, <1>9, <1>10, <1>11, <1>12

\* A request begins, holding the row it loaded or one to insert.
LEMMA Loaded ==
    ASSUME EndpointInv, NEW p \in Probers, NEW next \in Probe,
           probes < MaxProbes, probes' = probes + 1,
           UNCHANGED <<host, current, report, answer, late, rows, moves, faults, lifted>>,
           probe' = [probe EXCEPT ![p] = next],
           raced \subseteq raced', raced' \subseteq 1..MaxRows,
           next.pc \in {"save", "insert", "promote"},
           next.pc # "promote" => rescored(next.new) = next.new,
           Within(next.new, probes'),
           next.pc \in Holding => /\ next.row \in DOMAIN rows /\ next.new.addr = next.old.addr
                                  /\ next.old = rows[next.row] /\ Within(next.old, probes')
                                  /\ Held(next.row) => next.row \in raced'
    PROVE  EndpointInv'
<1>1. /\ rows \in Seq(Row) /\ Len(rows) <= MaxRows /\ probe \in [Probers -> Probe]
      /\ probes \in Nat /\ MaxProbes \in Nat /\ MaxRows \in Nat /\ raced \subseteq 1..MaxRows
  BY EndpointAssumption DEF EndpointInv, EndpointTypeOK
<1>2. \A row \in Row : Within(row, probes) => Within(row, probes')
  BY <1>1, WithinGrows
<1>3. MonitorInv' /\ ReportedIsStored'
  BY MonitorFrame DEF EndpointInv, RowsOf
<1>4. probe' \in [Probers -> Probe] /\ probe'[p] = next /\ \A q \in Probers \ {p} : probe'[q] = probe[q]
  BY <1>1
<1>5. EndpointTypeOK'
  BY <1>1, <1>4 DEF EndpointInv, EndpointTypeOK
<1>6. /\ \A i \in DOMAIN rows : rows[i] \in Row
      /\ \A q \in Probers : /\ probe[q].pc \in Holding => probe[q].old \in Row /\ probe[q].new \in Row
                            /\ probe[q].pc = "insert" => probe[q].new \in Row
  BY <1>1, ProbeKinds
<1> USE DEF EndpointInv, RowInv
<1>7. CountersInv'
  BY <1>2, <1>4, <1>6 DEF CountersInv, Holding
<1>8. HeldInv'
  BY <1>4 DEF HeldInv
<1>9. ScoredInv'
  <2>1. \A q \in Probers \ {p} : next.pc \in Holding /\ probe[q].pc \in Holding /\ probe[q].row = next.row
          => next.row \in raced'
    BY DEF Held, Holding
  <2>2. \A q \in Probers : probe'[q].pc \in {"save", "insert"} => rescored(probe'[q].new) = probe'[q].new
    BY <1>4 DEF ScoredInv
  <2> QED BY <1>4, <2>1, <2>2 DEF ScoredInv
<1>10. ScoreIsOfTheRow'
  BY DEF ScoreIsOfTheRow
<1> QED BY <1>3, <1>5, <1>7, <1>8, <1>9, <1>10

\* A probe or a promotion loads the row of its address, or a probe finds
\* none.
LEMMA LoadStep ==
    ASSUME EndpointInv, NEW p \in Probers, NEW a \in Addrs, NEW reachable \in BOOLEAN,
           NEW latency \in Latencies \cup {NoLatency},
           probe_load(p, a, reachable, latency) \/ promote_load(p, a, latency)
    PROVE  EndpointInv'
<1>1. /\ probes < MaxProbes /\ probes' = probes + 1
      /\ UNCHANGED <<host, current, report, answer, late, rows, moves, faults, lifted>>
  BY DEF probe_load, promote_load
<1>2. /\ rows \in Seq(Row) /\ Len(rows) <= MaxRows /\ probe \in [Probers -> Probe]
      /\ probes \in Nat /\ MaxProbes \in Nat /\ MaxRows \in Nat /\ raced \subseteq 1..MaxRows
  BY EndpointAssumption DEF EndpointInv, EndpointTypeOK
<1>3. \A row \in Row : Within(row, probes) => Within(row, probes')
  BY <1>1, <1>2, WithinGrows
<1>6. ASSUME NEW i \in RowsOf(a), NEW kind \in Holding, NEW new \in Row,
             load(p, kind, i, new), new.addr = rows[i].addr, Within(new, probes'),
             kind = "save" => rescored(new) = new
      PROVE  EndpointInv'
  <2> DEFINE next == [pc |-> kind, row |-> i, old |-> rows[i], new |-> new]
  <2>1. i \in DOMAIN rows /\ i \in 1..MaxRows /\ rows[i] \in Row /\ Within(rows[i], probes)
    BY <1>2, <1>6 DEF RowsOf, EndpointInv, RowInv, CountersInv
  <2>2. Within(rows[i], probes')
    BY <1>3, <2>1
  <2>3. /\ next \in Probe /\ next.pc = kind /\ next.row = i /\ next.old = rows[i]
        /\ next.new = new
    BY <1>6, <2>1 DEF Probe, Holding
  <2>4. probe' = [probe EXCEPT ![p] = next]
    BY <1>6 DEF load
  <2> HIDE DEF next
  <2>5. raced \subseteq raced' /\ raced' \subseteq 1..MaxRows /\ (Held(i) => i \in raced')
    BY <1>2, <1>6, <2>1 DEF load
  <2>6. kind \in {"save", "insert", "promote"} /\ (kind # "promote" => rescored(new) = new)
    BY <1>6 DEF Holding
  <2> QED BY <1>1, <1>6, <2>1, <2>2, <2>3, <2>4, <2>5, <2>6, Loaded
<1>7. ASSUME probe' = [probe EXCEPT ![p] = [pc |-> "insert",
                                            new |-> probed(unprobed(a), reachable, latency)]],
             raced' = raced
      PROVE  EndpointInv'
  <2> DEFINE new == probed(unprobed(a), reachable, latency)
             next == [pc |-> "insert", new |-> new]
  <2>1. unprobed(a) \in Row
    BY <1>2, UnprobedRow
  <2>2. Within(unprobed(a), probes)
    BY <1>2, UnprobedRow
  <2>3. new \in Row /\ Within(new, probes') /\ rescored(new) = new
    BY <1>1, <1>2, <2>1, <2>2, ProbedRow
  <2> HIDE DEF new
  <2>4. next \in Probe /\ next.pc = "insert" /\ next.new = new
    BY <2>3 DEF Probe
  <2>5. probe' = [probe EXCEPT ![p] = next]
    BY <1>7 DEF new
  <2> HIDE DEF next
  <2>6. "insert" \notin Holding
    BY DEF Holding
  <2> QED BY <1>1, <1>2, <1>7, <2>3, <2>4, <2>5, <2>6, Loaded
<1>8. \A i \in RowsOf(a) : rows[i] \in Row /\ Within(rows[i], probes)
  BY <1>2 DEF RowsOf, EndpointInv, RowInv, CountersInv
<1>9. ASSUME NEW i \in RowsOf(a), load(p, "save", i, probed(rows[i], reachable, latency))
      PROVE  EndpointInv'
  <2>1. PICK new \in Row : /\ new = probed(rows[i], reachable, latency) /\ new.addr = rows[i].addr
                           /\ Within(new, probes') /\ rescored(new) = new
    BY <1>1, <1>2, <1>8, ProbedRow
  <2>2. "save" \in Holding
    BY DEF Holding
  <2> QED BY <1>6, <1>9, <2>1, <2>2
<1>10. ASSUME NEW i \in RowsOf(a), load(p, "promote", i, promoted(rows[i], latency))
       PROVE  EndpointInv'
  <2>1. PICK new \in Row : /\ new = promoted(rows[i], latency) /\ new.addr = rows[i].addr
                           /\ Within(new, probes')
    BY <1>1, <1>2, <1>8, PromotedRow
  <2>2. "promote" \in Holding
    BY DEF Holding
  <2> QED BY <1>6, <1>10, <2>1, <2>2
<1> QED BY <1>7, <1>9, <1>10 DEF probe_load, promote_load

\* The invariant survives every step of the monitor and of the probers.
LEMMA EndpointStep == EndpointInv /\ [EndpointNext]_endpointVars => EndpointInv'
<1> SUFFICES ASSUME EndpointInv, [EndpointNext]_endpointVars PROVE EndpointInv'
  OBVIOUS
<1>1. CASE UNCHANGED endpointVars
  <2>1. RowInv'
    BY <1>1, RowFrame DEF endpointVars, EndpointInv
  <2> QED BY <1>1, <2>1 DEF endpointVars, EndpointInv, EndpointTypeOK, MonitorInv, ReportedIsStored, RowsOf
<1>2. CASE host_moves \/ daemon_restart \/ report_lost \/ Monitor
  BY <1>2, MonitorStep, ReportStep DEF Monitor
<1>3. ASSUME NEW p \in Probers, probe_save(p) \/ promote_save(p) \/ probe_insert(p) PROVE EndpointInv'
  BY <1>3, SaveStep, InsertStep
<1>4. ASSUME NEW p \in Probers, NEW a \in Addrs, probe_load(p, a, FALSE, NoLatency) PROVE EndpointInv'
  BY <1>4, LoadStep
<1>5. ASSUME NEW p \in Probers, NEW a \in Addrs, NEW l \in Latencies, probe_load(p, a, TRUE, l)
      PROVE  EndpointInv'
  BY <1>5, LoadStep
<1>6. ASSUME NEW p \in Probers, NEW a \in Addrs, NEW l \in Latencies \cup {NoLatency}, promote_load(p, a, l)
      PROVE  EndpointInv'
  BY <1>6, LoadStep
<1>7. ASSUME NEW a \in Addrs, report_late(a) PROVE EndpointInv'
  BY <1>7, LateStep
<1> QED BY <1>1, <1>2, <1>3, <1>4, <1>5, <1>6, <1>7 DEF EndpointNext

\* So it always holds.
LEMMA EndpointsHold == EndpointSpec => []EndpointInv
BY EndpointStart, EndpointStep, PTL DEF EndpointSpec

-----------------------------------------------------------------------------
(* The theorems on endpoint rows. *)

\* The endpoint rows and the probes are well typed; in particular no score
\* leaves its range (endpoint_scoring.py:22-45).
THEOREM EndpointTypeCorrect == EndpointSpec => []EndpointTypeOK
<1>1. EndpointInv => EndpointTypeOK
  BY DEF EndpointInv
<1> QED BY <1>1, EndpointsHold, PTL

\* The address the monitor takes as reported always has a row
\* (endpoint_monitor.py:168-202).
THEOREM ReportedAlwaysStored == EndpointSpec => []ReportedIsStored
<1>1. EndpointInv => ReportedIsStored
  BY DEF EndpointInv
<1> QED BY <1>1, EndpointsHold, PTL

\* A probed row has the score of its counters unless requests for it
\* overlapped or a promotion has raised it since (daemon.py:202-227,
\* nat.py:378-391).
THEOREM ScoresAgree == EndpointSpec => []ScoreIsOfTheRow
<1>1. EndpointInv => ScoreIsOfTheRow
  BY DEF EndpointInv, RowInv
<1> QED BY <1>1, EndpointsHold, PTL

\* The address the monitor has reported gets no further row, but for the
\* insert of a probe and a report that was given up (endpoint_monitor.py:174,
\* daemon.py:202-289).
THEOREM NeverAFurtherRow == EndpointSpec => NoFurtherRow
<1> DEFINE Kept == \A a \in Addrs :
                     (/\ RowsOf(a) # {} /\ current = a /\ late[a] = 0
                      /\ \A p \in Probers : probe[p].pc # "insert")
                       => RowsOf(a)' = RowsOf(a)
<1>1. ASSUME EndpointInv, [EndpointNext]_endpointVars PROVE [Kept]_endpointVars
  <2> SUFFICES ASSUME EndpointNext, NEW a \in Addrs, current = a, late[a] = 0,
                      \A p \in Probers : probe[p].pc # "insert"
               PROVE  RowsOf(a)' = RowsOf(a)
    BY <1>1
  <2>1. CASE rows' = rows
    BY <2>1 DEF RowsOf
  <2>2. CASE report_endpoint
    <3>1. report # a /\ report \in Addrs
      BY <1>1, <2>2 DEF EndpointInv, MonitorInv, report_endpoint, EndpointTypeOK
    <3>2. /\ rows \in Seq(Row) /\ rows' = Append(rows, unprobed(report))
      BY <1>1, <2>2 DEF EndpointInv, EndpointTypeOK, report_endpoint
    <3>3. unprobed(report) \in Row /\ unprobed(report).addr # a
      BY <3>1, UnprobedRow
    <3> QED BY <3>2, <3>3, AppendedRow DEF RowsOf
  <2>3. ASSUME NEW p \in Probers, probe_save(p) \/ promote_save(p) PROVE RowsOf(a)' = RowsOf(a)
    BY <1>1, <2>3, SaveStep
  <2>4. ASSUME NEW p \in Probers, probe_insert(p) PROVE FALSE
    BY <2>4 DEF probe_insert
  <2>5. ASSUME NEW b \in Addrs, report_late(b) PROVE RowsOf(a)' = RowsOf(a)
    <3>1. b # a
      BY <2>5 DEF report_late
    <3> QED BY <1>1, <2>5, <3>1, LateStep
  <2> QED
    BY <2>1, <2>2, <2>3, <2>4, <2>5
    DEF EndpointNext, Monitor, host_moves, daemon_restart, report_lost, detect, report_answered,
        probe_load, promote_load
<1>2. EndpointSpec => [][Kept]_endpointVars
  BY <1>1, EndpointsHold, PTL DEF EndpointSpec
<1> QED BY <1>2 DEF NoFurtherRow
================================================================================
