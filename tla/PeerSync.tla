------------------------------ MODULE PeerSync ------------------------------
(***************************************************************************)
(* What the reconciler of a daemon promises about its interface, apart     *)
(* from how it gets there: the peers change one at a time, and each change *)
(* is what one single published configuration, the goal, says of the peer. *)
(* The allowed IPs of the peer become the goal's, whole; its endpoint      *)
(* becomes the goal's or, if the goal gives none, stays.  Other peers only *)
(* lose IPs to it.  Only a peer that the goal does not name is removed.    *)
(* The goal becomes the configuration the server publishes now; only a     *)
(* reconciler that has none yet may start with an older one.               *)
(***************************************************************************)
EXTENDS Naturals

CONSTANTS Keys, Ips, NoKey, NoEndpoint, Absent, NoConfig, MaxRevision, ConfigOf

VARIABLES
    want,      \* the revision the server publishes
    goal,      \* the configuration being applied, or NoConfig
    peers,     \* the peers of the interface
    route,     \* the peer each allowed IP belongs to
    endpoint   \* the endpoint of each peer

vars == <<want, goal, peers, route, endpoint>>

Nothing ==
    /\ peers = {}
    /\ route = [ip \in Ips |-> NoKey]
    /\ endpoint = [k \in Keys |-> NoEndpoint]

Init == want = 1 /\ goal = NoConfig /\ Nothing

Publish ==
    /\ want < MaxRevision /\ want' = want + 1
    /\ UNCHANGED <<goal, peers, route, endpoint>>

\* An older configuration is a choice of a reconciler that starts.
Adopt ==
    /\ \E r \in 1..want : /\ r = want \/ goal = NoConfig
                          /\ goal' = ConfigOf[r]
    /\ UNCHANGED <<want, peers, route, endpoint>>

\* Only k changes, but for the IPs it takes from others.
OnlyOf(k) ==
    /\ \A ip \in Ips : route'[ip] # route[ip] => k \in {route[ip], route'[ip]}
    /\ \A j \in Keys \ {k} : endpoint'[j] = endpoint[j]
    /\ UNCHANGED <<want, goal>>

SetPeer(k) ==
    /\ goal # NoConfig /\ goal[k] # Absent
    /\ peers' = peers \cup {k}
    /\ {ip \in Ips : route'[ip] = k} = goal[k].ips
    /\ endpoint'[k] = IF goal[k].endpoint = NoEndpoint THEN endpoint[k] ELSE goal[k].endpoint
    /\ OnlyOf(k)

RemovePeer(k) ==
    /\ goal # NoConfig /\ goal[k] = Absent
    /\ peers' = peers \ {k}
    /\ \A ip \in Ips : route'[ip] # k
    /\ OnlyOf(k)

\* The daemon starts anew; if the host did, the peers are gone.
Restart ==
    /\ goal' = NoConfig
    /\ Nothing' \/ UNCHANGED <<peers, route, endpoint>>
    /\ UNCHANGED want

Next == Publish \/ Adopt \/ Restart \/ \E k \in Keys : SetPeer(k) \/ RemovePeer(k)

Spec == Init /\ [][Next]_vars
=============================================================================
