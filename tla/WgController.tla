---------------------------- MODULE WgController ----------------------------
(***************************************************************************)
(* The reconciliation controller of the server's WireGuard interface       *)
(* (src/backend/app/services/wg_controller.py) over the wg tool            *)
(* (wg_adapter.py) and the device table.                                   *)
(*                                                                         *)
(* A pass reads the devices that should be peers, reads the peers of the   *)
(* interface, removes and then adds peers one command at a time, copies    *)
(* handshakes to the device rows and, every CleanupCycles passes, marks    *)
(* stale devices inactive.  The database and the interface change under it *)
(* between any two of these steps.  A pass works in one database session   *)
(* that is flushed and never committed.                                    *)
(*                                                                         *)
(* Abstractions.  One interface.  An allowed IP is an address or an        *)
(* approved prefix; the kernel gives each to the last peer it was set for. *)
(* Handshake times are recent or not, against stale_device_days.  DNS, the *)
(* events and the metrics of a pass are left out.  WgMockAdapter, which    *)
(* stands in where the wg tool is missing, starts without interfaces, so   *)
(* that every pass over it is skipped: iface is FALSE for good.            *)
(*                                                                         *)
(* The tool is not part of the repository.  _parse_dump reads the listen   *)
(* port from the second field of a dump; wireguard-tools prints the public *)
(* key there and the port third.  The variable readable says which of the  *)
(* two the installed tool does.                                            *)
(***************************************************************************)
EXTENDS Naturals, FiniteSets

CONSTANTS
    Devices, Keys, Ips,
    KeyOf,          \* public key of a device; the table does not make it unique
    AddrOf,         \* address of a device
    Prefixes,       \* allowed IPs that are routes
    NoKey,          \* the kernel routes this IP to no peer
    CleanupCycles,  \* _CLEANUP_INTERVAL_CYCLES, 120 in the code
    MaxChanges,     \* bound on changes to the device table
    MaxFailures,    \* bound on failing commands and interface outages
    Env             \* what else happens, of {"route", "handshake"}

ASSUME ControllerAssumption ==
    /\ KeyOf \in [Devices -> Keys] /\ AddrOf \in [Devices -> Ips]
    /\ Prefixes \subseteq Ips /\ NoKey \notin Keys
    /\ CleanupCycles \in Nat \ {0} /\ MaxChanges \in Nat /\ MaxFailures \in Nat
    /\ Env \subseteq {"route", "handshake"}

VARIABLES
    status,    \* no row, or is_active of the row
    routes,    \* approved and enabled routes of a device
    aged,      \* devices created longer ago than the threshold
    dbHs,      \* devices whose committed last_handshake is recent
    readable,  \* the second field of a dump is the listen port
    shared,    \* history: addresses that two active devices had at one time
    iface,     \* the interface exists
    peers,     \* the peers of the interface
    route,     \* the peer each allowed IP belongs to
    talks,     \* peers with a recent handshake
    pc,        \* where the pass is
    want,      \* allowed IPs of the devices read by _get_desired_peers; {} if not read
    toRemove,  \* diff.to_remove
    toAdd,     \* diff.to_add, as devices
    actual,    \* actual_state.peers
    seen,      \* those of them with a recent handshake
    pendHs,    \* flushed and not committed: handshakes
    pendOff,   \* flushed and not committed: is_active = False
    cycle,     \* _cycle_count
    changes, failures

dbVars == <<status, routes, aged, dbHs, changes, shared>>
wgVars == <<iface, peers, route, talks, readable>>
diffVars == <<want, toRemove, toAdd, actual, seen>>
sessionVars == <<pendHs, pendOff>>
vars == <<dbVars, wgVars, pc, diffVars, sessionVars, cycle, failures>>

Active == {d \in Devices : status[d] = "active"}

Allowed(d) == {AddrOf[d]} \cup routes[d]

Wanted == {d \in Devices : want[d] # {}}

KeysOf(D) == {KeyOf[d] : d \in D}

TypeOK ==
    /\ status \in [Devices -> {"none", "active", "inactive"}]
    /\ routes \in [Devices -> SUBSET Prefixes]
    /\ aged \subseteq Devices /\ dbHs \subseteq Devices
    /\ iface \in BOOLEAN /\ readable \in BOOLEAN
    /\ shared \subseteq Ips
    /\ peers \subseteq Keys /\ talks \subseteq peers
    /\ route \in [Ips -> peers \cup {NoKey}]
    /\ pc \in {"sleep", "exists", "desired", "routes", "actual",
             "remove", "add", "sync", "cycle", "cleanup"}
    /\ want \in [Devices -> SUBSET Ips]
    /\ toRemove \subseteq Keys /\ toAdd \subseteq Devices
    /\ actual \subseteq Keys /\ seen \subseteq actual
    /\ pendHs \subseteq Devices /\ pendOff \subseteq Devices
    /\ cycle \in 0..CleanupCycles
    /\ changes \in 0..MaxChanges /\ failures \in 0..MaxFailures

Init ==
    /\ status = [d \in Devices |-> "none"]
    /\ routes = [d \in Devices |-> {}]
    /\ aged = {} /\ dbHs = {} /\ shared = {}
    /\ readable \in BOOLEAN
    /\ iface = TRUE /\ peers = {} /\ talks = {}
    /\ route = [ip \in Ips |-> NoKey]
    /\ pc = "exists"
    /\ want = [d \in Devices |-> {}]
    /\ toRemove = {} /\ toAdd = {} /\ actual = {} /\ seen = {}
    /\ pendHs = {} /\ pendOff = {}
    /\ cycle = 0 /\ changes = 0 /\ failures = 0

-----------------------------------------------------------------------------
(* The kernel's side of a wg command. *)

\* wg set <interface> peer k allowed-ips S: k's list is replaced, and what
\* is in S moves to k from whoever had it.
SetPeer(k, S) ==
    /\ peers' = peers \cup {k}
    /\ route' = [ip \in Ips |-> IF ip \in S THEN k
                                ELSE IF route[ip] = k THEN NoKey ELSE route[ip]]
    /\ UNCHANGED <<iface, talks, readable>>

DropPeers(K) ==
    /\ peers' = peers \ K
    /\ talks' = talks \ K
    /\ route' = [ip \in Ips |-> IF route[ip] \in K THEN NoKey ELSE route[ip]]

-----------------------------------------------------------------------------
(* A pass. *)

wake ==
    /\ pc = "sleep"
    /\ pc' = "exists"
    /\ UNCHANGED <<dbVars, wgVars, diffVars, sessionVars, cycle, failures>>

\* interface_exists: without the interface nothing is done for it.
check_interface ==
    /\ pc = "exists"
    /\ pc' = IF iface THEN "desired" ELSE "cycle"
    /\ UNCHANGED <<dbVars, wgVars, diffVars, sessionVars, cycle, failures>>

\* _get_desired_peers: the active devices are read ...
get_desired_peers ==
    /\ pc = "desired"
    /\ want' = [d \in Devices |-> IF d \in Active THEN {AddrOf[d]} ELSE {}]
    /\ pc' = "routes"
    /\ UNCHANGED <<dbVars, wgVars, toRemove, toAdd, actual, seen, sessionVars, cycle, failures>>

\* ... and in a query of its own the routes of whatever devices have some.
get_desired_routes ==
    /\ pc = "routes"
    /\ want' = [d \in Devices |-> IF d \in Wanted THEN want[d] \cup routes[d] ELSE {}]
    /\ pc' = "actual"
    /\ UNCHANGED <<dbVars, wgVars, toRemove, toAdd, actual, seen, sessionVars, cycle, failures>>

\* Mutant: what is to be added is not counted as desired.
compute_peer_diff_OnlyNew ==
    /\ toRemove' = peers
    /\ toAdd' = {d \in Wanted : KeyOf[d] \notin peers}

\* _compute_peer_diff: peers on both sides go to to_update, which nothing
\* applies.
compute_peer_diff ==
    /\ toRemove' = peers \ KeysOf(Wanted)
    /\ toAdd' = {d \in Wanted : KeyOf[d] \notin peers}

\* get_interface_state and the diff.
get_actual ==
    /\ pc = "actual" /\ iface /\ readable
    /\ compute_peer_diff
    /\ actual' = peers /\ seen' = talks
    /\ pc' = "remove"
    /\ UNCHANGED <<dbVars, wgVars, want, sessionVars, cycle, failures>>

\* On a missing interface the tool fails, and the rest of the pass over the
\* interface is skipped.
get_actual_missing ==
    /\ pc = "actual" /\ ~ iface
    /\ pc' = "cycle"
    /\ UNCHANGED <<dbVars, wgVars, diffVars, sessionVars, cycle, failures>>

\* int() of a public key raises ValueError, which only _reconcile_all
\* catches: the session is closed and the whole pass is over.
get_actual_unreadable ==
    /\ pc = "actual" /\ iface /\ ~ readable
    /\ pc' = "sleep"
    /\ pendHs' = {} /\ pendOff' = {}
    /\ UNCHANGED <<dbVars, wgVars, diffVars, cycle, failures>>

\* A command fails.  InterfaceNotFound and KeyError are recorded and the
\* loop goes on; any other command error ends the pass over the interface.
command_fails ==
    /\ pc \in {"remove", "add"}
    /\ failures < MaxFailures
    /\ failures' = failures + 1
    /\ \/ \E k \in toRemove : pc = "remove" /\ toRemove' = toRemove \ {k} /\ UNCHANGED <<toAdd, pc>>
       \/ \E d \in toAdd : pc = "add" /\ toAdd' = toAdd \ {d} /\ UNCHANGED <<toRemove, pc>>
       \/ pc' = "cycle" /\ toRemove \cup toAdd # {} /\ UNCHANGED <<toRemove, toAdd>>
    /\ UNCHANGED <<dbVars, wgVars, want, actual, seen, sessionVars, cycle>>

\* Removals come before additions.  On an interface that has disappeared
\* the error is recorded.
remove_peer(k) ==
    /\ pc = "remove" /\ k \in toRemove
    /\ IF iface THEN DropPeers({k}) /\ UNCHANGED <<iface, readable>> ELSE UNCHANGED wgVars
    /\ toRemove' = toRemove \ {k}
    /\ UNCHANGED <<dbVars, pc, want, toAdd, actual, seen, sessionVars, cycle, failures>>

removals_done ==
    /\ pc = "remove" /\ toRemove = {}
    /\ pc' = "add"
    /\ UNCHANGED <<dbVars, wgVars, diffVars, sessionVars, cycle, failures>>

\* Mutant: the peer is added without its allowed IPs.
add_peer_NoIps(d) ==
    /\ pc = "add" /\ d \in toAdd
    /\ IF iface THEN SetPeer(KeyOf[d], {}) ELSE UNCHANGED wgVars
    /\ toAdd' = toAdd \ {d}
    /\ UNCHANGED <<dbVars, pc, want, toRemove, actual, seen, sessionVars, cycle, failures>>

add_peer(d) ==
    /\ pc = "add" /\ d \in toAdd
    /\ IF iface THEN SetPeer(KeyOf[d], want[d]) ELSE UNCHANGED wgVars
    /\ toAdd' = toAdd \ {d}
    /\ UNCHANGED <<dbVars, pc, want, toRemove, actual, seen, sessionVars, cycle, failures>>

additions_done ==
    /\ pc = "add" /\ toAdd = {}
    /\ pc' = "sync"
    /\ UNCHANGED <<dbVars, wgVars, diffVars, sessionVars, cycle, failures>>

\* Rows, active or not, that carry the key of a peer that was read.
Rows(k) == {d \in Devices : status[d] # "none" /\ KeyOf[d] = k}

\* _sync_runtime_metadata.  scalar_one_or_none raises when two rows carry
\* the key of one peer; nothing before _reconcile_all catches that, and the
\* session is closed with the rest of the pass skipped.
sync_runtime_metadata ==
    /\ pc = "sync"
    /\ IF \E k \in actual : Cardinality(Rows(k)) > 1
         THEN pc' = "sleep" /\ pendHs' = {} /\ pendOff' = {}
         ELSE pc' = "cycle" /\ pendHs' = UNION {Rows(k) : k \in seen} /\ UNCHANGED pendOff
    /\ UNCHANGED <<dbVars, wgVars, diffVars, cycle, failures>>

\* The session is closed.  It was flushed and never committed, so what it
\* holds is rolled back.
close_session ==
    /\ pendHs' = {} /\ pendOff' = {}
    /\ UNCHANGED <<status, dbHs>>

count_cycle ==
    /\ pc = "cycle"
    /\ IF cycle + 1 >= CleanupCycles
         THEN /\ pc' = "cleanup" /\ cycle' = cycle + 1
              /\ UNCHANGED <<sessionVars, status, dbHs>>
         ELSE /\ pc' = "sleep" /\ cycle' = cycle + 1 /\ close_session
    /\ UNCHANGED <<routes, aged, changes, shared, wgVars, diffVars, failures>>

\* Devices that _cleanup_stale_peers finds: it sees its own session's
\* flushed handshakes.
StaleRows == {d \in Active \cap aged : d \notin dbHs \cup pendHs}

\* _cleanup_stale_peers: the rows are marked inactive in the session ...
cleanup_stale_peers ==
    /\ pc = "cleanup" /\ cycle > 0
    /\ pendOff' = StaleRows
    /\ cycle' = 0
    /\ UNCHANGED <<dbVars, wgVars, pc, diffVars, pendHs, failures>>

\* ... and the session is closed.
cleanup_done ==
    /\ pc = "cleanup" /\ cycle = 0
    /\ pc' = "sleep"
    /\ close_session
    /\ UNCHANGED <<routes, aged, changes, shared, wgVars, diffVars, cycle, failures>>

-----------------------------------------------------------------------------
(* The rest of the system. *)

\* A row the pass has flushed is locked until its session is closed.
Locked(d) == d \in pendHs \cup pendOff

change ==
    /\ changes < MaxChanges
    /\ changes' = changes + 1

\* A device is enrolled.  Its address is free in its own network; another
\* network of this interface may have given it away too.
create_device(d) ==
    /\ change
    /\ status[d] = "none"
    /\ status' = [status EXCEPT ![d] = "active"]
    /\ shared' = shared \cup {AddrOf[e] : e \in {f \in Active : AddrOf[f] = AddrOf[d]}}
    /\ UNCHANGED <<routes, aged, dbHs, wgVars, pc, diffVars, sessionVars, cycle, failures>>

\* A device is revoked.
revoke_device(d) ==
    /\ change
    /\ status[d] = "active" /\ ~ Locked(d)
    /\ status' = [status EXCEPT ![d] = "inactive"]
    /\ UNCHANGED <<shared, routes, aged, dbHs, wgVars, pc, diffVars, sessionVars, cycle, failures>>

\* The network of the device is deleted, and the row with it.
delete_device(d) ==
    /\ change
    /\ status[d] # "none" /\ ~ Locked(d)
    /\ status' = [status EXCEPT ![d] = "none"]
    /\ routes' = [routes EXCEPT ![d] = {}]
    /\ aged' = aged \ {d} /\ dbHs' = dbHs \ {d}
    /\ UNCHANGED <<shared, wgVars, pc, diffVars, sessionVars, cycle, failures>>

\* An administrator approves a route of the device.
approve_route(d, p) ==
    /\ "route" \in Env /\ change
    /\ status[d] = "active" /\ \A e \in Devices : p \notin routes[e]
    /\ routes' = [routes EXCEPT ![d] = @ \cup {p}]
    /\ UNCHANGED <<status, aged, dbHs, shared, wgVars, pc, diffVars, sessionVars, cycle, failures>>

\* The interface goes away, with its peers, or comes back empty.
interface_down ==
    /\ iface /\ failures < MaxFailures
    /\ failures' = failures + 1
    /\ iface' = FALSE
    /\ DropPeers(peers)
    /\ UNCHANGED <<dbVars, readable, pc, diffVars, sessionVars, cycle>>

interface_up ==
    /\ ~ iface
    /\ iface' = TRUE
    /\ UNCHANGED <<dbVars, peers, route, talks, readable, pc, diffVars, sessionVars, cycle, failures>>

\* Peers handshake or fall silent, rows grow old.
handshake(k) ==
    /\ "handshake" \in Env /\ k \in peers \ talks
    /\ talks' = talks \cup {k}
    /\ UNCHANGED <<dbVars, iface, peers, route, readable, pc, diffVars, sessionVars, cycle, failures>>

silence(k) ==
    /\ k \in talks
    /\ talks' = talks \ {k}
    /\ UNCHANGED <<dbVars, iface, peers, route, readable, pc, diffVars, sessionVars, cycle, failures>>

row_ages(d) ==
    /\ "handshake" \in Env /\ status[d] # "none" /\ d \notin aged
    /\ aged' = aged \cup {d}
    /\ UNCHANGED <<status, routes, dbHs, changes, shared, wgVars, pc, diffVars, sessionVars, cycle, failures>>

Pass ==
    \/ wake \/ check_interface \/ get_desired_peers \/ get_desired_routes
    \/ get_actual \/ get_actual_missing \/ get_actual_unreadable
    \/ \E k \in Keys : remove_peer(k)
    \/ removals_done
    \/ \E d \in Devices : add_peer(d)
    \/ additions_done \/ sync_runtime_metadata
    \/ count_cycle \/ cleanup_stale_peers \/ cleanup_done

Environment ==
    \/ \E d \in Devices :
         \/ create_device(d) \/ revoke_device(d) \/ delete_device(d)
         \/ row_ages(d)
         \/ \E p \in Prefixes : approve_route(d, p)
    \/ \E k \in Keys : handshake(k) \/ silence(k)
    \/ command_fails \/ interface_down \/ interface_up

Next == Pass \/ Environment

Spec == Init /\ [][Next]_vars

\* The loop catches every exception and goes on; the interface is restored.
Fairness == WF_vars(Pass) /\ WF_vars(interface_up)

FairSpec == Spec /\ Fairness

-----------------------------------------------------------------------------
(* Properties. *)

\* Reconciliation never cuts off a device that stays active: a peer the
\* controller removes had no active device when the pass read the table
\* (wg_controller.py:48-69, 249-259), although several steps, failures and
\* table changes lie between the read and the removal.
RemovedWasUnwanted ==
    [][\A k \in Keys : (k \in peers /\ k \notin peers' /\ iface') =>
          \A d \in Devices : KeyOf[d] = k => want[d] = {}]_vars

\* With a tool whose dump can be read, the peers of the interface become and
\* stay the active devices, whatever commands failed, however the table
\* changed during a pass, and although the interface lost all its peers in
\* between (wg_controller.py:48-69, 184-298).
PeersConverge == readable => <>[](peers = KeysOf(Active))

\* With such a tool the address of an active device ends up with its peer,
\* also when it was another device's before and that peer is removed in the
\* same pass.  Left out are a key that two rows carry, whose last row wins,
\* and an address that two devices had at one time: the peer it was taken
\* from is on both sides of the diff and never gets it back.
AddressesConverge ==
    readable => <>[](\A d \in Active :
        (AddrOf[d] \notin shared /\ \A e \in Devices : KeyOf[e] = KeyOf[d] => e = d)
            => route[AddrOf[d]] = KeyOf[d])

\* wg_controller.py:75-79, "Read desired state from DB (source of truth)",
\* "Compute diff", "Apply changes idempotently": with a tool whose dump can
\* be read, every address and route of an active device ends up with its
\* peer.
RoutesConverge ==
    readable => <>[](\A d \in Active : \A ip \in Allowed(d) : route[ip] = KeyOf[d])
=============================================================================
