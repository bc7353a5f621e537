------------------------- MODULE WgControllerProofs -------------------------
(***************************************************************************)
(* Proofs about the reconciliation of the server's interface for any set   *)
(* of devices, keys and addresses, any number of changes to the table and  *)
(* any failures of commands and of the interface.                          *)
(***************************************************************************)
EXTENDS WgController, TLAPS

\* _cleanup_stale_peers resets the counter it is due by: without this the
\* bound on the counter is not inductive.
CycleInv == pc # "cleanup" => cycle < CleanupCycles

\* What is to be removed is not wanted, as long as removals can happen.  A
\* pass cut short leaves its diff behind, and the next one reads the table
\* before it makes a new diff, so this cannot be said at any other time.
DiffInv == pc = "remove" => toRemove \cap KeysOf(Wanted) = {}

PassInv == TypeOK /\ CycleInv /\ DiffInv

\* A peer that is set gets its allowed IPs, and every other IP keeps its
\* peer or loses it.
LEMMA SetPeerType ==
    ASSUME TypeOK, NEW k \in Keys, NEW S \in SUBSET Ips, SetPeer(k, S)
    PROVE  /\ peers' = peers \cup {k} /\ peers' \subseteq Keys
           /\ iface' = iface /\ readable' = readable
           /\ talks' = talks /\ talks' \subseteq peers' /\ route' \in [Ips -> peers' \cup {NoKey}]
BY DEF SetPeer, TypeOK

\* A peer that is dropped takes its handshakes and its allowed IPs with it.
LEMMA DropPeersType ==
    ASSUME TypeOK, NEW K \in SUBSET Keys, DropPeers(K)
    PROVE  /\ peers' = peers \ K /\ peers' \subseteq Keys
           /\ talks' \subseteq peers' /\ route' \in [Ips -> peers' \cup {NoKey}]
BY ControllerAssumption DEF DropPeers, TypeOK

\* The controller starts with an empty interface and an empty diff.
LEMMA InitPass == Init => PassInv
<1> SUFFICES ASSUME Init PROVE PassInv
  OBVIOUS
<1>1. 0 \in 0..CleanupCycles /\ 0 \in 0..MaxChanges /\ 0 \in 0..MaxFailures /\ 0 < CleanupCycles
  BY ControllerAssumption
<1> QED BY <1>1 DEF Init, PassInv, TypeOK, CycleInv, DiffInv

\* One more change or failure stays within its bound.
LEMMA CountsStayBounded ==
    ASSUME TypeOK
    PROVE  /\ change => changes' \in 0..MaxChanges
           /\ (failures < MaxFailures /\ failures' = failures + 1) => failures' \in 0..MaxFailures
BY ControllerAssumption DEF TypeOK, change

\* Every step of a pass keeps the types and the diff sound.
LEMMA PassKeeps == PassInv /\ Pass => PassInv'
<1> SUFFICES ASSUME PassInv, Pass PROVE PassInv'
  OBVIOUS
<1> USE DEF PassInv, TypeOK, CycleInv, DiffInv, dbVars, wgVars, diffVars, sessionVars
<1>1. CASE wake \/ check_interface \/ removals_done \/ additions_done
  BY <1>1 DEF wake, check_interface, removals_done, additions_done
<1>2. CASE get_desired_peers
  <2>1. want' \in [Devices -> SUBSET Ips]
    BY <1>2, ControllerAssumption DEF get_desired_peers
  <2> QED BY <1>2, <2>1 DEF get_desired_peers
<1>3. CASE get_actual
  <2>1. /\ toRemove' = peers \ KeysOf(Wanted) /\ toAdd' \subseteq Devices
        /\ actual' = peers /\ seen' = talks /\ pc' = "remove" /\ want' = want
    BY <1>3 DEF get_actual, compute_peer_diff, Wanted
  <2>2. DiffInv'
    BY <2>1 DEF KeysOf, Wanted
  <2> QED BY <1>3, <2>1, <2>2 DEF get_actual
<1>10. CASE get_actual_missing \/ get_actual_unreadable
  BY <1>10 DEF get_actual_missing, get_actual_unreadable
<1>11. CASE get_desired_routes
  <2>1. want' \in [Devices -> SUBSET Ips]
    BY <1>11, ControllerAssumption DEF get_desired_routes
  <2> QED BY <1>11, <2>1 DEF get_desired_routes
<1>4. ASSUME NEW k \in Keys, remove_peer(k) PROVE PassInv'
  <2>1. DiffInv'
    BY <1>4 DEF remove_peer, KeysOf, Wanted
  <2>2. CASE iface
    BY <1>4, <2>1, <2>2, DropPeersType DEF remove_peer
  <2>3. CASE ~ iface
    BY <1>4, <2>1, <2>3 DEF remove_peer
  <2> QED BY <2>2, <2>3
<1>5. ASSUME NEW d \in Devices, add_peer(d) PROVE PassInv'
  <2>1. CASE iface
    <3>1. SetPeer(KeyOf[d], want[d]) /\ KeyOf[d] \in Keys /\ want[d] \in SUBSET Ips
      BY <1>5, <2>1, ControllerAssumption DEF add_peer
    <3>2. /\ peers' \subseteq Keys /\ iface' = iface /\ readable' = readable
          /\ talks' \subseteq peers' /\ route' \in [Ips -> peers' \cup {NoKey}]
      BY <3>1, SetPeerType
    <3> QED BY <1>5, <3>2 DEF add_peer
  <2>2. CASE ~ iface
    BY <1>5, <2>2 DEF add_peer
  <2> QED BY <2>1, <2>2
<1>6. CASE sync_runtime_metadata
  <2>1. pendHs' \subseteq Devices /\ pendOff' \subseteq Devices
    BY <1>6 DEF sync_runtime_metadata, Rows
  <2> QED BY <1>6, <2>1 DEF sync_runtime_metadata
<1>7. CASE count_cycle
  <2>1. cycle' \in 0..CleanupCycles /\ (pc' # "cleanup" => cycle' < CleanupCycles)
    BY <1>7, ControllerAssumption DEF count_cycle
  <2> QED BY <1>7, <2>1 DEF count_cycle, close_session
<1>8. CASE cleanup_stale_peers
  BY <1>8, ControllerAssumption DEF cleanup_stale_peers, StaleRows, Active
<1>9. CASE cleanup_done
  BY <1>9, ControllerAssumption DEF cleanup_done, close_session
<1> QED
  BY <1>1, <1>2, <1>3, <1>4, <1>5, <1>6, <1>7, <1>8, <1>9, <1>10, <1>11 DEF Pass

\* So does every step of the rest of the system.
LEMMA EnvironmentKeeps == PassInv /\ Environment => PassInv'
<1> SUFFICES ASSUME PassInv, Environment PROVE PassInv'
  OBVIOUS
<1> USE DEF PassInv, TypeOK, CycleInv, DiffInv, dbVars, wgVars, diffVars, sessionVars
<1>a. /\ change => changes' \in 0..MaxChanges
      /\ (failures < MaxFailures /\ failures' = failures + 1) => failures' \in 0..MaxFailures
  BY CountsStayBounded
<1>b. want' = want => KeysOf(Wanted)' = KeysOf(Wanted)
  BY DEF KeysOf, Wanted
<1>1. ASSUME NEW d \in Devices, create_device(d) \/ revoke_device(d) PROVE PassInv'
  <2>1. {AddrOf[e] : e \in {f \in Active : AddrOf[f] = AddrOf[d]}} \subseteq Ips
    BY ControllerAssumption DEF Active
  <2> QED BY <1>1, <2>1, <1>a, <1>b DEF create_device, revoke_device
<1>2. ASSUME NEW d \in Devices, delete_device(d) PROVE PassInv'
  BY <1>2, <1>a, <1>b DEF delete_device
<1>3. ASSUME NEW d \in Devices, row_ages(d) PROVE PassInv'
  BY <1>3, <1>b DEF row_ages
<1>4. ASSUME NEW d \in Devices, NEW p \in Prefixes, approve_route(d, p) PROVE PassInv'
  BY <1>4, <1>a, <1>b DEF approve_route
<1>5. ASSUME NEW k \in Keys, handshake(k) \/ silence(k) PROVE PassInv'
  BY <1>5, <1>b DEF handshake, silence
<1>6. CASE command_fails
  BY <1>6, <1>a, <1>b DEF command_fails
<1>7. CASE interface_down
  BY <1>7, <1>a, <1>b, DropPeersType DEF interface_down
<1>8. CASE interface_up
  BY <1>8, <1>b DEF interface_up
<1> QED
  BY <1>1, <1>2, <1>3, <1>4, <1>5, <1>6, <1>7, <1>8 DEF Environment

\* The invariant survives every step.
LEMMA NextPass == PassInv /\ [Next]_vars => PassInv'
<1> SUFFICES ASSUME PassInv, UNCHANGED vars PROVE PassInv'
  BY PassKeeps, EnvironmentKeeps DEF Next
<1> QED
  BY DEF PassInv, TypeOK, CycleInv, DiffInv, vars, dbVars, wgVars, diffVars, sessionVars,
     KeysOf, Wanted

\* The controller's variables always have their types: in particular every
\* allowed IP belongs to a peer that is on the interface, or to none, and
\* the counter never passes the cycle in which the cleanup is due.
THEOREM TypeCorrect == Spec => []TypeOK
<1>1. PassInv => TypeOK
  BY DEF PassInv
<1> QED BY InitPass, NextPass, <1>1, PTL DEF Spec

\* A peer that reconciliation removes belonged to no device that the pass
\* had read as active (wg_controller.py:48-69, 249-259), however many
\* failures and table changes lie between the read and the removal.
THEOREM OnlyUnwantedRemoved == Spec => RemovedWasUnwanted
<1> DEFINE Unwanted == \A k \in Keys : (k \in peers /\ k \notin peers' /\ iface') =>
                          \A d \in Devices : KeyOf[d] = k => want[d] = {}
<1>1. PassInv /\ [Next]_vars => [Unwanted]_vars
  <2> SUFFICES ASSUME PassInv, Next, NEW k \in Keys, k \in peers, k \notin peers', iface',
                      NEW d \in Devices, KeyOf[d] = k
               PROVE  want[d] = {}
    OBVIOUS
  <2>1. ASSUME NEW j \in Keys, remove_peer(j) PROVE j = k
    BY <2>1 DEF remove_peer, DropPeers, wgVars
  <2>2. ASSUME NEW e \in Devices, add_peer(e) PROVE FALSE
    BY <2>2 DEF add_peer, SetPeer, wgVars
  <2>3. remove_peer(k)
    BY <2>1, <2>2 DEF Next, Pass, Environment, wake, check_interface, get_desired_peers, get_desired_routes,
       get_actual, get_actual_missing, get_actual_unreadable,
       removals_done, additions_done, sync_runtime_metadata, count_cycle, cleanup_stale_peers,
       cleanup_done, create_device, revoke_device, delete_device, row_ages, approve_route, handshake,
       silence, command_fails, interface_down, interface_up, wgVars
  <2>4. k \notin KeysOf(Wanted)
    BY <2>3 DEF remove_peer, PassInv, DiffInv
  <2> QED BY <2>4 DEF KeysOf, Wanted
<1> QED BY <1>1, InitPass, NextPass, PTL DEF Spec, RemovedWasUnwanted
=============================================================================
