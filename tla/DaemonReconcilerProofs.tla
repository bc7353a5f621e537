----------------------- MODULE DaemonReconcilerProofs -----------------------
(***************************************************************************)
(* Proofs about the reconciliation loop for any set of peers, any history  *)
(* of published configurations, any number of crashes, any environment and *)
(* a tool whose dump can be read or not.                                   *)
(***************************************************************************)
EXTENDS DaemonReconciler, TLAPS

\* The server has published c.
Published(c) == \E r \in 1..revision : ConfigOf[r] = c

\* A pass beyond the pull has a target, and only its peers are set.  The
\* types need this: set_peer reads the target's settings.
HasTarget ==
    /\ pc \notin {"pull", "wait"} => target # NoConfig
    /\ pc = "set" => todo \subseteq Peers(target)

TypeInv == TypeOK /\ HasTarget

\* What the loop works on was published; a v1 daemon that has applied
\* nothing has no target; and a peer to be removed is not in the target.
TargetInv ==
    /\ \A c \in {target, cacheMem, cacheDisk, last} : c = NoConfig \/ Published(c)
    /\ (mode = "v1" /\ last = NoConfig /\ pc \notin {"store", "storing"}) => target = NoConfig
    /\ pc \in {"set", "remove"} => stale \cap Peers(target) = {}

\* The peers of the target that have been set.
Done == Peers(target) \ todo

\* How far an undisturbed application has come: the peers that were set have
\* the endpoints and exactly the allowed IPs the target gives them, but for
\* an IP that a later one of them has taken; and of the others only those to
\* be removed are on the interface, if it could be read.
SetSoFar ==
    /\ Done \subseteq peers
    /\ readable => peers \subseteq Peers(target) \cup stale
    /\ \A k \in Done : target[k].endpoint \in {endpoint[k], NoEndpoint}
    /\ \A ip \in Ips : route[ip] \in Done => ip \in target[route[ip]].ips
    /\ \A ip \in Ips, k \in Done : ip \in target[k].ips => route[ip] \in Done

\* What the next pull is compared with is on the interface.
KnownIsApplied == Known # NoConfig => Applied(Known)

\* The progress of a pass, from which SkipIsSound follows.
ProgressInv ==
    /\ ~ iface => peers = {}
    /\ pc = "remove" => todo = {}
    /\ mode = "v1" /\ pc \in {"read", "set", "remove"} => last = target
    /\ mode = "v2" /\ pc = "storing" => cacheMem = target
    /\ cacheDisk = IF pc = "storing" THEN NoConfig ELSE cacheMem
    /\ ~ disturbed => /\ pc \in {"set", "remove"} => SetSoFar
                      /\ mode = "v2" /\ pc \in {"store", "storing"} => Applied(target)
                      /\ pc \in {"pull", "wait"} => KnownIsApplied
                      /\ mode = "v2" /\ pc = "read" => KnownIsApplied

-----------------------------------------------------------------------------
(* Types. *)

\* The configuration served is a configuration.
LEMMA DesiredType == TypeOK => Desired \in Config
BY ConfigAssumption DEF TypeOK, Desired

\* The settings of a peer that a configuration names.
LEMMA SettingType ==
    ASSUME NEW c \in Config, NEW k \in Peers(c)
    PROVE  /\ k \in Keys /\ c[k] \in Settings
           /\ c[k].ips \subseteq Ips /\ c[k].endpoint \in Endpoints \cup {NoEndpoint}
BY DEF Config, Peers, Settings

\* A command that sets a peer keeps the types of the interface.
LEMMA SetPeerType ==
    ASSUME TypeOK, NEW k \in Keys, NEW setting \in Settings, SetPeer(k, setting)
    PROVE  /\ peers' \subseteq Keys /\ route' \in [Ips -> peers' \cup {NoKey}]
           /\ endpoint' \in [Keys -> Endpoints \cup {NoEndpoint}]
BY DEF TypeOK, SetPeer, Settings

\* So does one that removes a peer.
LEMMA DropPeerType ==
    ASSUME TypeOK, NEW k \in Keys, DropPeer(k)
    PROVE  /\ peers' \subseteq Keys /\ route' \in [Ips -> peers' \cup {NoKey}]
           /\ endpoint' \in [Keys -> Endpoints \cup {NoEndpoint}]
BY ConfigAssumption DEF TypeOK, DropPeer

\* The process starts with the types.
LEMMA InitType == Init => TypeInv
<1> SUFFICES ASSUME Init PROVE TypeInv
  OBVIOUS
<1>1. 0 \in 0..MaxCrashes /\ 1 \in 1..MaxRevision
  BY ConfigAssumption
<1>2. mode \in {"v1", "v2"} /\ iface \in BOOLEAN
  BY ConfigAssumption DEF Init
<1> QED BY <1>1, <1>2 DEF Init, NoRoutes, NoEndpoints, TypeInv, TypeOK, HasTarget

\* A new process keeps the types.
LEMMA FreshType ==
    ASSUME TypeOK, fresh_process, crashes < MaxCrashes, crashes' = crashes + 1,
           peers' \subseteq Keys, route' \in [Ips -> peers' \cup {NoKey}],
           endpoint' \in [Keys -> Endpoints \cup {NoEndpoint}],
           readable' = readable, iface' \in BOOLEAN, disturbed' \in BOOLEAN
    PROVE  TypeInv'
<1>1. crashes' \in 0..MaxCrashes
  BY ConfigAssumption DEF TypeOK
<1> QED BY <1>1 DEF fresh_process, TypeInv, TypeOK, HasTarget, serverVars

\* Every step of the loop, of the server and of the environment keeps them.
LEMMA NextType == TypeInv /\ [Next]_vars => TypeInv'
<1> SUFFICES ASSUME TypeInv, [Next]_vars PROVE TypeInv'
  OBVIOUS
<1> USE DEF TypeInv, TypeOK, HasTarget, serverVars, applyVars, wgVars, peerVars, storeVars
<1>1. CASE skip_unchanged
  BY <1>1 DEF skip_unchanged, finish
<1>2. CASE pull_changed
  BY <1>2, DesiredType, ConfigAssumption DEF pull_changed
<1>3. CASE pull_failed
  BY <1>3 DEF pull_failed, finish
<1>4. CASE read_state
  BY <1>4 DEF read_state, Peers
<1>5. ASSUME NEW k \in Keys, set_peer(k) PROVE TypeInv'
  <2>1. CASE SetPeer(k, target[k]) /\ UNCHANGED disturbed
    <3>1. target[k] \in Settings
      BY <1>5, <2>1, SettingType DEF set_peer, HasTarget
    <3> QED BY <1>5, <2>1, <3>1, SetPeerType DEF set_peer
  <2>2. CASE NoEffect
    BY <1>5, <2>2 DEF set_peer, NoEffect
  <2> QED BY <1>5, <2>1, <2>2 DEF set_peer
<1>6. ASSUME NEW k \in Keys, remove_peer(k) PROVE TypeInv'
  <2>1. CASE DropPeer(k) /\ UNCHANGED disturbed
    BY <1>6, <2>1, DropPeerType DEF remove_peer
  <2>2. CASE NoEffect
    BY <1>6, <2>2 DEF remove_peer, NoEffect
  <2> QED BY <1>6, <2>1, <2>2 DEF remove_peer
<1>7. CASE peers_set
  BY <1>7 DEF peers_set
<1>8. CASE applied \/ apply_fails
  BY <1>8 DEF applied, apply_fails, apply_over, finish
<1>9. CASE store_begin
  BY <1>9 DEF store_begin
<1>10. CASE store_end
  BY <1>10 DEF store_end, finish
<1>11. ASSUME NEW reason, wake(reason) PROVE TypeInv'
  BY <1>11 DEF wake
<1>12. CASE publish
  BY <1>12, ConfigAssumption DEF publish
<1>13. CASE trigger
  BY <1>13 DEF trigger
<1>14. CASE daemon_crash
  BY <1>14, FreshType DEF daemon_crash
<1>15. CASE reboot
  BY <1>15, FreshType DEF reboot, NoRoutes, NoEndpoints
<1>16. CASE interface_added
  BY <1>16 DEF interface_added
<1>17. CASE UNCHANGED vars
  BY <1>17 DEF vars
<1> QED
  BY <1>1, <1>2, <1>3, <1>4, <1>5, <1>6, <1>7, <1>8, <1>9, <1>10, <1>11, <1>12, <1>13,
     <1>14, <1>15, <1>16, <1>17 DEF Next, Step, Apply

\* The variables of the reconciler always have their types, in particular
\* every command it issues names a setting or a removal.
THEOREM TypeCorrect == Spec => []TypeOK
<1>1. TypeInv => TypeOK
  BY DEF TypeInv
<1> QED BY InitType, NextType, <1>1, PTL DEF Spec

-----------------------------------------------------------------------------
(* What the loop works on. *)

\* What the server serves is published and is a configuration.
LEMMA DesiredPublished == TypeOK => Published(Desired) /\ Desired # NoConfig
BY ConfigAssumption, DesiredType DEF TypeOK, Published, Desired

\* What was published stays published.
LEMMA HistoryGrows ==
    ASSUME TypeOK, [Next]_vars, NEW c
    PROVE  Published(c) => Published(c)'
<1>1. revision' = revision \/ revision' = revision + 1
  BY DEF Next, vars, Step, Apply, skip_unchanged, pull_changed, pull_failed, read_state,
     set_peer, remove_peer, peers_set, applied, apply_fails, apply_over, store_begin, store_end,
     wake, publish, trigger,
     daemon_crash, reboot, interface_added, fresh_process, serverVars
<1>2. revision \in Nat /\ MaxRevision \in Nat
  BY ConfigAssumption DEF TypeOK
<1> QED BY <1>1, <1>2 DEF Published

\* Nothing is cached at first.
LEMMA InitTarget == Init => TargetInv
BY DEF Init, TargetInv

\* Every step keeps the origin of what the loop works on.
LEMMA NextTarget == TypeInv /\ TargetInv /\ [Next]_vars => TargetInv'
<1> SUFFICES ASSUME TypeInv, TargetInv, [Next]_vars PROVE TargetInv'
  OBVIOUS
<1> USE DEF TypeInv, HasTarget, TargetInv, serverVars, applyVars, wgVars, storeVars
<1>a. \A c : Published(c) => Published(c)'
  BY HistoryGrows
<1>1. CASE skip_unchanged
  BY <1>1, <1>a DEF skip_unchanged, finish
<1>2. CASE pull_changed
  BY <1>2, <1>a, DesiredPublished DEF pull_changed
<1>3. CASE pull_failed
  BY <1>3, <1>a DEF pull_failed, finish
<1>4. CASE read_state
  BY <1>4, <1>a DEF read_state, Peers
<1>5. ASSUME NEW k \in Keys, set_peer(k) PROVE TargetInv'
  BY <1>5, <1>a DEF set_peer
<1>6. ASSUME NEW k \in Keys, remove_peer(k) PROVE TargetInv'
  BY <1>6, <1>a DEF remove_peer
<1>7. CASE peers_set
  BY <1>7, <1>a DEF peers_set
<1>8. CASE applied \/ apply_fails
  BY <1>8, <1>a DEF applied, apply_fails, apply_over, finish
<1>9. CASE store_begin
  BY <1>9, <1>a DEF store_begin
<1>10. CASE store_end
  BY <1>10, <1>a DEF store_end, finish
<1>11. ASSUME NEW reason, wake(reason) PROVE TargetInv'
  BY <1>11, <1>a DEF wake
<1>12. CASE publish
  BY <1>12, <1>a DEF publish
<1>13. CASE trigger
  BY <1>13, <1>a DEF trigger
<1>14. CASE daemon_crash \/ reboot
  BY <1>14, <1>a DEF daemon_crash, reboot, fresh_process
<1>15. CASE interface_added
  BY <1>15, <1>a DEF interface_added
<1>16. CASE UNCHANGED vars
  BY <1>16, <1>a DEF vars
<1> QED
  BY <1>1, <1>2, <1>3, <1>4, <1>5, <1>6, <1>7, <1>8, <1>9, <1>10, <1>11, <1>12, <1>13,
     <1>14, <1>15, <1>16 DEF Next, Step, Apply

-----------------------------------------------------------------------------
(* How far a pass has come. *)

\* The pass begins with nothing applied and nothing known.
LEMMA InitProgress == Init => ProgressInv
BY DEF Init, ProgressInv, KnownIsApplied, Known

\* Setting a peer brings it into agreement with the target, and leaves the
\* ones set before it so, but for the IPs it takes from them.
LEMMA SetProgress ==
    ASSUME TypeInv, TargetInv, ProgressInv, NEW k \in Keys, set_peer(k)
    PROVE  ProgressInv'
<1> USE DEF set_peer, TypeInv, HasTarget
<1>1. target \in Config /\ k \in Peers(target) /\ route \in [Ips -> peers \cup {NoKey}]
      /\ endpoint \in [Keys -> Endpoints \cup {NoEndpoint}]
  BY DEF TypeOK
<1>2. CASE NoEffect
  BY <1>2 DEF NoEffect, peerVars, ProgressInv, serverVars, storeVars
<1>3. CASE iface /\ SetPeer(k, target[k]) /\ UNCHANGED disturbed
  <2>1. ASSUME ~ disturbed PROVE SetSoFar'
    <3>1. SetSoFar
      BY <2>1 DEF ProgressInv
    <3>2. target' = target /\ Done' = Done \cup {k} /\ k \notin Done /\ Done \subseteq Keys
          /\ stale' = stale /\ readable' = readable
      BY <1>1 DEF Done, Peers
    <3>3. Done' \subseteq peers' /\ (readable' => peers' \subseteq Peers(target') \cup stale')
      BY <1>1, <1>3, <3>1, <3>2 DEF SetPeer, SetSoFar
    <3>4. \A j \in Done' : target'[j].endpoint \in {endpoint'[j], NoEndpoint}
      BY <1>1, <1>3, <3>1, <3>2 DEF SetPeer, SetSoFar
    <3>5. \A ip \in Ips : route'[ip] \in Done' => ip \in target'[route'[ip]].ips
      BY <1>1, <1>3, <3>1, <3>2, ConfigAssumption DEF SetPeer, SetSoFar
    <3>6. \A ip \in Ips, j \in Done' : ip \in target'[j].ips => route'[ip] \in Done'
      BY <1>1, <1>3, <3>1, <3>2 DEF SetPeer, SetSoFar
    <3> QED BY <3>3, <3>4, <3>5, <3>6 DEF SetSoFar
  <2> QED BY <1>3, <2>1 DEF ProgressInv, serverVars, storeVars
<1> QED BY <1>2, <1>3

\* Removing one leaves those that were set as they are: a peer that is
\* removed is absent from the target.
LEMMA RemoveProgress ==
    ASSUME TypeInv, TargetInv, ProgressInv, NEW k \in Keys, remove_peer(k)
    PROVE  ProgressInv'
<1> USE DEF remove_peer, TypeInv, HasTarget
<1>1. target \in Config /\ k \notin Peers(target) /\ route \in [Ips -> peers \cup {NoKey}]
      /\ endpoint \in [Keys -> Endpoints \cup {NoEndpoint}]
  BY DEF TypeOK, TargetInv
<1>2. CASE NoEffect
  BY <1>2 DEF NoEffect, peerVars, ProgressInv, SetSoFar, Done, serverVars, storeVars
<1>3. CASE iface /\ DropPeer(k) /\ UNCHANGED disturbed
  <2>1. ASSUME ~ disturbed PROVE SetSoFar'
    <3>1. SetSoFar
      BY <2>1 DEF ProgressInv
    <3>2. target' = target /\ Done' = Done /\ k \notin Done /\ Done \subseteq Keys /\ NoKey \notin Done
          /\ stale' = stale \ {k} /\ readable' = readable
      BY <1>1, ConfigAssumption DEF Done, Peers
    <3>3. Done' \subseteq peers' /\ (readable' => peers' \subseteq Peers(target') \cup stale')
      BY <1>1, <1>3, <3>1, <3>2 DEF DropPeer, SetSoFar
    <3>4. \A j \in Done' : target'[j].endpoint \in {endpoint'[j], NoEndpoint}
      BY <1>1, <1>3, <3>1, <3>2 DEF DropPeer, SetSoFar
    <3>5. \A ip \in Ips : route'[ip] \in Done' => ip \in target'[route'[ip]].ips
      BY <1>1, <1>3, <3>1, <3>2 DEF DropPeer, SetSoFar
    <3>6. \A ip \in Ips, j \in Done' : ip \in target'[j].ips => route'[ip] \in Done'
      BY <1>1, <1>3, <3>1, <3>2 DEF DropPeer, SetSoFar
    <3> QED BY <3>3, <3>4, <3>5, <3>6 DEF SetSoFar
  <2> QED BY <1>3, <2>1 DEF ProgressInv, serverVars, storeVars
<1> QED BY <1>2, <1>3

\* An undisturbed application that comes to its end has applied the target.
LEMMA SetIsApplied == SetSoFar /\ todo = {} /\ stale = {} => Applied(target)
BY DEF SetSoFar, Done, Applied, Owners, Peers

\* Every step keeps the account of how far the pass has come.
LEMMA NextProgress == TypeInv /\ TargetInv /\ ProgressInv /\ [Next]_vars => ProgressInv'
<1> SUFFICES ASSUME TypeInv, TargetInv, ProgressInv, [Next]_vars PROVE ProgressInv'
  OBVIOUS
<1> USE DEF TypeInv, HasTarget, ProgressInv, serverVars, applyVars, wgVars, peerVars, storeVars
<1>a. ASSUME UNCHANGED <<readable, peers, route, endpoint>>, NEW c PROVE Applied(c)' = Applied(c)
  BY <1>a DEF Applied
<1>b. mode \in {"v1", "v2"} /\ disturbed \in BOOLEAN
  BY DEF TypeOK
<1>1. CASE skip_unchanged
  BY <1>1, <1>a DEF skip_unchanged, finish, KnownIsApplied, Known
<1>2. CASE pull_changed
  BY <1>2, <1>a DEF pull_changed, KnownIsApplied, Known
<1>3. CASE pull_failed
  BY <1>3, <1>a DEF pull_failed, finish, KnownIsApplied, Known
<1>4. CASE read_state
  <2>1. Done' = {} /\ (readable => peers \subseteq Peers(target) \cup stale')
    BY <1>4 DEF read_state, Done, Peers
  <2>2. SetSoFar'
    BY <1>4, <2>1 DEF read_state, SetSoFar, Peers
  <2> QED BY <1>4, <2>2 DEF read_state
<1>5. ASSUME NEW k \in Keys, set_peer(k) PROVE ProgressInv'
  BY <1>5, SetProgress
<1>6. ASSUME NEW k \in Keys, remove_peer(k) PROVE ProgressInv'
  BY <1>6, RemoveProgress
<1>7. CASE peers_set
  BY <1>7 DEF peers_set, SetSoFar, Done
<1>8. CASE applied
  <2>1. ~ disturbed => Applied(target)
    BY <1>8, SetIsApplied DEF applied
  <2> QED BY <1>8, <2>1, <1>a, <1>b DEF applied, apply_over, finish, KnownIsApplied, Known
<1>9. CASE apply_fails
  BY <1>9 DEF apply_fails, apply_over, finish
<1>10. CASE store_begin
  BY <1>10, <1>a DEF store_begin
<1>11. CASE store_end
  BY <1>11, <1>a, <1>b DEF store_end, finish, KnownIsApplied, Known
<1>12. ASSUME NEW reason, wake(reason) PROVE ProgressInv'
  BY <1>12, <1>a DEF wake, KnownIsApplied, Known
<1>13. CASE publish \/ trigger
  BY <1>13, <1>a DEF publish, trigger, SetSoFar, Done, KnownIsApplied, Known
<1>14. CASE daemon_crash
  BY <1>14, <1>a, <1>b DEF daemon_crash, fresh_process, KnownIsApplied, Known, TypeOK
<1>15. CASE reboot
  BY <1>15 DEF reboot, fresh_process
<1>16. CASE interface_added
  BY <1>16, <1>a DEF interface_added, SetSoFar, Done, KnownIsApplied, Known
<1>17. CASE UNCHANGED vars
  BY <1>17, <1>a DEF vars, SetSoFar, Done, KnownIsApplied, Known
<1> QED
  BY <1>1, <1>2, <1>3, <1>4, <1>5, <1>6, <1>7, <1>8, <1>9, <1>10, <1>11, <1>12, <1>13,
     <1>14, <1>15, <1>16, <1>17 DEF Next, Step, Apply

\* A pass that is skipped was right to be skipped: what the daemon compares
\* its pull with is on the interface, for every interleaving of crashes,
\* commands, file writes and publications and whatever earlier applications
\* lost, unless the last one lost a command, or was cut off in v2 and taken
\* back, or the host restarted since (reconciler.py:226-232, 266-271).
THEOREM SkipsAreSound == Spec => []SkipIsSound
<1>1. TypeInv /\ ProgressInv => SkipIsSound
  BY DesiredPublished DEF TypeInv, ProgressInv, KnownIsApplied, SkipIsSound
<1> QED
  BY InitType, NextType, InitTarget, NextTarget, InitProgress, NextProgress, <1>1, PTL DEF Spec

-----------------------------------------------------------------------------
(* Pushes, and what the loop does to the interface. *)

\* A pending push event is cleared only by the wait that turns into a pull,
\* or by a new process, which begins with one (reconciler.py:361-378).
THEOREM PushesAreServed == Spec => PushIsServed
<1>1. [Next]_vars => [(push /\ ~ push') => pc' = "pull"]_vars
  <2> SUFFICES ASSUME Next, push, ~ push' PROVE pc' = "pull"
    OBVIOUS
  <2>1. ~ (Step \/ pull_failed \/ apply_fails \/ publish \/ trigger \/ interface_added)
    BY DEF Step, Apply, skip_unchanged, pull_changed, read_state, set_peer, remove_peer,
       peers_set, applied, apply_fails, apply_over, store_begin, store_end, pull_failed, publish,
       trigger, interface_added, finish
  <2> QED BY <2>1 DEF Next, wake, daemon_crash, reboot, fresh_process
<1> QED BY <1>1, PTL DEF Spec, PushIsServed

\* A command that sets a peer gives it what the goal says, or is lost.
LEMMA SyncSets ==
    ASSUME TypeInv, NEW k \in Keys, set_peer(k)
    PROVE  [Sync!Next]_(Sync!vars)
<1>1. /\ target # NoConfig /\ target \in Config /\ k \in Peers(target)
      /\ route \in [Ips -> peers \cup {NoKey}] /\ endpoint \in [Keys -> Endpoints \cup {NoEndpoint}]
  BY DEF TypeInv, TypeOK, HasTarget, set_peer
<1>2. revision' = revision /\ target' = target
  BY DEF set_peer, serverVars
<1>3. CASE NoEffect
  BY <1>2, <1>3 DEF NoEffect, peerVars, Sync!vars
<1>4. CASE SetPeer(k, target[k])
  <2>1. target[k] # Absent /\ target[k].ips \subseteq Ips
    BY <1>1, SettingType DEF Peers
  <2>2. /\ peers' = peers \cup {k}
        /\ \A ip \in Ips : route'[ip] = IF ip \in target[k].ips THEN k
                                        ELSE IF route[ip] = k THEN NoKey ELSE route[ip]
        /\ endpoint'[k] = IF target[k].endpoint = NoEndpoint THEN endpoint[k] ELSE target[k].endpoint
        /\ \A j \in Keys \ {k} : endpoint'[j] = endpoint[j]
    BY <1>1, <1>4 DEF SetPeer
  <2>3. {ip \in Ips : route'[ip] = k} = target[k].ips
    BY <2>1, <2>2, ConfigAssumption
  <2>4. Sync!SetPeer(k)
    BY <1>1, <1>2, <2>1, <2>2, <2>3 DEF Sync!SetPeer, Sync!OnlyOf
  <2> QED BY <2>4 DEF Sync!Next
<1> QED BY <1>3, <1>4 DEF set_peer

\* A command that removes a peer names one that is not in the goal, or is
\* lost.
LEMMA SyncRemoves ==
    ASSUME TypeInv, TargetInv, NEW k \in Keys, remove_peer(k)
    PROVE  [Sync!Next]_(Sync!vars)
<1>1. /\ target # NoConfig /\ target[k] = Absent
      /\ route \in [Ips -> peers \cup {NoKey}] /\ endpoint \in [Keys -> Endpoints \cup {NoEndpoint}]
  BY DEF TypeInv, TypeOK, HasTarget, TargetInv, Peers, remove_peer
<1>2. revision' = revision /\ target' = target
  BY DEF remove_peer, serverVars
<1>3. CASE NoEffect
  BY <1>2, <1>3 DEF NoEffect, peerVars, Sync!vars
<1>4. CASE DropPeer(k)
  <2>1. Sync!RemovePeer(k)
    BY <1>1, <1>2, <1>4, ConfigAssumption DEF DropPeer, Sync!RemovePeer, Sync!OnlyOf
  <2> QED BY <2>1 DEF Sync!Next
<1> QED BY <1>3, <1>4 DEF remove_peer

\* Every step of the reconciler is a step of PeerSync or leaves the server's
\* revision, the target and the peers of the interface as they are.
LEMMA NextSync == TypeInv /\ TargetInv /\ [Next]_vars => [Sync!Next]_(Sync!vars)
<1> SUFFICES ASSUME TypeInv, TargetInv, [Next]_vars PROVE [Sync!Next]_(Sync!vars)
  OBVIOUS
<1> USE DEF TypeInv, serverVars, applyVars, wgVars, peerVars, storeVars
<1>1. CASE pull_changed
  <2>1. revision \in 1..revision
    BY DEF TypeOK
  <2>2. Sync!Adopt
    BY <1>1, <2>1 DEF pull_changed, Desired, Sync!Adopt
  <2> QED BY <2>2 DEF Sync!Next
<1>2. CASE pull_failed
  <2>1. CASE mode = "v1" /\ last = NoConfig /\ cacheMem # NoConfig
    <3>1. target = NoConfig
      BY <1>2, <2>1 DEF TargetInv, pull_failed
    <3>2. PICK r \in 1..revision : ConfigOf[r] = cacheMem
      BY <2>1 DEF TargetInv, Published
    <3>3. Sync!Adopt
      BY <1>2, <2>1, <3>1, <3>2 DEF pull_failed, Sync!Adopt
    <3> QED BY <3>3 DEF Sync!Next
  <2>2. CASE ~ (mode = "v1" /\ last = NoConfig /\ cacheMem # NoConfig)
    BY <1>2, <2>2 DEF pull_failed, Sync!vars
  <2> QED BY <2>1, <2>2
<1>3. ASSUME NEW k \in Keys, set_peer(k) \/ remove_peer(k) PROVE [Sync!Next]_(Sync!vars)
  BY <1>3, SyncSets, SyncRemoves
<1>4. CASE \/ skip_unchanged \/ read_state \/ peers_set \/ applied \/ apply_fails
           \/ store_begin \/ store_end
  BY <1>4 DEF skip_unchanged, read_state, peers_set, applied, apply_fails, apply_over,
     store_begin, store_end, Sync!vars
<1>5. ASSUME NEW reason, wake(reason) PROVE [Sync!Next]_(Sync!vars)
  BY <1>5 DEF wake, Sync!vars
<1>6. CASE publish
  BY <1>6 DEF publish, Sync!Next, Sync!Publish
<1>7. CASE trigger \/ interface_added
  BY <1>7 DEF trigger, interface_added, Sync!vars
<1>8. CASE daemon_crash \/ reboot
  BY <1>8 DEF daemon_crash, reboot, fresh_process, NoRoutes, NoEndpoints,
     Sync!Next, Sync!Restart, Sync!Nothing
<1>9. CASE UNCHANGED vars
  BY <1>9 DEF vars, Sync!vars
<1> QED
  BY <1>1, <1>2, <1>3, <1>4, <1>5, <1>6, <1>7, <1>8, <1>9 DEF Next, Step, Apply

\* The reconciler implements PeerSync: whatever crashes, fails or is pushed,
\* the interface changes one peer at a time, each change being what one
\* published configuration says of the peer (reconciler.py:336-359, wg_runtime.py:106-161).
THEOREM ImplementsPeerSync == Spec => SyncsPeers
<1>1. Init => Sync!Init
  BY DEF Init, NoRoutes, NoEndpoints, Sync!Init, Sync!Nothing
<1> QED
  BY <1>1, InitType, NextType, InitTarget, NextTarget, NextSync, PTL
     DEF Spec, SyncsPeers, Sync!Spec
=============================================================================
