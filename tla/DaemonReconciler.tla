-------------------------- MODULE DaemonReconciler --------------------------
(***************************************************************************)
(* The reconciliation loop of the daemon                                   *)
(* (src/midscaled/daemon/reconciler.py), the WireGuard commands it issues  *)
(* (wg_runtime.py) and the cache it keeps on disk (state_store.py).        *)
(*                                                                         *)
(* The daemon pulls the configuration the server wants, skips it when its  *)
(* cache says it is applied, and otherwise applies it peer by peer with    *)
(* the wg tool.  An enrolled daemon compares the hash kept in cache.json   *)
(* ("v2"); a daemon registered the old way compares the text it keeps in   *)
(* memory ("v1").  Every command is awaited and every file write takes two *)
(* steps, so a crash can come between any two of them.                     *)
(*                                                                         *)
(* Abstractions.  A configuration maps each peer key to its allowed IPs    *)
(* and its endpoint, which need not be given, or to Absent; it stands for  *)
(* its own hash and text (the server always sends a hash).  The keepalive  *)
(* is treated like the endpoint and left out, and so is an endpoint the    *)
(* kernel learns from a peer that roams.  Only the last_config_hash key of *)
(* the cache is kept for v2 and last_config for v1.  The private key,      *)
(* addresses, counters, relay activation (RelayPath) and the prober (never *)
(* constructed) are left out.                                              *)
(*                                                                         *)
(* The wg tool is not part of the repository.  _parse_dump reads the       *)
(* listen port from the second field of a dump; wireguard-tools prints the *)
(* public key there and the port third.  The variable readable says which  *)
(* of the two the installed tool does.                                     *)
(***************************************************************************)
EXTENDS Naturals, FiniteSets

CONSTANTS
    Keys,         \* public keys of peers
    Ips,          \* what is in allowed-ips
    Endpoints,
    NoKey,        \* the kernel routes this IP to no peer
    NoEndpoint,   \* no endpoint given, or known
    Absent,       \* no such peer
    NoConfig,     \* nothing cached
    MaxRevision,  \* bound: the server publishes revisions 1..MaxRevision
    ConfigOf,     \* the configuration the server serves at each revision
    MaxCrashes,   \* bound on crashes of the daemon
    Modes,        \* the modes a run starts in, of {"v1", "v2"}
    IfaceInit,    \* whether the interface exists at first
    Env           \* what the environment may do: see below

\* "crash": the daemon process dies and is restarted; "pull": a pull fails;
\* "wg": a wg command fails; "reboot": the host restarts; "admin": someone
\* else creates a missing interface.
Settings == [ips : SUBSET Ips, endpoint : Endpoints \cup {NoEndpoint}]

Config == [Keys -> Settings \cup {Absent}]

ASSUME ConfigAssumption ==
    /\ MaxRevision \in Nat \ {0} /\ MaxCrashes \in Nat
    /\ ConfigOf \in [1..MaxRevision -> Config]
    /\ Absent \notin Settings /\ NoConfig \notin Config
    /\ NoKey \notin Keys /\ NoEndpoint \notin Endpoints
    /\ Modes \subseteq {"v1", "v2"} /\ IfaceInit \subseteq BOOLEAN
    /\ Env \subseteq {"crash", "pull", "wg", "reboot", "admin"}

VARIABLES
    mode,      \* daemon_state.enrolled
    revision,  \* the revision the server serves
    push,      \* the reconciler's _push_event
    pc,        \* where the loop is
    target,    \* the configuration pulled and being applied
    todo,      \* peers still to be set
    stale,     \* peers read from the interface still to be removed
    readable,  \* the second field of a dump is the listen port
    iface,     \* the interface exists
    peers,     \* the peers of the interface
    route,     \* the peer each allowed IP belongs to
    endpoint,  \* the endpoint of each peer
    cacheMem,  \* StateStore._cache
    cacheDisk, \* cache.json; NoConfig also stands for a torn file
    last,      \* Reconciler._last_config (v1)
    disturbed, \* history: since an application last began a command had no
               \* effect, the host restarted, or a crash of a v2 daemon came
               \* before the hash was stored
    crashes    \* crashes so far, for the bound

vars == <<mode, revision, push, pc, target, todo, stale, readable, iface, peers,
          route, endpoint, cacheMem, cacheDisk, last, disturbed, crashes>>

applyVars == <<target, todo, stale>>
peerVars == <<peers, route, endpoint>>
wgVars == <<readable, iface, peers, route, endpoint, disturbed>>
storeVars == <<cacheMem, cacheDisk, last>>
serverVars == <<mode, revision>>

TypeOK ==
    /\ mode \in {"v1", "v2"}
    /\ revision \in 1..MaxRevision
    /\ push \in BOOLEAN
    /\ pc \in {"pull", "wait", "read", "set", "remove", "store", "storing"}
    /\ target \in Config \cup {NoConfig}
    /\ todo \subseteq Keys /\ stale \subseteq Keys
    /\ iface \in BOOLEAN /\ readable \in BOOLEAN
    /\ peers \subseteq Keys
    /\ route \in [Ips -> peers \cup {NoKey}]
    /\ endpoint \in [Keys -> Endpoints \cup {NoEndpoint}]
    /\ cacheMem \in Config \cup {NoConfig}
    /\ cacheDisk \in Config \cup {NoConfig}
    /\ last \in Config \cup {NoConfig}
    /\ disturbed \in BOOLEAN
    /\ crashes \in 0..MaxCrashes

Peers(config) == {k \in Keys : config[k] # Absent}

\* The peers of a configuration that have an IP in their allowed-ips.
Owners(config, ip) == {k \in Peers(config) : ip \in config[k].ips}

\* Allowed IPs and endpoints of an interface without peers.
NoRoutes == [ip \in Ips |-> NoKey]
NoEndpoints == [k \in Keys |-> NoEndpoint]

Init ==
    /\ mode \in Modes
    /\ revision = 1
    /\ push = FALSE
    /\ pc = "pull"
    /\ target = NoConfig /\ todo = {} /\ stale = {}
    /\ readable \in BOOLEAN /\ iface \in IfaceInit
    /\ peers = {} /\ route = NoRoutes /\ endpoint = NoEndpoints
    /\ cacheMem = NoConfig /\ cacheDisk = NoConfig /\ last = NoConfig
    /\ disturbed = FALSE /\ crashes = 0

Desired == ConfigOf[revision]

-----------------------------------------------------------------------------
(* The loop. *)

\* _run_loop: the wait ends with a push event or the polling timeout, and
\* the event is cleared with nothing awaited in between.
wake(reason) ==
    /\ pc = "wait"
    /\ reason = "push" => push
    /\ push' = FALSE
    /\ pc' = "pull"
    /\ UNCHANGED <<serverVars, applyVars, wgVars, storeVars, crashes>>

\* Mutant: the event is cleared when the pass ends instead of when it begins.
finish_ClearsPush ==
    /\ pc' = "wait"
    /\ push' = FALSE

\* The end of a pass.
finish ==
    /\ pc' = "wait"
    /\ UNCHANGED push

\* The configuration that the next pull is compared with.
Known == IF mode = "v2" THEN cacheMem ELSE last

\* The pull answers and nothing has changed: the pass ends.
skip_unchanged ==
    /\ pc = "pull" /\ Desired = Known
    /\ finish
    /\ UNCHANGED <<serverVars, applyVars, wgVars, storeVars, crashes>>

\* The pull answers with something new.  v1 records it before it is applied,
\* v2 after.
pull_changed ==
    /\ pc = "pull" /\ Desired # Known
    /\ target' = Desired
    /\ pc' = IF mode = "v1" THEN "store" ELSE "read"
    /\ UNCHANGED <<serverVars, push, todo, stale, wgVars, storeVars, crashes>>

\* A pull fails.  A v1 daemon that has applied nothing since it started
\* falls back to the cached text.
pull_failed ==
    /\ "pull" \in Env /\ pc = "pull"
    /\ IF mode = "v1" /\ last = NoConfig /\ cacheMem # NoConfig
         THEN /\ last' = cacheMem /\ target' = cacheMem
              /\ pc' = "read" /\ UNCHANGED push
         ELSE finish /\ UNCHANGED <<last, target>>
    /\ UNCHANGED <<serverVars, todo, stale, wgVars, cacheMem, cacheDisk, crashes>>

-----------------------------------------------------------------------------
(* WireGuardRuntime. *)

\* wg set <interface> peer k allowed-ips ... [endpoint ...]: the list of k is
\* replaced, and what is in it moves to k from whoever had it.  An endpoint
\* that is not given stays as it was.
SetPeer(k, setting) ==
    /\ peers' = peers \cup {k}
    /\ route' = [ip \in Ips |-> IF ip \in setting.ips THEN k
                                ELSE IF route[ip] = k THEN NoKey ELSE route[ip]]
    /\ endpoint' = [endpoint EXCEPT ![k] = IF setting.endpoint = NoEndpoint THEN @
                                           ELSE setting.endpoint]

\* wg set <interface> peer k remove.
DropPeer(k) ==
    /\ peers' = peers \ {k}
    /\ route' = [ip \in Ips |-> IF route[ip] = k THEN NoKey ELSE route[ip]]
    /\ endpoint' = [endpoint EXCEPT ![k] = NoEndpoint]

\* A command without effect: _run does not look at the exit status, so a
\* command on a missing interface, or one that fails, changes nothing and
\* reports nothing.
NoEffect ==
    /\ ~ iface \/ "wg" \in Env
    /\ disturbed' = TRUE /\ UNCHANGED peerVars

\* Mutant: every peer of the interface is removed after the new ones are set.
read_state_RemovesAll ==
    /\ pc = "read"
    /\ todo' = Peers(target)
    /\ stale' = IF iface /\ readable THEN peers ELSE {}
    /\ disturbed' = FALSE
    /\ pc' = "set"
    /\ UNCHANGED <<serverVars, push, target, readable, iface, peerVars, storeVars, crashes>>

\* bring_up_interface and the first half of apply_config: interface_exists
\* answers True whenever the wg tool can be run, so the interface is never
\* created here; then the current peers are read.  A missing interface and a
\* dump that cannot be parsed both make get_state answer None, after which
\* no peer counts as stale.
read_state ==
    /\ pc = "read"
    /\ todo' = Peers(target)
    /\ stale' = IF iface /\ readable THEN peers \ Peers(target) ELSE {}
    /\ disturbed' = FALSE
    /\ pc' = "set"
    /\ UNCHANGED <<serverVars, push, target, readable, iface, peerVars, storeVars, crashes>>

\* Mutant: a peer that is already on the interface is left as it is.
set_peer_OnlyNew(k) ==
    /\ pc = "set" /\ k \in todo
    /\ \/ iface /\ k \notin peers /\ SetPeer(k, target[k]) /\ UNCHANGED disturbed
       \/ k \in peers /\ UNCHANGED <<peerVars, disturbed>>
       \/ NoEffect
    /\ todo' = todo \ {k}
    /\ UNCHANGED <<serverVars, push, pc, target, stale, readable, iface, storeVars, crashes>>

set_peer(k) ==
    /\ pc = "set" /\ k \in todo
    /\ \/ iface /\ SetPeer(k, target[k]) /\ UNCHANGED disturbed
       \/ NoEffect
    /\ todo' = todo \ {k}
    /\ UNCHANGED <<serverVars, push, pc, target, stale, readable, iface, storeVars, crashes>>

peers_set ==
    /\ pc = "set" /\ todo = {}
    /\ pc' = "remove"
    /\ UNCHANGED <<serverVars, push, applyVars, wgVars, storeVars, crashes>>

\* Mutant: the allowed IPs of the peer are not released.
remove_peer_KeepsIps(k) ==
    /\ pc = "remove" /\ k \in stale
    /\ \/ iface /\ peers' = peers \ {k} /\ UNCHANGED <<route, endpoint, disturbed>>
       \/ NoEffect
    /\ stale' = stale \ {k}
    /\ UNCHANGED <<serverVars, push, pc, target, todo, readable, iface, storeVars, crashes>>

remove_peer(k) ==
    /\ pc = "remove" /\ k \in stale
    /\ \/ iface /\ DropPeer(k) /\ UNCHANGED disturbed
       \/ NoEffect
    /\ stale' = stale \ {k}
    /\ UNCHANGED <<serverVars, push, pc, target, todo, readable, iface, storeVars, crashes>>

\* Whether bring_up_interface and apply_config return True or False makes no
\* difference to the caller: v2 goes on to store the hash.
apply_over ==
    /\ IF mode = "v1" THEN finish ELSE pc' = "store" /\ UNCHANGED push
    /\ UNCHANGED <<serverVars, applyVars, readable, iface, peerVars, storeVars, crashes>>

applied ==
    /\ pc = "remove" /\ stale = {}
    /\ apply_over
    /\ UNCHANGED disturbed

\* The tool cannot be started: the exception ends the application.
apply_fails ==
    /\ "wg" \in Env /\ pc \in {"read", "set", "remove"}
    /\ apply_over
    /\ disturbed' = TRUE

-----------------------------------------------------------------------------
(* StateStore. *)

\* update_cache: the memory copy changes and the file is truncated ...
store_begin ==
    /\ pc = "store"
    /\ cacheMem' = target
    /\ cacheDisk' = NoConfig
    /\ pc' = "storing"
    /\ UNCHANGED <<serverVars, push, applyVars, wgVars, last, crashes>>

\* ... and then written.  v1 goes on to apply what it has recorded.
store_end ==
    /\ pc = "storing"
    /\ cacheDisk' = cacheMem
    /\ IF mode = "v1"
         THEN last' = target /\ pc' = "read" /\ UNCHANGED push
         ELSE finish /\ UNCHANGED last
    /\ UNCHANGED <<serverVars, applyVars, wgVars, cacheMem, crashes>>

-----------------------------------------------------------------------------
(* The environment. *)

\* The configuration of this device changes on the server.
publish ==
    /\ revision < MaxRevision
    /\ revision' = revision + 1
    /\ UNCHANGED <<mode, push, pc, applyVars, wgVars, storeVars, crashes>>

\* trigger(): a config.changed message arrives over the WebSocket.
trigger ==
    /\ ~ push
    /\ push' = TRUE
    /\ UNCHANGED <<serverVars, pc, applyVars, wgVars, storeVars, crashes>>

\* Mutant: the cache is taken from memory that outlives the process.
fresh_process_KeepsLast ==
    /\ cacheMem' = cacheDisk
    /\ pc' = "pull" /\ push' = FALSE
    /\ target' = NoConfig /\ todo' = {} /\ stale' = {}
    /\ UNCHANGED <<serverVars, cacheDisk, last>>

\* A new process: StateStore.load reads the file, all else starts empty.
fresh_process ==
    /\ cacheMem' = cacheDisk /\ last' = NoConfig
    /\ pc' = "pull" /\ push' = FALSE
    /\ target' = NoConfig /\ todo' = {} /\ stale' = {}
    /\ UNCHANGED <<serverVars, cacheDisk>>

\* The daemon dies and is restarted; the kernel keeps the interface.  A v2
\* daemon may find the old hash confirmed, if the server takes the update
\* back, and leave what had been applied of it.
daemon_crash ==
    /\ "crash" \in Env /\ crashes < MaxCrashes
    /\ crashes' = crashes + 1
    /\ fresh_process
    /\ disturbed' = (disturbed \/ (mode = "v2" /\ pc \in {"set", "remove", "store"}))
    /\ UNCHANGED <<readable, iface, peerVars>>

\* The host restarts: the interface and its peers are gone, the disk is not.
reboot ==
    /\ "reboot" \in Env /\ crashes < MaxCrashes
    /\ crashes' = crashes + 1
    /\ fresh_process
    /\ peers' = {} /\ route' = NoRoutes /\ endpoint' = NoEndpoints
    /\ iface' = FALSE /\ disturbed' = TRUE
    /\ UNCHANGED readable

\* Something outside the daemon creates the interface.
interface_added ==
    /\ "admin" \in Env /\ ~ iface
    /\ iface' = TRUE
    /\ UNCHANGED <<serverVars, push, pc, applyVars, readable, peerVars, disturbed, storeVars, crashes>>

Apply == read_state \/ (\E k \in Keys : set_peer(k) \/ remove_peer(k)) \/ peers_set \/ applied

Step == skip_unchanged \/ pull_changed \/ Apply \/ store_begin \/ store_end

Next ==
    \/ Step \/ pull_failed \/ apply_fails \/ wake("push") \/ wake("timeout")
    \/ publish \/ trigger
    \/ daemon_crash \/ reboot \/ interface_added

Spec == Init /\ [][Next]_vars

\* The loop runs, the polling timeout fires, and pulls do not fail forever.
Fairness ==
    /\ WF_vars(wake("timeout"))
    /\ WF_vars(Step) /\ SF_vars(skip_unchanged \/ pull_changed)
    /\ WF_vars(interface_added)

FairSpec == Spec /\ Fairness

-----------------------------------------------------------------------------
(* Properties. *)

\* The interface is what a configuration says: the peers it names are there
\* with the endpoints it gives, each allowed IP it gives is with a peer it
\* gives it to, and its peers have no other.  Peers it does not name are gone
\* if the dump can be read, and otherwise remain, without those IPs.
Applied(config) ==
    /\ Peers(config) \subseteq peers
    /\ readable => peers = Peers(config)
    /\ \A k \in Peers(config) : config[k].endpoint \in {endpoint[k], NoEndpoint}
    /\ \A ip \in Ips : IF Owners(config, ip) = {} THEN route[ip] \notin Peers(config)
                                                  ELSE route[ip] \in Owners(config, ip)

\* What the daemon believes it has applied is on the interface: whenever the
\* loop is about to compare a pull with Known, a skip is right.  With
\* crashes between any two commands and file writes this needs v2 to record
\* after it applies and v1 to forget what it recorded when it restarts
\* (reconciler.py:226-232, 266-271).  It holds whatever was lost in earlier
\* applications, since each one sets every peer; it does not if the last
\* application lost a command, or was cut off in v2 and then taken back.
SkipIsSound ==
    (pc \in {"pull", "wait"} /\ Known = Desired) => Applied(Desired) \/ disturbed

\* The interface reaches what the server wants and stays there, through
\* crashes of the daemon, failing pulls and every command lost in an
\* application that was not the last (reconciler.py:336-359,
\* wg_runtime.py:106-161).
ConvergesUndisturbed == <>[](~ disturbed) => <>[]Applied(Desired)

\* A push is never lost: a pending push event disappears only with the pull
\* it asks for, also when it arrives while a pass is running
\* (reconciler.py:361-378).
PushIsServed == [][(push /\ ~ push') => pc' = "pull"]_vars

\* The reconciler implements PeerSync: whatever crashes, fails or is pushed,
\* the interface changes peer by peer, each change towards one published
\* configuration (reconciler.py:336-359, wg_runtime.py:106-161).
Sync == INSTANCE PeerSync WITH want <- revision, goal <- target

SyncsPeers == Sync!Spec
=============================================================================
