----------------------------- MODULE RelayServer -----------------------------
(***************************************************************************)
(* The TCP relay server of the control plane                               *)
(* (src/backend/app/services/relay_server.py): the registry that maps a    *)
(* device to the connection its relayed traffic is written to, the table   *)
(* of heartbeats, and the table of session tokens.                         *)
(*                                                                         *)
(* One asyncio callback runs at a time, so a callback is one action.  The  *)
(* clients are the environment: any message may arrive on an open          *)
(* connection, with any device id, any session id or none, and any token.  *)
(* RelayPath adds the client that the daemons run.                         *)
(*                                                                         *)
(* Abstractions.  A session and its random token are one value.  The       *)
(* 120-second threshold is the age of a heartbeat: fresh, or stale once    *)
(* HeartbeatAges has happened.  Framing, JSON, PING and the acknowledgments*)
(* change no state of the server.                                          *)
(***************************************************************************)
EXTENDS Naturals

CONSTANTS
    Devices,      \* device ids
    Sessions,     \* relay session ids; the token of s is identified with s
    Conns,        \* TCP connections, each with its RelayProtocol object
    NoDevice,     \* RelayProtocol._device_id is None
    NoConn,       \* no entry in RelayServer._connections
    NoToken,      \* a token the server does not know, such as the empty one
    NoSession     \* None: no session id in the message, no entry for the token

ASSUME ConstantsDistinct ==
    /\ NoDevice \notin Devices
    /\ NoConn \notin Conns
    /\ NoToken \notin Sessions
    /\ NoSession \notin Sessions

VARIABLES
    phase,        \* "up": serving; "closing": in stop(), at wait_closed; "down"
    open,         \* the connections the server has not lost
    device,       \* RelayProtocol._device_id of each connection
    connections,  \* RelayServer._connections
    heartbeats,   \* RelayServer._heartbeats, by the age of the timestamp
    validTokens   \* the keys of RelayServer._valid_tokens

vars == <<phase, open, device, connections, heartbeats, validTokens>>

TypeOK ==
    /\ phase \in {"up", "closing", "down"}
    /\ open \subseteq Conns
    /\ device \in [Conns -> Devices \cup {NoDevice}]
    /\ connections \in [Devices -> Conns \cup {NoConn}]
    /\ heartbeats \in [Devices -> {"none", "fresh", "stale"}]
    /\ validTokens \subseteq Sessions

Init ==
    /\ phase = "up"
    /\ open = {}
    /\ device = [c \in Conns |-> NoDevice]
    /\ connections = [d \in Devices |-> NoConn]
    /\ heartbeats = [d \in Devices |-> "none"]
    /\ validTokens = {}

-----------------------------------------------------------------------------
(* The registry's own operations. *)

\* validate_session(token, session_id): what the table holds for the token,
\* None if it holds nothing, is the session id of the message.
validate_session(token, s) == s = IF token \in validTokens THEN token ELSE NoSession

\* Mutant: the heartbeat entry is left for the first heartbeat to create.
register_connection_NoHeartbeat(d, c) ==
    /\ connections' = [connections EXCEPT ![d] = c]
    /\ UNCHANGED heartbeats

register_connection(d, c) ==
    /\ connections' = [connections EXCEPT ![d] = c]
    /\ heartbeats' = [heartbeats EXCEPT ![d] = "fresh"]

\* unregister_connection for every device of D.  It asks neither which
\* connection is registered nor who is calling; the filter on the token
\* table compares the session ids it holds with the device id.
unregister_connection(D) ==
    /\ connections' = [d \in Devices |-> IF d \in D THEN NoConn ELSE connections[d]]
    /\ heartbeats' = [d \in Devices |-> IF d \in D THEN "none" ELSE heartbeats[d]]
    /\ validTokens' = validTokens \ D

\* The devices unregistered when connection c drops its device id: none if
\* it never claimed one.
Claimed(c) == {device[c]} \ {NoDevice}

-----------------------------------------------------------------------------
(* Callbacks of a connection. *)

\* A new RelayProtocol object; c may name a connection lost before that the
\* registry no longer holds.
connection_made(c) ==
    /\ phase = "up" /\ c \notin open
    /\ \A d \in Devices : connections[d] # c
    /\ open' = open \cup {c}
    /\ device' = [device EXCEPT ![c] = NoDevice]
    /\ UNCHANGED <<phase, connections, heartbeats, validTokens>>

\* Mutant: the answer of validate_session only picks the acknowledgment.
handle_connect_Unvalidated(c, d, s, token) ==
    /\ c \in open
    /\ device' = [device EXCEPT ![c] = d]
    /\ register_connection(d, c)
    /\ UNCHANGED <<phase, open, validTokens>>

\* The device id of the message is stored before the token is validated, and
\* stays stored when the session is rejected.  An id the connection claimed
\* before is forgotten, and its registration is not.
handle_connect(c, d, s, token) ==
    /\ c \in open
    /\ device' = [device EXCEPT ![c] = d]
    /\ IF validate_session(token, s)
         THEN register_connection(d, c)
         ELSE UNCHANGED <<connections, heartbeats>>
    /\ UNCHANGED <<phase, open, validTokens>>

handle_disconnect(c) ==
    /\ c \in open
    /\ unregister_connection(Claimed(c))
    /\ device' = [device EXCEPT ![c] = NoDevice]
    /\ UNCHANGED <<phase, open>>

\* Also the stats message of the client, which is a heartbeat on the wire.
handle_heartbeat(c) ==
    /\ c \in open
    /\ heartbeats' = [d \in Devices |-> IF d \in Claimed(c) THEN "fresh" ELSE heartbeats[d]]
    /\ UNCHANGED <<phase, open, device, connections, validTokens>>

\* Mutant: only an explicit DISCONNECT unregisters.
connection_lost_KeepsEntry(c) ==
    /\ c \in open
    /\ open' = open \ {c}
    /\ UNCHANGED <<phase, device, connections, heartbeats, validTokens>>

connection_lost(c) ==
    /\ c \in open
    /\ open' = open \ {c}
    /\ unregister_connection(Claimed(c))
    /\ UNCHANGED <<phase, device>>

\* The connection that _handle_data writes a message for device d to.
get_connection(d) == connections[d]

-----------------------------------------------------------------------------
(* Calls of the rest of the control plane. *)

\* POST /relay/sessions: the token becomes valid after the row is committed.
add_valid_token(s) ==
    /\ phase = "up" /\ s \notin validTokens
    /\ validTokens' = validTokens \cup {s}
    /\ UNCHANGED <<phase, open, device, connections, heartbeats>>

\* POST /relay/{session_id}/heartbeat by device d.
update_heartbeat(d) ==
    /\ phase = "up"
    /\ heartbeats' = [heartbeats EXCEPT ![d] = "fresh"]
    /\ UNCHANGED <<phase, open, device, connections, validTokens>>

\* 120 seconds pass since the last heartbeat of d.
HeartbeatAges(d) ==
    /\ heartbeats[d] = "fresh"
    /\ heartbeats' = [heartbeats EXCEPT ![d] = "stale"]
    /\ UNCHANGED <<phase, open, device, connections, validTokens>>

Stale == {d \in Devices : heartbeats[d] = "stale"}

\* Mutant: the sweep forgets the heartbeat and keeps the connection.
remove_expired_tokens_HeartbeatOnly ==
    /\ phase = "up" /\ Stale # {}
    /\ heartbeats' = [d \in Devices |-> IF d \in Stale THEN "none" ELSE heartbeats[d]]
    /\ UNCHANGED <<phase, open, device, connections, validTokens>>

\* The cleanup loop of the application; it is cancelled before stop().
remove_expired_tokens ==
    /\ phase = "up" /\ Stale # {}
    /\ unregister_connection(Stale)
    /\ UNCHANGED <<phase, open, device>>

\* stop() up to its await of wait_closed: the listening socket is closed.
stop ==
    /\ phase = "up"
    /\ phase' = "closing"
    /\ UNCHANGED <<open, device, connections, heartbeats, validTokens>>

\* The rest of stop(): wait_closed returns when no connection is left.
stop_finished ==
    /\ phase = "closing" /\ open = {}
    /\ phase' = "down"
    /\ device' = [c \in Conns |-> IF \E d \in Devices : connections[d] = c
                                    THEN NoDevice ELSE device[c]]
    /\ connections' = [d \in Devices |-> NoConn]
    /\ heartbeats' = [d \in Devices |-> "none"]
    /\ validTokens' = {}
    /\ UNCHANGED open

\* The process dies: its sockets are closed and its memory is gone.
crash ==
    /\ phase # "down"
    /\ phase' = "down"
    /\ open' = {}
    /\ connections' = [d \in Devices |-> NoConn]
    /\ heartbeats' = [d \in Devices |-> "none"]
    /\ validTokens' = {}
    /\ UNCHANGED device

\* A new process: a RelayServer with empty tables.
start ==
    /\ phase = "down"
    /\ phase' = "up"
    /\ UNCHANGED <<open, device, connections, heartbeats, validTokens>>

ConnStep(c) ==
    \/ connection_made(c)
    \/ \E d \in Devices, s \in Sessions \cup {NoSession}, token \in Sessions \cup {NoToken} :
         handle_connect(c, d, s, token)
    \/ handle_disconnect(c)
    \/ handle_heartbeat(c)
    \/ connection_lost(c)

ServerStep ==
    \/ \E s \in Sessions : add_valid_token(s)
    \/ \E d \in Devices : update_heartbeat(d)
    \/ \E d \in Devices : HeartbeatAges(d)
    \/ remove_expired_tokens
    \/ stop \/ stop_finished \/ crash \/ start

Next == (\E c \in Conns : ConnStep(c)) \/ ServerStep

\* Time passes, and the cleanup loop catches every exception and runs again.
Fairness ==
    /\ \A d \in Devices : WF_vars(HeartbeatAges(d))
    /\ WF_vars(remove_expired_tokens)

Spec == Init /\ [][Next]_vars

FairSpec == Spec /\ Fairness

-----------------------------------------------------------------------------
(* Properties. *)

\* Whatever clients send, a registered connection that still answers for the
\* device it is registered under is open: a connection that claims a second
\* device id is the only one that can be lost and leave an entry behind.
ClaimedIsLive ==
    \A d \in Devices, c \in Conns : (connections[d] = c /\ device[c] = d) => c \in open

\* Every registered device has a heartbeat entry: remove_expired_tokens
\* iterates over _heartbeats only, so a registration without one could
\* never be expired.
SweepSeesRegistered ==
    \A d \in Devices : connections[d] # NoConn => heartbeats[d] # "none"

\* Something refreshes the entry of d: a heartbeat on a connection
\* that claims d, an accepted CONNECT for d, or the REST heartbeat.
Speaks(d) ==
    \/ \E c \in Conns : device[c] = d /\ handle_heartbeat(c)
    \/ \E c \in Conns, s \in Sessions \cup {NoSession}, token \in Sessions \cup {NoToken} :
         validate_session(token, s) /\ handle_connect(c, d, s, token)
    \/ update_heartbeat(d)

\* A device that falls silent is expired: either its messages keep arriving
\* or it is unregistered again and again, whatever TCP reports of the
\* connection (remove_expired_tokens, relay_server.py:273-285).  A server
\* that is shut down or waits in stop() expires nothing.
SilentIsExpired ==
    \A d \in Devices :
        \/ []<>(connections[d] = NoConn)
        \/ []<><<Speaks(d)>>_vars
        \/ <>[](phase = "closing")
=============================================================================
