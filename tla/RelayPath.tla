------------------------------ MODULE RelayPath ------------------------------
(***************************************************************************)
(* The relay path end to end: the server of module RelayServer, the relay  *)
(* client of every daemon (src/midscaled/daemon/relay_client.py), the      *)
(* daemon's two ways into it (main.py: _request_relay_fallback and         *)
(* _on_relay_fallback), the handlers that hand out tokens (api/v1/relay.py)*)
(* and the TCP connections between them.  The client sends the id of its   *)
(* own device and a session id it was given, never None.                   *)
(*                                                                         *)
(* A connection carries the client's messages in order.  Either end may    *)
(* notice its loss first, so a client can be back on a new connection      *)
(* before the server has lost the old one.                                 *)
(*                                                                         *)
(* Time.  The client sends a heartbeat every 30 s and the server expires   *)
(* after 120 s; a connection that stalls delays heartbeats for longer, so  *)
(* the entry of a device may age at any time.  The expiry of session rows  *)
(* is in module RelaySessions.                                             *)
(***************************************************************************)
EXTENDS RelayServer, Sequences, FiniteSets

CONSTANT
    MaxInFlight   \* bound: messages in transit on one connection

\* Session and device ids are UUIDs of different tables.
ASSUME PathAssumption == MaxInFlight \in Nat \ {0} /\ Sessions \cap Devices = {}

VARIABLES
    link,     \* the connection a daemon reads from and writes to
    owner,    \* history: the daemon that opened a connection the server still has
    parties,  \* initiator and target of a session, {} before it is created
    holders,  \* history: the devices that an answer has given the token of a session
    inbox     \* messages in transit to the server, per connection

sessionVars == <<parties, holders>>

pathVars == <<link, owner, sessionVars, inbox>>

allVars == <<vars, pathVars>>

Message == [type : {"connect"}, device : Devices, session : Sessions, token : Sessions \cup {NoToken}]
             \cup [type : {"disconnect", "heartbeat"}]

PathTypeOK ==
    /\ TypeOK
    /\ link \in [Devices -> Conns \cup {NoConn}]
    /\ owner \in [Conns -> Devices \cup {NoDevice}]
    /\ parties \in [Sessions -> SUBSET Devices]
    /\ holders \in [Sessions -> SUBSET Devices]
    /\ \A s \in Sessions : parties[s] = {} => holders[s] = {}
    /\ inbox \in [Conns -> Seq(Message)]
    /\ \A c \in Conns : Len(inbox[c]) <= MaxInFlight

PathInit ==
    /\ Init
    /\ link = [d \in Devices |-> NoConn]
    /\ owner = [c \in Conns |-> NoDevice]
    /\ parties = [s \in Sessions |-> {}]
    /\ holders = [s \in Sessions |-> {}]
    /\ inbox = [c \in Conns |-> << >>]

-----------------------------------------------------------------------------
(* The client. *)

\* _send_message: without a connection the message goes nowhere, and on a
\* connection the server has lost it is never read.
send_message(d, m) ==
    IF link[d] \in open
      THEN /\ Len(inbox[link[d]]) < MaxInFlight
           /\ inbox' = [inbox EXCEPT ![link[d]] = Append(@, m)]
      ELSE UNCHANGED inbox

\* _run: open_connection succeeds.  The sessions in _active_sessions are not
\* announced on the new connection.
open_connection(d, c) ==
    /\ link[d] = NoConn
    /\ \A e \in Devices : link[e] # c
    /\ connection_made(c)
    /\ link' = [link EXCEPT ![d] = c]
    /\ owner' = [owner EXCEPT ![c] = d]
    /\ inbox' = [inbox EXCEPT ![c] = << >>]
    /\ UNCHANGED sessionVars

\* _read_loop ends: the connection is closed or broken at this end.  What is
\* in transit may still reach the server.
read_loop_ends(d) ==
    /\ link[d] # NoConn
    /\ link' = [link EXCEPT ![d] = NoConn]
    /\ UNCHANGED <<vars, owner, sessionVars, inbox>>

\* What _active_sessions records decides nothing: it is read for statistics.
connect_session(d, s, token) ==
    /\ send_message(d, [type |-> "connect", device |-> d, session |-> s, token |-> token])
    /\ UNCHANGED <<vars, link, owner, sessionVars>>

disconnect_session(d) ==
    /\ send_message(d, [type |-> "disconnect"])
    /\ UNCHANGED <<vars, link, owner, sessionVars>>

heartbeat(d) ==
    /\ link[d] # NoConn
    /\ send_message(d, [type |-> "heartbeat"])
    /\ UNCHANGED <<vars, link, owner, sessionVars>>

-----------------------------------------------------------------------------
(* The daemon and the REST interface. *)

\* A session between two devices: its row exists and its token is valid.
create_session(s, D) ==
    /\ parties[s] = {} /\ Cardinality(D) = 2
    /\ add_valid_token(s)
    /\ parties' = [parties EXCEPT ![s] = D]
    /\ UNCHANGED <<link, owner, inbox>>

\* POST /relay/sessions: the answer carries the token to the caller.
request_relay_session(d, e, s) ==
    /\ create_session(s, {d, e})
    /\ holders' = [holders EXCEPT ![s] = {d}]

\* record_punch_result creates the session itself and tells nobody the token.
auto_create_relay_fallback(d, e, s) ==
    /\ create_session(s, {d, e})
    /\ UNCHANGED holders

\* The answer to a request about session s carries its token to device d.
give_token(d, s) == holders' = [holders EXCEPT ![s] = @ \cup {d}]

\* POST /relay/connect: any device that names a session.  (The session must
\* still be pending; RelaySessions has its states.)
connect_relay_session(d, s) ==
    /\ phase = "up" /\ parties[s] # {}
    /\ give_token(d, s)
    /\ UNCHANGED <<vars, link, owner, parties, inbox>>

\* GET /relay/sessions/{session_id}: the two devices of the session.
get_relay_session(d, s) ==
    /\ phase = "up" /\ d \in parties[s]
    /\ give_token(d, s)
    /\ UNCHANGED <<vars, link, owner, parties, inbox>>

\* A device that has been given the token connects with it, as the daemon
\* does in the second half of _request_relay_fallback.
request_relay_fallback(d, s) ==
    /\ d \in holders[s]
    /\ connect_session(d, s, s)

\* _on_relay_fallback: the relay.fallback event names the session and no
\* token, and the daemon connects with an empty one.  (The handler is given
\* to DaemonWebSocketClient only, whose httpx client opens no WebSocket; the
\* model lets it be called all the same.)
on_relay_fallback(d, s) ==
    /\ parties[s] # {}
    /\ link[d] # NoConn
    /\ connect_session(d, s, NoToken)

-----------------------------------------------------------------------------
(* The server's side of a connection. *)

handle(c, m) ==
    \/ m.type = "connect" /\ handle_connect(c, m.device, m.session, m.token)
    \/ m.type = "disconnect" /\ handle_disconnect(c)
    \/ m.type = "heartbeat" /\ handle_heartbeat(c)

\* Mutant: _handle_message returns before it dispatches.
handle_message_Skipped(c) ==
    /\ inbox[c] # << >> /\ c \in open
    /\ inbox' = [inbox EXCEPT ![c] = Tail(@)]
    /\ UNCHANGED <<vars, link, owner, sessionVars>>

\* data_received and _handle_message.
handle_message(c) ==
    /\ inbox[c] # << >>
    /\ handle(c, Head(inbox[c]))
    /\ inbox' = [inbox EXCEPT ![c] = Tail(@)]
    /\ UNCHANGED <<link, owner, sessionVars>>

\* The server loses a connection; what was still in transit is dropped.
lose(c) ==
    /\ connection_lost(c)
    /\ owner' = [owner EXCEPT ![c] = NoDevice]
    /\ inbox' = [inbox EXCEPT ![c] = << >>]
    /\ UNCHANGED <<link, sessionVars>>

age(d) == HeartbeatAges(d) /\ UNCHANGED pathVars

expire == remove_expired_tokens /\ UNCHANGED pathVars

\* POST /relay/{session_id}/heartbeat: it needs a session of the device, and
\* no connection.
rest_heartbeat(d) ==
    /\ \E s \in Sessions : d \in parties[s]
    /\ update_heartbeat(d)
    /\ UNCHANGED pathVars

\* The application's shutdown awaits stop().
shut_down == (stop \/ stop_finished) /\ UNCHANGED pathVars

\* The backend restarts: the server's memory is gone, the clients' is not.
restart ==
    /\ crash \/ start
    /\ owner' = [c \in Conns |-> NoDevice]
    /\ inbox' = [c \in Conns |-> << >>]
    /\ UNCHANGED <<link, sessionVars>>

DaemonStep(d) ==
    \/ \E c \in Conns : open_connection(d, c)
    \/ read_loop_ends(d)
    \/ disconnect_session(d)
    \/ heartbeat(d)
    \/ \E s \in Sessions : request_relay_fallback(d, s) \/ on_relay_fallback(d, s)

RestStep(d) ==
    \/ \E e \in Devices, s \in Sessions : request_relay_session(d, e, s) \/ auto_create_relay_fallback(d, e, s)
    \/ \E s \in Sessions : connect_relay_session(d, s) \/ get_relay_session(d, s)
    \/ rest_heartbeat(d)

PathNext ==
    \/ \E d \in Devices : DaemonStep(d) \/ RestStep(d) \/ age(d)
    \/ \E c \in Conns : handle_message(c) \/ lose(c)
    \/ expire
    \/ shut_down
    \/ restart

PathSpec == PathInit /\ [][PathNext]_allVars

\* TCP delivers on an open connection, the client notices a connection the
\* server has lost and reconnects with a bounded back-off, the server is
\* restarted, and the loops of the server run.
PathFairness ==
    /\ \A c \in Conns : WF_allVars(handle_message(c))
    /\ \A d \in Devices :
         /\ WF_allVars(link[d] \notin open /\ read_loop_ends(d))
         /\ WF_allVars(\E c \in Conns : open_connection(d, c))
         /\ WF_allVars(age(d))
    /\ WF_allVars(expire)
    /\ WF_allVars(phase = "down" /\ restart)

FairPathSpec == PathSpec /\ PathFairness

-----------------------------------------------------------------------------
(* Properties. *)

\* Relayed data is written to a live socket of the device it is addressed
\* to: a registered connection is open, still answers for the device it is
\* registered under, and was opened by that device's daemon.  _handle_data
\* (relay_server.py:139-145) relies on it without checking; it needs
\* connection_lost, _handle_disconnect, stop and the order of assignments in
\* _handle_connect to agree, and the client to claim one id only.
RegisteredIsLive ==
    \A d \in Devices : connections[d] # NoConn =>
        /\ connections[d] \in open
        /\ owner[connections[d]] = d
        /\ device[connections[d]] = d

\* The relay serves authenticated sessions (relay_server.py:190-194): a
\* device is reachable only if some answer of the server has given it the
\* token of a session.  Nothing a crash, a reconnect, a rejected CONNECT
\* before it or a late message does registers any other.
OnlyHoldersReachable ==
    \A d \in Devices : connections[d] # NoConn => \E s \in Sessions : d \in holders[s]

\* CONNECT with its token is in transit on the connection of d.
Requested(d, c, s) ==
    /\ link[d] = c /\ c \in open
    /\ \E i \in 1..Len(inbox[c]) :
         inbox[c][i] = [type |-> "connect", device |-> d, session |-> s, token |-> s]
    /\ s \in validTokens

\* A daemon that asks for its session with the right token becomes reachable
\* on that connection, unless one of the ends loses the connection first:
\* no message before the CONNECT and no sweep makes the server ignore it.
RequestedIsServed ==
    \A d \in Devices, c \in Conns, s \in Sessions :
        Requested(d, c, s) ~> (connections[d] = c \/ link[d] # c \/ c \notin open)

\* docs/user-guide.md:778, "Traffic is relayed through the server until
\* direct connectivity can be re-established": a device whose connection is
\* up at both ends stays registered for as long as its heartbeats arrive, its
\* daemon sends no disconnect and the server runs.
StaysReachable ==
    [][\A d \in Devices, c \in Conns :
         (connections[d] = c /\ link[d] = c /\ c \in open')
            => \/ connections'[d] # NoConn
               \/ handle_disconnect(c)
               \/ heartbeats[d] = "stale"]_allVars
=============================================================================
