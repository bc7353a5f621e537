------------------------------ MODULE EventBus ------------------------------
(***************************************************************************)
(* The way of an event from the backend to the daemons: the event bus      *)
(* (src/backend/app/services/event_bus.py) over Redis, the bridge in       *)
(* app/main.py, the table of WebSocket connections (ws_manager.py), the    *)
(* endpoint a daemon connects to (api/v1/ws.py), the client in the daemon  *)
(* (ws_client.py) and the hole puncher that acts on the event              *)
(* (HolePuncher).                                                          *)
(*                                                                         *)
(* Redis keeps nothing for a subscriber that is not there.  A broadcast    *)
(* holds the lock of the table over all its sends, so a connection can     *)
(* enter or leave the table only between two broadcasts; the other         *)
(* sections under the lock await nothing and are one step each.            *)
(*                                                                         *)
(* Abstractions.  Events and connections are numbered in the order they    *)
(* are published and opened.  Punches are the nat.punch_requested events;  *)
(* a daemon ignores the others, for config.changed is never published      *)
(* (_publish_config_change imports a name app.main does not have, and      *)
(* nat._publish_config_changed reads its configuration like a dictionary). *)
(* A send to a connection that is lost fails.                              *)
(***************************************************************************)
EXTENDS HolePuncher, Sequences

CONSTANTS
    Admins,       \* browsers
    NoClient,     \* no client yet
    MaxConns,     \* bound on the WebSocket connections opened
    MaxEvents,    \* bound on the events published
    MaxFaults,    \* bound on losses of Redis, of connections and of daemons
    RedisUrl      \* redis_url is configured

ASSUME EventsAssumption ==
    /\ MaxEvents \in Nat /\ Punches \subseteq 1..MaxEvents
    /\ MaxConns \in Nat /\ MaxFaults \in Nat /\ RedisUrl \in BOOLEAN
    /\ Admins \cap Daemons = {} /\ NoClient \notin Admins \cup Daemons

Conns == 1..MaxConns
NoConn == 0
Clients == Daemons \cup Admins

VARIABLES
    redis,       \* the Redis server can be reached
    client,      \* EventBus._redis is set
    listener,    \* the listener task
    channel,     \* events on their way from Redis to the listener
    published,   \* events published so far
    bridging,    \* the broadcast that holds the lock: event, connections left, stale ones
    owner,       \* the client at the other end of a connection
    phase,       \* where the endpoint's handler of a connection is
    alive,       \* the connections that are up
    connections, \* WebSocketConnectionManager._connections
    daemonConn,  \* WebSocketConnectionManager._daemon_connections
    ws,          \* the connection a client listens on
    connected,   \* the client has used its only connect()
    received,    \* events that reached a connection
    overtaken,   \* history: daemons whose older connection registered last
    faults       \* faults so far, for the bound

busVars == <<redis, client, listener, channel, published>>
tableVars == <<connections, daemonConn, phase, overtaken>>
linkVars == <<owner, alive, ws, connected>>
vars == <<busVars, bridging, tableVars, linkVars, received, faults, punchVars>>

None == [event |-> 0, left |-> {}, stale |-> {}]

TypeOK ==
    /\ PunchTypeOK
    /\ redis \in BOOLEAN /\ client \in BOOLEAN
    /\ listener \in {"subscribing", "listening", "retrying", "ended"}
    /\ channel \in Seq(1..MaxEvents) /\ published \in 0..MaxEvents
    /\ bridging \in [event : 0..MaxEvents, left : SUBSET Conns, stale : SUBSET Conns]
    /\ owner \in [Conns -> Clients \cup {NoClient}]
    /\ phase \in [Conns -> {"free", "accepted", "receiving", "done"}]
    /\ alive \subseteq Conns /\ connections \subseteq Conns
    /\ daemonConn \in [Daemons -> Conns \cup {NoConn}]
    /\ ws \in [Clients -> Conns \cup {NoConn}]
    /\ connected \subseteq Clients /\ overtaken \subseteq Daemons
    /\ received \in [Conns -> Seq(1..MaxEvents)]
    /\ faults \in 0..MaxFaults

\* EventBus.start has run: it connects if it can, and leaves the rest to
\* the listener task.
Init ==
    /\ PunchInit
    /\ redis \in BOOLEAN
    /\ client = (RedisUrl /\ redis)
    /\ listener = (IF client THEN "subscribing" ELSE "retrying")
    /\ channel = << >> /\ published = 0
    /\ bridging = None
    /\ owner = [c \in Conns |-> NoClient]
    /\ phase = [c \in Conns |-> "free"]
    /\ alive = {} /\ connections = {}
    /\ daemonConn = [d \in Daemons |-> NoConn]
    /\ ws = [k \in Clients |-> NoConn]
    /\ connected = {} /\ overtaken = {}
    /\ received = [c \in Conns |-> << >>]
    /\ faults = 0

-----------------------------------------------------------------------------
(* EventBus. *)

\* publish: a failure is logged and the event is gone; without a subscriber
\* at Redis it is gone as well.  Nothing ever subscribes in memory.
publish ==
    /\ published < MaxEvents
    /\ published' = published + 1
    /\ channel' = IF client /\ redis /\ listener = "listening"
                    THEN Append(channel, published + 1) ELSE channel
    /\ UNCHANGED <<redis, client, listener, bridging, tableVars, linkVars, received, faults, punchVars>>

\* listen: the pattern is subscribed; without Redis that raises and the task
\* ends.
subscribe ==
    /\ listener = "subscribing"
    /\ listener' = IF redis THEN "listening" ELSE "ended"
    /\ UNCHANGED <<redis, client, channel, published, bridging, tableVars, linkVars,
                   received, faults, punchVars>>

\* The other branch of listen tries every 30 seconds.
reconnect ==
    /\ listener = "retrying" /\ RedisUrl /\ redis
    /\ client' = TRUE
    /\ listener' = "listening"
    /\ UNCHANGED <<redis, channel, published, bridging, tableVars, linkVars,
                   received, faults, punchVars>>

\* Mutant: the listener goes back to the loop that reconnects.
redis_lost_Resumes ==
    /\ redis /\ faults < MaxFaults
    /\ redis' = FALSE
    /\ faults' = faults + 1
    /\ channel' = << >>
    /\ listener' = IF listener = "listening" THEN "retrying" ELSE listener
    /\ UNCHANGED <<client, published, bridging, tableVars, linkVars, received, punchVars>>

\* Redis goes away: the iteration over its messages raises and the task ends.
\* Nothing starts it again.  A redis-py that retries on its own (from version
\* 6; requirements.txt leaves the version open) may instead go on listening.
redis_lost ==
    /\ redis /\ faults < MaxFaults
    /\ redis' = FALSE
    /\ faults' = faults + 1
    /\ channel' = << >>
    /\ listener' = IF listener = "listening" THEN "ended" ELSE listener
    /\ UNCHANGED <<client, published, bridging, tableVars, linkVars, received, punchVars>>

redis_back ==
    /\ ~ redis
    /\ redis' = TRUE
    /\ UNCHANGED <<client, listener, channel, published, bridging, tableVars, linkVars,
                   received, faults, punchVars>>

-----------------------------------------------------------------------------
(* bridge_event and broadcast. *)

Unlocked == bridging = None

\* Mutant: the browsers are left out.
broadcast_ToDaemons ==
    /\ Unlocked /\ channel # << >>
    /\ bridging' = [event |-> Head(channel), stale |-> {},
                    left |-> {daemonConn[d] : d \in Daemons} \ {NoConn}]
    /\ channel' = Tail(channel)
    /\ UNCHANGED <<redis, client, listener, published, tableVars, linkVars, received, faults, punchVars>>

\* The listener takes the next event and the lock.
broadcast ==
    /\ Unlocked /\ channel # << >>
    /\ bridging' = [event |-> Head(channel), left |-> connections, stale |-> {}]
    /\ channel' = Tail(channel)
    /\ UNCHANGED <<redis, client, listener, published, tableVars, linkVars, received, faults, punchVars>>

\* send_text: on a connection that is up the event reaches the client, and a
\* daemon starts to punch; otherwise the connection is stale.
send_text(c) ==
    /\ c \in bridging.left
    /\ IF c \in alive
         THEN /\ received' = [received EXCEPT ![c] = Append(@, bridging.event)]
              /\ bridging' = [bridging EXCEPT !.left = @ \ {c}]
              /\ IF bridging.event \in Punches /\ owner[c] \in Daemons /\ ws[owner[c]] = c
                   THEN on_nat_punch_requested(owner[c], bridging.event)
                   ELSE UNCHANGED punchVars
         ELSE /\ bridging' = [bridging EXCEPT !.left = @ \ {c}, !.stale = @ \cup {c}]
              /\ UNCHANGED <<received, punchVars>>
    /\ UNCHANGED <<busVars, tableVars, linkVars, faults>>

\* Mutant: the entry of the daemon is dropped, whatever connection it names.
forget_ByDevice(C) ==
    /\ connections' = connections \ C
    /\ daemonConn' = [d \in Daemons |-> IF \E c \in C : owner[c] = d THEN NoConn ELSE daemonConn[d]]

\* A connection leaves both tables; another connection of the same daemon
\* is not touched.
forget(C) ==
    /\ connections' = connections \ C
    /\ daemonConn' = [d \in Daemons |-> IF daemonConn[d] \in C THEN NoConn ELSE daemonConn[d]]

\* The stale connections are removed and the lock is released.
broadcast_ends ==
    /\ ~ Unlocked /\ bridging.left = {}
    /\ forget(bridging.stale)
    /\ bridging' = None
    /\ UNCHANGED <<busVars, phase, overtaken, linkVars, received, faults, punchVars>>

-----------------------------------------------------------------------------
(* Connections. *)

\* WebSocketClient.connect, once in the life of a daemon; the endpoint
\* authenticates the token and accepts.
connect(k, c) ==
    /\ phase[c] = "free" /\ \A b \in 1..(c - 1) : phase[b] # "free"
    /\ k \notin connected
    /\ connected' = IF k \in Daemons THEN connected \cup {k} ELSE connected
    /\ k \in Admins => ws[k] = NoConn
    /\ phase' = [phase EXCEPT ![c] = "accepted"]
    /\ owner' = [owner EXCEPT ![c] = k]
    /\ ws' = [ws EXCEPT ![k] = c]
    /\ alive' = alive \cup {c}
    /\ UNCHANGED <<busVars, bridging, connections, daemonConn, overtaken, received, faults, punchVars>>

\* connect_daemon for a daemon, connect for a browser: under the lock.  The
\* endpoints of two connections of a daemon may come here in any order.
register(c) ==
    /\ phase[c] = "accepted" /\ Unlocked
    /\ phase' = [phase EXCEPT ![c] = "receiving"]
    /\ connections' = connections \cup {c}
    /\ IF owner[c] \in Daemons
         THEN /\ daemonConn' = [daemonConn EXCEPT ![owner[c]] = c]
              /\ overtaken' = IF daemonConn[owner[c]] > c THEN overtaken \cup {owner[c]} ELSE overtaken
         ELSE UNCHANGED <<daemonConn, overtaken>>
    /\ UNCHANGED <<busVars, bridging, linkVars, received, faults, punchVars>>

\* A connection is lost; the client stops listening on it for good.
connection_lost(c) ==
    /\ c \in alive /\ faults < MaxFaults
    /\ faults' = faults + 1
    /\ alive' = alive \ {c}
    /\ ws' = [k \in Clients |-> IF ws[k] = c THEN NoConn ELSE ws[k]]
    /\ UNCHANGED <<busVars, bridging, tableVars, owner, connected, received, punchVars>>

\* receive_text raises and the handler calls disconnect.
disconnect(c) ==
    /\ phase[c] = "receiving" /\ c \notin alive /\ Unlocked
    /\ forget({c})
    /\ phase' = [phase EXCEPT ![c] = "done"]
    /\ UNCHANGED <<busVars, bridging, overtaken, linkVars, received, faults, punchVars>>

\* The daemon dies and is started again; its connection goes down with it.
daemon_restart(d) ==
    /\ d \in connected /\ faults < MaxFaults
    /\ faults' = faults + 1
    /\ connected' = connected \ {d}
    /\ alive' = alive \ {ws[d]}
    /\ ws' = [ws EXCEPT ![d] = NoConn]
    /\ start_puncher(d)
    /\ UNCHANGED <<busVars, bridging, tableVars, owner, received>>

Deliver == broadcast \/ broadcast_ends \/ \E c \in Conns : send_text(c)

Punch == /\ \E d \in Daemons : \/ \E p \in Punches : PunchStep(d, p)
                               \/ \E addr \in Remote \cup {Loopback} : datagram_received(d, addr)
         /\ UNCHANGED <<busVars, bridging, tableVars, linkVars, received, faults>>

Next ==
    \/ publish \/ subscribe \/ reconnect \/ redis_lost \/ redis_back
    \/ Deliver
    \/ \E c \in Conns : register(c) \/ connection_lost(c) \/ disconnect(c)
                          \/ \E k \in Clients : connect(k, c)
    \/ \E d \in Daemons : daemon_restart(d)
    \/ Punch

Spec == Init /\ [][Next]_vars

\* The listener task runs, a send ends (the server closes a connection whose
\* client does not answer its pings), the handlers run, and a punch goes on.
Fairness ==
    /\ WF_vars(Deliver)
    /\ \A c \in Conns : WF_vars(register(c)) /\ WF_vars(disconnect(c))
    /\ \A d \in Daemons, p \in Punches :
         WF_vars(PunchStep(d, p) /\ UNCHANGED <<busVars, bridging, tableVars, linkVars, received, faults>>)

FairSpec == Spec /\ Fairness

-----------------------------------------------------------------------------
(* Properties. *)

\* A connected daemon can be addressed: losing its old connection does not
\* take the new one out of the table, whichever end notices first, unless
\* the old connection's handler was slower and registered after the new one.
NewestIsRegistered ==
    \A d \in Daemons :
        ws[d] # NoConn /\ phase[ws[d]] = "receiving" /\ ws[d] \in connections
            => daemonConn[d] = ws[d] \/ d \in overtaken

\* What a client sees has no holes and keeps the order: from its first event
\* on, a connection receives every event that reaches the bridge, until it
\* is lost.  An outage of Redis, which ends the listener, cuts the end off.
NoGap ==
    \A c \in Conns : \A i \in 1..(Len(received[c]) - 1) :
        received[c][i + 1] = received[c][i] + 1

\* An event that Redis has taken for the listener reaches every registered
\* browser, and a punch request every registered daemon, or the connection or
\* Redis is lost: stale connections and handlers waiting for the lock do not
\* keep it (ws_manager.py:63-86).  Nothing is asked of the other events that
\* the broadcast sends to daemons too.
IsDelivered ==
    \A c \in Conns, e \in 1..MaxEvents :
        (/\ c \in connections
         /\ owner[c] \in Admins \/ e \in Punches
         /\ \E i \in 1..Len(channel) : channel[i] = e)
            ~> (\E i \in 1..Len(received[c]) : received[c][i] = e) \/ c \notin alive \/ ~ redis
=============================================================================
