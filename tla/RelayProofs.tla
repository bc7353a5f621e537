----------------------------- MODULE RelayProofs -----------------------------
(***************************************************************************)
(* Proofs about the relay for any number of devices, sessions and          *)
(* connections: the registry of the server on its own, and the whole path  *)
(* from the daemons to it, for any number of messages in transit.          *)
(***************************************************************************)
EXTENDS RelayPath, TLAPS

\* A server that is down has no connection and no entry.
DownInv == phase = "down" => open = {} /\ \A d \in Devices : connections[d] = NoConn

\* The inductive invariant of the server, for clients that send anything.
RegistryInv == TypeOK /\ ClaimedIsLive /\ SweepSeesRegistered /\ DownInv

\* What unregister_connection leaves: entries survive unchanged outside D
\* and are gone inside it, in both tables.
LEMMA UnregisterEffect ==
    ASSUME TypeOK, NEW D \in SUBSET Devices, unregister_connection(D)
    PROVE  /\ connections' \in [Devices -> Conns \cup {NoConn}]
           /\ heartbeats' \in [Devices -> {"none", "fresh", "stale"}]
           /\ validTokens' \subseteq Sessions
           /\ \A d \in Devices : connections'[d] # NoConn =>
                 d \notin D /\ connections'[d] = connections[d] /\ heartbeats'[d] = heartbeats[d]
BY DEF TypeOK, unregister_connection

\* A connection only ever claims a device id or none.
LEMMA ClaimedType ==
    ASSUME TypeOK, NEW c \in Conns
    PROVE  Claimed(c) \in SUBSET Devices
BY DEF TypeOK, Claimed

\* The tables of a fresh RelayServer satisfy the invariant.
LEMMA InitRegistry == Init => RegistryInv
BY ConstantsDistinct DEF Init, RegistryInv, TypeOK, ClaimedIsLive, SweepSeesRegistered, DownInv

\* Every callback, every call of the control plane, a shutdown and a crash
\* keep the registry consistent.
LEMMA NextRegistry == RegistryInv /\ [Next]_vars => RegistryInv'
<1> SUFFICES ASSUME RegistryInv, [Next]_vars PROVE RegistryInv'
  OBVIOUS
<1> USE DEF RegistryInv
<1>1. ASSUME NEW c \in Conns, connection_made(c) PROVE RegistryInv'
  BY <1>1, ConstantsDistinct
     DEF connection_made, TypeOK, ClaimedIsLive, SweepSeesRegistered, DownInv
<1>2. ASSUME NEW c \in Conns, NEW d \in Devices, NEW s \in Sessions \cup {NoSession},
             NEW token \in Sessions \cup {NoToken}, handle_connect(c, d, s, token)
      PROVE  RegistryInv'
  <2>1. CASE validate_session(token, s)
    <3>1. TypeOK'
      BY <1>2, <2>1 DEF handle_connect, register_connection, TypeOK
    <3>2. ClaimedIsLive'
      BY <1>2, <2>1 DEF handle_connect, register_connection, TypeOK, ClaimedIsLive
    <3>3. SweepSeesRegistered' /\ DownInv'
      BY <1>2, <2>1 DEF handle_connect, register_connection, TypeOK, SweepSeesRegistered, DownInv
    <3> QED BY <3>1, <3>2, <3>3
  <2>2. CASE ~ validate_session(token, s)
    BY <1>2, <2>2 DEF handle_connect, TypeOK, ClaimedIsLive, SweepSeesRegistered, DownInv
  <2> QED BY <2>1, <2>2
<1>3. ASSUME NEW c \in Conns, handle_disconnect(c) \/ connection_lost(c) PROVE RegistryInv'
  <2>1. unregister_connection(Claimed(c)) /\ Claimed(c) \in SUBSET Devices
    BY <1>3, ClaimedType DEF handle_disconnect, connection_lost
  <2>2. TypeOK'
    BY <1>3, <2>1, UnregisterEffect DEF handle_disconnect, connection_lost, TypeOK
  <2>3. ClaimedIsLive'
    <3> SUFFICES ASSUME NEW e \in Devices, NEW b \in Conns, connections'[e] = b, device'[b] = e
                 PROVE  b \in open'
      BY DEF ClaimedIsLive
    <3>1. e \notin Claimed(c) /\ connections[e] = b
      BY <2>1, UnregisterEffect, ConstantsDistinct
    <3>2. device[b] = e /\ b # c
      BY <1>3, <3>1, ConstantsDistinct DEF TypeOK, Claimed, handle_disconnect, connection_lost
    <3> QED BY <1>3, <3>1, <3>2 DEF handle_disconnect, connection_lost, ClaimedIsLive
  <2>4. SweepSeesRegistered'
    BY <2>1, UnregisterEffect DEF SweepSeesRegistered
  <2>5. DownInv'
    BY <1>3 DEF DownInv, handle_disconnect, connection_lost
  <2> QED BY <2>2, <2>3, <2>4, <2>5
<1>4. ASSUME NEW c \in Conns, handle_heartbeat(c) PROVE RegistryInv'
  BY <1>4 DEF handle_heartbeat, TypeOK, ClaimedIsLive, SweepSeesRegistered, DownInv
<1>5. ASSUME NEW s \in Sessions, add_valid_token(s) PROVE RegistryInv'
  BY <1>5 DEF add_valid_token, TypeOK, ClaimedIsLive, SweepSeesRegistered, DownInv
<1>6. ASSUME NEW d \in Devices, update_heartbeat(d) \/ HeartbeatAges(d) PROVE RegistryInv'
  BY <1>6 DEF update_heartbeat, HeartbeatAges, TypeOK, ClaimedIsLive, SweepSeesRegistered, DownInv
<1>7. CASE remove_expired_tokens
  <2>1. unregister_connection(Stale) /\ Stale \in SUBSET Devices
    BY <1>7 DEF remove_expired_tokens, Stale
  <2>2. TypeOK'
    BY <1>7, <2>1, UnregisterEffect DEF remove_expired_tokens, TypeOK
  <2>3. ClaimedIsLive' /\ SweepSeesRegistered' /\ DownInv'
    BY <1>7, <2>1, UnregisterEffect, ConstantsDistinct
       DEF remove_expired_tokens, ClaimedIsLive, SweepSeesRegistered, DownInv
  <2> QED BY <2>2, <2>3
<1>8. CASE stop \/ start
  BY <1>8 DEF stop, start, TypeOK, ClaimedIsLive, SweepSeesRegistered, DownInv
<1>9. CASE stop_finished
  BY <1>9, ConstantsDistinct
     DEF stop_finished, TypeOK, ClaimedIsLive, SweepSeesRegistered, DownInv
<1>10. CASE crash
  BY <1>10, ConstantsDistinct DEF crash, TypeOK, ClaimedIsLive, SweepSeesRegistered, DownInv
<1>11. CASE UNCHANGED vars
  BY <1>11 DEF vars, TypeOK, ClaimedIsLive, SweepSeesRegistered, DownInv
<1> QED
  BY <1>1, <1>2, <1>3, <1>4, <1>5, <1>6, <1>7, <1>8, <1>9, <1>10, <1>11
     DEF Next, ConnStep, ServerStep

\* The tables of the relay server always have their types.
THEOREM TypeCorrect == Spec => []TypeOK
<1>1. RegistryInv => TypeOK BY DEF RegistryInv
<1> QED BY InitRegistry, NextRegistry, <1>1, PTL DEF Spec

\* Whatever device ids, session ids and tokens clients send, a registered
\* connection that still answers for its device is open
\* (relay_server.py:96-107, 149-157, 178-186).
THEOREM ClaimedAlwaysLive == Spec => []ClaimedIsLive
<1>1. RegistryInv => ClaimedIsLive BY DEF RegistryInv
<1> QED BY InitRegistry, NextRegistry, <1>1, PTL DEF Spec

\* Whatever clients send, the sweep for silent devices can see every
\* registered device (relay_server.py:273-285).
THEOREM SweepAlwaysSees == Spec => []SweepSeesRegistered
<1>1. RegistryInv => SweepSeesRegistered BY DEF RegistryInv
<1> QED BY InitRegistry, NextRegistry, <1>1, PTL DEF Spec

-----------------------------------------------------------------------------
(* The path from the daemons to the server. *)

\* The connection a daemon holds is its own, while the server has it.
LinkInv == \A d \in Devices : link[d] \in open => owner[link[d]] = d

\* A CONNECT in transit carries the id of the daemon that opened the
\* connection, and no token but one that daemon was given.
TokenInv ==
    \A c \in Conns : \A i \in 1..Len(inbox[c]) : inbox[c][i].type = "connect" =>
        /\ inbox[c][i].device = owner[c]
        /\ inbox[c][i].token # NoToken => owner[c] \in holders[inbox[c][i].token]

PathInv == PathTypeOK /\ LinkInv /\ TokenInv /\ RegisteredIsLive /\ OnlyHoldersReachable

\* A message of the client is a message.
LEMMA MessageType ==
    /\ \A d \in Devices, s \in Sessions, token \in Sessions \cup {NoToken} :
         [type |-> "connect", device |-> d, session |-> s, token |-> token] \in Message
    /\ [type |-> "disconnect"] \in Message /\ [type |-> "heartbeat"] \in Message
    /\ \A m \in Message : m.type = "connect" =>
         m.device \in Devices /\ m.session \in Sessions /\ m.token \in Sessions \cup {NoToken}
BY DEF Message

\* A message that is sent goes to the end of the daemon's own connection, or
\* nowhere.
LEMMA SendEffect ==
    ASSUME PathTypeOK, NEW d \in Devices, NEW m \in Message, send_message(d, m)
    PROVE  /\ inbox' \in [Conns -> Seq(Message)]
           /\ \A c \in Conns : Len(inbox'[c]) <= MaxInFlight
           /\ \A c \in Conns : \A i \in 1..Len(inbox'[c]) :
                \/ i \in 1..Len(inbox[c]) /\ inbox'[c][i] = inbox[c][i]
                \/ c = link[d] /\ c \in open /\ inbox'[c][i] = m
<1>1. CASE link[d] \in open
  <2>1. link[d] \in Conns /\ Len(inbox[link[d]]) < MaxInFlight /\ inbox[link[d]] \in Seq(Message)
    BY <1>1 DEF send_message, PathTypeOK, TypeOK
  <2>2. inbox' = [inbox EXCEPT ![link[d]] = Append(inbox[link[d]], m)]
    BY <1>1 DEF send_message
  <2>3. ASSUME NEW c \in Conns
        PROVE  /\ inbox'[c] \in Seq(Message) /\ Len(inbox'[c]) <= MaxInFlight
               /\ \A i \in 1..Len(inbox'[c]) :
                    \/ i \in 1..Len(inbox[c]) /\ inbox'[c][i] = inbox[c][i]
                    \/ c = link[d] /\ c \in open /\ inbox'[c][i] = m
    <3>1. CASE c # link[d]
      BY <2>2, <3>1 DEF PathTypeOK
    <3>2. CASE c = link[d]
      <4>1. inbox'[c] = Append(inbox[c], m) /\ inbox[c] \in Seq(Message)
        BY <2>1, <2>2, <3>2 DEF PathTypeOK
      <4>2. Len(inbox'[c]) = Len(inbox[c]) + 1 /\ Len(inbox[c]) \in Nat /\ MaxInFlight \in Nat
        BY <4>1, PathAssumption
      <4> QED BY <1>1, <2>1, <3>2, <4>1, <4>2
    <3> QED BY <3>1, <3>2
  <2> QED BY <2>2, <2>3 DEF PathTypeOK
<1>2. CASE link[d] \notin open
  BY <1>2 DEF send_message, PathTypeOK
<1> QED BY <1>1, <1>2

\* What stays in transit when the first message is taken.
LEMMA TakeEffect ==
    ASSUME PathTypeOK, NEW c \in Conns, inbox[c] # << >>, inbox' = [inbox EXCEPT ![c] = Tail(@)]
    PROVE  /\ Head(inbox[c]) \in Message
           /\ 1 \in 1..Len(inbox[c]) /\ Head(inbox[c]) = inbox[c][1]
           /\ inbox' \in [Conns -> Seq(Message)]
           /\ \A b \in Conns : Len(inbox'[b]) <= MaxInFlight
           /\ \A b \in Conns : \A i \in 1..Len(inbox'[b]) :
                \E j \in 1..Len(inbox[b]) : inbox'[b][i] = inbox[b][j]
<1>1. inbox[c] \in Seq(Message) /\ Len(inbox[c]) \in Nat /\ Len(inbox[c]) # 0 /\ MaxInFlight \in Nat
  BY PathAssumption DEF PathTypeOK
<1>2. Tail(inbox[c]) \in Seq(Message) /\ Len(Tail(inbox[c])) = Len(inbox[c]) - 1
  BY <1>1
<1>3. \A i \in 1..Len(Tail(inbox[c])) : i + 1 \in 1..Len(inbox[c]) /\ Tail(inbox[c])[i] = inbox[c][i + 1]
  BY <1>1, <1>2
<1>4. inbox'[c] = Tail(inbox[c]) /\ \A b \in Conns \ {c} : inbox'[b] = inbox[b]
  BY DEF PathTypeOK
<1>5. Head(inbox[c]) \in Message /\ 1 \in 1..Len(inbox[c]) /\ Head(inbox[c]) = inbox[c][1]
  BY <1>1
<1>6. inbox' \in [Conns -> Seq(Message)]
  BY <1>2 DEF PathTypeOK
<1>7. Len(inbox'[c]) <= MaxInFlight
  BY <1>1, <1>2, <1>4 DEF PathTypeOK
<1>8. ASSUME NEW b \in Conns
      PROVE  /\ Len(inbox'[b]) <= MaxInFlight
             /\ \A i \in 1..Len(inbox'[b]) : \E j \in 1..Len(inbox[b]) : inbox'[b][i] = inbox[b][j]
  <2>1. CASE b = c
    BY <1>3, <1>4, <1>7, <2>1
  <2>2. CASE b # c
    BY <1>4, <2>2 DEF PathTypeOK
  <2> QED BY <2>1, <2>2
<1> QED BY <1>5, <1>6, <1>8

\* Every step of the path is a step of the server or leaves it alone.
LEMMA PathStepOfServer == PathTypeOK /\ [PathNext]_allVars => [Next]_vars
<1> SUFFICES ASSUME PathTypeOK, [PathNext]_allVars PROVE [Next]_vars
  OBVIOUS
<1>1. ASSUME NEW d \in Devices, DaemonStep(d) PROVE [Next]_vars
  <2>1. ASSUME NEW c \in Conns, open_connection(d, c) PROVE [Next]_vars
    BY <2>1 DEF open_connection, Next, ConnStep
  <2>2. ASSUME NEW s \in Sessions, request_relay_fallback(d, s) \/ on_relay_fallback(d, s)
        PROVE  UNCHANGED vars
    BY <2>2 DEF request_relay_fallback, on_relay_fallback, connect_session
  <2>3. CASE read_loop_ends(d) \/ heartbeat(d) \/ disconnect_session(d)
    BY <2>3 DEF read_loop_ends, heartbeat, disconnect_session
  <2> QED BY <1>1, <2>1, <2>2, <2>3 DEF DaemonStep
<1>2. ASSUME NEW d \in Devices, RestStep(d) \/ age(d) PROVE [Next]_vars
  <2>1. ASSUME NEW e \in Devices, NEW s \in Sessions,
               request_relay_session(d, e, s) \/ auto_create_relay_fallback(d, e, s)
        PROVE  [Next]_vars
    BY <2>1 DEF request_relay_session, auto_create_relay_fallback, create_session, Next, ServerStep
  <2>2. ASSUME NEW s \in Sessions, connect_relay_session(d, s) \/ get_relay_session(d, s)
        PROVE  UNCHANGED vars
    BY <2>2 DEF connect_relay_session, get_relay_session
  <2>3. CASE rest_heartbeat(d) \/ age(d)
    BY <2>3 DEF rest_heartbeat, age, Next, ServerStep
  <2> QED BY <1>2, <2>1, <2>2, <2>3 DEF RestStep
<1>3. ASSUME NEW c \in Conns, handle_message(c) PROVE [Next]_vars
  <2>1. Head(inbox[c]) \in Message /\ handle(c, Head(inbox[c]))
    BY <1>3, TakeEffect DEF handle_message
  <2>2. ConnStep(c)
    BY <2>1, MessageType DEF handle, ConnStep
  <2> QED BY <2>2 DEF Next
<1>4. ASSUME NEW c \in Conns, lose(c) PROVE [Next]_vars
  BY <1>4 DEF lose, Next, ConnStep
<1>5. CASE expire \/ shut_down \/ restart
  BY <1>5 DEF expire, shut_down, restart, Next, ServerStep
<1>6. CASE UNCHANGED allVars
  BY <1>6 DEF allVars
<1> QED BY <1>1, <1>2, <1>3, <1>4, <1>5, <1>6 DEF PathNext

\* At first no daemon is connected and nothing is in transit.
LEMMA InitPath == PathInit => PathInv
<1> SUFFICES ASSUME PathInit PROVE PathInv
  OBVIOUS
<1>1. TypeOK
  BY InitRegistry DEF PathInit, RegistryInv
<1>2. << >> \in Seq(Message) /\ Len(<< >>) = 0 /\ 0 <= MaxInFlight
  BY PathAssumption
<1>3. PathTypeOK
  BY <1>1, <1>2 DEF PathInit, PathTypeOK
<1>4. TokenInv
  <2> SUFFICES ASSUME NEW c \in Conns, NEW i \in 1..Len(inbox[c]) PROVE FALSE
    BY DEF TokenInv
  <2> QED BY <1>2 DEF PathInit
<1> QED
  BY <1>3, <1>4 DEF PathInit, Init, PathInv, LinkInv, RegisteredIsLive, OnlyHoldersReachable

\* What no step but a CONNECT does: register a device, or change the id a
\* registered connection answers for.
LEMMA NothingElseRegisters ==
    ASSUME TypeOK, NEW c \in Conns,
           \/ connection_made(c)
           \/ handle_disconnect(c) \/ handle_heartbeat(c) \/ connection_lost(c)
           \/ ServerStep \/ UNCHANGED vars
    PROVE  \A d \in Devices : connections'[d] # NoConn => connections'[d] = connections[d]
<1>1. ASSUME NEW D \in SUBSET Devices, unregister_connection(D)
      PROVE  \A d \in Devices : connections'[d] # NoConn => connections'[d] = connections[d]
  BY <1>1, UnregisterEffect
<1>2. Claimed(c) \in SUBSET Devices /\ Stale \in SUBSET Devices
  BY ClaimedType DEF Stale
<1>3. CASE connection_made(c) \/ handle_disconnect(c) \/ handle_heartbeat(c) \/ connection_lost(c)
  BY <1>1, <1>2, <1>3 DEF connection_made, handle_disconnect, handle_heartbeat, connection_lost
<1>4. CASE ServerStep
  BY <1>1, <1>2, <1>4 DEF ServerStep, add_valid_token, update_heartbeat, HeartbeatAges,
     remove_expired_tokens, stop, stop_finished, crash, start
<1>5. CASE UNCHANGED vars
  BY <1>5 DEF vars
<1> QED BY <1>3, <1>4, <1>5

\* A step that only takes messages, tells devices tokens and unregisters.
LEMMA QuietStep ==
    ASSUME PathInv, TypeOK', UNCHANGED <<link, owner, parties>>,
           holders' \in [Sessions -> SUBSET Devices],
           \A s \in Sessions : holders[s] \subseteq holders'[s],
           \A s \in Sessions : parties[s] = {} => holders'[s] = {},
           open' = open,
           inbox' \in [Conns -> Seq(Message)],
           \A c \in Conns : Len(inbox'[c]) <= MaxInFlight,
           \A c \in Conns : \A i \in 1..Len(inbox'[c]) :
              \E j \in 1..Len(inbox[c]) : inbox'[c][i] = inbox[c][j],
           \A d \in Devices : connections'[d] # NoConn =>
              connections'[d] = connections[d] /\ device'[connections[d]] = device[connections[d]]
    PROVE  PathInv'
<1>1. PathTypeOK'
  BY DEF PathInv, PathTypeOK
<1>2. LinkInv'
  BY DEF PathInv, LinkInv
<1>3. TokenInv'
  <2> SUFFICES ASSUME NEW c \in Conns, NEW i \in 1..Len(inbox'[c]), inbox'[c][i].type = "connect"
               PROVE  /\ inbox'[c][i].device = owner[c]
                      /\ inbox'[c][i].token # NoToken => owner[c] \in holders'[inbox'[c][i].token]
    BY DEF TokenInv
  <2>1. PICK j \in 1..Len(inbox[c]) : inbox'[c][i] = inbox[c][j]
    OBVIOUS
  <2>2. inbox[c][j].token \in Sessions \cup {NoToken}
    <3>1. inbox[c] \in Seq(Message)
      BY DEF PathInv, PathTypeOK
    <3>2. inbox[c][j] \in Message
      BY <3>1
    <3> QED BY <2>1, <3>2, MessageType
  <2> QED BY <2>1, <2>2 DEF PathInv, TokenInv
<1>4. RegisteredIsLive' /\ OnlyHoldersReachable'
  BY DEF PathInv, RegisteredIsLive, OnlyHoldersReachable
<1> QED BY <1>1, <1>2, <1>3, <1>4 DEF PathInv

\* Every step keeps the daemons' connections their own, the tokens in
\* transit with the daemons they were given to, and the registry live.
LEMMA NextPath == RegistryInv /\ PathInv /\ [PathNext]_allVars => PathInv'
<1> SUFFICES ASSUME RegistryInv, PathInv, [PathNext]_allVars PROVE PathInv'
  OBVIOUS
<1>a. /\ [Next]_vars /\ TypeOK' /\ TypeOK /\ DownInv
      /\ PathTypeOK /\ LinkInv /\ TokenInv /\ RegisteredIsLive /\ OnlyHoldersReachable
  BY PathStepOfServer, NextRegistry DEF PathInv, RegistryInv
<1>b. << >> \in Seq(Message) /\ Len(<< >>) = 0 /\ 0 <= MaxInFlight
  BY PathAssumption
<1>c. ASSUME UNCHANGED inbox
      PROVE  /\ inbox' \in [Conns -> Seq(Message)]
             /\ \A c \in Conns : Len(inbox'[c]) <= MaxInFlight
             /\ \A c \in Conns : \A i \in 1..Len(inbox'[c]) :
                  \E j \in 1..Len(inbox[c]) : inbox'[c][i] = inbox[c][j]
  BY <1>a, <1>c DEF PathTypeOK
<1>d. /\ holders \in [Sessions -> SUBSET Devices]
      /\ \A d \in Devices : connections[d] # NoConn => connections[d] \in Conns
  BY <1>a DEF PathTypeOK, TypeOK
<1>1. ASSUME NEW d \in Devices, NEW c \in Conns, open_connection(d, c) PROVE PathInv'
  <2>1. /\ owner' = [owner EXCEPT ![c] = d] /\ link' = [link EXCEPT ![d] = c]
        /\ inbox' = [inbox EXCEPT ![c] = << >>] /\ UNCHANGED <<parties, holders, connections>>
        /\ \A e \in Devices : link[e] # c /\ connections[e] # c
        /\ open' = open \cup {c} /\ device' = [device EXCEPT ![c] = NoDevice]
    BY <1>1 DEF open_connection, connection_made, sessionVars
  <2>2. PathTypeOK'
    BY <1>a, <1>b, <2>1 DEF PathTypeOK
  <2>3. LinkInv'
    BY <1>a, <2>1 DEF LinkInv, PathTypeOK, TypeOK
  <2>4. TokenInv'
    <3> SUFFICES ASSUME NEW b \in Conns, NEW i \in 1..Len(inbox'[b]), inbox'[b][i].type = "connect"
                 PROVE  /\ inbox'[b][i].device = owner'[b]
                        /\ inbox'[b][i].token # NoToken => owner'[b] \in holders'[inbox'[b][i].token]
      BY DEF TokenInv
    <3>1. b # c
      BY <1>a, <1>b, <2>1 DEF PathTypeOK
    <3>2. inbox'[b] = inbox[b] /\ owner'[b] = owner[b]
      BY <1>a, <2>1, <3>1 DEF PathTypeOK
    <3> QED BY <1>a, <2>1, <3>2 DEF TokenInv
  <2>5. RegisteredIsLive' /\ OnlyHoldersReachable'
    BY <1>a, <2>1 DEF RegisteredIsLive, OnlyHoldersReachable, PathTypeOK, TypeOK
  <2> QED BY <2>2, <2>3, <2>4, <2>5 DEF PathInv
<1>2. ASSUME NEW d \in Devices, read_loop_ends(d) PROVE PathInv'
  <2>1. link' = [link EXCEPT ![d] = NoConn] /\ UNCHANGED <<vars, owner, parties, holders, inbox>>
    BY <1>2 DEF read_loop_ends, sessionVars
  <2>2. LinkInv'
    <3> SUFFICES ASSUME NEW e \in Devices, link'[e] \in open PROVE owner[link'[e]] = e
      BY <2>1 DEF LinkInv, vars
    <3>1. NoConn \notin open
      BY <1>a, ConstantsDistinct DEF TypeOK
    <3>2. e # d /\ link'[e] = link[e]
      BY <1>a, <2>1, <3>1 DEF PathTypeOK
    <3> QED BY <1>a, <3>2 DEF LinkInv
  <2>3. PathTypeOK' /\ TokenInv' /\ RegisteredIsLive' /\ OnlyHoldersReachable'
    BY <1>a, <2>1 DEF PathTypeOK, TokenInv, RegisteredIsLive, OnlyHoldersReachable, vars
  <2> QED BY <2>2, <2>3 DEF PathInv
<1>3. ASSUME NEW d \in Devices, NEW m \in Message, send_message(d, m),
             UNCHANGED <<vars, link, owner, sessionVars>>,
             m.type = "connect" => m.device = d /\ (m.token = NoToken \/ d \in holders[m.token])
      PROVE  PathInv'
  <2>1. UNCHANGED <<parties, holders>>
    BY <1>3 DEF sessionVars
  <2>2. PathTypeOK'
    BY <1>a, <1>3, <2>1, SendEffect DEF PathTypeOK
  <2>3. TokenInv'
    <3> SUFFICES ASSUME NEW c \in Conns, NEW i \in 1..Len(inbox'[c]), inbox'[c][i].type = "connect"
                 PROVE  /\ inbox'[c][i].device = owner[c]
                        /\ inbox'[c][i].token # NoToken => owner[c] \in holders[inbox'[c][i].token]
      BY <1>3, <2>1 DEF TokenInv
    <3>1. \/ i \in 1..Len(inbox[c]) /\ inbox'[c][i] = inbox[c][i]
          \/ c = link[d] /\ c \in open /\ inbox'[c][i] = m
      BY <1>a, <1>3, SendEffect
    <3>2. c = link[d] /\ c \in open => owner[c] = d
      BY <1>a DEF LinkInv
    <3> QED BY <1>a, <1>3, <3>1, <3>2 DEF TokenInv
  <2>4. LinkInv' /\ RegisteredIsLive' /\ OnlyHoldersReachable'
    BY <1>a, <1>3, <2>1 DEF LinkInv, RegisteredIsLive, OnlyHoldersReachable, vars
  <2> QED BY <2>2, <2>3, <2>4 DEF PathInv
<1>4. ASSUME NEW d \in Devices, disconnect_session(d) \/ heartbeat(d) PROVE PathInv'
  <2>1. CASE disconnect_session(d)
    <3>1. [type |-> "disconnect"].type # "connect"
      OBVIOUS
    <3> QED BY <1>3, <2>1, <3>1, MessageType DEF disconnect_session
  <2>2. CASE heartbeat(d)
    <3>1. [type |-> "heartbeat"].type # "connect"
      OBVIOUS
    <3> QED BY <1>3, <2>2, <3>1, MessageType DEF heartbeat
  <2> QED BY <1>4, <2>1, <2>2
<1>5. ASSUME NEW d \in Devices, NEW s \in Sessions, NEW token \in {s, NoToken},
             connect_session(d, s, token), token = NoToken \/ d \in holders[s]
      PROVE  PathInv'
  <2> DEFINE m == [type |-> "connect", device |-> d, session |-> s, token |-> token]
  <2>1. m \in Message /\ m.token = token /\ m.device = d
    BY MessageType
  <2>2. send_message(d, m) /\ UNCHANGED <<vars, link, owner, sessionVars>>
    BY <1>5 DEF connect_session
  <2> HIDE DEF m
  <2> QED BY <1>3, <1>5, <2>1, <2>2
<1>6. ASSUME NEW d \in Devices, NEW s \in Sessions,
             request_relay_fallback(d, s) \/ on_relay_fallback(d, s)
      PROVE  PathInv'
  BY <1>5, <1>6 DEF request_relay_fallback, on_relay_fallback
<1>7. ASSUME NEW d \in Devices, NEW e \in Devices, NEW s \in Sessions,
             request_relay_session(d, e, s) \/ auto_create_relay_fallback(d, e, s)
      PROVE  PathInv'
  <2>1. /\ parties[s] = {} /\ parties' = [parties EXCEPT ![s] = {d, e}]
        /\ UNCHANGED <<link, owner, inbox, connections, open, device>>
    BY <1>7 DEF request_relay_session, auto_create_relay_fallback, create_session, add_valid_token
  <2>2. holders' = [holders EXCEPT ![s] = {d}] \/ holders' = holders
    BY <1>7 DEF request_relay_session, auto_create_relay_fallback
  <2>3. holders[s] = {}
    BY <1>a, <2>1 DEF PathTypeOK
  <2>4. holders' \in [Sessions -> SUBSET Devices] /\ \A t \in Sessions : holders[t] \subseteq holders'[t]
    BY <1>d, <2>2, <2>3
  <2>5. PathTypeOK'
    BY <1>a, <2>1, <2>2, <2>3, <2>4 DEF PathTypeOK
  <2>6. TokenInv'
    <3> SUFFICES ASSUME NEW c \in Conns, NEW i \in 1..Len(inbox[c]), inbox[c][i].type = "connect"
                 PROVE  /\ inbox[c][i].device = owner[c]
                        /\ inbox[c][i].token # NoToken => owner[c] \in holders'[inbox[c][i].token]
      BY <2>1 DEF TokenInv
    <3>1. inbox[c] \in Seq(Message)
      BY <1>a DEF PathTypeOK
    <3>2. inbox[c][i] \in Message
      BY <3>1
    <3> QED BY <1>a, <2>4, <3>2, MessageType DEF TokenInv
  <2>7. LinkInv' /\ RegisteredIsLive' /\ OnlyHoldersReachable'
    BY <1>a, <2>1, <2>4 DEF LinkInv, RegisteredIsLive, OnlyHoldersReachable
  <2> QED BY <2>5, <2>6, <2>7 DEF PathInv
<1>8. ASSUME NEW d \in Devices, NEW s \in Sessions, connect_relay_session(d, s) \/ get_relay_session(d, s)
      PROVE  PathInv'
  <2>1. /\ holders' = [holders EXCEPT ![s] = @ \cup {d}]
        /\ parties[s] # {}
        /\ UNCHANGED <<vars, link, owner, parties, inbox>>
    BY <1>8 DEF connect_relay_session, get_relay_session, give_token
  <2>2. holders' \in [Sessions -> SUBSET Devices] /\ \A t \in Sessions : holders[t] \subseteq holders'[t]
    BY <1>d, <2>1
  <2>3. UNCHANGED <<open, connections, device, inbox, link, owner, parties>>
    BY <2>1 DEF vars
  <2>4. \A t \in Sessions : parties[t] = {} => holders'[t] = {}
    BY <1>a, <1>d, <2>1 DEF PathTypeOK
  <2> QED BY <1>a, <1>c, <1>d, <2>2, <2>3, <2>4, QuietStep
<1>9. ASSUME NEW d \in Devices, age(d) \/ rest_heartbeat(d) PROVE PathInv'
  <2>1. UNCHANGED <<link, owner, parties, holders, inbox, connections, open, device>>
    BY <1>9 DEF age, rest_heartbeat, HeartbeatAges, update_heartbeat, pathVars, sessionVars
  <2> QED BY <1>a, <1>c, <1>d, <2>1, QuietStep DEF PathTypeOK
<1>10. ASSUME NEW c \in Conns, handle_message(c) PROVE PathInv'
  <2> DEFINE m == Head(inbox[c])
  <2>1. /\ inbox[c] # << >> /\ inbox' = [inbox EXCEPT ![c] = Tail(@)] /\ handle(c, m)
        /\ UNCHANGED <<link, owner, parties, holders>>
    BY <1>10 DEF handle_message, sessionVars
  <2>2. /\ m \in Message /\ 1 \in 1..Len(inbox[c]) /\ m = inbox[c][1]
        /\ inbox' \in [Conns -> Seq(Message)]
        /\ \A b \in Conns : Len(inbox'[b]) <= MaxInFlight
        /\ \A b \in Conns : \A i \in 1..Len(inbox'[b]) :
             \E j \in 1..Len(inbox[b]) : inbox'[b][i] = inbox[b][j]
    BY <1>a, <2>1, TakeEffect
  <2>3. m.type = "connect" => m.device = owner[c] /\ (m.token # NoToken => owner[c] \in holders[m.token])
    BY <1>a, <2>2 DEF TokenInv
  <2>4. m.type = "connect" =>
          m.device \in Devices /\ m.session \in Sessions /\ m.token \in Sessions \cup {NoToken}
    BY <2>2, MessageType
  <2> HIDE DEF m
  <2>5. CASE handle_disconnect(c) \/ handle_heartbeat(c)
    <3>1. open' = open
      BY <2>5 DEF handle_disconnect, handle_heartbeat
    <3>2. ASSUME NEW d \in Devices, connections'[d] # NoConn
          PROVE  connections'[d] = connections[d] /\ device'[connections[d]] = device[connections[d]]
      <4>1. connections'[d] = connections[d]
        BY <1>a, <2>5, <3>2, NothingElseRegisters
      <4>2. CASE handle_heartbeat(c)
        BY <4>1, <4>2 DEF handle_heartbeat
      <4>3. CASE handle_disconnect(c)
        <5>1. d \notin Claimed(c)
          BY <1>a, <3>2, <4>3, UnregisterEffect, ClaimedType DEF handle_disconnect
        <5>2. connections[d] \in Conns /\ device[connections[d]] = d /\ connections[d] # c
          BY <1>a, <1>d, <3>2, <4>1, <5>1, ConstantsDistinct DEF RegisteredIsLive, Claimed
        <5> QED BY <1>a, <4>1, <4>3, <5>2 DEF handle_disconnect, TypeOK
      <4> QED BY <2>5, <4>2, <4>3
    <3> QED BY <1>a, <1>d, <2>1, <2>2, <3>1, <3>2, QuietStep DEF PathTypeOK
  <2>6. CASE m.type = "connect" /\ handle_connect(c, m.device, m.session, m.token)
    <3>1. /\ open' = open /\ c \in open /\ device' = [device EXCEPT ![c] = owner[c]]
          /\ owner[c] \in Devices
      BY <2>3, <2>4, <2>6 DEF handle_connect
    <3>2. PathTypeOK' /\ LinkInv'
      BY <1>a, <2>1, <2>2, <3>1 DEF PathTypeOK, LinkInv
    <3>3. TokenInv'
      BY <1>a, <2>1, <2>2 DEF TokenInv
    <3>4. CASE validate_session(m.token, m.session)
      <4>1. m.token \in Sessions /\ m.token # NoToken
        BY <1>a, <2>4, <2>6, <3>4, ConstantsDistinct DEF validate_session, TypeOK
      <4>2. connections' = [connections EXCEPT ![owner[c]] = c]
        BY <2>3, <2>6, <3>4 DEF handle_connect, register_connection
      <4>3. RegisteredIsLive'
        <5> SUFFICES ASSUME NEW e \in Devices, connections'[e] # NoConn
                     PROVE  /\ connections'[e] \in open /\ owner[connections'[e]] = e
                            /\ device'[connections'[e]] = e
          BY <2>1, <3>1 DEF RegisteredIsLive
        <5>1. CASE e = owner[c]
          BY <1>a, <3>1, <4>2, <5>1 DEF TypeOK
        <5>2. CASE e # owner[c]
          <6>1. connections'[e] = connections[e] /\ connections[e] \in Conns
            BY <1>a, <1>d, <4>2, <5>2 DEF TypeOK
          <6>2. owner[connections[e]] = e /\ connections[e] \in open /\ device[connections[e]] = e
            BY <1>a, <6>1 DEF RegisteredIsLive
          <6>3. connections[e] # c
            BY <5>2, <6>2
          <6> QED BY <1>a, <3>1, <6>1, <6>2, <6>3 DEF TypeOK
        <5> QED BY <5>1, <5>2
      <4>4. OnlyHoldersReachable'
        <5> SUFFICES ASSUME NEW e \in Devices, connections'[e] # NoConn
                     PROVE  \E s \in Sessions : e \in holders[s]
          BY <2>1 DEF OnlyHoldersReachable
        <5>1. CASE e = owner[c]
          BY <2>3, <2>6, <4>1, <5>1
        <5>2. CASE e # owner[c]
          BY <1>a, <4>2, <5>2 DEF TypeOK, OnlyHoldersReachable
        <5> QED BY <5>1, <5>2
      <4> QED BY <3>2, <3>3, <4>3, <4>4 DEF PathInv
    <3>5. CASE ~ validate_session(m.token, m.session)
      <4>1. UNCHANGED connections
        BY <2>6, <3>5 DEF handle_connect
      <4>2. RegisteredIsLive'
        BY <1>a, <1>d, <2>1, <3>1, <4>1 DEF RegisteredIsLive, TypeOK
      <4>3. OnlyHoldersReachable'
        BY <1>a, <2>1, <4>1 DEF OnlyHoldersReachable
      <4> QED BY <3>2, <3>3, <4>2, <4>3 DEF PathInv
    <3> QED BY <3>4, <3>5
  <2> QED BY <2>1, <2>5, <2>6 DEF handle
<1>11. ASSUME NEW c \in Conns, lose(c) PROVE PathInv'
  <2>1. /\ UNCHANGED <<link, parties, holders, device>> /\ inbox' = [inbox EXCEPT ![c] = << >>]
        /\ owner' = [owner EXCEPT ![c] = NoDevice] /\ open' = open \ {c}
        /\ unregister_connection(Claimed(c))
    BY <1>11 DEF lose, connection_lost, sessionVars
  <2>2. ASSUME NEW e \in Devices, connections'[e] # NoConn
        PROVE  connections'[e] = connections[e] /\ connections[e] \in Conns \ {c}
    <3>1. e \notin Claimed(c) /\ connections'[e] = connections[e]
      BY <1>a, <2>1, <2>2, UnregisterEffect, ClaimedType
    <3>2. device[connections[e]] = e
      BY <1>a, <2>2, <3>1 DEF RegisteredIsLive
    <3> QED BY <1>d, <2>2, <3>1, <3>2, ConstantsDistinct DEF Claimed
  <2>3. PathTypeOK'
    BY <1>a, <1>b, <2>1 DEF PathTypeOK
  <2>4. LinkInv'
    BY <1>a, <2>1 DEF LinkInv, PathTypeOK
  <2>5. TokenInv'
    <3> SUFFICES ASSUME NEW b \in Conns, NEW i \in 1..Len(inbox'[b]), inbox'[b][i].type = "connect"
                 PROVE  /\ inbox'[b][i].device = owner'[b]
                        /\ inbox'[b][i].token # NoToken => owner'[b] \in holders'[inbox'[b][i].token]
      BY DEF TokenInv
    <3>1. b # c
      BY <1>a, <1>b, <2>1 DEF PathTypeOK
    <3>2. inbox'[b] = inbox[b] /\ owner'[b] = owner[b]
      BY <1>a, <2>1, <3>1 DEF PathTypeOK
    <3> QED BY <1>a, <2>1, <3>2 DEF TokenInv
  <2>6. RegisteredIsLive'
    <3> SUFFICES ASSUME NEW e \in Devices, connections'[e] # NoConn
                 PROVE  /\ connections'[e] \in open' /\ owner'[connections'[e]] = e
                        /\ device'[connections'[e]] = e
      BY DEF RegisteredIsLive
    <3>1. connections'[e] = connections[e] /\ connections[e] \in Conns \ {c}
      BY <2>2
    <3>2. connections[e] # NoConn
      BY <3>1, ConstantsDistinct
    <3>3. connections[e] \in open /\ owner[connections[e]] = e /\ device[connections[e]] = e
      BY <1>a, <3>2 DEF RegisteredIsLive
    <3> QED BY <1>a, <2>1, <3>1, <3>3 DEF PathTypeOK
  <2>7. OnlyHoldersReachable'
    BY <1>a, <2>1, <2>2, ConstantsDistinct DEF OnlyHoldersReachable
  <2> QED BY <2>3, <2>4, <2>5, <2>6, <2>7 DEF PathInv
<1>12. CASE expire \/ shut_down
  <2>1. UNCHANGED <<link, owner, parties, holders, inbox>> /\ ServerStep /\ open' = open
    BY <1>12 DEF expire, shut_down, remove_expired_tokens, stop, stop_finished, pathVars,
       sessionVars, ServerStep
  <2>2. ASSUME NEW d \in Devices, connections'[d] # NoConn
        PROVE  connections'[d] = connections[d] /\ device'[connections[d]] = device[connections[d]]
    BY <1>12, <2>2 DEF expire, shut_down, remove_expired_tokens, unregister_connection, stop, stop_finished
  <2> QED BY <1>a, <1>c, <1>d, <2>1, <2>2, QuietStep DEF PathTypeOK
<1>13. CASE restart
  <2>1. /\ UNCHANGED <<link, parties, holders>> /\ inbox' = [c \in Conns |-> << >>]
        /\ owner' = [c \in Conns |-> NoDevice]
    BY <1>13 DEF restart, sessionVars
  <2>2. open' = {} /\ \A d \in Devices : connections'[d] = NoConn
    BY <1>a, <1>13 DEF restart, crash, start, DownInv
  <2>3. PathTypeOK'
    BY <1>a, <1>b, <2>1 DEF PathTypeOK
  <2>4. TokenInv'
    <3> SUFFICES ASSUME NEW c \in Conns, NEW i \in 1..Len(inbox'[c]) PROVE FALSE
      BY DEF TokenInv
    <3> QED BY <1>b, <2>1
  <2> QED
    BY <2>2, <2>3, <2>4 DEF PathInv, LinkInv, RegisteredIsLive, OnlyHoldersReachable
<1>14. CASE UNCHANGED allVars
  <2>1. UNCHANGED <<link, owner, parties, holders, inbox, connections, open, device>>
    BY <1>14 DEF allVars, vars, pathVars, sessionVars
  <2> QED BY <1>a, <1>c, <1>d, <2>1, QuietStep DEF PathTypeOK
<1> QED
  BY <1>1, <1>2, <1>4, <1>6, <1>7, <1>8, <1>9, <1>10, <1>11, <1>12, <1>13, <1>14
     DEF PathNext, DaemonStep, RestStep

\* The path is the server with its clients: whatever the daemons, the
\* connections and the messages in transit do, the server behaves as its
\* own specification says, so that its invariants hold on the path.
THEOREM PathImplementsServer == PathSpec => Spec
<1>1. PathInit => Init /\ RegistryInv
  BY InitRegistry DEF PathInit
<1>2. RegistryInv /\ PathInv /\ [PathNext]_allVars => [Next]_vars /\ RegistryInv'
  BY PathStepOfServer, NextRegistry DEF PathInv
<1> QED BY <1>1, <1>2, InitPath, NextPath, PTL DEF PathSpec, Spec

\* With the client that the daemons run, relayed data is only ever written
\* to a live connection of the device it is addressed to, which that device
\* opened itself (relay_server.py:139-145, relay_client.py:252-258).
THEOREM RegisteredAlwaysLive == PathSpec => []RegisteredIsLive
<1>1. PathInit => RegistryInv
  BY InitRegistry DEF PathInit
<1>2. RegistryInv /\ PathInv /\ [PathNext]_allVars => RegistryInv'
  BY PathStepOfServer, NextRegistry DEF PathInv
<1>3. PathInv => RegisteredIsLive
  BY DEF PathInv
<1> QED BY <1>1, <1>2, <1>3, InitPath, NextPath, PTL DEF PathSpec

\* A device is reachable through the relay only if the server has given it
\* the token of a session, by any of the three answers that carry one
\* (api/v1/relay.py:62-148): no crash, reconnect, late message, rejected
\* CONNECT or sweep registers another.
THEOREM HoldersOnly == PathSpec => []OnlyHoldersReachable
<1>1. PathInit => RegistryInv
  BY InitRegistry DEF PathInit
<1>2. RegistryInv /\ PathInv /\ [PathNext]_allVars => RegistryInv'
  BY PathStepOfServer, NextRegistry DEF PathInv
<1>3. PathInv => OnlyHoldersReachable
  BY DEF PathInv
<1> QED BY <1>1, <1>2, <1>3, InitPath, NextPath, PTL DEF PathSpec
=============================================================================
