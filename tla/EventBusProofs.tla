---------------------------- MODULE EventBusProofs ----------------------------
(***************************************************************************)
(* Proofs about the way of an event to the daemons for any number of       *)
(* daemons, browsers, connections, events and faults.                      *)
(***************************************************************************)
EXTENDS EventBus, FiniteSetTheorems, TLAPS

\* Connections are opened in the order of their numbers, and the one a
\* client listens on is its own and its newest.
OrderInv ==
    /\ \A b, c \in Conns : b < c /\ phase[c] # "free" => phase[b] # "free"
    /\ \A c \in Conns : phase[c] = "free" => owner[c] = NoClient
    /\ \A d \in Daemons : ws[d] # NoConn =>
         owner[ws[d]] = d /\ \A c \in Conns : owner[c] = d => c <= ws[d]

\* The listener starts once and, when Redis goes away, for good.  While it
\* listens, what is on its way to it are the last events published.
ListenerInv ==
    /\ listener = "listening" => redis /\ client
    /\ listener = "subscribing" => client
    /\ listener \in {"subscribing", "retrying"} => bridging = None /\ \A c \in Conns : received[c] = << >>
    /\ listener # "listening" => channel = << >>
    /\ \A i \in 1..Len(channel) : channel[i] = published - Len(channel) + i
    /\ bridging # None => bridging.event \in 1..MaxEvents
    /\ bridging # None /\ listener = "listening" => bridging.event = published - Len(channel)

\* The last event that reached c.
LastOf(c) == received[c][Len(received[c])]

\* A connection in the table has received what the bridge sent so far: all
\* of it, all but the event that is being sent, or it is about to leave.
BroadcastInv ==
    /\ bridging.left \subseteq connections /\ bridging.left \cap bridging.stale = {}
    /\ \A c \in connections : phase[c] = "receiving"
    /\ \A c \in Conns : received[c] # << >> => phase[c] \in {"receiving", "done"}
    /\ \A c \in connections : received[c] # << >> =>
         IF bridging = None
           THEN listener = "listening" => LastOf(c) = published - Len(channel)
           ELSE \/ c \in bridging.left /\ LastOf(c) = bridging.event - 1
                \/ c \notin bridging.left /\ LastOf(c) = bridging.event
                \/ c \in bridging.stale

\* A punch waits only while it has attempts left.
PunchInv == \A d \in Daemons, p \in Punches :
    punch[d][p] \in {"waiting", "answered"} => left[d][p] > 0

\* The types without those of the hole puncher.
BusTypeOK ==
    /\ redis \in BOOLEAN /\ client \in BOOLEAN
    /\ listener \in {"subscribing", "listening", "retrying", "ended"}
    /\ channel \in Seq(1..MaxEvents) /\ published \in 0..MaxEvents
    /\ bridging \in [event : 0..MaxEvents, left : SUBSET Conns, stale : SUBSET Conns]
    /\ owner \in [Conns -> Clients \cup {NoClient}]
    /\ phase \in [Conns -> {"free", "accepted", "receiving", "done"}]
    /\ alive \subseteq Conns /\ connections \subseteq Conns
    /\ daemonConn \in [Daemons -> Conns \cup {NoConn}]
    /\ ws \in [Clients -> Conns \cup {NoConn}]
    /\ connected \subseteq Clients /\ overtaken \subseteq Daemons
    /\ received \in [Conns -> Seq(1..MaxEvents)]
    /\ faults \in 0..MaxFaults

-----------------------------------------------------------------------------
(* The hole puncher. *)

\* Without candidates there is one pair, so a punch has Retries attempts.
LEMMA AttemptsNat == Attempts \in Nat /\ Attempts > 0
<1>1. Cardinality({<<Loopback, Loopback>>}) = 1
  BY FS_Singleton
<1>2. Pairs = {<<Loopback, Loopback>>}
  BY DEF Pairs, build_candidate_pairs
<1> QED BY <1>1, <1>2, PunchAssumption DEF Attempts

\* Every step of a punch keeps the types and the count of attempts.
LEMMA PunchStepTypes ==
    ASSUME PunchTypeOK, PunchInv, NEW d \in Daemons,
           \/ \E p \in Punches : PunchStep(d, p) \/ on_nat_punch_requested(d, p)
           \/ \E addr \in Remote \cup {Loopback} : datagram_received(d, addr)
           \/ start_puncher(d)
           \/ UNCHANGED punchVars
    PROVE  PunchTypeOK' /\ PunchInv'
<1> DEFINE PS == {"none", "punching", "waiting", "answered", "connected", "failed"}
<1>a. \A e \in Daemons : punch[e] \in [Punches -> PS] /\ left[e] \in [Punches -> 0..Attempts]
  BY DEF PunchTypeOK
<1>b. Attempts \in Nat /\ Attempts > 0
  BY AttemptsNat
<1>c. \A k \in {"result", "validate", "relay"}, p \in Punches : [kind |-> k, punch |-> p] \in Call
  BY DEF Call
<1>1. ASSUME NEW p \in Punches, on_nat_punch_requested(d, p) PROVE PunchTypeOK' /\ PunchInv'
  BY <1>1, <1>a, <1>b DEF on_nat_punch_requested, PunchTypeOK, PunchInv
<1>2. ASSUME NEW p \in Punches, NEW pair \in Pairs, attempt_pair(d, p, pair) PROVE PunchTypeOK' /\ PunchInv'
  BY <1>2, <1>a, <1>b DEF attempt_pair, pair_key, PunchTypeOK, PunchInv
<1>3. ASSUME NEW p \in Punches, NEW pair \in Pairs, attempt_ends(d, p, pair) PROVE PunchTypeOK' /\ PunchInv'
  <2>1. left[d][p] \in 0..Attempts /\ left[d][p] > 0
    BY <1>3, <1>a DEF attempt_ends, PunchInv
  <2>2. left[d][p] - 1 \in 0..Attempts
    BY <2>1, <1>b
  <2>3. {[kind |-> k, punch |-> p] : k \in {"result", "validate"}} \in SUBSET Call
    BY <1>c
  <2>4. PunchTypeOK'
    BY <1>3, <1>a, <2>2, <2>3 DEF attempt_ends, pair_key, PunchTypeOK
  <2>5. PunchInv'
    BY <1>3, <1>a, <2>1 DEF attempt_ends, PunchInv, PunchTypeOK
  <2> QED BY <2>4, <2>5
<1>4. ASSUME NEW p \in Punches, attempt_without_transport(d, p) PROVE PunchTypeOK' /\ PunchInv'
  <2>1. left[d][p] \in 0..Attempts /\ left[d][p] - 1 \in 0..Attempts
    BY <1>4, <1>a, <1>b DEF attempt_without_transport
  <2>2. PunchTypeOK'
    BY <1>4, <1>a, <2>1 DEF attempt_without_transport, PunchTypeOK
  <2>3. PunchInv'
    BY <1>4, <1>a, <2>1 DEF attempt_without_transport, PunchInv, PunchTypeOK
  <2> QED BY <2>2, <2>3
<1>5. ASSUME NEW p \in Punches, punch_fails(d, p) PROVE PunchTypeOK' /\ PunchInv'
  <2>1. {[kind |-> k, punch |-> p] : k \in {"result", "relay"}} \in SUBSET Call
    BY <1>c
  <2> QED BY <1>5, <1>a, <2>1 DEF punch_fails, PunchTypeOK, PunchInv
<1>6. ASSUME NEW c \in Call, call_api(d, c) PROVE PunchTypeOK' /\ PunchInv'
  BY <1>6 DEF call_api, PunchTypeOK, PunchInv
<1>7. ASSUME NEW addr \in Remote \cup {Loopback}, datagram_received(d, addr) PROVE PunchTypeOK' /\ PunchInv'
  BY <1>7, <1>a DEF datagram_received, PunchTypeOK, PunchInv
<1>8. CASE start_puncher(d)
  BY <1>8, <1>a, <1>b DEF start_puncher, PunchTypeOK, PunchInv
<1>9. CASE UNCHANGED punchVars
  BY <1>9 DEF punchVars, PunchTypeOK, PunchInv
<1> QED BY <1>1, <1>2, <1>3, <1>4, <1>5, <1>6, <1>7, <1>8, <1>9 DEF PunchStep

\* A datagram never has the key of a pair: the key of a pair ends in an
\* address, that of a datagram in dots.
LEMMA KeysDiffer == \A addr \in Remote \cup {Loopback} : response_key(addr) \notin Pairs
BY PunchAssumption DEF response_key, Pairs, build_candidate_pairs

\* No punch is ever answered, and none connects.
NeverAnswered == \A d \in Daemons, p \in Punches : punch[d][p] \notin {"answered", "connected"}

\* Every step of a punch leaves it unanswered.
LEMMA PunchStepUnanswered ==
    ASSUME PunchTypeOK, NeverAnswered, NEW d \in Daemons,
           \/ \E p \in Punches : PunchStep(d, p) \/ on_nat_punch_requested(d, p)
           \/ \E addr \in Remote \cup {Loopback} : datagram_received(d, addr)
           \/ start_puncher(d)
           \/ UNCHANGED punchVars
    PROVE  NeverAnswered'
<1> DEFINE PS == {"none", "punching", "waiting", "answered", "connected", "failed"}
<1>a. \A e \in Daemons : punch[e] \in [Punches -> PS]
  BY DEF PunchTypeOK
<1>1. ASSUME NEW p \in Punches, on_nat_punch_requested(d, p) PROVE NeverAnswered'
  BY <1>1, <1>a DEF on_nat_punch_requested, PunchTypeOK, NeverAnswered
<1>2. ASSUME NEW p \in Punches, PunchStep(d, p) PROVE NeverAnswered'
  BY <1>2, <1>a DEF PunchStep, attempt_pair, attempt_ends, attempt_without_transport, punch_fails,
     call_api, PunchTypeOK, NeverAnswered
<1>3. ASSUME NEW addr \in Remote \cup {Loopback}, datagram_received(d, addr) PROVE NeverAnswered'
  <2>1. response_key(addr) \notin expected[d]
    BY KeysDiffer DEF PunchTypeOK
  <2> QED BY <1>3, <1>a, <2>1 DEF datagram_received, PunchTypeOK, NeverAnswered
<1>4. CASE start_puncher(d)
  BY <1>4, <1>a DEF start_puncher, PunchTypeOK, NeverAnswered
<1>5. CASE UNCHANGED punchVars
  BY <1>5 DEF punchVars, NeverAnswered
<1> QED BY <1>1, <1>2, <1>3, <1>4, <1>5

-----------------------------------------------------------------------------
(* The table of connections. *)

\* The types of an idle bridge.
LEMMA NoneType == None \in [event : 0..MaxEvents, left : SUBSET Conns, stale : SUBSET Conns]
BY EventsAssumption DEF None

\* What forget leaves in the tables.
LEMMA ForgetEffect ==
    ASSUME BusTypeOK, NEW C \in SUBSET Conns, forget(C)
    PROVE  /\ connections' = connections \ C
           /\ daemonConn' \in [Daemons -> Conns \cup {NoConn}]
           /\ \A d \in Daemons : daemonConn[d] \notin C => daemonConn'[d] = daemonConn[d]
BY DEF forget, BusTypeOK

\* A send leaves the event and takes the connection off the list of those
\* that are left; the event reaches it, or it is stale.
LEMMA SendEffect ==
    ASSUME BusTypeOK, NEW c \in Conns, send_text(c)
    PROVE  /\ bridging' \in [event : 0..MaxEvents, left : SUBSET Conns, stale : SUBSET Conns]
           /\ bridging'.event = bridging.event /\ bridging'.left = bridging.left \ {c}
           /\ \/ /\ c \in alive /\ bridging'.stale = bridging.stale
                 /\ received' = [received EXCEPT ![c] = Append(received[c], bridging.event)]
              \/ bridging'.stale = bridging.stale \cup {c} /\ received' = received
<1>1. bridging \in [event : 0..MaxEvents, left : SUBSET Conns, stale : SUBSET Conns]
  BY DEF BusTypeOK
<1>2. CASE c \in alive
  <2>1. /\ bridging' = [bridging EXCEPT !.left = bridging.left \ {c}]
        /\ received' = [received EXCEPT ![c] = Append(received[c], bridging.event)]
    BY <1>2 DEF send_text
  <2> QED BY <1>1, <1>2, <2>1
<1>3. CASE c \notin alive
  <2>1. /\ bridging' = [bridging EXCEPT !.left = bridging.left \ {c}, !.stale = bridging.stale \cup {c}]
        /\ received' = received
    BY <1>3 DEF send_text
  <2> QED BY <1>1, <1>3, <2>1
<1> QED BY <1>2, <1>3

\* Every step keeps the types.
LEMMA NextBusTypes == BusTypeOK /\ ListenerInv /\ [Next]_vars => BusTypeOK'
<1> SUFFICES ASSUME BusTypeOK, ListenerInv, [Next]_vars PROVE BusTypeOK'
  OBVIOUS
<1>a. MaxEvents \in Nat /\ MaxFaults \in Nat /\ MaxConns \in Nat
  BY EventsAssumption
<1>1. CASE publish
  <2>1. published + 1 \in 1..MaxEvents /\ published + 1 \in 0..MaxEvents
    BY <1>1, <1>a DEF publish, BusTypeOK
  <2>2. Append(channel, published + 1) \in Seq(1..MaxEvents)
    BY <2>1 DEF BusTypeOK
  <2>3. channel' \in Seq(1..MaxEvents) /\ published' \in 0..MaxEvents
    BY <1>1, <2>1, <2>2 DEF publish, BusTypeOK
  <2> QED BY <1>1, <2>3 DEF publish, BusTypeOK, tableVars, linkVars
<1>2. CASE subscribe \/ reconnect \/ redis_back
  BY <1>2 DEF subscribe, reconnect, redis_back, BusTypeOK, tableVars, linkVars
<1>3. CASE redis_lost
  <2>1. faults' \in 0..MaxFaults
    BY <1>3, <1>a DEF redis_lost, BusTypeOK
  <2>2. redis' \in BOOLEAN
    BY <1>3 DEF redis_lost
  <2>4. channel' \in Seq(1..MaxEvents)
    BY <1>3 DEF redis_lost
  <2>3. listener' \in {"subscribing", "listening", "retrying", "ended"}
    BY <1>3 DEF redis_lost, BusTypeOK
  <2> QED BY <1>3, <2>1, <2>2, <2>3, <2>4 DEF redis_lost, BusTypeOK, tableVars, linkVars
<1>4. CASE broadcast
  <2>1. Head(channel) \in 1..MaxEvents /\ Head(channel) \in 0..MaxEvents /\ Tail(channel) \in Seq(1..MaxEvents)
    BY <1>4, <1>a DEF broadcast, BusTypeOK
  <2>2. bridging' \in [event : 0..MaxEvents, left : SUBSET Conns, stale : SUBSET Conns]
    BY <1>4, <2>1 DEF broadcast, BusTypeOK
  <2> QED BY <1>4, <2>1, <2>2 DEF broadcast, BusTypeOK, tableVars, linkVars
<1>5. CASE broadcast_ends
  <2>1. bridging.stale \in SUBSET Conns
    BY DEF BusTypeOK
  <2> QED BY <1>5, <2>1, ForgetEffect, NoneType DEF broadcast_ends, BusTypeOK, busVars, linkVars
<1>6. ASSUME NEW c \in Conns, send_text(c) PROVE BusTypeOK'
  <2>1. bridging.event \in 1..MaxEvents
    BY <1>6 DEF send_text, ListenerInv, None
  <2>2. Append(received[c], bridging.event) \in Seq(1..MaxEvents)
    BY <2>1 DEF BusTypeOK
  <2>3. received' \in [Conns -> Seq(1..MaxEvents)]
    BY <1>6, <2>2 DEF send_text, BusTypeOK
  <2>4. bridging' \in [event : 0..MaxEvents, left : SUBSET Conns, stale : SUBSET Conns]
    BY <1>6, SendEffect
  <2> QED BY <1>6, <2>3, <2>4 DEF send_text, BusTypeOK, busVars, tableVars, linkVars
<1>7. ASSUME NEW c \in Conns, register(c) PROVE BusTypeOK'
  BY <1>7 DEF register, BusTypeOK, busVars, linkVars
<1>8. ASSUME NEW c \in Conns, connection_lost(c) PROVE BusTypeOK'
  BY <1>8, <1>a DEF connection_lost, BusTypeOK, busVars, tableVars
<1>9. ASSUME NEW c \in Conns, disconnect(c) PROVE BusTypeOK'
  BY <1>9, ForgetEffect DEF disconnect, BusTypeOK, busVars, linkVars
<1>10. ASSUME NEW c \in Conns, NEW k \in Clients, connect(k, c) PROVE BusTypeOK'
  BY <1>10 DEF connect, BusTypeOK, busVars
<1>11. ASSUME NEW d \in Daemons, daemon_restart(d) PROVE BusTypeOK'
  BY <1>11, <1>a DEF daemon_restart, BusTypeOK, busVars, tableVars, Clients
<1>12. CASE Punch \/ UNCHANGED vars
  BY <1>12 DEF Punch, vars, BusTypeOK, busVars, tableVars, linkVars
<1> QED BY <1>1, <1>2, <1>3, <1>4, <1>5, <1>6, <1>7, <1>8, <1>9, <1>10, <1>11, <1>12
        DEF Next, Deliver

\* A step that opens no connection and registers none keeps the order.
LEMMA NextOrder == BusTypeOK /\ OrderInv /\ [Next]_vars => OrderInv'
<1> SUFFICES ASSUME BusTypeOK, OrderInv, [Next]_vars PROVE OrderInv'
  OBVIOUS
<1>a. Conns \subseteq Nat /\ MaxConns \in Nat /\ NoConn \notin Conns /\ Daemons \subseteq Clients
  BY EventsAssumption DEF Conns, NoConn, Clients
<1>b. NoClient \notin Clients
  BY EventsAssumption DEF Clients
<1>1. CASE UNCHANGED <<owner, ws>> /\ \A c \in Conns : phase'[c] = "free" <=> phase[c] = "free"
  BY <1>1 DEF OrderInv
<1>2. CASE publish \/ subscribe \/ reconnect \/ redis_lost \/ redis_back \/ broadcast
           \/ (\E c \in Conns : send_text(c)) \/ Punch \/ UNCHANGED vars
  BY <1>1, <1>2 DEF publish, subscribe, reconnect, redis_lost, redis_back, broadcast, send_text,
     Punch, vars, tableVars, linkVars
<1>3. CASE broadcast_ends
  BY <1>1, <1>3 DEF broadcast_ends, linkVars
<1>4. ASSUME NEW c \in Conns, register(c) PROVE OrderInv'
  BY <1>1, <1>4 DEF register, linkVars, BusTypeOK
<1>5. ASSUME NEW c \in Conns, disconnect(c) PROVE OrderInv'
  BY <1>1, <1>5 DEF disconnect, linkVars, BusTypeOK
<1>6. ASSUME NEW c \in Conns, connection_lost(c) PROVE OrderInv'
  <2>1. UNCHANGED <<phase, owner>> /\ \A d \in Daemons : ws'[d] # NoConn => ws'[d] = ws[d]
    BY <1>6, <1>a DEF connection_lost, tableVars, BusTypeOK
  <2> QED BY <2>1 DEF OrderInv
<1>7. ASSUME NEW d \in Daemons, daemon_restart(d) PROVE OrderInv'
  <2>1. UNCHANGED <<phase, owner>> /\ \A e \in Daemons : ws'[e] # NoConn => ws'[e] = ws[e]
    BY <1>7, <1>a DEF daemon_restart, tableVars, BusTypeOK
  <2> QED BY <2>1 DEF OrderInv
<1>8. ASSUME NEW c \in Conns, NEW k \in Clients, connect(k, c) PROVE OrderInv'
  <2>1. /\ phase[c] = "free" /\ \A b \in Conns : b < c => phase[b] # "free"
        /\ phase' = [phase EXCEPT ![c] = "accepted"] /\ owner' = [owner EXCEPT ![c] = k]
        /\ ws' = [ws EXCEPT ![k] = c]
    BY <1>8, <1>a DEF connect, Conns
  <2>2. \A b \in Conns : b > c => phase[b] = "free" /\ owner[b] = NoClient
    BY <2>1, <1>a DEF OrderInv
  <2>3. \A a, b \in Conns : a < b /\ phase'[b] # "free" => phase'[a] # "free"
    BY <2>1, <1>a DEF OrderInv, BusTypeOK
  <2>4. \A b \in Conns : phase'[b] = "free" => owner'[b] = NoClient
    BY <2>1, <1>a DEF OrderInv, BusTypeOK
  <2>5. ASSUME NEW d \in Daemons, ws'[d] # NoConn
        PROVE  owner'[ws'[d]] = d /\ \A b \in Conns : owner'[b] = d => b <= ws'[d]
    <3>1. CASE d = k
      <4>1. ws'[d] = c /\ owner'[c] = d
        BY <2>1, <3>1 DEF BusTypeOK
      <4>2. \A b \in Conns : b > c => owner'[b] = NoClient
        BY <2>1, <2>2, <1>a DEF BusTypeOK
      <4>3. d # NoClient
        BY <1>a, <1>b
      <4> QED BY <4>1, <4>2, <4>3, <1>a
    <3>2. CASE d # k
      <4>1. ws'[d] = ws[d] /\ ws[d] \in Conns /\ owner[ws[d]] = d
        BY <2>1, <2>5, <3>2, <1>a DEF BusTypeOK, OrderInv
      <4>2. ws[d] # c
        BY <2>1, <4>1, <1>a, <1>b DEF OrderInv
      <4> QED BY <2>1, <4>1, <4>2, <3>2, <1>a DEF OrderInv, BusTypeOK
    <3> QED BY <3>1, <3>2
  <2> QED BY <2>3, <2>4, <2>5 DEF OrderInv
<1> QED BY <1>2, <1>3, <1>4, <1>5, <1>6, <1>7, <1>8 DEF Next, Deliver

\* Every step keeps the newest connection of a daemon registered.
LEMMA NextNewest == BusTypeOK /\ OrderInv /\ NewestIsRegistered /\ [Next]_vars => NewestIsRegistered'
<1> SUFFICES ASSUME BusTypeOK, OrderInv, NewestIsRegistered, [Next]_vars PROVE NewestIsRegistered'
  OBVIOUS
<1>a. Conns \subseteq Nat /\ MaxConns \in Nat /\ NoConn \notin Conns /\ Daemons \subseteq Clients
  BY EventsAssumption DEF Conns, NoConn, Clients
<1>b. NoClient \notin Clients
  BY EventsAssumption DEF Clients
<1>1. CASE UNCHANGED <<ws, tableVars>>
  BY <1>1 DEF NewestIsRegistered, tableVars
<1>2. CASE publish \/ subscribe \/ reconnect \/ redis_lost \/ redis_back \/ broadcast
           \/ (\E c \in Conns : send_text(c)) \/ Punch \/ UNCHANGED vars
  BY <1>1, <1>2 DEF publish, subscribe, reconnect, redis_lost, redis_back, broadcast, send_text,
     Punch, vars, linkVars
<1>3. ASSUME NEW C \in SUBSET Conns, forget(C), UNCHANGED <<ws, overtaken>>,
             \A c \in Conns : phase'[c] = "receiving" => phase[c] = "receiving"
      PROVE  NewestIsRegistered'
  <2> SUFFICES ASSUME NEW d \in Daemons, ws'[d] # NoConn, phase'[ws'[d]] = "receiving", ws'[d] \in connections'
               PROVE  daemonConn'[d] = ws'[d] \/ d \in overtaken'
    BY DEF NewestIsRegistered
  <2>1. ws[d] # NoConn /\ ws[d] \in connections /\ ws[d] \notin C /\ ws[d] \in Conns
    BY <1>3, ForgetEffect, <1>a DEF BusTypeOK
  <2>2. daemonConn[d] = ws[d] \/ d \in overtaken
    BY <1>3, <2>1 DEF NewestIsRegistered
  <2> QED BY <1>3, <2>1, <2>2, ForgetEffect
<1>4. CASE broadcast_ends
  <2>1. bridging.stale \in SUBSET Conns
    BY DEF BusTypeOK
  <2> QED BY <1>3, <1>4, <2>1 DEF broadcast_ends, linkVars
<1>5. ASSUME NEW c \in Conns, disconnect(c) PROVE NewestIsRegistered'
  <2>1. \A b \in Conns : phase'[b] = "receiving" => phase[b] = "receiving"
    BY <1>5 DEF disconnect, BusTypeOK
  <2>2. forget({c}) /\ UNCHANGED <<ws, overtaken>>
    BY <1>5 DEF disconnect, linkVars
  <2> QED BY <1>3, <2>1, <2>2
<1>6. ASSUME NEW c \in Conns, connection_lost(c) PROVE NewestIsRegistered'
  <2>1. UNCHANGED tableVars /\ \A d \in Daemons : ws'[d] # NoConn => ws'[d] = ws[d]
    BY <1>6, <1>a DEF connection_lost, BusTypeOK
  <2> QED BY <2>1 DEF NewestIsRegistered, tableVars
<1>7. ASSUME NEW d \in Daemons, daemon_restart(d) PROVE NewestIsRegistered'
  <2>1. UNCHANGED tableVars /\ \A e \in Daemons : ws'[e] # NoConn => ws'[e] = ws[e]
    BY <1>7, <1>a DEF daemon_restart, BusTypeOK
  <2> QED BY <2>1 DEF NewestIsRegistered, tableVars
<1>8. ASSUME NEW c \in Conns, NEW k \in Clients, connect(k, c) PROVE NewestIsRegistered'
  <2>1. /\ phase[c] = "free" /\ phase' = [phase EXCEPT ![c] = "accepted"]
        /\ ws' = [ws EXCEPT ![k] = c] /\ UNCHANGED <<connections, daemonConn, overtaken>>
    BY <1>8 DEF connect
  <2> SUFFICES ASSUME NEW d \in Daemons, ws'[d] # NoConn, phase'[ws'[d]] = "receiving", ws'[d] \in connections'
               PROVE  daemonConn'[d] = ws'[d] \/ d \in overtaken'
    BY DEF NewestIsRegistered
  <2>2. d # k
    BY <2>1, <1>a DEF BusTypeOK
  <2>3. ws'[d] = ws[d] /\ ws[d] \in Conns /\ owner[ws[d]] = d
    BY <2>1, <2>2, <1>a DEF BusTypeOK, OrderInv
  <2>4. ws[d] # c
    BY <2>1, <2>3, <1>a, <1>b DEF OrderInv
  <2> QED BY <2>1, <2>3, <2>4 DEF BusTypeOK, NewestIsRegistered
<1>9. ASSUME NEW c \in Conns, register(c) PROVE NewestIsRegistered'
  <2> SUFFICES ASSUME NEW d \in Daemons, ws'[d] # NoConn, phase'[ws'[d]] = "receiving", ws'[d] \in connections'
               PROVE  daemonConn'[d] = ws'[d] \/ d \in overtaken'
    BY DEF NewestIsRegistered
  <2>1. ws' = ws /\ ws[d] \in Conns /\ owner[ws[d]] = d /\ \A b \in Conns : owner[b] = d => b <= ws[d]
    BY <1>9, <1>a DEF register, linkVars, BusTypeOK, OrderInv
  <2>2. CASE ws[d] = c
    BY <1>9, <2>1, <2>2 DEF register, BusTypeOK
  <2>3. CASE ws[d] # c
    <3>1. phase[ws[d]] = "receiving" /\ ws[d] \in connections
      BY <1>9, <2>1, <2>3 DEF register, BusTypeOK
    <3>2. daemonConn[d] = ws[d] \/ d \in overtaken
      BY <2>1, <3>1, <1>a DEF NewestIsRegistered
    <3>3. CASE owner[c] = d
      <4>1. c < ws[d]
        BY <2>1, <2>3, <3>3, <1>a
      <4> QED BY <1>9, <3>2, <3>3, <4>1 DEF register
    <3>4. CASE owner[c] # d
      BY <1>9, <2>1, <3>2, <3>4 DEF register, BusTypeOK
    <3> QED BY <3>3, <3>4
  <2> QED BY <2>2, <2>3
<1> QED BY <1>2, <1>4, <1>5, <1>6, <1>7, <1>8, <1>9 DEF Next, Deliver

-----------------------------------------------------------------------------
(* The events. *)

\* The bridge is idle exactly when it has no event.
LEMMA IdleBridge == BusTypeOK /\ ListenerInv => (bridging = None <=> bridging.event = 0)
BY DEF BusTypeOK, ListenerInv, None

\* The first element of a sequence.
LEMMA HeadOf ==
    ASSUME NEW S, NEW s \in Seq(S), s # << >>
    PROVE  Head(s) = s[1] /\ 1 \in 1..Len(s) /\ s[1] \in S
OBVIOUS

\* Taking the first event off the channel.
LEMMA TakeEffect ==
    ASSUME BusTypeOK, ListenerInv, channel # << >>
    PROVE  /\ listener = "listening" /\ Head(channel) = published - Len(channel) + 1
           /\ Head(channel) \in 1..MaxEvents
           /\ Len(Tail(channel)) = Len(channel) - 1 /\ Len(channel) \in Nat
           /\ \A i \in 1..Len(Tail(channel)) : Tail(channel)[i] = channel[i + 1] /\ i + 1 \in 1..Len(channel)
<1>1. channel \in Seq(1..MaxEvents) /\ Len(channel) \in Nat /\ Len(channel) # 0 /\ published \in Nat
  BY EventsAssumption DEF BusTypeOK
<1>2. Len(Tail(channel)) = Len(channel) - 1
  BY <1>1
<1>3. \A i \in 1..Len(Tail(channel)) : Tail(channel)[i] = channel[i + 1] /\ i + 1 \in 1..Len(channel)
  BY <1>1, <1>2
<1>4. Head(channel) = channel[1] /\ 1 \in 1..Len(channel) /\ channel[1] \in 1..MaxEvents
  BY <1>1, HeadOf
<1>5. listener = "listening" /\ channel[1] = published - Len(channel) + 1
  BY <1>4 DEF ListenerInv
<1> QED BY <1>1, <1>2, <1>3, <1>4, <1>5

\* Every step keeps the events on their way the last ones published.
LEMMA NextListener == BusTypeOK /\ ListenerInv /\ [Next]_vars => ListenerInv'
<1> SUFFICES ASSUME BusTypeOK, ListenerInv, [Next]_vars PROVE ListenerInv'
  OBVIOUS
<1>a. MaxEvents \in Nat /\ published \in Nat /\ Len(channel) \in Nat /\ channel \in Seq(1..MaxEvents)
  BY EventsAssumption DEF BusTypeOK
<1>1. CASE UNCHANGED <<busVars, bridging, received>>
  BY <1>1 DEF ListenerInv, busVars
<1>2. CASE Punch \/ UNCHANGED vars
  BY <1>1, <1>2 DEF Punch, vars
<1>3. ASSUME NEW c \in Conns, register(c) \/ connection_lost(c) \/ disconnect(c)
                                \/ \E k \in Clients : connect(k, c)
      PROVE  ListenerInv'
  BY <1>1, <1>3 DEF register, connection_lost, disconnect, connect
<1>4. ASSUME NEW d \in Daemons, daemon_restart(d) PROVE ListenerInv'
  BY <1>1, <1>4 DEF daemon_restart
<1>5. CASE publish
  <2>1. UNCHANGED <<redis, client, listener, bridging, received>> /\ published' = published + 1
    BY <1>5 DEF publish
  <2>2. CASE listener = "listening"
    <3>1. channel' = Append(channel, published + 1)
      BY <1>5, <2>2 DEF publish, ListenerInv
    <3>2. Len(channel') = Len(channel) + 1
      BY <1>a, <3>1
    <3>3. \A i \in 1..Len(channel') : channel'[i] = published' - Len(channel') + i
      <4> SUFFICES ASSUME NEW i \in 1..Len(channel') PROVE channel'[i] = published' - Len(channel') + i
        OBVIOUS
      <4>1. CASE i = Len(channel) + 1
        BY <1>a, <2>1, <3>1, <3>2, <4>1
      <4>2. CASE i \in 1..Len(channel)
        BY <1>a, <2>1, <3>1, <3>2, <4>2 DEF ListenerInv
      <4> QED BY <1>a, <3>2, <4>1, <4>2
    <3>4. published' - Len(channel') = published - Len(channel)
      BY <1>a, <2>1, <3>2
    <3> QED BY <2>1, <2>2, <3>3, <3>4 DEF ListenerInv
  <2>3. CASE listener # "listening"
    <3>1. channel' = << >> /\ Len(<< >>) = 0
      BY <1>5, <2>3 DEF publish, ListenerInv
    <3> QED BY <2>1, <2>3, <3>1 DEF ListenerInv
  <2> QED BY <2>2, <2>3
<1>6. CASE subscribe \/ reconnect
  <2>1. /\ UNCHANGED <<channel, published, bridging, received, redis>>
        /\ channel = << >> /\ bridging = None
        /\ listener' = "listening" => redis' /\ client'
        /\ listener' \in {"listening", "ended"}
    BY <1>6 DEF subscribe, reconnect, ListenerInv
  <2> QED BY <2>1 DEF ListenerInv
<1>7. CASE redis_lost
  <2>1. /\ channel' = << >> /\ Len(<< >>) = 0 /\ UNCHANGED <<client, published, bridging, received>>
        /\ listener' # "listening" /\ (listener' # "ended" => listener' = listener)
    BY <1>7 DEF redis_lost
  <2> QED BY <2>1 DEF ListenerInv
<1>8. CASE redis_back
  BY <1>8 DEF redis_back, ListenerInv
<1>9. CASE broadcast
  <2>1. UNCHANGED <<redis, client, listener, published, received>> /\ channel' = Tail(channel) /\ channel # << >>
    BY <1>9 DEF broadcast
  <2>2. bridging'.event = Head(channel)
    BY <1>9 DEF broadcast
  <2>3. \A i \in 1..Len(channel') : channel'[i] = published' - Len(channel') + i
    <3> SUFFICES ASSUME NEW i \in 1..Len(channel') PROVE channel'[i] = published' - Len(channel') + i
      OBVIOUS
    <3>1. channel'[i] = channel[i + 1] /\ i + 1 \in 1..Len(channel) /\ Len(channel') = Len(channel) - 1
      BY <2>1, TakeEffect
    <3>2. channel[i + 1] = published - Len(channel) + (i + 1)
      BY <3>1 DEF ListenerInv
    <3> QED BY <2>1, <3>1, <3>2, <1>a
  <2>4. bridging'.event = published' - Len(channel')
    BY <2>1, <2>2, TakeEffect, <1>a
  <2> QED BY <2>1, <2>2, <2>3, <2>4, TakeEffect DEF ListenerInv
<1>10. CASE broadcast_ends
  <2>1. UNCHANGED <<busVars, received>> /\ bridging' = None
    BY <1>10 DEF broadcast_ends
  <2> QED BY <2>1 DEF ListenerInv, busVars
<1>11. ASSUME NEW c \in Conns, send_text(c) PROVE ListenerInv'
  <2>0. c \in bridging.left /\ None.left = {}
    BY <1>11 DEF send_text, None
  <2>1. UNCHANGED busVars /\ bridging # None /\ bridging'.event = bridging.event
    BY <1>11, <2>0, SendEffect DEF send_text
  <2>2. listener \notin {"subscribing", "retrying"}
    BY <2>1 DEF ListenerInv
  <2> QED BY <2>1, <2>2 DEF ListenerInv, busVars
<1> QED BY <1>2, <1>3, <1>4, <1>5, <1>6, <1>7, <1>8, <1>9, <1>10, <1>11 DEF Next, Deliver

\* An event that follows the last one leaves no gap.
LEMMA AppendNoGap ==
    ASSUME NEW S \in SUBSET Nat, NEW s \in Seq(S), NEW e \in S,
           \A i \in 1..(Len(s) - 1) : s[i + 1] = s[i] + 1,
           s # << >> => s[Len(s)] = e - 1
    PROVE  /\ Append(s, e)[Len(Append(s, e))] = e
           /\ \A i \in 1..(Len(Append(s, e)) - 1) : Append(s, e)[i + 1] = Append(s, e)[i] + 1
<1> DEFINE t == Append(s, e)
<1>1. Len(s) \in Nat /\ Len(t) = Len(s) + 1 /\ t[Len(s) + 1] = e
  OBVIOUS
<1>2. \A i \in 1..Len(s) : t[i] = s[i]
  OBVIOUS
<1>3. ASSUME NEW i \in 1..(Len(t) - 1) PROVE t[i + 1] = t[i] + 1
  <2>1. CASE i = Len(s)
    <3>1. i \in 1..Len(s) /\ t[i] = s[Len(s)] /\ t[i + 1] = e /\ s # << >>
      BY <1>1, <1>2, <2>1
    <3> QED BY <3>1
  <2>2. CASE i < Len(s)
    <3>1. i \in 1..Len(s) /\ i + 1 \in 1..Len(s) /\ i \in 1..(Len(s) - 1)
      BY <1>1, <2>2
    <3>2. t[i] = s[i] /\ t[i + 1] = s[i + 1] /\ s[i + 1] = s[i] + 1
      BY <1>2, <3>1
    <3> QED BY <3>2
  <2> QED BY <1>1, <2>1, <2>2
<1> QED BY <1>1, <1>3

\* Every step keeps the connections in the table level with the bridge, and
\* no step leaves out an event.
LEMMA NextBroadcast ==
    BusTypeOK /\ ListenerInv /\ BroadcastInv /\ NoGap /\ [Next]_vars => BroadcastInv' /\ NoGap'
<1> SUFFICES ASSUME BusTypeOK, ListenerInv, BroadcastInv, NoGap, [Next]_vars PROVE BroadcastInv' /\ NoGap'
  OBVIOUS
<1>a. MaxEvents \in Nat /\ published \in Nat /\ Len(channel) \in Nat /\ channel \in Seq(1..MaxEvents)
  BY EventsAssumption DEF BusTypeOK
<1>b. None.left = {} /\ None.stale = {}
  BY DEF None
<1>c. ASSUME UNCHANGED <<bridging, connections, received>>,
             \A c \in connections : phase'[c] = "receiving",
             \A c \in Conns : phase[c] \in {"receiving", "done"} => phase'[c] \in {"receiving", "done"},
             listener' = "listening" =>
                listener = "listening" /\ published' - Len(channel') = published - Len(channel)
      PROVE  BroadcastInv' /\ NoGap'
  <2>1. NoGap'
    BY <1>c DEF NoGap
  <2>2. BroadcastInv'
    BY <1>c DEF BroadcastInv, LastOf
  <2> QED BY <2>1, <2>2
<1>1. CASE Punch \/ UNCHANGED vars \/ redis_back
  BY <1>1, <1>c DEF Punch, vars, redis_back, busVars, tableVars, BroadcastInv
<1>2. ASSUME NEW c \in Conns, connection_lost(c) PROVE BroadcastInv' /\ NoGap'
  BY <1>2, <1>c DEF connection_lost, busVars, tableVars, BroadcastInv
<1>3. ASSUME NEW d \in Daemons, daemon_restart(d) PROVE BroadcastInv' /\ NoGap'
  BY <1>3, <1>c DEF daemon_restart, busVars, tableVars, BroadcastInv
<1>4. ASSUME NEW c \in Conns, NEW k \in Clients, connect(k, c) PROVE BroadcastInv' /\ NoGap'
  <2>1. /\ UNCHANGED <<busVars, bridging, connections, received>>
        /\ phase[c] = "free" /\ phase' = [phase EXCEPT ![c] = "accepted"]
    BY <1>4 DEF connect
  <2>2. c \notin connections
    BY <2>1 DEF BroadcastInv
  <2>3. \A b \in connections : phase'[b] = "receiving"
    BY <2>1, <2>2 DEF BroadcastInv, BusTypeOK
  <2>4. \A b \in Conns : phase[b] \in {"receiving", "done"} => phase'[b] \in {"receiving", "done"}
    BY <2>1 DEF BusTypeOK
  <2> QED BY <1>c, <2>1, <2>3, <2>4 DEF busVars
<1>5. CASE publish
  <2>1. UNCHANGED <<listener, phase, bridging, connections, received>>
    BY <1>5 DEF publish, tableVars
  <2>2. listener = "listening" => published' - Len(channel') = published - Len(channel)
    <3> SUFFICES ASSUME listener = "listening" PROVE published' - Len(channel') = published - Len(channel)
      OBVIOUS
    <3>1. channel' = Append(channel, published + 1) /\ published' = published + 1
      BY <1>5 DEF publish, ListenerInv
    <3>2. Len(channel') = Len(channel) + 1
      BY <1>a, <3>1
    <3> QED BY <1>a, <3>1, <3>2
  <2> QED BY <1>c, <2>1, <2>2 DEF BroadcastInv
<1>6. CASE subscribe \/ reconnect
  <2>1. UNCHANGED <<phase, bridging, connections, received>> /\ \A c \in Conns : received[c] = << >>
    BY <1>6 DEF subscribe, reconnect, tableVars, ListenerInv
  <2>2. connections \subseteq Conns
    BY DEF BusTypeOK
  <2>3. NoGap'
    BY <2>1 DEF NoGap
  <2> QED BY <2>1, <2>2, <2>3 DEF BroadcastInv
<1>7. CASE redis_lost
  <2>1. UNCHANGED <<phase, bridging, connections, received>> /\ listener' # "listening"
    BY <1>7 DEF redis_lost, tableVars
  <2> QED BY <1>c, <2>1 DEF BroadcastInv
<1>8. CASE broadcast
  <2>1. /\ UNCHANGED <<phase, connections, received>> /\ bridging = None /\ channel # << >>
        /\ bridging'.event = Head(channel) /\ bridging'.left = connections /\ bridging'.stale = {}
    BY <1>8 DEF broadcast, Unlocked, tableVars
  <2>2. bridging' # None
    BY <2>1, TakeEffect DEF None
  <2>3. \A c \in connections : received[c] # << >> => LastOf(c) = bridging'.event - 1
    BY <2>1, TakeEffect, <1>a DEF BroadcastInv
  <2>4. \A c \in Conns : LastOf(c)' = LastOf(c)
    BY <2>1 DEF LastOf
  <2>5. connections \subseteq Conns
    BY DEF BusTypeOK
  <2>6. NoGap'
    BY <2>1 DEF NoGap
  <2> QED BY <2>1, <2>2, <2>3, <2>4, <2>5, <2>6 DEF BroadcastInv
<1>9. CASE broadcast_ends
  <2>1. /\ UNCHANGED <<phase, busVars, received>> /\ bridging # None /\ bridging.left = {} /\ bridging' = None
        /\ connections' = connections \ bridging.stale
    BY <1>9 DEF broadcast_ends, Unlocked, forget
  <2>2. \A c \in Conns : LastOf(c)' = LastOf(c)
    BY <2>1 DEF LastOf
  <2>3. connections \subseteq Conns
    BY DEF BusTypeOK
  <2>4. NoGap'
    BY <2>1 DEF NoGap
  <2>5. \A c \in connections' : received[c] # << >> /\ listener = "listening" => LastOf(c) = published - Len(channel)
    BY <2>1 DEF BroadcastInv, ListenerInv
  <2> QED BY <2>1, <2>2, <2>3, <2>4, <2>5, <1>b DEF BroadcastInv, busVars
<1>10. ASSUME NEW c \in Conns, register(c) PROVE BroadcastInv' /\ NoGap'
  <2>1. /\ UNCHANGED <<busVars, bridging, received>> /\ bridging = None /\ phase[c] = "accepted"
        /\ connections' = connections \cup {c} /\ phase' = [phase EXCEPT ![c] = "receiving"]
    BY <1>10 DEF register, Unlocked
  <2>2. received[c] = << >>
    BY <2>1 DEF BroadcastInv
  <2>3. \A b \in Conns : LastOf(b)' = LastOf(b)
    BY <2>1 DEF LastOf
  <2>4. NoGap'
    BY <2>1 DEF NoGap
  <2> QED BY <2>1, <2>2, <2>3, <2>4, <1>b DEF BroadcastInv, BusTypeOK, busVars
<1>11. ASSUME NEW c \in Conns, disconnect(c) PROVE BroadcastInv' /\ NoGap'
  <2>1. /\ UNCHANGED <<busVars, bridging, received>> /\ bridging = None
        /\ connections' = connections \ {c} /\ phase' = [phase EXCEPT ![c] = "done"]
    BY <1>11 DEF disconnect, Unlocked, forget
  <2>3. \A b \in Conns : LastOf(b)' = LastOf(b)
    BY <2>1 DEF LastOf
  <2>4. NoGap'
    BY <2>1 DEF NoGap
  <2> QED BY <2>1, <2>3, <2>4, <1>b DEF BroadcastInv, BusTypeOK, busVars
<1>12. ASSUME NEW c \in Conns, send_text(c) PROVE BroadcastInv' /\ NoGap'
  <2>1. c \in bridging.left /\ UNCHANGED <<busVars, tableVars>>
    BY <1>12 DEF send_text
  <2>2. bridging # None /\ bridging.event \in 1..MaxEvents
    BY <2>1, <1>b DEF ListenerInv
  <2>3. bridging'.event = bridging.event /\ bridging'.left = bridging.left \ {c} /\ bridging' # None
    <3>1. bridging'.event = bridging.event /\ bridging'.left = bridging.left \ {c}
      BY <1>12, SendEffect
    <3>2. None.event = 0
      BY DEF None
    <3> QED BY <2>2, <3>1, <3>2
  <2>4. c \in connections /\ c \notin bridging.stale
    BY <2>1 DEF BroadcastInv
  <2>5. CASE bridging'.stale = bridging.stale \cup {c} /\ received' = received
    <3>1. NoGap'
      BY <2>5 DEF NoGap
    <3>2. \A b \in Conns : LastOf(b)' = LastOf(b)
      BY <2>5 DEF LastOf
    <3> QED BY <2>1, <2>2, <2>3, <2>4, <2>5, <3>1, <3>2 DEF BroadcastInv, BusTypeOK, tableVars
  <2>6. CASE /\ bridging'.stale = bridging.stale
             /\ received' = [received EXCEPT ![c] = Append(received[c], bridging.event)]
    <3>1. received'[c] = Append(received[c], bridging.event) /\ \A b \in Conns \ {c} : received'[b] = received[b]
      BY <2>6 DEF BusTypeOK
    <3>2. received[c] \in Seq(1..MaxEvents) /\ 1..MaxEvents \subseteq Nat
      BY <1>a DEF BusTypeOK
    <3>4. received[c] # << >> => received[c][Len(received[c])] = bridging.event - 1
      BY <2>1, <2>2, <2>4 DEF BroadcastInv, LastOf
    <3>5. \A i \in 1..(Len(received[c]) - 1) : received[c][i + 1] = received[c][i] + 1
      BY DEF NoGap
    <3>6. /\ received'[c][Len(received'[c])] = bridging.event
          /\ \A i \in 1..(Len(received'[c]) - 1) : received'[c][i + 1] = received'[c][i] + 1
      BY <2>2, <3>1, <3>2, <3>4, <3>5, AppendNoGap
    <3>7. NoGap'
      BY <3>1, <3>6 DEF NoGap
    <3>8. LastOf(c)' = bridging.event /\ \A b \in Conns \ {c} : LastOf(b)' = LastOf(b)
      BY <3>1, <3>6 DEF LastOf
    <3>9. BroadcastInv'
      BY <2>1, <2>2, <2>3, <2>4, <2>6, <3>1, <3>8 DEF BroadcastInv, BusTypeOK, tableVars
    <3> QED BY <3>7, <3>9
  <2> QED BY <1>12, <2>5, <2>6, SendEffect
<1> QED BY <1>1, <1>2, <1>3, <1>4, <1>5, <1>6, <1>7, <1>8, <1>9, <1>10, <1>11, <1>12 DEF Next, Deliver

-----------------------------------------------------------------------------
(* The theorems. *)

\* The inductive invariant: the properties with the order of the connections,
\* the numbering of the events on their way and the progress of a broadcast.
BusInv == /\ TypeOK /\ PunchInv /\ NeverAnswered
          /\ OrderInv /\ NewestIsRegistered
          /\ ListenerInv /\ BroadcastInv /\ NoGap

\* EventBus.start has run, and nobody is connected.
LEMMA InitBus == Init => BusInv
<1> SUFFICES ASSUME Init PROVE BusInv
  OBVIOUS
<1>a. MaxEvents \in Nat /\ MaxFaults \in Nat /\ RedisUrl \in BOOLEAN /\ << >> \in Seq(1..MaxEvents) /\ Len(<< >>) = 0
  BY EventsAssumption
<1>1. PunchTypeOK
  BY AttemptsNat DEF Init, PunchInit, PunchTypeOK
<1>2. PunchInv /\ NeverAnswered
  BY DEF Init, PunchInit, PunchInv, NeverAnswered
<1>3. redis \in BOOLEAN /\ client \in BOOLEAN
  BY <1>a DEF Init
<1>4. BusTypeOK
  BY <1>a, <1>3, NoneType DEF Init, BusTypeOK
<1>5. OrderInv /\ NewestIsRegistered
  BY EventsAssumption DEF Init, OrderInv, NewestIsRegistered, Conns, Clients
<1>6. ListenerInv
  BY <1>a DEF Init, ListenerInv
<1>7. BroadcastInv
  BY DEF Init, BroadcastInv, None
<1>8. NoGap
  BY <1>a DEF Init, NoGap
<1> QED BY <1>1, <1>2, <1>4, <1>5, <1>6, <1>7, <1>8 DEF BusInv, TypeOK, BusTypeOK

\* Every step of the backend, of Redis, of the network and of the daemons
\* keeps the invariant.
LEMMA NextBus == BusInv /\ [Next]_vars => BusInv'
<1> SUFFICES ASSUME BusInv, [Next]_vars PROVE BusInv'
  OBVIOUS
<1>1. /\ PunchTypeOK /\ BusTypeOK /\ PunchInv /\ NeverAnswered
      /\ OrderInv /\ NewestIsRegistered /\ ListenerInv /\ BroadcastInv /\ NoGap
  BY DEF BusInv, TypeOK, BusTypeOK
<1>2. \/ \E d \in Daemons :
           \/ \E p \in Punches : PunchStep(d, p) \/ on_nat_punch_requested(d, p)
           \/ \E addr \in Remote \cup {Loopback} : datagram_received(d, addr)
           \/ start_puncher(d)
      \/ UNCHANGED punchVars
  <2>1. ASSUME NEW c \in Conns, send_text(c)
        PROVE  UNCHANGED punchVars \/ \E d \in Daemons, p \in Punches : on_nat_punch_requested(d, p)
    BY <2>1 DEF send_text
  <2> QED BY <2>1 DEF Next, Deliver, publish, subscribe, reconnect, redis_lost, redis_back, broadcast,
      broadcast_ends, register, connection_lost, disconnect, connect, daemon_restart, Punch, vars
<1>3. PunchTypeOK' /\ PunchInv' /\ NeverAnswered'
  <2>1. CASE UNCHANGED punchVars
    BY <1>1, <2>1 DEF punchVars, PunchTypeOK, PunchInv, NeverAnswered
  <2> QED BY <1>1, <1>2, <2>1, PunchStepTypes, PunchStepUnanswered
<1>4. BusTypeOK' /\ OrderInv' /\ NewestIsRegistered' /\ ListenerInv' /\ BroadcastInv' /\ NoGap'
  BY <1>1, NextBusTypes, NextOrder, NextNewest, NextListener, NextBroadcast
<1> QED BY <1>3, <1>4 DEF BusInv, TypeOK, BusTypeOK

\* The state of the event bus, of the table of connections and of the hole
\* punchers always has its type.
THEOREM TypeCorrect == Spec => []TypeOK
<1>1. BusInv => TypeOK BY DEF BusInv
<1> QED BY InitBus, NextBus, <1>1, PTL DEF Spec

\* A daemon that listens on a registered connection is addressed by it,
\* unless its older connection registered later, in whatever order the
\* handlers of any number of connections register and disconnect.
THEOREM NewestAlwaysRegistered == Spec => []NewestIsRegistered
<1>1. BusInv => NewestIsRegistered BY DEF BusInv
<1> QED BY InitBus, NextBus, <1>1, PTL DEF Spec

\* What a connection receives has no holes and keeps the order of the
\* events, whenever Redis, connections and daemons fail.
THEOREM ReceivedWithoutGap == Spec => []NoGap
<1>1. BusInv => NoGap BY DEF BusInv
<1> QED BY InitBus, NextBus, <1>1, PTL DEF Spec

\* deliver_response never finds a waiter, so no punch ends connected,
\* whatever datagrams arrive at whichever daemon.
THEOREM NoPunchConnects == Spec => []NeverAnswered
<1>1. BusInv => NeverAnswered BY DEF BusInv
<1> QED BY InitBus, NextBus, <1>1, PTL DEF Spec
=============================================================================
