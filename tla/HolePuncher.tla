----------------------------- MODULE HolePuncher -----------------------------
(***************************************************************************)
(* Hole punching in the daemon (src/midscaled/daemon/hole_puncher.py), the *)
(* handlers that start a punch and report its result (main.py), and the    *)
(* calls they make (api_client.py).                                        *)
(*                                                                         *)
(* Abstractions.  An address stands for a host and a port; the three       *)
(* datagrams of an attempt are one.  The rounds over the candidate pairs   *)
(* are a count of attempts.  An API call either reaches the server or is   *)
(* lost; no call is repeated.                                              *)
(***************************************************************************)
EXTENDS Integers, FiniteSets

CONSTANTS
    Daemons,     \* device ids
    Punches,     \* NAT session ids
    Remote,      \* addresses of other hosts
    Loopback,    \* 127.0.0.1 and the daemon's own port
    Dots,        \* the "..." in the key of a response
    Retries      \* HolePuncher._retries

ASSUME PunchAssumption ==
    /\ Retries \in Nat \ {0}
    /\ Loopback \notin Remote /\ Dots \notin Remote \cup {Loopback}

VARIABLES
    bound,     \* start() could bind the daemon's UDP port
    punch,     \* the state of a session in a daemon's puncher
    left,      \* attempts left
    expected,  \* _PunchProtocol._expected_responses: the keys waited for
    calls      \* API calls the daemon's tasks are about to make

punchVars == <<bound, punch, left, expected, calls>>

\* The punch_requested event carries no candidates, so _build_candidate_pairs
\* is called with an empty list and falls back to the loopback pair.
build_candidate_pairs(candidates) ==
    IF candidates = {} THEN {<<Loopback, Loopback>>} ELSE candidates \X candidates

Pairs == build_candidate_pairs({})

Attempts == Retries * Cardinality(Pairs)

Call == [kind : {"result", "validate", "relay"}, punch : Punches]

PunchTypeOK ==
    /\ bound \in [Daemons -> BOOLEAN]
    /\ punch \in [Daemons -> [Punches -> {"none", "punching", "waiting", "answered", "connected", "failed"}]]
    /\ left \in [Daemons -> [Punches -> 0..Attempts]]
    /\ expected \in [Daemons -> SUBSET Pairs]
    /\ calls \in [Daemons -> SUBSET Call]

PunchInit ==
    /\ bound \in [Daemons -> BOOLEAN]
    /\ punch = [d \in Daemons |-> [p \in Punches |-> "none"]]
    /\ left = [d \in Daemons |-> [p \in Punches |-> 0]]
    /\ expected = [d \in Daemons |-> {}]
    /\ calls = [d \in Daemons |-> {}]

-----------------------------------------------------------------------------

\* _on_nat_punch_requested and initiate_punch.  Nothing asks whether the
\* daemon takes part in the session.
on_nat_punch_requested(d, p) ==
    /\ punch' = [punch EXCEPT ![d][p] = "punching"]
    /\ left' = [left EXCEPT ![d][p] = Attempts]
    /\ UNCHANGED <<bound, expected, calls>>

\* The key under which an attempt waits, and the key of a datagram.
pair_key(pair) == pair
response_key(addr) == <<addr, Dots>>

\* _attempt_pair: the datagrams are sent and the answer is expected.
attempt_pair(d, p, pair) ==
    /\ bound[d] /\ punch[d][p] = "punching" /\ left[d][p] > 0
    /\ punch' = [punch EXCEPT ![d][p] = "waiting"]
    /\ expected' = [expected EXCEPT ![d] = @ \cup {pair_key(pair)}]
    /\ UNCHANGED <<bound, left, calls>>

\* Without a socket the attempt fails at once.
attempt_without_transport(d, p) ==
    /\ ~ bound[d] /\ punch[d][p] = "punching" /\ left[d][p] > 0
    /\ left' = [left EXCEPT ![d][p] = @ - 1]
    /\ UNCHANGED <<bound, punch, expected, calls>>

\* datagram_received, handle_datagram and deliver_response: the waiters whose
\* key is that of the datagram get their answer.  A pair's key ends in the
\* remote address and a datagram's in dots, so there are none.
datagram_received(d, addr) ==
    /\ \E p \in Punches : punch[d][p] = "waiting"
    /\ punch' = [punch EXCEPT ![d] = [p \in Punches |->
                   IF @[p] = "waiting" /\ response_key(addr) \in expected[d] THEN "answered" ELSE @[p]]]
    /\ UNCHANGED <<bound, left, expected, calls>>

\* The attempt is over: answered, or two seconds have passed.
attempt_ends(d, p, pair) ==
    /\ punch[d][p] \in {"waiting", "answered"}
    /\ punch' = [punch EXCEPT ![d][p] = IF @ = "answered" THEN "connected" ELSE "punching"]
    /\ left' = [left EXCEPT ![d][p] = @ - 1]
    /\ expected' = [expected EXCEPT ![d] = @ \ {pair_key(pair)}]
    /\ calls' = [calls EXCEPT ![d] = IF punch[d][p] = "answered"
                                       THEN @ \cup {[kind |-> k, punch |-> p] : k \in {"result", "validate"}}
                                       ELSE @]
    /\ UNCHANGED bound

\* Mutant: the failure is not reported.
punch_fails_RelayOnly(d, p) ==
    /\ punch[d][p] = "punching" /\ left[d][p] = 0
    /\ punch' = [punch EXCEPT ![d][p] = "failed"]
    /\ calls' = [calls EXCEPT ![d] = @ \cup {[kind |-> "relay", punch |-> p]}]
    /\ UNCHANGED <<bound, left, expected>>

\* _execute_punch gives up: _on_punch_failure and _on_punch_relay_fallback
\* each create a task.
punch_fails(d, p) ==
    /\ punch[d][p] = "punching" /\ left[d][p] = 0
    /\ punch' = [punch EXCEPT ![d][p] = "failed"]
    /\ calls' = [calls EXCEPT ![d] = @ \cup {[kind |-> k, punch |-> p] : k \in {"result", "relay"}}]
    /\ UNCHANGED <<bound, left, expected>>

\* report_nat_punch_result and _request_relay_fallback call the server and
\* return, answered or not.  What the second one does with its answer is in
\* RelayPath.
call_api(d, c) ==
    /\ c \in calls[d]
    /\ calls' = [calls EXCEPT ![d] = @ \ {c}]
    /\ UNCHANGED <<bound, punch, left, expected>>

\* The daemon starts anew, without the punches and calls of its predecessor.
start_puncher(d) ==
    /\ \E b \in BOOLEAN : bound' = [bound EXCEPT ![d] = b]
    /\ punch' = [punch EXCEPT ![d] = [p \in Punches |-> "none"]]
    /\ left' = [left EXCEPT ![d] = [p \in Punches |-> 0]]
    /\ expected' = [expected EXCEPT ![d] = {}]
    /\ calls' = [calls EXCEPT ![d] = {}]

PunchStep(d, p) ==
    \/ \E pair \in Pairs : attempt_pair(d, p, pair) \/ attempt_ends(d, p, pair)
    \/ attempt_without_transport(d, p)
    \/ punch_fails(d, p)
    \/ \E c \in Call : c.punch = p /\ call_api(d, c)

-----------------------------------------------------------------------------
(* Properties. *)

\* A daemon that was asked to punch reports a result or dies: whether it
\* has a socket, how its attempts end and which answers come in between do
\* not keep it from that (hole_puncher.py:198-247).
PunchIsReported ==
    \A d \in Daemons, p \in Punches :
        punch[d][p] = "punching"
            ~> ([kind |-> "result", punch |-> p] \in calls[d] \/ punch[d][p] = "none")
=============================================================================
