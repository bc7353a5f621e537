---------------------------- MODULE RelaySessions ----------------------------
(***************************************************************************)
(* Relay sessions in the database (src/backend/app/services/relay.py), the *)
(* handlers that create and activate them (api/v1/relay.py) and the loop   *)
(* that expires them (app/main.py).                                        *)
(*                                                                         *)
(* Every handler runs in a database session of its own and is suspended at *)
(* each await, so a row may change between the SELECT that loads it and    *)
(* the COMMIT that writes it back.  The ORM writes back the columns whose  *)
(* value differs from the one it loaded, whatever the row holds by then.   *)
(* The gauge of active connections is changed after the commit.            *)
(*                                                                         *)
(* Abstractions.  At most one request per element of Jobs is in flight; a  *)
(* request that loads no row answers 404 and changes nothing, so it is not *)
(* an action.  The 24-hour deadline is the set of overdue sessions.        *)
(* expire_relay_session and fail_relay_session have no caller.  Transfer   *)
(* statistics, the region and the node are left out.                       *)
(***************************************************************************)
EXTENDS Integers, FiniteSets

CONSTANTS
    Relays,       \* relay session ids
    Jobs,         \* bound: requests handled at the same time
    MaxRestarts   \* bound on restarts of the backend

ASSUME RestartsAssumption == MaxRestarts \in Nat /\ IsFiniteSet(Relays)

VARIABLES
    relay,      \* RelaySession.state by id, "none" before the row exists
    overdue,    \* the sessions whose expires_at has passed
    gauge,      \* RELAY_CONNECTIONS_ACTIVE
    tokens,     \* the relay server's _valid_tokens
    job,        \* the requests in flight
    sweep,      \* the cleanup loop: what it has loaded
    raced,      \* history: a commit overwrote what it had not loaded, or the
                \* gauge was reset while sessions were active
    restarts    \* restarts so far, for the bound

relayVars == <<relay, overdue, gauge, tokens, sweep, raced>>

Idle == [pc |-> "idle"]

Asleep == [pc |-> "asleep", rows |-> {}, active |-> {}]

RelayJob == [pc : {"token", "activate", "count"}, relay : Relays]

RelayTypeOK ==
    /\ relay \in [Relays -> {"none", "pending", "active", "expired"}]
    /\ overdue \subseteq Relays
    /\ gauge \in Int
    /\ tokens \subseteq Relays
    /\ sweep \in [pc : {"asleep", "commit", "count"}, rows : SUBSET Relays, active : SUBSET Relays]
    /\ raced \in BOOLEAN
    /\ restarts \in 0..MaxRestarts

RelayInit ==
    /\ relay = [r \in Relays |-> "none"]
    /\ overdue = {}
    /\ gauge = 0
    /\ tokens = {}
    /\ job = [j \in Jobs |-> Idle]
    /\ sweep = Asleep
    /\ raced = FALSE
    /\ restarts = 0

\* Job j takes its next step; Idle when it has answered.
goto(j, next) == job' = [job EXCEPT ![j] = next]

-----------------------------------------------------------------------------
(* The handlers. *)

\* The row of a new session is committed.
create_relay_session(r) ==
    /\ relay[r] = "none"
    /\ relay' = [relay EXCEPT ![r] = "pending"]
    /\ UNCHANGED <<overdue, gauge, tokens, sweep, raced>>

\* POST /relay/sessions; the relay.requested event is published before the
\* token is handed to the relay server.
request_relay_session(j, r) ==
    /\ job[j] = Idle
    /\ create_relay_session(r)
    /\ goto(j, [pc |-> "token", relay |-> r])
    /\ UNCHANGED restarts

add_valid_token(j) ==
    /\ job[j].pc = "token"
    /\ tokens' = tokens \cup {job[j].relay}
    /\ goto(j, Idle)
    /\ UNCHANGED <<relay, overdue, gauge, sweep, raced, restarts>>

\* POST /relay/connect: activate_relay_session finds the session pending ...
connect_relay_session(j, r) ==
    /\ job[j] = Idle /\ relay[r] = "pending"
    /\ goto(j, [pc |-> "activate", relay |-> r])
    /\ UNCHANGED <<relayVars, restarts>>

\* ... makes it active, whatever has become of it ...
activate_relay_session(j) ==
    /\ job[j].pc = "activate"
    /\ relay' = [relay EXCEPT ![job[j].relay] = "active"]
    /\ raced' = (raced \/ relay[job[j].relay] # "pending")
    /\ goto(j, [job[j] EXCEPT !.pc = "count"])
    /\ UNCHANGED <<overdue, gauge, tokens, sweep, restarts>>

\* ... and counts it.
count_active(j) ==
    /\ job[j].pc = "count"
    /\ gauge' = gauge + 1
    /\ goto(j, Idle)
    /\ UNCHANGED <<relay, overdue, tokens, sweep, raced, restarts>>

-----------------------------------------------------------------------------
(* The cleanup loop. *)

\* 24 hours have passed since the session was created.
deadline_passes(r) ==
    /\ relay[r] # "none" /\ r \notin overdue
    /\ overdue' = overdue \cup {r}
    /\ UNCHANGED <<relay, gauge, tokens, job, sweep, raced, restarts>>

\* Mutant: only active sessions are looked for.
Expirable_ActiveOnly == {r \in overdue : relay[r] = "active"}

Expirable == {r \in overdue : relay[r] \in {"pending", "active"}}

\* cleanup_expired_relays: the overdue rows are loaded ...
cleanup_load ==
    /\ sweep.pc = "asleep" /\ Expirable # {}
    /\ sweep' = [pc |-> "commit", rows |-> Expirable,
                 active |-> {r \in Expirable : relay[r] = "active"}]
    /\ UNCHANGED <<relay, overdue, gauge, tokens, job, raced, restarts>>

\* ... written back as expired ...
cleanup_commit ==
    /\ sweep.pc = "commit"
    /\ relay' = [r \in Relays |-> IF r \in sweep.rows THEN "expired" ELSE relay[r]]
    /\ raced' = (raced \/ \E r \in sweep.rows :
                            relay[r] # (IF r \in sweep.active THEN "active" ELSE "pending"))
    /\ sweep' = [sweep EXCEPT !.pc = "count"]
    /\ UNCHANGED <<overdue, gauge, tokens, job, restarts>>

\* Mutant: every expired row is taken off the gauge.
cleanup_count_AllRows ==
    /\ sweep.pc = "count"
    /\ gauge' = gauge - Cardinality(sweep.rows)
    /\ sweep' = Asleep
    /\ UNCHANGED <<relay, overdue, tokens, job, raced, restarts>>

\* ... and those that were loaded as active are taken off the gauge.  The
\* tokens stay valid: remove_expired_tokens, which the loop calls next,
\* looks at heartbeats only (RelayServer).
cleanup_count ==
    /\ sweep.pc = "count"
    /\ gauge' = gauge - Cardinality(sweep.active)
    /\ sweep' = Asleep
    /\ UNCHANGED <<relay, overdue, tokens, job, raced, restarts>>

\* The backend restarts: the rows stay, all else is gone.
restart ==
    /\ restarts < MaxRestarts
    /\ restarts' = restarts + 1
    /\ job' = [j \in Jobs |-> Idle]
    /\ sweep' = Asleep
    /\ gauge' = 0 /\ tokens' = {}
    /\ raced' = (raced \/ \E r \in Relays : relay[r] = "active")
    /\ UNCHANGED <<relay, overdue>>

RelayJobStep(j) ==
    \/ \E r \in Relays : request_relay_session(j, r) \/ connect_relay_session(j, r)
    \/ add_valid_token(j) \/ activate_relay_session(j) \/ count_active(j)

RelayLoop == cleanup_load \/ cleanup_commit \/ cleanup_count

RelayStep ==
    \/ \E j \in Jobs : RelayJobStep(j)
    \/ \E r \in Relays : deadline_passes(r)
    \/ RelayLoop

-----------------------------------------------------------------------------
(* Properties. *)

\* The active sessions that the gauge does not count yet, and those it still
\* counts.
Uncounted == {j \in Jobs : job[j].pc = "count"}
Overcounted == IF sweep.pc = "count" THEN sweep.active ELSE {}

\* The gauge of active relay connections agrees with the rows: a request or
\* a sweep may be late with it, and it goes wrong for good only when a
\* commit overwrites a row that changed since it was loaded (two activations,
\* an activation and the sweep) or when the backend restarts over active
\* rows (relay.py:98-120, 253-271).
GaugeIsExact ==
    raced \/ gauge = Cardinality({r \in Relays : relay[r] = "active"})
                       - Cardinality(Uncounted) + Cardinality(Overcounted)

\* Every session ends: an activation that overwrites the sweep only puts the
\* end off (cleanup_expired_relays, relay.py:253-271).
RelayEnds == \A r \in Relays : relay[r] = "pending" ~> relay[r] = "expired"
=============================================================================
