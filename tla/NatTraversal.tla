---------------------------- MODULE NatTraversal ----------------------------
(***************************************************************************)
(* NAT traversal on the server: the punch sessions in the database         *)
(* (src/backend/app/services/nat.py), the handlers that create them and    *)
(* take the daemons' reports (api/v1/nat.py), the promotion of an endpoint *)
(* of the target device, the relay session created after failures          *)
(* (RelaySessions), and the loop that expires sessions (app/main.py).      *)
(*                                                                         *)
(* As in RelaySessions a handler is suspended between loading a row and    *)
(* writing it back.  Nothing ties a report to the state of the session or  *)
(* to its participants, so any report may come at any time.                *)
(*                                                                         *)
(* Abstractions.  All sessions aim at one device, whose endpoint rows are  *)
(* Endpoints; two rows may name the same address.  The best endpoint is    *)
(* one of highest score: reachability, latency and priority, which break   *)
(* ties, are a choice here (EndpointScoring has them).  The selected       *)
(* candidate and the counters of the metrics are left out, and so is       *)
(* _publish_config_changed, which fails on every call and changes nothing. *)
(***************************************************************************)
EXTENDS RelaySessions, EndpointScoring

CONSTANTS
    NatIds,       \* NAT session ids
    Endpoints,    \* rows of the target device's endpoints
    AddrOf,       \* the address and port of each row
    NoAddr,       \* a report that selects no endpoint
    NoEndpoint,   \* no row chosen yet
    InitScores,   \* the score the rows may start with
    MaxReports,   \* bound on the reports per session
    Traffic       \* bound: the requests of a run are for "nat" or for "relay"

ASSUME EndpointsAssumption ==
    /\ IsFiniteSet(Endpoints) /\ NoEndpoint \notin Endpoints
    /\ DOMAIN AddrOf = Endpoints
    /\ \A e \in Endpoints : AddrOf[e] # NoAddr
    /\ InitScores \subseteq 0..SCORE_MAX
    /\ MaxReports \in Nat /\ Traffic \subseteq {"nat", "relay"}

Addrs == {AddrOf[e] : e \in Endpoints} \cup {NoAddr}

VARIABLES
    traffic,     \* the requests of this behaviour
    nat,         \* the rows of nat_sessions
    natOverdue,  \* the sessions whose expires_at has passed
    natSweep,    \* what expire_stale_sessions has loaded
    active,      \* the endpoint rows with is_active
    score,       \* DeviceEndpoint.score
    reports,     \* reports taken per session, for the bound
    failed,      \* history: failures answered per session
    announced,   \* history: nat.punch_succeeded was published
    torn,        \* history: a report of the session was cut off
    late,        \* history: a commit hid a result it had not loaded
    crossed      \* history: two promotions deactivated at the same time

natVars == <<nat, natOverdue, natSweep, active, score, reports,
             failed, announced, torn, late, crossed>>

allVars == <<relayVars, job, restarts, natVars, traffic>>

NatRow == [state : {"none", "pending", "coordinating", "connected", "failed", "expired"},
           established : BOOLEAN, failures : 0..MaxReports]

NoRow == [state |-> "none", established |-> FALSE, failures |-> 0]

NatJob == [pc : {"start", "coordinate", "promote", "score", "pick", "deactivate", "save", "fail"},
           nat : NatIds, old : NatRow, new : NatRow, addr : Addrs,
           ep : Endpoints \cup {NoEndpoint}, score : 0..SCORE_MAX, others : SUBSET Endpoints]

NatTypeOK ==
    /\ RelayTypeOK
    /\ traffic \in Traffic
    /\ job \in [Jobs -> {Idle} \cup RelayJob \cup NatJob]
    /\ nat \in [NatIds -> NatRow]
    /\ natOverdue \subseteq NatIds /\ natSweep \subseteq NatIds
    /\ active \subseteq Endpoints
    /\ score \in [Endpoints -> 0..SCORE_MAX]
    /\ reports \in [NatIds -> 0..MaxReports] /\ failed \in [NatIds -> 0..MaxReports]
    /\ announced \subseteq NatIds /\ torn \subseteq NatIds
    /\ late \in BOOLEAN /\ crossed \in BOOLEAN

NatInit ==
    /\ RelayInit
    /\ traffic \in Traffic
    /\ nat = [s \in NatIds |-> NoRow]
    /\ natOverdue = {} /\ natSweep = {}
    /\ active = Endpoints
    /\ \E n \in InitScores : score = [e \in Endpoints |-> n]
    /\ reports = [s \in NatIds |-> 0] /\ failed = [s \in NatIds |-> 0]
    /\ announced = {} /\ torn = {}
    /\ late = FALSE /\ crossed = FALSE

-----------------------------------------------------------------------------
(* Rows. *)

InProgress(s) == nat[s].state \in {"pending", "coordinating"}

\* A request that has loaded the row of s and will write back row.
handling(pc, s, row, addr) ==
    [pc |-> pc, nat |-> s, old |-> nat[s], new |-> row, addr |-> addr,
     ep |-> NoEndpoint, score |-> 0, others |-> {}]

\* A commit of job j writes the columns that differ from the loaded ones.
commit_nat(j) ==
    LET s == job[j].nat
    IN nat' = [nat EXCEPT ![s] = [f \in DOMAIN NoRow |->
                  IF job[j].new[f] # job[j].old[f] THEN job[j].new[f] ELSE nat[s][f]]]

\* failure_count lives in a JSON column without change tracking: a value set
\* inside the dictionary is not written back.
stored_failures(stored, counted) == stored

-----------------------------------------------------------------------------
(* POST /nat/punch. *)

create_nat_session(s) ==
    /\ nat[s].state = "none"
    /\ nat' = [nat EXCEPT ![s].state = "pending"]

\* The row is committed and the event goes out.
request_punch(j, s) ==
    /\ job[j] = Idle
    /\ create_nat_session(s)
    /\ goto(j, handling("start", s, [NoRow EXCEPT !.state = "coordinating"], NoAddr))
    /\ UNCHANGED <<relayVars, restarts, natOverdue, natSweep, active, score, reports,
                   failed, announced, torn, late, crossed>>

\* start_punch looks for the row, still pending and in time; if there is
\* none the answer is 409.
start_punch(j) ==
    /\ job[j].pc = "start"
    /\ LET s == job[j].nat
       IN IF nat[s].state = "pending" /\ s \notin natOverdue
            THEN goto(j, [job[j] EXCEPT !.pc = "coordinate", !.old = nat[s],
                            !.new = [nat[s] EXCEPT !.state = "coordinating"]])
            ELSE goto(j, Idle)
    /\ UNCHANGED <<relayVars, restarts, natVars>>

coordinate(j) ==
    /\ job[j].pc = "coordinate"
    /\ commit_nat(j)
    /\ late' = (late \/ ~ InProgress(job[j].nat))
    /\ goto(j, Idle)
    /\ UNCHANGED <<relayVars, restarts, natOverdue, natSweep, active, score, reports,
                   failed, announced, torn, crossed>>

-----------------------------------------------------------------------------
(* POST /nat/{id}/result and POST /nat/{id}/validate. *)

\* Mutant: the test of the state is inverted.
Connected_StateKept(s) == [nat[s] EXCEPT !.established = TRUE]

Connected(s) == [nat[s] EXCEPT !.state = "connected", !.established = TRUE]

\* The next step of a report of success: the selected endpoint is promoted.
report_success(j, s, addr) ==
    /\ job[j] = Idle /\ nat[s].state # "none" /\ reports[s] < MaxReports
    /\ reports' = [reports EXCEPT ![s] = @ + 1]
    /\ goto(j, handling(IF addr = NoAddr THEN "save" ELSE "promote", s, Connected(s), addr))
    /\ UNCHANGED <<relayVars, restarts, nat, natOverdue, natSweep, active, score,
                   failed, torn, late, crossed>>

\* record_punch_result with success: the event goes out before the commit.
punch_succeeded(j, s, addr) ==
    /\ report_success(j, s, addr)
    /\ announced' = announced \cup {s}

\* validate_connectivity with reachable always names an endpoint.
validate_connectivity(j, s, addr) ==
    /\ addr # NoAddr
    /\ report_success(j, s, addr)
    /\ UNCHANGED announced

\* record_punch_result without success.
punch_failed(j, s) ==
    /\ job[j] = Idle /\ nat[s].state # "none" /\ reports[s] < MaxReports
    /\ reports' = [reports EXCEPT ![s] = @ + 1]
    /\ goto(j, handling("fail", s,
              [nat[s] EXCEPT !.state = "failed",
                             !.failures = stored_failures(@, @ + 1)], NoAddr))
    /\ UNCHANGED <<relayVars, restarts, nat, natOverdue, natSweep, active, score,
                   failed, announced, torn, late, crossed>>

\* The failures counted with this one.
counted(j) == job[j].old.failures + 1

\* The commit of a failure; the second one also creates a relay session,
\* whose token is handed to the relay server afterwards.
record_failure(j) ==
    /\ job[j].pc = "fail"
    /\ commit_nat(j)
    /\ failed' = [failed EXCEPT ![job[j].nat] = @ + 1]
    /\ IF counted(j) >= 2
         THEN \E r \in Relays : /\ create_relay_session(r)
                                /\ goto(j, [pc |-> "token", relay |-> r])
         ELSE goto(j, Idle) /\ UNCHANGED relayVars
    /\ UNCHANGED <<restarts, natOverdue, natSweep, active, score, reports,
                   announced, torn, late, crossed>>

\* Mutant: a report for an unknown endpoint ends here.
record_success_Skipped(j) ==
    /\ job[j].pc = "save"
    /\ goto(j, Idle)
    /\ UNCHANGED <<relayVars, restarts, natVars>>

\* The commit of a success whose endpoint is not known.
record_success(j) ==
    /\ job[j].pc = "save"
    /\ commit_nat(j)
    /\ goto(j, Idle)
    /\ UNCHANGED <<relayVars, restarts, natOverdue, natSweep, active, score, reports,
                   failed, announced, torn, late, crossed>>

-----------------------------------------------------------------------------
(* _promote_endpoint. *)

Matching(addr) == {e \in active : AddrOf[e] = addr}

\* The row is loaded.  More than one makes scalar_one_or_none raise: the
\* request fails and its transaction is rolled back.
promote_load(j) ==
    /\ job[j].pc = "promote"
    /\ \/ /\ Matching(job[j].addr) = {}
          /\ goto(j, [job[j] EXCEPT !.pc = "save"])
          /\ UNCHANGED torn
       \/ \E e \in Endpoints :
            /\ Matching(job[j].addr) = {e}
            /\ goto(j, [job[j] EXCEPT !.pc = "score", !.ep = e, !.score = score[e]])
            /\ UNCHANGED torn
       \/ /\ Cardinality(Matching(job[j].addr)) > 1
          /\ goto(j, Idle)
          /\ torn' = torn \cup {job[j].nat}
    /\ UNCHANGED <<relayVars, restarts, nat, natOverdue, natSweep, active, score, reports,
                   failed, announced, late, crossed>>

\* The new score is committed, and the session with it.
promote_score(j) ==
    /\ job[j].pc = "score"
    /\ commit_nat(j)
    /\ LET new == boosted(job[j].score, NoLatency)
       IN /\ score' = [score EXCEPT ![job[j].ep] = new]
          /\ goto(j, [job[j] EXCEPT !.pc = "pick", !.score = new, !.addr = NoAddr,
                                     !.old = NoRow, !.new = NoRow])
    /\ UNCHANGED <<relayVars, restarts, natOverdue, natSweep, active, reports,
                   failed, announced, torn, late, crossed>>

\* The active endpoints of highest score, as job j sees them with this score
\* for its own.
Best(j, own) ==
    LET seen(e) == IF e = job[j].ep THEN own ELSE score[e]
    IN {e \in active : \A f \in active : seen(f) <= seen(e)}

\* The row is refreshed, before or after another commit, and the active
\* endpoints are read; if this one is the best, the others are to go.
promote_pick(j) ==
    /\ job[j].pc = "pick"
    /\ \/ /\ \E own \in {job[j].score, score[job[j].ep]} : job[j].ep \in Best(j, own)
          /\ goto(j, [job[j] EXCEPT !.pc = "deactivate", !.score = 0,
                                  !.others = active \ {job[j].ep}])
          /\ crossed' = (crossed \/ \E k \in Jobs : job[k].pc = "deactivate")
       \/ /\ \E own \in {job[j].score, score[job[j].ep]} : Best(j, own) # {job[j].ep}
          /\ goto(j, Idle)
          /\ UNCHANGED crossed
    /\ UNCHANGED <<relayVars, restarts, nat, natOverdue, natSweep, active, score, reports,
                   failed, announced, torn, late>>

\* Mutant: the promoted endpoint is deactivated with the others.
promote_deactivate_All(j) ==
    /\ job[j].pc = "deactivate"
    /\ active' = active \ (job[j].others \cup {job[j].ep})
    /\ goto(j, Idle)
    /\ UNCHANGED <<relayVars, restarts, nat, natOverdue, natSweep, score, reports,
                   failed, announced, torn, late, crossed>>

promote_deactivate(j) ==
    /\ job[j].pc = "deactivate"
    /\ active' = active \ job[j].others
    /\ goto(j, Idle)
    /\ UNCHANGED <<relayVars, restarts, nat, natOverdue, natSweep, score, reports,
                   failed, announced, torn, late, crossed>>

-----------------------------------------------------------------------------
(* The loop that expires sessions, and restarts. *)

\* Five minutes have passed since the session was created.
nat_deadline_passes(s) ==
    /\ nat[s].state # "none" /\ s \notin natOverdue
    /\ natOverdue' = natOverdue \cup {s}
    /\ UNCHANGED <<relayVars, job, restarts, nat, natSweep, active, score, reports,
                   failed, announced, torn, late, crossed>>

\* Mutant: only pending sessions are looked for.
StaleSessions_PendingOnly == {s \in natOverdue : nat[s].state = "pending"}

StaleSessions == {s \in natOverdue : InProgress(s)}

\* expire_stale_sessions loads the stale sessions ...
expire_load ==
    /\ natSweep = {} /\ StaleSessions # {}
    /\ natSweep' = StaleSessions
    /\ UNCHANGED <<relayVars, job, restarts, nat, natOverdue, active, score, reports,
                   failed, announced, torn, late, crossed>>

\* ... and writes them back as expired.
expire_commit ==
    /\ natSweep # {}
    /\ nat' = [s \in NatIds |-> IF s \in natSweep THEN [nat[s] EXCEPT !.state = "expired"]
                                                  ELSE nat[s]]
    /\ late' = (late \/ \E s \in natSweep : ~ InProgress(s))
    /\ natSweep' = {}
    /\ UNCHANGED <<relayVars, job, restarts, natOverdue, active, score, reports,
                   failed, announced, torn, crossed>>

\* The sessions whose report is still being handled.
Handled == {s \in NatIds : \E j \in Jobs : job[j] \in NatJob /\ job[j].nat = s}

\* The backend restarts and drops the requests in flight.
backend_restart ==
    /\ restart
    /\ torn' = torn \cup Handled
    /\ natSweep' = {}
    /\ UNCHANGED <<nat, natOverdue, active, score, reports, failed, announced, late, crossed>>

Report(j, s) ==
    \/ request_punch(j, s)
    \/ \E a \in Addrs : punch_succeeded(j, s, a) \/ validate_connectivity(j, s, a)
    \/ punch_failed(j, s)

Continue(j) ==
    \/ start_punch(j) \/ coordinate(j) \/ record_failure(j) \/ record_success(j)
    \/ promote_load(j) \/ promote_score(j) \/ promote_pick(j) \/ promote_deactivate(j)

NatLoop == expire_load \/ expire_commit

NatStep ==
    \/ \E j \in Jobs : Continue(j) \/ \E s \in NatIds : Report(j, s)
    \/ \E s \in NatIds : nat_deadline_passes(s)
    \/ NatLoop

NatNext ==
    /\ \/ traffic = "nat" /\ NatStep
       \/ /\ IF traffic = "relay" THEN RelayStep ELSE \E j \in Jobs : add_valid_token(j)
          /\ UNCHANGED natVars
       \/ backend_restart
    /\ UNCHANGED traffic

NatSpec == NatInit /\ [][NatNext]_allVars

\* Time passes and the loops of the backend run, whatever the requests do.
NatFairness ==
    /\ \A s \in NatIds : WF_allVars(nat_deadline_passes(s) /\ UNCHANGED traffic)
    /\ WF_allVars(NatLoop /\ UNCHANGED traffic)
    /\ \A r \in Relays : WF_allVars(deadline_passes(r) /\ UNCHANGED <<natVars, traffic>>)
    /\ WF_allVars(RelayLoop /\ UNCHANGED <<natVars, traffic>>)

FairNatSpec == NatSpec /\ NatFairness

-----------------------------------------------------------------------------
(* Properties. *)

\* Promotion leaves the device an active endpoint (nat.py:400-410): only two
\* promotions that both deactivate before either has committed can take
\* all of them away.
EndpointRemains == active # {} \/ crossed

\* A success that was announced to the daemons is in the database once its
\* handler has ended, though the event goes out before the commit
\* (nat.py:176-267): only a request that dies in between breaks it.
AnnouncedIsStored ==
    \A s \in announced : nat[s].established \/ s \in Handled \/ s \in torn

\* A session whose connectivity was established shows a result, not a punch
\* in progress or an expiry, unless the expiry or the start of the punch
\* was committed over a result it had not seen (nat.py:80-113, 453-468).
EstablishedShows ==
    \A s \in NatIds : nat[s].established => nat[s].state \in {"connected", "failed"} \/ late

\* No session stays in progress: reports may be lost and the backend may
\* restart, the loop still ends it (nat.py:453-468).
NatSettles == \A s \in NatIds : InProgress(s) ~> ~ InProgress(s)

\* docs/user-guide.md:775, "Server detects consecutive failures (>=2) and
\* creates a relay session".
FallbackIsCreated ==
    \A s \in NatIds : failed[s] >= 2 => \E r \in Relays : relay[r] # "none"
=============================================================================
