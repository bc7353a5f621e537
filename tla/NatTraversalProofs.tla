-------------------------- MODULE NatTraversalProofs --------------------------
(***************************************************************************)
(* Proofs about the punch sessions and the relay sessions in the database, *)
(* for any number of sessions, endpoints, requests in flight and restarts. *)
(***************************************************************************)
EXTENDS NatTraversal, FiniteSetTheorems, TLAPS

\* What a request in flight will write back, and what it has loaded: a row
\* that was established when it was loaded still is, and one that showed a
\* result still does, unless a commit hid it.
JobInv == \A j \in Jobs :
    /\ job[j].pc \in {"promote", "score", "save"} =>
         /\ job[j].new.established /\ job[j].new.state = "connected"
         /\ job[j].old.established => nat[job[j].nat].established
    /\ job[j].pc = "fail" =>
         job[j].new.state = "failed" /\ job[j].new.established = job[j].old.established
    /\ job[j].pc = "coordinate" =>
         /\ job[j].old.state = "pending" /\ job[j].new.state = "coordinating"
         /\ job[j].new.established = job[j].old.established
    /\ job[j].pc \in {"promote", "score", "save", "fail"} =>
         (job[j].old.state \in {"connected", "failed"} =>
            nat[job[j].nat].state \in {"connected", "failed"} \/ late)

\* An announced success is stored, lost or still to be committed.
AnnouncedInv == \A s \in announced :
    \/ nat[s].established
    \/ s \in torn
    \/ \E j \in Jobs : job[j].pc \in {"promote", "score", "save"} /\ job[j].nat = s

\* Until two of them cross, one request deactivates, and not its own endpoint.
EndpointInv == crossed \/
    /\ Endpoints # {} => active # {}
    /\ \A j \in Jobs : job[j].pc = "deactivate" => job[j].ep \in active /\ job[j].ep \notin job[j].others
    /\ \A j, k \in Jobs : job[j].pc = "deactivate" /\ job[k].pc = "deactivate" => j = k

\* The reports of failure of s that are not committed yet.
Failing(s) == {j \in Jobs : job[j].pc = "fail" /\ job[j].nat = s}

\* The failures answered and to be answered are reports.
FailInv == \A s \in NatIds : IsFiniteSet(Failing(s)) /\ failed[s] + Cardinality(Failing(s)) <= reports[s]

\* The sweep has counted what it has loaded.
CountInv == IsFiniteSet(Uncounted) /\ sweep.active \subseteq sweep.rows /\ GaugeIsExact

-----------------------------------------------------------------------------
(* Requests and rows. *)

AnyJob == {Idle} \cup RelayJob \cup NatJob

\* A request is of the kind that its next step belongs to.
LEMMA JobKinds ==
    ASSUME NEW x \in AnyJob
    PROVE  /\ x.pc = "idle" <=> x = Idle
           /\ x.pc \in {"token", "activate", "count"} <=> x \in RelayJob
           /\ x.pc \in {"start", "coordinate", "promote", "score", "pick", "deactivate", "save", "fail"}
                <=> x \in NatJob
BY DEF AnyJob, Idle, RelayJob, NatJob

\* One request takes a step.
LEMMA GotoEffect ==
    ASSUME job \in [Jobs -> AnyJob], NEW j \in Jobs, NEW x \in AnyJob, goto(j, x)
    PROVE  job' \in [Jobs -> AnyJob] /\ job'[j] = x /\ \A k \in Jobs : k # j => job'[k] = job[k]
BY DEF goto

\* A commit of a request writes what the request has changed.
LEMMA CommitEffect ==
    ASSUME nat \in [NatIds -> NatRow], NEW j \in Jobs, job[j] \in NatJob, commit_nat(j)
    PROVE  LET s == job[j].nat
               o == job[j].old
               n == job[j].new
           IN  /\ nat' \in [NatIds -> NatRow]
               /\ \A t \in NatIds : t # s => nat'[t] = nat[t]
               /\ nat'[s].state = IF n.state # o.state THEN n.state ELSE nat[s].state
               /\ nat'[s].established =
                    IF n.established # o.established THEN n.established ELSE nat[s].established
<1> DEFINE s == job[j].nat
           o == job[j].old
           n == job[j].new
           row == [f \in DOMAIN NoRow |-> IF n[f] # o[f] THEN n[f] ELSE nat[s][f]]
<1>1. s \in NatIds /\ o \in NatRow /\ n \in NatRow /\ nat[s] \in NatRow
  BY DEF NatJob
<1>2. nat' = [nat EXCEPT ![s] = row]
  BY DEF commit_nat
<1>3. DOMAIN NoRow = {"state", "established", "failures"}
  BY DEF NoRow
<1>4. row \in NatRow
  BY <1>1, <1>3 DEF NatRow
<1>5. /\ row.state = IF n.state # o.state THEN n.state ELSE nat[s].state
      /\ row.established = IF n.established # o.established THEN n.established ELSE nat[s].established
  BY <1>3
<1> HIDE DEF row
<1> QED BY <1>1, <1>2, <1>4, <1>5

\* A request that has loaded a row.
LEMMA HandlingType ==
    ASSUME nat \in [NatIds -> NatRow], NEW s \in NatIds, NEW row \in NatRow, NEW addr \in Addrs,
           NEW pc \in {"start", "coordinate", "promote", "score", "pick", "deactivate", "save", "fail"}
    PROVE  /\ handling(pc, s, row, addr) \in NatJob
           /\ handling(pc, s, row, addr).pc = pc /\ handling(pc, s, row, addr).nat = s
           /\ handling(pc, s, row, addr).old = nat[s] /\ handling(pc, s, row, addr).new = row
BY DEF handling, NatJob, SCORE_MAX

\* The boost keeps a score in range.
LEMMA BoostType == \A n \in 0..SCORE_MAX : boosted(n, NoLatency) \in 0..SCORE_MAX
BY DEF boosted, compute_endpoint_score, clamp, least, SCORE_MAX, BASE_SCORE, NoLatency

-----------------------------------------------------------------------------
(* Types. *)

\* Every step of a request for a relay session, and of the sweep, keeps the
\* types of the relay sessions.
LEMMA RelayStepTypes ==
    ASSUME RelayTypeOK, job \in [Jobs -> AnyJob],
           RelayStep \/ \E j \in Jobs : add_valid_token(j)
    PROVE  RelayTypeOK' /\ job' \in [Jobs -> AnyJob]
<1> DEFINE RS == {"none", "pending", "active", "expired"}
           SW == [pc : {"asleep", "commit", "count"}, rows : SUBSET Relays, active : SUBSET Relays]
<1>a. Idle \in AnyJob /\ \A r \in Relays, pc \in {"token", "activate", "count"} : [pc |-> pc, relay |-> r] \in AnyJob
  BY DEF AnyJob, RelayJob
<1>b. \A j \in Jobs : job[j].pc \in {"token", "activate", "count"} => job[j].relay \in Relays
  BY JobKinds DEF RelayJob
<1>1. ASSUME NEW j \in Jobs, NEW r \in Relays, request_relay_session(j, r)
      PROVE  RelayTypeOK' /\ job' \in [Jobs -> AnyJob]
  BY <1>1, <1>a DEF request_relay_session, create_relay_session, goto, RelayTypeOK
<1>2. ASSUME NEW j \in Jobs, NEW r \in Relays, connect_relay_session(j, r)
      PROVE  RelayTypeOK' /\ job' \in [Jobs -> AnyJob]
  BY <1>2, <1>a DEF connect_relay_session, goto, RelayTypeOK, relayVars
<1>3. ASSUME NEW j \in Jobs, add_valid_token(j) PROVE RelayTypeOK' /\ job' \in [Jobs -> AnyJob]
  BY <1>3, <1>a, <1>b DEF add_valid_token, goto, RelayTypeOK
<1>4. ASSUME NEW j \in Jobs, activate_relay_session(j) PROVE RelayTypeOK' /\ job' \in [Jobs -> AnyJob]
  <2>1. job[j] \in RelayJob
    BY <1>4, JobKinds DEF activate_relay_session
  <2>2. [job[j] EXCEPT !.pc = "count"] \in AnyJob
    BY <2>1 DEF AnyJob, RelayJob
  <2>3. job' \in [Jobs -> AnyJob]
    BY <1>4, <2>2 DEF activate_relay_session, goto
  <2>4. relay' \in [Relays -> RS] /\ UNCHANGED <<overdue, gauge, tokens, sweep, restarts>>
    BY <1>4, <1>b DEF activate_relay_session, RelayTypeOK
  <2>5. raced' \in BOOLEAN
    BY <1>4, Zenon DEF activate_relay_session
  <2> QED BY <2>3, <2>4, <2>5 DEF RelayTypeOK
<1>5. ASSUME NEW j \in Jobs, count_active(j) PROVE RelayTypeOK' /\ job' \in [Jobs -> AnyJob]
  BY <1>5, <1>a DEF count_active, goto, RelayTypeOK
<1>6. ASSUME NEW r \in Relays, deadline_passes(r) PROVE RelayTypeOK' /\ job' \in [Jobs -> AnyJob]
  BY <1>6 DEF deadline_passes, RelayTypeOK
<1>7. CASE cleanup_load
  <2>1. Expirable \in SUBSET Relays
    BY DEF Expirable, RelayTypeOK
  <2>2. sweep' \in SW
    BY <1>7, <2>1 DEF cleanup_load
  <2> QED BY <1>7, <2>2 DEF cleanup_load, RelayTypeOK
<1>8. CASE cleanup_commit
  <2>1. raced' \in BOOLEAN
    BY <1>8, Zenon DEF cleanup_commit
  <2>2. relay' \in [Relays -> RS] /\ sweep' \in SW /\ UNCHANGED <<overdue, gauge, tokens, job, restarts>>
    BY <1>8 DEF cleanup_commit, RelayTypeOK
  <2> QED BY <2>1, <2>2 DEF RelayTypeOK
<1>9. CASE cleanup_count
  <2>1. IsFiniteSet(sweep.active)
    BY RestartsAssumption, FS_Subset DEF RelayTypeOK
  <2>2. Cardinality(sweep.active) \in Nat
    BY <2>1, FS_CardinalityType
  <2>3. sweep' \in SW
    BY <1>9 DEF cleanup_count, Asleep
  <2> QED BY <1>9, <2>2, <2>3 DEF cleanup_count, RelayTypeOK
<1> QED BY <1>1, <1>2, <1>3, <1>4, <1>5, <1>6, <1>7, <1>8, <1>9
        DEF RelayStep, RelayJobStep, RelayLoop

\* What the steps of relay sessions leave to the requests of NAT sessions.
LEMMA RelayMoves ==
    ASSUME job \in [Jobs -> AnyJob], RelayStep \/ \E j \in Jobs : add_valid_token(j)
    PROVE  \A k \in Jobs : \/ job'[k] = job[k]
                           \/ /\ job[k].pc \in {"idle", "token", "activate", "count"}
                              /\ job'[k].pc \in {"idle", "token", "activate", "count"}
<1>a. Idle.pc = "idle"
  BY DEF Idle
<1>1. ASSUME NEW j \in Jobs, RelayJobStep(j) \/ add_valid_token(j)
      PROVE  \A k \in Jobs : \/ job'[k] = job[k]
                             \/ /\ job[k].pc \in {"idle", "token", "activate", "count"}
                                /\ job'[k].pc \in {"idle", "token", "activate", "count"}
  <2>1. \A k \in Jobs : k # j => job'[k] = job[k]
    BY <1>1 DEF RelayJobStep, request_relay_session, connect_relay_session, add_valid_token,
       activate_relay_session, count_active, goto
  <2>2. job[j].pc \in {"idle", "token", "activate", "count"}
    BY <1>1, <1>a DEF RelayJobStep, request_relay_session, connect_relay_session, add_valid_token,
       activate_relay_session, count_active
  <2>3. ASSUME job[j].pc = "activate", activate_relay_session(j) PROVE job'[j].pc = "count"
    <3>1. job[j] \in RelayJob
      BY <2>3, JobKinds
    <3> QED BY <2>3, <3>1 DEF activate_relay_session, goto, RelayJob
  <2>4. job'[j].pc \in {"idle", "token", "activate", "count"}
    BY <1>1, <1>a, <2>3 DEF RelayJobStep, request_relay_session, connect_relay_session, add_valid_token,
       activate_relay_session, count_active, goto
  <2> QED BY <2>1, <2>2, <2>4
<1>2. CASE RelayLoop \/ \E r \in Relays : deadline_passes(r)
  BY <1>2 DEF RelayLoop, cleanup_load, cleanup_commit, cleanup_count, deadline_passes
<1> QED BY <1>1, <1>2 DEF RelayStep

\* Every step keeps the types.
LEMMA NextNatTypes == NatTypeOK /\ FailInv /\ [NatNext]_allVars => NatTypeOK'
<1> SUFFICES ASSUME NatTypeOK, FailInv, [NatNext]_allVars PROVE NatTypeOK'
  OBVIOUS
<1> DEFINE Scores == 0..SCORE_MAX
<1>a. /\ RelayTypeOK /\ job \in [Jobs -> AnyJob] /\ nat \in [NatIds -> NatRow]
      /\ active \subseteq Endpoints /\ score \in [Endpoints -> Scores]
      /\ reports \in [NatIds -> 0..MaxReports] /\ failed \in [NatIds -> 0..MaxReports]
  BY DEF NatTypeOK, AnyJob
<1>b. MaxReports \in Nat /\ SCORE_MAX \in Nat /\ NoAddr \in Addrs
  BY EndpointsAssumption DEF SCORE_MAX, Addrs
<1>c. Idle \in AnyJob /\ NatJob \subseteq AnyJob /\ RelayJob \subseteq AnyJob
  BY DEF AnyJob
<1>d. NoRow \in NatRow
  BY <1>b DEF NoRow, NatRow
<1>1. ASSUME UNCHANGED <<traffic, relayVars, restarts, nat, natOverdue, natSweep, active, score, reports, failed,
                         announced, torn, late, crossed>>,
             job' \in [Jobs -> AnyJob]
      PROVE  NatTypeOK'
  BY <1>1 DEF NatTypeOK, RelayTypeOK, AnyJob, relayVars
<1>2. ASSUME NEW j \in Jobs, NEW s \in NatIds, request_punch(j, s), UNCHANGED traffic PROVE NatTypeOK'
  <2>1. nat' \in [NatIds -> NatRow]
    BY <1>2, <1>a DEF request_punch, create_nat_session, NatRow
  <2>2. [NoRow EXCEPT !.state = "coordinating"] \in NatRow
    BY <1>d DEF NatRow
  <2>3. job' \in [Jobs -> AnyJob]
    BY <1>2, <1>a, <1>b, <1>c, <2>2, HandlingType DEF request_punch, goto
  <2> QED BY <1>2, <2>1, <2>3 DEF request_punch, NatTypeOK, RelayTypeOK, AnyJob, relayVars
<1>3. ASSUME NEW j \in Jobs, NEW s \in NatIds, NEW addr \in Addrs,
             report_success(j, s, addr), announced' \in SUBSET NatIds, UNCHANGED traffic
      PROVE  NatTypeOK'
  <2>1. reports' \in [NatIds -> 0..MaxReports]
    BY <1>3, <1>a, <1>b DEF report_success
  <2>2. Connected(s) \in NatRow
    BY <1>a DEF Connected, NatRow
  <2>3. job' \in [Jobs -> AnyJob]
    BY <1>3, <1>a, <1>c, <2>2, HandlingType DEF report_success, goto
  <2> QED BY <1>3, <2>1, <2>3 DEF report_success, NatTypeOK, RelayTypeOK, AnyJob, relayVars
<1>4. ASSUME NEW j \in Jobs, NEW s \in NatIds, punch_failed(j, s), UNCHANGED traffic PROVE NatTypeOK'
  <2>1. reports' \in [NatIds -> 0..MaxReports]
    BY <1>4, <1>a, <1>b DEF punch_failed
  <2>2. [nat[s] EXCEPT !.state = "failed", !.failures = stored_failures(@, @ + 1)] \in NatRow
    BY <1>a DEF stored_failures, NatRow
  <2>3. job' \in [Jobs -> AnyJob]
    BY <1>4, <1>a, <1>b, <1>c, <2>2, HandlingType DEF punch_failed, goto
  <2> QED BY <1>4, <2>1, <2>3 DEF punch_failed, NatTypeOK, RelayTypeOK, AnyJob, relayVars
<1>5. ASSUME NEW j \in Jobs, start_punch(j), UNCHANGED traffic PROVE NatTypeOK'
  <2>1. job[j] \in NatJob
    BY <1>5, <1>a, JobKinds DEF start_punch
  <2>2. nat[job[j].nat] \in NatRow /\ [nat[job[j].nat] EXCEPT !.state = "coordinating"] \in NatRow
    BY <2>1, <1>a DEF NatJob, NatRow
  <2>3. [job[j] EXCEPT !.pc = "coordinate", !.old = nat[job[j].nat],
                       !.new = [nat[job[j].nat] EXCEPT !.state = "coordinating"]] \in NatJob
    BY <2>1, <2>2 DEF NatJob
  <2>4. job' \in [Jobs -> AnyJob]
    BY <1>5, <1>a, <1>c, <2>3 DEF start_punch, goto
  <2> QED BY <1>1, <1>5, <2>4 DEF start_punch, natVars
<1>6. ASSUME NEW j \in Jobs, coordinate(j), UNCHANGED traffic PROVE NatTypeOK'
  <2>1. job[j] \in NatJob
    BY <1>6, <1>a, JobKinds DEF coordinate
  <2>2. nat' \in [NatIds -> NatRow]
    BY <1>6, <1>a, <2>1, CommitEffect DEF coordinate
  <2>3. job' \in [Jobs -> AnyJob]
    BY <1>6, <1>a, <1>c DEF coordinate, goto
  <2>4. late' \in BOOLEAN
    BY <1>6, Zenon DEF coordinate
  <2> QED BY <1>6, <2>2, <2>3, <2>4 DEF coordinate, NatTypeOK, RelayTypeOK, AnyJob, relayVars
<1>7. ASSUME NEW j \in Jobs, record_success(j), UNCHANGED traffic PROVE NatTypeOK'
  <2>1. job[j] \in NatJob
    BY <1>7, <1>a, JobKinds DEF record_success
  <2>2. nat' \in [NatIds -> NatRow]
    BY <1>7, <1>a, <2>1, CommitEffect DEF record_success
  <2>3. job' \in [Jobs -> AnyJob]
    BY <1>7, <1>a, <1>c DEF record_success, goto
  <2> QED BY <1>7, <2>2, <2>3 DEF record_success, NatTypeOK, RelayTypeOK, AnyJob, relayVars
<1>8. ASSUME NEW j \in Jobs, record_failure(j), UNCHANGED traffic PROVE NatTypeOK'
  <2>1. job[j] \in NatJob
    BY <1>8, <1>a, JobKinds DEF record_failure
  <2>2. nat' \in [NatIds -> NatRow]
    BY <1>8, <1>a, <2>1, CommitEffect DEF record_failure
  <2>3. job[j].nat \in NatIds
    BY <2>1 DEF NatJob
  <2>4. failed[job[j].nat] < reports[job[j].nat]
    <3>1. j \in Failing(job[j].nat)
      BY <1>8 DEF record_failure, Failing
    <3>2. /\ Cardinality(Failing(job[j].nat)) \in Nat /\ Cardinality(Failing(job[j].nat)) # 0
          /\ failed[job[j].nat] + Cardinality(Failing(job[j].nat)) <= reports[job[j].nat]
      BY <2>3, <3>1, FS_CardinalityType, FS_EmptySet DEF FailInv
    <3> QED BY <2>3, <3>2, <1>a
  <2>5. failed' \in [NatIds -> 0..MaxReports]
    BY <1>8, <1>a, <1>b, <2>3, <2>4 DEF record_failure
  <2>6. RelayTypeOK' /\ job' \in [Jobs -> AnyJob]
    <3>1. \A r \in Relays : [pc |-> "token", relay |-> r] \in RelayJob
      BY DEF RelayJob
    <3>2. job' \in [Jobs -> AnyJob]
      BY <1>8, <1>a, <1>c, <3>1 DEF record_failure, goto
    <3>3. RelayTypeOK'
      BY <1>8, <1>a DEF record_failure, create_relay_session, relayVars, RelayTypeOK
    <3> QED BY <3>2, <3>3
  <2> QED BY <1>8, <2>2, <2>5, <2>6 DEF record_failure, NatTypeOK, AnyJob
<1>9. ASSUME NEW j \in Jobs, promote_load(j), UNCHANGED traffic PROVE NatTypeOK'
  <2>1. job[j] \in NatJob
    BY <1>9, <1>a, JobKinds DEF promote_load
  <2>2. [job[j] EXCEPT !.pc = "save"] \in NatJob
    BY <2>1 DEF NatJob
  <2>3. \A e \in Endpoints : [job[j] EXCEPT !.pc = "score", !.ep = e, !.score = score[e]] \in NatJob
    BY <2>1, <1>a DEF NatJob
  <2>4. job' \in [Jobs -> AnyJob]
    BY <1>9, <1>a, <1>c, <2>2, <2>3 DEF promote_load, goto
  <2>5. torn' \in SUBSET NatIds
    BY <1>9, <2>1 DEF promote_load, NatTypeOK, NatJob
  <2> QED BY <1>9, <2>4, <2>5 DEF promote_load, NatTypeOK, RelayTypeOK, AnyJob, relayVars
<1>10. ASSUME NEW j \in Jobs, promote_score(j), UNCHANGED traffic PROVE NatTypeOK'
  <2>1. job[j] \in NatJob
    BY <1>10, <1>a, JobKinds DEF promote_score
  <2>2. nat' \in [NatIds -> NatRow]
    BY <1>10, <1>a, <2>1, CommitEffect DEF promote_score
  <2>3. boosted(job[j].score, NoLatency) \in Scores
    BY <2>1, BoostType DEF NatJob
  <2>4. [job[j] EXCEPT !.pc = "pick", !.score = boosted(job[j].score, NoLatency), !.addr = NoAddr,
                       !.old = NoRow, !.new = NoRow] \in NatJob
    BY <2>1, <2>3, <1>b, <1>d DEF NatJob
  <2>5. job' \in [Jobs -> AnyJob]
    BY <1>10, <1>a, <1>c, <2>4 DEF promote_score, goto
  <2>6. score' \in [Endpoints -> Scores]
    BY <1>10, <1>a, <2>3 DEF promote_score
  <2> QED BY <1>10, <2>2, <2>5, <2>6 DEF promote_score, NatTypeOK, RelayTypeOK, AnyJob, relayVars
<1>11. ASSUME NEW j \in Jobs, promote_pick(j), UNCHANGED traffic PROVE NatTypeOK'
  <2>1. job[j] \in NatJob
    BY <1>11, <1>a, JobKinds DEF promote_pick
  <2>2. [job[j] EXCEPT !.pc = "deactivate", !.score = 0, !.others = active \ {job[j].ep}] \in NatJob
    <3>1. 0 \in 0..SCORE_MAX /\ active \ {job[j].ep} \in SUBSET Endpoints
      BY <1>a, <1>b
    <3> QED BY <2>1, <3>1 DEF NatJob
  <2>3. job' \in [Jobs -> AnyJob]
    BY <1>11, <1>a, <1>c, <2>2 DEF promote_pick, goto
  <2>4. crossed' \in BOOLEAN
    BY <1>11, Zenon DEF promote_pick, NatTypeOK
  <2> QED BY <1>11, <2>3, <2>4 DEF promote_pick, NatTypeOK, RelayTypeOK, AnyJob, relayVars
<1>12. ASSUME NEW j \in Jobs, promote_deactivate(j), UNCHANGED traffic PROVE NatTypeOK'
  <2>1. job' \in [Jobs -> AnyJob]
    BY <1>12, <1>a, <1>c DEF promote_deactivate, goto
  <2> QED BY <1>12, <2>1 DEF promote_deactivate, NatTypeOK, RelayTypeOK, AnyJob, relayVars
<1>13. ASSUME NEW s \in NatIds, nat_deadline_passes(s), UNCHANGED traffic PROVE NatTypeOK'
  BY <1>13 DEF nat_deadline_passes, NatTypeOK, RelayTypeOK, relayVars
<1>14. ASSUME expire_load, UNCHANGED traffic PROVE NatTypeOK'
  BY <1>14 DEF expire_load, StaleSessions, NatTypeOK, RelayTypeOK, relayVars
<1>15. ASSUME expire_commit, UNCHANGED traffic PROVE NatTypeOK'
  <2>1. nat' \in [NatIds -> NatRow]
    BY <1>15, <1>a DEF expire_commit, NatRow
  <2>2. late' \in BOOLEAN
    BY <1>15, Zenon DEF expire_commit
  <2> QED BY <1>15, <2>1, <2>2 DEF expire_commit, NatTypeOK, RelayTypeOK, relayVars
<1>16. ASSUME RelayStep \/ \E j \in Jobs : add_valid_token(j), UNCHANGED <<natVars, traffic>> PROVE NatTypeOK'
  BY <1>16, <1>a, RelayStepTypes DEF natVars, NatTypeOK, AnyJob
<1>17. ASSUME backend_restart, UNCHANGED traffic PROVE NatTypeOK'
  <2>1. job' \in [Jobs -> AnyJob]
    BY <1>17, <1>c DEF backend_restart, restart
  <2>2. raced' \in BOOLEAN
    BY <1>17, Zenon DEF backend_restart, restart
  <2>3. sweep' \in [pc : {"asleep", "commit", "count"}, rows : SUBSET Relays, active : SUBSET Relays]
    BY <1>17 DEF backend_restart, restart, Asleep
  <2>4. restarts' \in 0..MaxRestarts /\ gauge' \in Int
    BY <1>17, <1>a, RestartsAssumption DEF backend_restart, restart, RelayTypeOK
  <2>5. RelayTypeOK'
    BY <1>17, <1>a, <2>2, <2>3, <2>4 DEF backend_restart, restart, RelayTypeOK
  <2> QED BY <1>17, <2>1, <2>5 DEF backend_restart, Handled, NatTypeOK, AnyJob
<1>18. CASE UNCHANGED allVars
  BY <1>18 DEF allVars, natVars, NatTypeOK, RelayTypeOK, relayVars
<1>19. ASSUME NEW j \in Jobs, NEW s \in NatIds, Report(j, s), UNCHANGED traffic PROVE NatTypeOK'
  <2>1. ASSUME NEW addr \in Addrs, punch_succeeded(j, s, addr) \/ validate_connectivity(j, s, addr)
        PROVE  NatTypeOK'
    BY <1>3, <1>19, <2>1 DEF punch_succeeded, validate_connectivity, NatTypeOK
  <2> QED BY <1>2, <1>4, <1>19, <2>1 DEF Report
<1> QED BY <1>5, <1>6, <1>7, <1>8, <1>9, <1>10, <1>11, <1>12, <1>13, <1>14, <1>15, <1>16, <1>17, <1>18, <1>19
        DEF NatNext, NatStep, Continue, NatLoop

-----------------------------------------------------------------------------
(* Results. *)

Results == {"connected", "failed"}
Succeeding == {"promote", "score", "save"}

\* The commit of a report takes no result away: it writes the state it
\* reports, or finds the one it has loaded.
LEMMA ReportCommit ==
    ASSUME NatTypeOK, JobInv, EstablishedShows, NEW j \in Jobs,
           job[j].pc \in Succeeding \cup {"fail"}, commit_nat(j), late' = late
    PROVE  /\ \A s \in NatIds : nat[s].established => nat'[s].established
           /\ \A s \in NatIds : nat[s].state \in Results => nat'[s].state \in Results \/ late'
           /\ job[j].pc \in Succeeding => nat'[job[j].nat].established
           /\ EstablishedShows'
<1> DEFINE s == job[j].nat
           o == job[j].old
           n == job[j].new
<1>1. job[j] \in NatJob /\ nat \in [NatIds -> NatRow]
  BY JobKinds DEF NatTypeOK, AnyJob, Succeeding
<1>2. s \in NatIds /\ o \in NatRow /\ n \in NatRow /\ o.established \in BOOLEAN /\ n.established \in BOOLEAN
  BY <1>1 DEF NatJob, NatRow
<1>3. /\ \A t \in NatIds : t # s => nat'[t] = nat[t]
      /\ nat'[s].state = IF n.state # o.state THEN n.state ELSE nat[s].state
      /\ nat'[s].established = IF n.established # o.established THEN n.established ELSE nat[s].established
  BY <1>1, CommitEffect
<1>4. n.state \in Results /\ (o.state \in Results => nat[s].state \in Results \/ late)
  BY DEF JobInv, Succeeding, Results
<1>5. nat'[s].state \in Results \/ late'
  BY <1>3, <1>4
<1>6. nat[s].established => nat'[s].established
  BY <1>3, <1>2 DEF JobInv, Succeeding
<1>7. job[j].pc \in Succeeding => nat'[s].established
  BY <1>3, <1>2 DEF JobInv, Succeeding
<1>8. EstablishedShows'
  BY <1>3, <1>5 DEF EstablishedShows, Results
<1> HIDE DEF s, o, n
<1> QED BY <1>3, <1>5, <1>6, <1>7, <1>8 DEF s

\* The end of a promotion.
LEMMA PromoteMoves ==
    ASSUME NatTypeOK, NEW j \in Jobs, promote_pick(j) \/ promote_deactivate(j)
    PROVE  /\ job[j].pc \in {"pick", "deactivate"} /\ job'[j].pc \in {"deactivate", "idle"}
           /\ \A k \in Jobs : k # j => job'[k] = job[k]
<1>1. job \in [Jobs -> AnyJob] /\ Idle.pc = "idle"
  BY DEF NatTypeOK, AnyJob, Idle
<1>2. job[j] \in NatJob
  BY <1>1, JobKinds DEF promote_pick, promote_deactivate
<1> QED BY <1>1, <1>2 DEF promote_pick, promote_deactivate, goto, NatJob

\* Every step keeps results shown and announced successes stored.
LEMMA NextResults ==
    NatTypeOK /\ JobInv /\ EstablishedShows /\ AnnouncedInv /\ [NatNext]_allVars
        => JobInv' /\ EstablishedShows' /\ AnnouncedInv'
<1> SUFFICES ASSUME NatTypeOK, JobInv, EstablishedShows, AnnouncedInv, [NatNext]_allVars
             PROVE  JobInv' /\ EstablishedShows' /\ AnnouncedInv'
  OBVIOUS
<1> DEFINE Writing == Succeeding \cup {"fail", "coordinate"}
<1>a. job \in [Jobs -> AnyJob] /\ nat \in [NatIds -> NatRow] /\ announced \subseteq NatIds
  BY DEF NatTypeOK, AnyJob
<1>b. Idle.pc = "idle" /\ Idle \in AnyJob /\ NatJob \subseteq AnyJob /\ NoAddr \in Addrs
  BY DEF Idle, AnyJob, Addrs
<1>c. ASSUME NEW j \in Jobs, job'[j].pc \notin Writing, \A k \in Jobs : k # j => job'[k] = job[k],
             \A s \in NatIds : nat[s].established => nat'[s].established,
             \A s \in NatIds : nat[s].state \in Results => nat'[s].state \in Results \/ late',
             late => late'
      PROVE  JobInv'
  <2> SUFFICES ASSUME NEW k \in Jobs, job'[k].pc \in Writing, k # j, job'[k] = job[k]
               PROVE  JobInv!(k)'
    BY <1>c DEF JobInv, Succeeding
  <2>1. job[k].nat \in NatIds
    BY <1>a, JobKinds DEF Succeeding, NatJob
  <2> QED BY <1>c, <2>1 DEF JobInv, Succeeding, Results
<1>1. ASSUME nat' = nat, late' <=> late, announced' = announced, torn' = torn,
             \A k \in Jobs : job'[k] = job[k] \/ (job[k].pc \notin Succeeding /\ job'[k].pc \notin Writing)
      PROVE  JobInv' /\ EstablishedShows' /\ AnnouncedInv'
  <2>1. JobInv'
    BY <1>1 DEF JobInv, Succeeding
  <2>2. EstablishedShows'
    BY <1>1 DEF EstablishedShows
  <2>3. AnnouncedInv'
    BY <1>1 DEF AnnouncedInv, Succeeding
  <2> QED BY <2>1, <2>2, <2>3
<1>2. ASSUME RelayStep \/ \E j \in Jobs : add_valid_token(j), UNCHANGED natVars
      PROVE  JobInv' /\ EstablishedShows' /\ AnnouncedInv'
  BY <1>1, <1>2, <1>a, RelayMoves DEF natVars, Succeeding
<1>3. ASSUME expire_load \/ \E s \in NatIds : nat_deadline_passes(s)
      PROVE  JobInv' /\ EstablishedShows' /\ AnnouncedInv'
  BY <1>1, <1>3 DEF expire_load, nat_deadline_passes
<1>4. CASE UNCHANGED allVars
  BY <1>1, <1>4 DEF allVars, natVars
<1>5. ASSUME NEW j \in Jobs, promote_pick(j) \/ promote_deactivate(j)
      PROVE  JobInv' /\ EstablishedShows' /\ AnnouncedInv'
  <2>2. /\ \A k \in Jobs : k # j => job'[k] = job[k]
        /\ job[j].pc \in {"pick", "deactivate"} /\ job'[j].pc \in {"deactivate", "idle"}
    BY <1>5, PromoteMoves
  <2> QED BY <1>1, <1>5, <2>2 DEF promote_pick, promote_deactivate, Succeeding
<1>6. ASSUME NEW j \in Jobs, NEW s \in NatIds, request_punch(j, s)
      PROVE  JobInv' /\ EstablishedShows' /\ AnnouncedInv'
  <2>1. nat[s].state = "none" /\ nat' = [nat EXCEPT ![s].state = "pending"] /\ UNCHANGED <<late, announced, torn>>
    BY <1>6 DEF request_punch, create_nat_session
  <2>2. /\ \A t \in NatIds : nat'[t].established = nat[t].established
        /\ \A t \in NatIds : t # s => nat'[t] = nat[t]
    BY <2>1, <1>a DEF NatRow
  <2>3. /\ \A k \in Jobs : k # j => job'[k] = job[k]
        /\ job[j].pc = "idle" /\ job'[j].pc = "start"
    BY <1>6, <1>a, <1>b DEF request_punch, goto, handling
  <2>4. \A t \in NatIds : nat[t].state \in Results => nat'[t].state \in Results \/ late'
    BY <2>1, <2>2 DEF Results
  <2>5. JobInv'
    BY <1>c, <2>1, <2>2, <2>3, <2>4 DEF Succeeding
  <2>6. EstablishedShows'
    BY <2>1, <2>2 DEF EstablishedShows
  <2>7. AnnouncedInv'
    BY <1>a, <2>1, <2>2, <2>3 DEF AnnouncedInv
  <2> QED BY <2>5, <2>6, <2>7
<1>7. ASSUME NEW j \in Jobs, NEW s \in NatIds, NEW addr \in Addrs, report_success(j, s, addr),
             announced' \in {announced, announced \cup {s}}
      PROVE  JobInv' /\ EstablishedShows' /\ AnnouncedInv'
  <2>1. UNCHANGED <<nat, late, torn>> /\ job[j].pc = "idle"
    BY <1>7, <1>b DEF report_success
  <2>2. Connected(s) \in NatRow /\ Connected(s).established /\ Connected(s).state = "connected"
    BY <1>a DEF Connected, NatRow
  <2>3. /\ \A k \in Jobs : k # j => job'[k] = job[k]
        /\ job'[j].pc \in {"save", "promote"} /\ job'[j].nat = s
        /\ job'[j].old = nat[s] /\ job'[j].new = Connected(s)
    BY <1>7, <1>a, <2>2, HandlingType DEF report_success, goto
  <2>4. JobInv'
    BY <2>1, <2>2, <2>3 DEF JobInv
  <2>5. EstablishedShows'
    BY <2>1 DEF EstablishedShows
  <2>6. AnnouncedInv'
    BY <1>7, <2>1, <2>3 DEF AnnouncedInv
  <2> QED BY <2>4, <2>5, <2>6
<1>8. ASSUME NEW j \in Jobs, NEW s \in NatIds, punch_failed(j, s)
      PROVE  JobInv' /\ EstablishedShows' /\ AnnouncedInv'
  <2> DEFINE row == [nat[s] EXCEPT !.state = "failed", !.failures = stored_failures(@, @ + 1)]
  <2>1. UNCHANGED <<nat, late, torn, announced>> /\ job[j].pc = "idle"
    BY <1>8, <1>b DEF punch_failed
  <2>2. row \in NatRow /\ row.established = nat[s].established /\ row.state = "failed"
    BY <1>a DEF stored_failures, NatRow
  <2> HIDE DEF row
  <2>3. /\ \A k \in Jobs : k # j => job'[k] = job[k]
        /\ job'[j].pc = "fail" /\ job'[j].nat = s /\ job'[j].old = nat[s] /\ job'[j].new = row
    <3>1. goto(j, handling("fail", s, row, NoAddr))
      BY <1>8 DEF punch_failed, row
    <3> QED BY <1>a, <1>b, <2>2, <3>1, HandlingType DEF goto
  <2>4. JobInv'
    BY <2>1, <2>2, <2>3 DEF JobInv
  <2>5. EstablishedShows'
    BY <2>1 DEF EstablishedShows
  <2>6. AnnouncedInv'
    BY <2>1, <2>3 DEF AnnouncedInv
  <2> QED BY <2>4, <2>5, <2>6
<1>9. ASSUME NEW j \in Jobs, start_punch(j) PROVE JobInv' /\ EstablishedShows' /\ AnnouncedInv'
  <2> DEFINE row == nat[job[j].nat]
  <2>1. job[j] \in NatJob /\ job[j].pc = "start" /\ UNCHANGED <<nat, late, torn, announced>>
    BY <1>9, <1>a, JobKinds DEF start_punch, natVars
  <2>2. row \in NatRow
    BY <2>1, <1>a DEF NatJob
  <2>3. CASE goto(j, Idle)
    <3>1. job'[j].pc = "idle" /\ \A k \in Jobs : k # j => job'[k] = job[k]
      BY <2>3, <1>a, <1>b DEF goto
    <3> QED BY <1>1, <2>1, <3>1 DEF Succeeding
  <2>4. CASE /\ row.state = "pending"
             /\ goto(j, [job[j] EXCEPT !.pc = "coordinate", !.old = row, !.new = [row EXCEPT !.state = "coordinating"]])
    <3> DEFINE new == [row EXCEPT !.state = "coordinating"]
    <3>1. new.state = "coordinating" /\ new.established = row.established
      BY <2>2 DEF NatRow
    <3>2. /\ \A k \in Jobs : k # j => job'[k] = job[k]
          /\ job'[j].pc = "coordinate" /\ job'[j].old = row /\ job'[j].new = new
      BY <2>1, <2>4, <1>a DEF goto, NatJob
    <3> HIDE DEF row, new
    <3>3. JobInv'
      BY <2>1, <2>4, <3>1, <3>2 DEF JobInv
    <3>4. EstablishedShows'
      BY <2>1 DEF EstablishedShows
    <3>5. AnnouncedInv'
      BY <2>1, <3>2 DEF AnnouncedInv
    <3> QED BY <3>3, <3>4, <3>5
  <2> QED BY <1>9, <2>3, <2>4 DEF start_punch
<1>10. ASSUME NEW j \in Jobs, coordinate(j) PROVE JobInv' /\ EstablishedShows' /\ AnnouncedInv'
  <2> DEFINE s == job[j].nat
  <2>1. /\ job[j] \in NatJob /\ job[j].pc = "coordinate" /\ commit_nat(j) /\ UNCHANGED <<torn, announced>>
        /\ late' <=> late \/ ~ InProgress(s)
    BY <1>10, <1>a, JobKinds DEF coordinate
  <2>2. s \in NatIds
    BY <2>1 DEF NatJob
  <2>3. /\ \A t \in NatIds : t # s => nat'[t] = nat[t]
        /\ nat'[s].established = nat[s].established
    BY <2>1, <1>a, CommitEffect DEF JobInv
  <2>4. /\ \A k \in Jobs : k # j => job'[k] = job[k]
        /\ job'[j].pc = "idle"
    BY <1>10, <1>a, <1>b DEF coordinate, goto
  <2>5. nat[s].state \in Results \/ (nat[s].established /\ ~ late) => late'
    BY <2>1, <2>2 DEF InProgress, Results, EstablishedShows
  <2> HIDE DEF s
  <2>6. JobInv'
    BY <1>c, <2>1, <2>2, <2>3, <2>4, <2>5 DEF Succeeding
  <2>7. EstablishedShows'
    BY <2>1, <2>2, <2>3, <2>5 DEF EstablishedShows
  <2>8. AnnouncedInv'
    BY <1>a, <2>1, <2>2, <2>3, <2>4 DEF AnnouncedInv
  <2> QED BY <2>6, <2>7, <2>8
<1>11. ASSUME NEW j \in Jobs, record_failure(j) \/ record_success(j) \/ promote_score(j)
       PROVE  JobInv' /\ EstablishedShows' /\ AnnouncedInv'
  <2>1. /\ job[j].pc \in Succeeding \cup {"fail"} /\ commit_nat(j)
        /\ late' = late /\ torn' = torn /\ announced' = announced
    BY <1>11 DEF record_failure, record_success, promote_score, Succeeding
  <2>2. job[j] \in NatJob
    BY <2>1, <1>a, JobKinds DEF Succeeding
  <2>3. /\ \A k \in Jobs : k # j => job'[k] = job[k]
        /\ job'[j].pc \in {"idle", "token", "pick"}
    <3>1. CASE record_failure(j)
      BY <3>1, <1>a, <1>b DEF record_failure, goto
    <3>2. CASE record_success(j)
      BY <3>2, <1>a, <1>b DEF record_success, goto
    <3>3. CASE promote_score(j)
      BY <3>3, <1>a, <2>2 DEF promote_score, goto, NatJob
    <3> QED BY <1>11, <3>1, <3>2, <3>3
  <2>4. /\ \A s \in NatIds : nat[s].established => nat'[s].established
        /\ \A s \in NatIds : nat[s].state \in Results => nat'[s].state \in Results \/ late'
        /\ job[j].pc \in Succeeding => nat'[job[j].nat].established
        /\ EstablishedShows'
    BY <2>1, ReportCommit
  <2>5. JobInv'
    BY <1>c, <2>1, <2>3, <2>4 DEF Succeeding
  <2>6. AnnouncedInv'
    BY <1>a, <2>1, <2>3, <2>4 DEF AnnouncedInv, Succeeding
  <2> QED BY <2>4, <2>5, <2>6
<1>12. ASSUME NEW j \in Jobs, promote_load(j) PROVE JobInv' /\ EstablishedShows' /\ AnnouncedInv'
  <2>1. job[j] \in NatJob /\ job[j].pc = "promote" /\ nat' = nat /\ late' = late /\ announced' = announced
    BY <1>12, <1>a, JobKinds DEF promote_load
  <2>2. \A k \in Jobs : k # j => job'[k] = job[k]
    BY <1>12, <1>a DEF promote_load, goto
  <2>3. EstablishedShows'
    BY <2>1 DEF EstablishedShows
  <2>4. CASE goto(j, Idle) /\ torn' = torn \cup {job[j].nat}
    <3>1. job'[j].pc = "idle"
      BY <2>4, <1>a, <1>b DEF goto
    <3>2. JobInv'
      BY <1>c, <2>1, <2>2, <3>1 DEF Succeeding
    <3>3. AnnouncedInv'
      BY <2>1, <2>2, <2>4 DEF AnnouncedInv
    <3> QED BY <2>3, <3>2, <3>3
  <2>5. CASE /\ torn' = torn /\ job'[j].pc \in {"save", "score"}
             /\ job'[j].nat = job[j].nat /\ job'[j].old = job[j].old /\ job'[j].new = job[j].new
    <3>1. JobInv'
      BY <2>1, <2>2, <2>5 DEF JobInv
    <3>2. AnnouncedInv'
      BY <2>1, <2>2, <2>5 DEF AnnouncedInv
    <3> QED BY <2>3, <3>1, <3>2
  <2>6. ASSUME goto(j, [job[j] EXCEPT !.pc = "save"])
        PROVE  /\ job'[j].pc \in {"save", "score"}
               /\ job'[j].nat = job[j].nat /\ job'[j].old = job[j].old /\ job'[j].new = job[j].new
    BY <2>1, <2>6, <1>a DEF goto, NatJob
  <2>7. ASSUME NEW e \in Endpoints, goto(j, [job[j] EXCEPT !.pc = "score", !.ep = e, !.score = score[e]])
        PROVE  /\ job'[j].pc \in {"save", "score"}
               /\ job'[j].nat = job[j].nat /\ job'[j].old = job[j].old /\ job'[j].new = job[j].new
    BY <2>1, <2>7, <1>a DEF goto, NatJob
  <2> QED BY <1>12, <2>4, <2>5, <2>6, <2>7 DEF promote_load
<1>13. CASE expire_commit
  <2>1. /\ nat' = [s \in NatIds |-> IF s \in natSweep THEN [nat[s] EXCEPT !.state = "expired"] ELSE nat[s]]
        /\ late' <=> late \/ \E s \in natSweep : ~ InProgress(s)
        /\ job' = job /\ torn' = torn /\ announced' = announced /\ natSweep \subseteq NatIds
    BY <1>13 DEF expire_commit, NatTypeOK
  <2>2. /\ \A s \in NatIds : nat'[s].established = nat[s].established
        /\ \A s \in NatIds : s \notin natSweep => nat'[s] = nat[s]
    BY <2>1, <1>a DEF NatRow
  <2>3. \A s \in natSweep : nat[s].state \in Results \/ (nat[s].established /\ ~ late) => late'
    BY <2>1 DEF InProgress, Results, EstablishedShows
  <2>4. JobInv'
    <3> SUFFICES ASSUME NEW k \in Jobs, job[k].pc \in Writing PROVE JobInv!(k)'
      BY <2>1 DEF JobInv, Succeeding
    <3>1. job[k].nat \in NatIds
      BY <1>a, JobKinds DEF Succeeding, NatJob
    <3>2. nat[job[k].nat].state \in Results => nat'[job[k].nat].state \in Results \/ late'
      BY <2>2, <2>3, <3>1
    <3>3. late => late'
      BY <2>1
    <3> QED BY <2>1, <2>2, <3>1, <3>2, <3>3 DEF JobInv, Succeeding, Results
  <2>5. EstablishedShows'
    <3> SUFFICES ASSUME NEW s \in NatIds, nat'[s].established, ~ late' PROVE nat'[s].state \in Results
      BY DEF EstablishedShows, Results
    <3> QED BY <2>1, <2>2, <2>3 DEF EstablishedShows, Results
  <2>6. AnnouncedInv'
    BY <2>1, <2>2, <1>a DEF AnnouncedInv
  <2> QED BY <2>4, <2>5, <2>6
<1>14. CASE backend_restart
  <2>1. /\ nat' = nat /\ late' = late /\ announced' = announced /\ torn' = torn \cup Handled
        /\ \A k \in Jobs : job'[k].pc = "idle"
    BY <1>14, <1>b DEF backend_restart, restart
  <2>2. JobInv'
    BY <2>1 DEF JobInv
  <2>3. EstablishedShows'
    BY <2>1 DEF EstablishedShows
  <2>4. \A k \in Jobs : job[k].pc \in Succeeding => job[k] \in NatJob
    BY <1>a, JobKinds DEF Succeeding
  <2>5. AnnouncedInv'
    BY <1>a, <2>1, <2>4 DEF AnnouncedInv, Succeeding, Handled
  <2> QED BY <2>2, <2>3, <2>5
<1>15. ASSUME NEW j \in Jobs, NEW s \in NatIds, Report(j, s) PROVE JobInv' /\ EstablishedShows' /\ AnnouncedInv'
  BY <1>6, <1>7, <1>8, <1>15 DEF Report, punch_succeeded, validate_connectivity
<1> QED BY <1>2, <1>3, <1>4, <1>5, <1>9, <1>10, <1>11, <1>12, <1>13, <1>14, <1>15
        DEF NatNext, NatStep, Continue, NatLoop

-----------------------------------------------------------------------------
(* Endpoints and counts. *)

\* The steps of requests that neither deactivate nor count anything.
QuietStep(j) ==
    \/ start_punch(j) \/ coordinate(j) \/ record_success(j) \/ promote_load(j) \/ promote_score(j)
    \/ \E s \in NatIds : \/ request_punch(j, s)
                         \/ \E addr \in Addrs : report_success(j, s, addr)

Counting == {"fail", "deactivate", "count"}

\* Such a step leaves the endpoints, the failures and the relay sessions alone.
LEMMA QuietMoves ==
    ASSUME NatTypeOK, NEW j \in Jobs, QuietStep(j)
    PROVE  /\ job[j].pc \notin Counting /\ job'[j].pc \notin Counting
           /\ \A k \in Jobs : k # j => job'[k] = job[k]
           /\ active' = active /\ failed' = failed /\ crossed' = crossed
           /\ \A s \in NatIds : reports'[s] >= reports[s]
           /\ UNCHANGED relayVars
<1>a. job \in [Jobs -> AnyJob] /\ nat \in [NatIds -> NatRow] /\ reports \in [NatIds -> 0..MaxReports]
  BY DEF NatTypeOK, AnyJob
<1>b. Idle.pc = "idle" /\ MaxReports \in Nat
  BY EndpointsAssumption DEF Idle
<1>1. job[j].pc \notin Counting
  BY <1>b DEF QuietStep, start_punch, coordinate, record_success, promote_load, promote_score,
     request_punch, report_success, Counting
<1>2. \A k \in Jobs : k # j => job'[k] = job[k]
  BY <1>a DEF QuietStep, start_punch, coordinate, record_success, promote_load, promote_score,
     request_punch, report_success, goto
<1>3. active' = active /\ failed' = failed /\ crossed' = crossed /\ UNCHANGED relayVars
  BY DEF QuietStep, start_punch, coordinate, record_success, promote_load, promote_score,
     request_punch, report_success, natVars
<1>4. \A s \in NatIds : reports'[s] >= reports[s]
  <2>1. CASE reports' = reports
    BY <1>a, <2>1
  <2>2. CASE \E s \in NatIds, addr \in Addrs : report_success(j, s, addr)
    BY <1>a, <1>b, <2>2 DEF report_success
  <2> QED BY <2>1, <2>2 DEF QuietStep, start_punch, coordinate, record_success, promote_load, promote_score,
      request_punch, natVars
<1>5. job'[j].pc \notin Counting
  <2>1. CASE coordinate(j) \/ record_success(j)
    BY <1>a, <1>b, <2>1 DEF coordinate, record_success, goto, Counting
  <2>2. CASE \E s \in NatIds : request_punch(j, s) \/ \E addr \in Addrs : report_success(j, s, addr)
    BY <1>a, <2>2 DEF request_punch, report_success, handling, goto, Counting
  <2>3. CASE start_punch(j)
    <3>1. job[j] \in NatJob
      BY <1>a, <2>3, JobKinds DEF start_punch
    <3> QED BY <1>a, <1>b, <2>3, <3>1 DEF start_punch, goto, NatJob, Counting
  <2>4. CASE promote_load(j)
    <3>1. job[j] \in NatJob
      BY <1>a, <2>4, JobKinds DEF promote_load
    <3> QED BY <1>a, <1>b, <2>4, <3>1 DEF promote_load, goto, NatJob, Counting
  <2>5. CASE promote_score(j)
    <3>1. job[j] \in NatJob
      BY <1>a, <2>5, JobKinds DEF promote_score
    <3> QED BY <1>a, <2>5, <3>1 DEF promote_score, goto, NatJob, Counting
  <2> QED BY <2>1, <2>2, <2>3, <2>4, <2>5 DEF QuietStep
<1> QED BY <1>1, <1>2, <1>3, <1>4, <1>5

\* A report of failure is loaded.
LEMMA FailMoves ==
    ASSUME NatTypeOK, NEW j \in Jobs, NEW s \in NatIds, punch_failed(j, s)
    PROVE  /\ job[j].pc = "idle" /\ job'[j].pc = "fail" /\ job'[j].nat = s
           /\ \A k \in Jobs : k # j => job'[k] = job[k]
<1> DEFINE row == [nat[s] EXCEPT !.state = "failed", !.failures = stored_failures(@, @ + 1)]
<1>1. job[j] = Idle /\ goto(j, handling("fail", s, row, NoAddr)) /\ job \in [Jobs -> AnyJob]
  BY DEF punch_failed, NatTypeOK, AnyJob
<1> HIDE DEF row
<1>2. handling("fail", s, row, NoAddr).pc = "fail" /\ handling("fail", s, row, NoAddr).nat = s
  BY DEF handling
<1> QED BY <1>1, <1>2 DEF goto, Idle

\* The steps of the backend, by what they deactivate and count.
LEMMA StepKinds ==
    ASSUME NatTypeOK, [NatNext]_allVars
    PROVE  \/ \E j \in Jobs : QuietStep(j)
           \/ \E j \in Jobs : promote_pick(j) \/ promote_deactivate(j) \/ record_failure(j)
           \/ \E j \in Jobs, s \in NatIds : punch_failed(j, s)
           \/ job' = job /\ UNCHANGED <<active, failed, crossed, reports, relayVars>>
           \/ (RelayStep \/ \E j \in Jobs : add_valid_token(j)) /\ UNCHANGED natVars
           \/ backend_restart
<1>1. CASE NatStep
  BY <1>1 DEF NatStep, Continue, Report, NatLoop, expire_load, expire_commit, nat_deadline_passes,
     punch_succeeded, validate_connectivity, QuietStep
<1>2. CASE UNCHANGED allVars
  BY <1>2 DEF allVars, natVars
<1> QED BY <1>1, <1>2 DEF NatNext

\* Every step leaves an endpoint, unless two promotions cross.
LEMMA NextEndpoints == NatTypeOK /\ EndpointInv /\ [NatNext]_allVars => EndpointInv'
<1> SUFFICES ASSUME NatTypeOK, EndpointInv, [NatNext]_allVars PROVE EndpointInv'
  OBVIOUS
<1>a. job \in [Jobs -> AnyJob] /\ active \subseteq Endpoints
  BY DEF NatTypeOK, AnyJob
<1>b. Idle.pc = "idle"
  BY DEF Idle
<1>1. ASSUME active' = active, crossed' = crossed,
             \A k \in Jobs : job'[k] = job[k] \/ job'[k].pc # "deactivate"
      PROVE  EndpointInv'
  BY <1>1 DEF EndpointInv
<1>2. ASSUME NEW j \in Jobs, QuietStep(j) PROVE EndpointInv'
  BY <1>1, <1>2, QuietMoves DEF Counting
<1>3. CASE (RelayStep \/ \E j \in Jobs : add_valid_token(j)) /\ UNCHANGED natVars
  BY <1>1, <1>3, <1>a, RelayMoves DEF natVars
<1>4. CASE job' = job /\ UNCHANGED <<active, failed, crossed, reports, relayVars>>
  BY <1>1, <1>4
<1>5. CASE backend_restart
  BY <1>1, <1>5, <1>b DEF backend_restart, restart
<1>6. ASSUME NEW j \in Jobs, record_failure(j) \/ \E s \in NatIds : punch_failed(j, s) PROVE EndpointInv'
  <2>1. job'[j].pc \in {"token", "idle", "fail"} /\ \A k \in Jobs : k # j => job'[k] = job[k]
    <3>1. CASE record_failure(j)
      BY <3>1, <1>a, <1>b DEF record_failure, goto
    <3>2. ASSUME NEW s \in NatIds, punch_failed(j, s)
          PROVE  job'[j].pc = "fail" /\ \A k \in Jobs : k # j => job'[k] = job[k]
      BY <3>2, FailMoves
    <3> QED BY <1>6, <3>1, <3>2
  <2> QED BY <1>1, <1>6, <2>1 DEF record_failure, punch_failed
<1>7. ASSUME NEW j \in Jobs, promote_deactivate(j) PROVE EndpointInv'
  <2>1. /\ active' = active \ job[j].others /\ job[j].pc = "deactivate" /\ crossed' = crossed
        /\ job'[j].pc = "idle" /\ \A k \in Jobs : k # j => job'[k] = job[k]
    BY <1>7, <1>a, <1>b DEF promote_deactivate, goto
  <2>2. CASE crossed
    BY <2>1, <2>2 DEF EndpointInv
  <2>3. CASE ~ crossed
    <3>1. \A k \in Jobs : job'[k].pc # "deactivate"
      BY <2>1, <2>3 DEF EndpointInv
    <3>2. job[j].ep \in active'
      BY <2>1, <2>3 DEF EndpointInv
    <3> QED BY <3>1, <3>2 DEF EndpointInv
  <2> QED BY <2>2, <2>3
<1>8. ASSUME NEW j \in Jobs, promote_pick(j) PROVE EndpointInv'
  <2>1. job[j] \in NatJob /\ active' = active
    BY <1>8, <1>a, JobKinds DEF promote_pick
  <2>2. CASE goto(j, Idle) /\ crossed' = crossed
    <3>1. job'[j].pc = "idle" /\ \A k \in Jobs : k # j => job'[k] = job[k]
      BY <2>2, <1>a, <1>b DEF goto
    <3> QED BY <1>1, <2>1, <2>2, <3>1
  <2>3. CASE /\ \E own \in {job[j].score, score[job[j].ep]} : job[j].ep \in Best(j, own)
             /\ goto(j, [job[j] EXCEPT !.pc = "deactivate", !.score = 0, !.others = active \ {job[j].ep}])
             /\ crossed' = (crossed \/ \E k \in Jobs : job[k].pc = "deactivate")
    <3>1. job[j].ep \in active
      BY <2>3 DEF Best
    <3>2. /\ \A k \in Jobs : k # j => job'[k] = job[k]
          /\ job'[j].ep = job[j].ep /\ job'[j].others = active \ {job[j].ep}
      BY <2>1, <2>3, <1>a DEF goto, NatJob
    <3>3. CASE crossed \/ \E k \in Jobs : job[k].pc = "deactivate"
      BY <2>3, <3>3 DEF EndpointInv
    <3>4. CASE ~ crossed /\ \A k \in Jobs : job[k].pc # "deactivate"
      <4>1. \A k \in Jobs : job'[k].pc = "deactivate" => k = j
        BY <3>2, <3>4
      <4> QED BY <2>1, <3>1, <3>2, <3>4, <4>1 DEF EndpointInv
    <3> QED BY <3>3, <3>4
  <2> QED BY <1>8, <2>2, <2>3 DEF promote_pick
<1> QED BY <1>2, <1>3, <1>4, <1>5, <1>6, <1>7, <1>8, StepKinds

\* Every step keeps the failures within the reports.
LEMMA NextFails == NatTypeOK /\ FailInv /\ [NatNext]_allVars => FailInv'
<1> SUFFICES ASSUME NatTypeOK, FailInv, [NatNext]_allVars PROVE FailInv'
  OBVIOUS
<1>a. /\ job \in [Jobs -> AnyJob] /\ MaxReports \in Nat
      /\ reports \in [NatIds -> 0..MaxReports] /\ failed \in [NatIds -> 0..MaxReports]
  BY EndpointsAssumption DEF NatTypeOK, AnyJob
<1>b. Idle.pc = "idle"
  BY DEF Idle
<1>c. \A s \in NatIds : /\ failed[s] \in Nat /\ reports[s] \in Nat /\ IsFiniteSet(Failing(s))
                        /\ Cardinality(Failing(s)) \in Nat
                        /\ failed[s] + Cardinality(Failing(s)) <= reports[s]
  BY <1>a, FS_CardinalityType DEF FailInv
<1>1. ASSUME failed' = failed, reports' = reports \/ \A s \in NatIds : reports'[s] >= reports[s],
             \A s \in NatIds : reports'[s] \in Nat,
             \A k \in Jobs : job'[k] = job[k] \/ (job[k].pc # "fail" /\ job'[k].pc # "fail")
      PROVE  FailInv'
  <2>1. \A s \in NatIds : Failing(s)' = Failing(s)
    BY <1>1 DEF Failing
  <2>2. \A s \in NatIds : reports'[s] >= reports[s]
    BY <1>1, <1>c
  <2> QED BY <1>1, <1>c, <2>1, <2>2 DEF FailInv
<1>d. \A s \in NatIds : reports'[s] \in Nat
  <2>1. NatTypeOK'
    BY NextNatTypes
  <2> QED BY <2>1, <1>a DEF NatTypeOK
<1>2. ASSUME NEW j \in Jobs, QuietStep(j) PROVE FailInv'
  BY <1>1, <1>2, <1>d, QuietMoves DEF Counting
<1>3. CASE (RelayStep \/ \E j \in Jobs : add_valid_token(j)) /\ UNCHANGED natVars
  BY <1>1, <1>3, <1>a, <1>d, RelayMoves DEF natVars
<1>4. CASE job' = job /\ UNCHANGED <<active, failed, crossed, reports, relayVars>>
  BY <1>1, <1>4, <1>d
<1>5. CASE backend_restart
  <2>1. failed' = failed /\ reports' = reports /\ \A s \in NatIds : Failing(s)' = {}
    BY <1>5, <1>b DEF backend_restart, restart, Failing
  <2>2. \A s \in NatIds : failed[s] <= reports[s]
    BY <1>c
  <2>3. \A s \in NatIds : IsFiniteSet(Failing(s)') /\ Cardinality(Failing(s)') = 0
    BY <2>1, FS_EmptySet
  <2>4. \A s \in NatIds : IsFiniteSet(Failing(s)') /\ failed'[s] + Cardinality(Failing(s)') <= reports'[s]
    BY <2>1, <2>2, <2>3, <1>c
  <2> QED BY <2>4 DEF FailInv
<1>6. ASSUME NEW j \in Jobs, promote_pick(j) \/ promote_deactivate(j) PROVE FailInv'
  <2>2. /\ \A k \in Jobs : k # j => job'[k] = job[k]
        /\ job[j].pc \in {"pick", "deactivate"} /\ job'[j].pc \in {"deactivate", "idle"}
    BY <1>6, PromoteMoves
  <2> QED BY <1>1, <1>6, <1>d, <2>2 DEF promote_pick, promote_deactivate
<1>7. ASSUME NEW j \in Jobs, NEW s \in NatIds, punch_failed(j, s) PROVE FailInv'
  <2>1. reports' = [reports EXCEPT ![s] = reports[s] + 1] /\ failed' = failed
    BY <1>7 DEF punch_failed
  <2>2. Failing(s)' = Failing(s) \cup {j} /\ j \notin Failing(s) /\ \A t \in NatIds \ {s} : Failing(t)' = Failing(t)
    BY <1>7, FailMoves DEF Failing
  <2>3. IsFiniteSet(Failing(s)') /\ Cardinality(Failing(s)') = Cardinality(Failing(s)) + 1
    BY <1>c, <2>2, FS_AddElement
  <2>4. failed'[s] + Cardinality(Failing(s)') <= reports'[s]
    BY <1>a, <1>c, <2>1, <2>3
  <2>5. ASSUME NEW t \in NatIds
        PROVE  IsFiniteSet(Failing(t)') /\ failed'[t] + Cardinality(Failing(t)') <= reports'[t]
    <3>1. CASE t = s
      BY <2>3, <2>4, <3>1
    <3>2. CASE t # s
      BY <1>a, <1>c, <2>1, <2>2, <3>2
    <3> QED BY <3>1, <3>2
  <2> QED BY <2>5 DEF FailInv
<1>8. ASSUME NEW j \in Jobs, record_failure(j) PROVE FailInv'
  <2>1. job[j] \in NatJob /\ job[j].pc = "fail"
    BY <1>8, <1>a, JobKinds DEF record_failure
  <2>2. PICK s \in NatIds : s = job[j].nat
    BY <2>1 DEF NatJob
  <2>3. failed' = [failed EXCEPT ![s] = failed[s] + 1] /\ reports' = reports
    BY <1>8, <2>2 DEF record_failure
  <2>4. job'[j].pc \in {"token", "idle"} /\ \A k \in Jobs : k # j => job'[k] = job[k]
    BY <1>8, <1>a, <1>b DEF record_failure, goto
  <2>5. Failing(s)' = Failing(s) \ {j} /\ j \in Failing(s) /\ \A t \in NatIds \ {s} : Failing(t)' = Failing(t)
    BY <2>1, <2>2, <2>4 DEF Failing
  <2>6. IsFiniteSet(Failing(s)') /\ Cardinality(Failing(s)') = Cardinality(Failing(s)) - 1
    BY <1>c, <2>5, FS_RemoveElement
  <2>7. failed'[s] + Cardinality(Failing(s)') <= reports'[s]
    BY <1>a, <1>c, <2>3, <2>6
  <2>8. ASSUME NEW t \in NatIds
        PROVE  IsFiniteSet(Failing(t)') /\ failed'[t] + Cardinality(Failing(t)') <= reports'[t]
    <3>1. CASE t = s
      BY <2>6, <2>7, <3>1
    <3>2. CASE t # s
      BY <1>a, <1>c, <2>3, <2>5, <3>2
    <3> QED BY <3>1, <3>2
  <2> QED BY <2>8 DEF FailInv
<1> QED BY <1>2, <1>3, <1>4, <1>5, <1>6, <1>7, <1>8, StepKinds

\* The rows that are active.
ActiveRows == {r \in Relays : relay[r] = "active"}

\* Every step keeps the gauge in step with the rows, until a commit
\* overwrites what it has not seen.
LEMMA NextCounts == NatTypeOK /\ CountInv /\ [NatNext]_allVars => CountInv'
<1> SUFFICES ASSUME NatTypeOK, CountInv, [NatNext]_allVars PROVE CountInv'
  OBVIOUS
<1>a. /\ job \in [Jobs -> AnyJob] /\ relay \in [Relays -> {"none", "pending", "active", "expired"}]
      /\ gauge \in Int /\ IsFiniteSet(Relays)
      /\ sweep \in [pc : {"asleep", "commit", "count"}, rows : SUBSET Relays, active : SUBSET Relays]
  BY RestartsAssumption DEF NatTypeOK, RelayTypeOK, AnyJob
<1>b. Idle.pc = "idle" /\ Asleep.pc = "asleep" /\ Asleep.rows = {} /\ Asleep.active = {}
  BY DEF Idle, Asleep
<1>c. /\ IsFiniteSet(Uncounted) /\ Cardinality(Uncounted) \in Nat
      /\ IsFiniteSet(ActiveRows) /\ Cardinality(ActiveRows) \in Nat
      /\ IsFiniteSet(sweep.active) /\ Cardinality(sweep.active) \in Nat
      /\ sweep.active \subseteq sweep.rows /\ sweep.rows \subseteq Relays
  <2>1. ActiveRows \in SUBSET Relays /\ sweep.active \in SUBSET Relays
    BY <1>a DEF ActiveRows
  <2> QED BY <1>a, <2>1, FS_Subset, FS_CardinalityType DEF CountInv
<1>d. raced \/ gauge = Cardinality(ActiveRows) - Cardinality(Uncounted) + Cardinality(Overcounted)
  BY DEF CountInv, GaugeIsExact, ActiveRows
<1>e. ASSUME IsFiniteSet(Uncounted'), sweep'.active \subseteq sweep'.rows,
             raced' \/ gauge' = Cardinality(ActiveRows') - Cardinality(Uncounted') + Cardinality(Overcounted')
      PROVE  CountInv'
  BY <1>e DEF CountInv, GaugeIsExact, ActiveRows
<1>1. ASSUME UNCHANGED <<gauge, sweep, raced>>, ActiveRows' = ActiveRows,
             \A k \in Jobs : job'[k] = job[k] \/ (job[k].pc # "count" /\ job'[k].pc # "count")
      PROVE  CountInv'
  <2>1. Uncounted' = Uncounted
    BY <1>1 DEF Uncounted
  <2>2. Overcounted' = Overcounted
    BY <1>1 DEF Overcounted
  <2> QED BY <1>1, <1>c, <1>d, <1>e, <2>1, <2>2
<1>2. ASSUME NEW j \in Jobs, QuietStep(j) PROVE CountInv'
  <2>1. ActiveRows' = ActiveRows
    BY <1>2, QuietMoves DEF relayVars, ActiveRows
  <2> QED BY <1>1, <1>2, <2>1, QuietMoves DEF relayVars, Counting
<1>3. CASE job' = job /\ UNCHANGED <<active, failed, crossed, reports, relayVars>>
  <2>1. ActiveRows' = ActiveRows
    BY <1>3 DEF relayVars, ActiveRows
  <2> QED BY <1>1, <1>3, <2>1 DEF relayVars
<1>4. ASSUME NEW j \in Jobs, promote_pick(j) \/ promote_deactivate(j) PROVE CountInv'
  <2>2. /\ \A k \in Jobs : k # j => job'[k] = job[k]
        /\ job[j].pc \in {"pick", "deactivate"} /\ job'[j].pc \in {"deactivate", "idle"}
    BY <1>4, PromoteMoves
  <2>3. UNCHANGED <<gauge, sweep, raced>> /\ ActiveRows' = ActiveRows
    BY <1>4 DEF promote_pick, promote_deactivate, relayVars, ActiveRows
  <2> QED BY <1>1, <2>2, <2>3
<1>5. ASSUME NEW j \in Jobs, NEW s \in NatIds, punch_failed(j, s) PROVE CountInv'
  <2>1. UNCHANGED <<gauge, sweep, raced>> /\ ActiveRows' = ActiveRows
    BY <1>5 DEF punch_failed, relayVars, ActiveRows
  <2> QED BY <1>1, <1>5, <2>1, FailMoves
<1>6. ASSUME NEW r \in Relays, create_relay_session(r)
      PROVE  UNCHANGED <<gauge, sweep, raced>> /\ ActiveRows' = ActiveRows
  BY <1>6, <1>a DEF create_relay_session, ActiveRows
<1>7. ASSUME NEW j \in Jobs, record_failure(j) PROVE CountInv'
  <2>1. /\ job[j].pc = "fail" /\ job'[j].pc \in {"token", "idle"}
        /\ \A k \in Jobs : k # j => job'[k] = job[k]
    BY <1>7, <1>a, <1>b DEF record_failure, goto
  <2>2. UNCHANGED <<gauge, sweep, raced>> /\ ActiveRows' = ActiveRows
    <3>1. CASE UNCHANGED relayVars
      BY <3>1 DEF relayVars, ActiveRows
    <3> QED BY <1>6, <1>7, <3>1 DEF record_failure
  <2> QED BY <1>1, <2>1, <2>2
<1>8. ASSUME NEW j \in Jobs, NEW r \in Relays, request_relay_session(j, r) PROVE CountInv'
  <2>1. /\ job[j].pc = "idle" /\ job'[j].pc = "token"
        /\ \A k \in Jobs : k # j => job'[k] = job[k]
    BY <1>8, <1>a, <1>b DEF request_relay_session, goto
  <2>2. create_relay_session(r)
    BY <1>8 DEF request_relay_session
  <2> QED BY <1>1, <1>6, <2>1, <2>2
<1>9. ASSUME NEW j \in Jobs, add_valid_token(j) \/ \E r \in Relays : connect_relay_session(j, r) PROVE CountInv'
  <2>1. /\ job[j].pc \in {"idle", "token"} /\ job'[j].pc \in {"idle", "activate"}
        /\ \A k \in Jobs : k # j => job'[k] = job[k]
    BY <1>9, <1>a, <1>b DEF add_valid_token, connect_relay_session, goto
  <2>2. UNCHANGED <<gauge, sweep, raced>> /\ ActiveRows' = ActiveRows
    BY <1>9 DEF add_valid_token, connect_relay_session, relayVars, ActiveRows
  <2> QED BY <1>1, <2>1, <2>2
<1>10. ASSUME NEW j \in Jobs, activate_relay_session(j) PROVE CountInv'
  <2>1. job[j] \in RelayJob /\ job[j].pc = "activate"
    BY <1>10, <1>a, JobKinds DEF activate_relay_session
  <2>2. PICK r \in Relays : r = job[j].relay
    BY <2>1 DEF RelayJob
  <2>3. /\ relay' = [relay EXCEPT ![r] = "active"] /\ gauge' = gauge /\ sweep' = sweep
        /\ raced' <=> raced \/ relay[r] # "pending"
        /\ job'[j].pc = "count" /\ \A k \in Jobs : k # j => job'[k] = job[k]
    BY <1>10, <1>a, <2>1, <2>2 DEF activate_relay_session, goto, RelayJob
  <2>4. Uncounted' = Uncounted \cup {j} /\ j \notin Uncounted /\ Overcounted' = Overcounted
    BY <2>1, <2>3 DEF Uncounted, Overcounted
  <2>5. IsFiniteSet(Uncounted') /\ Cardinality(Uncounted') = Cardinality(Uncounted) + 1
    BY <1>c, <2>4, FS_AddElement
  <2>6. ActiveRows' = ActiveRows \cup {r} /\ (relay[r] = "pending" => r \notin ActiveRows)
    BY <1>a, <2>3 DEF ActiveRows
  <2>7. relay[r] = "pending" => Cardinality(ActiveRows') = Cardinality(ActiveRows) + 1
    BY <1>c, <2>6, FS_AddElement
  <2>8. Cardinality(Overcounted) \in Nat
    BY <1>c, FS_EmptySet DEF Overcounted
  <2>9. raced' \/ gauge' = Cardinality(ActiveRows') - Cardinality(Uncounted') + Cardinality(Overcounted')
    BY <1>a, <1>c, <1>d, <2>3, <2>4, <2>5, <2>7, <2>8
  <2> QED BY <1>c, <1>e, <2>3, <2>5, <2>9
<1>11. ASSUME NEW j \in Jobs, count_active(j) PROVE CountInv'
  <2>1. /\ job[j].pc = "count" /\ gauge' = gauge + 1 /\ UNCHANGED <<relay, sweep, raced>>
        /\ job'[j].pc = "idle" /\ \A k \in Jobs : k # j => job'[k] = job[k]
    BY <1>11, <1>a, <1>b DEF count_active, goto
  <2>2. Uncounted' = Uncounted \ {j} /\ j \in Uncounted /\ Overcounted' = Overcounted /\ ActiveRows' = ActiveRows
    BY <2>1 DEF Uncounted, Overcounted, ActiveRows
  <2>3. IsFiniteSet(Uncounted') /\ Cardinality(Uncounted') = Cardinality(Uncounted) - 1
    BY <1>c, <2>2, FS_RemoveElement
  <2>4. Cardinality(Overcounted) \in Nat
    BY <1>c, FS_EmptySet DEF Overcounted
  <2>5. raced' \/ gauge' = Cardinality(ActiveRows') - Cardinality(Uncounted') + Cardinality(Overcounted')
    BY <1>a, <1>c, <1>d, <2>1, <2>2, <2>3, <2>4
  <2> QED BY <1>c, <1>e, <2>1, <2>3, <2>5
<1>12. ASSUME NEW r \in Relays, deadline_passes(r) PROVE CountInv'
  <2>1. job' = job /\ UNCHANGED <<gauge, sweep, raced>> /\ ActiveRows' = ActiveRows
    BY <1>12 DEF deadline_passes, ActiveRows
  <2> QED BY <1>1, <2>1
<1>13. CASE cleanup_load
  <2>1. /\ sweep.pc = "asleep" /\ sweep'.pc = "commit" /\ UNCHANGED <<relay, gauge, job, raced>>
        /\ sweep'.rows = Expirable /\ sweep'.active = {r \in Expirable : relay[r] = "active"}
    BY <1>13 DEF cleanup_load
  <2>2. Uncounted' = Uncounted /\ ActiveRows' = ActiveRows /\ Overcounted' = Overcounted
    BY <2>1 DEF Uncounted, ActiveRows, Overcounted
  <2>3. sweep'.active \subseteq sweep'.rows
    BY <2>1
  <2> QED BY <1>c, <1>d, <1>e, <2>1, <2>2, <2>3
<1>14. CASE cleanup_commit
  <2>1. /\ sweep.pc = "commit" /\ UNCHANGED <<gauge, job>>
        /\ relay' = [r \in Relays |-> IF r \in sweep.rows THEN "expired" ELSE relay[r]]
        /\ raced' <=> raced \/ \E r \in sweep.rows :
                                 relay[r] # (IF r \in sweep.active THEN "active" ELSE "pending")
        /\ sweep' = [sweep EXCEPT !.pc = "count"]
    BY <1>14 DEF cleanup_commit
  <2>2. sweep'.pc = "count" /\ sweep'.rows = sweep.rows /\ sweep'.active = sweep.active
    BY <1>a, <2>1
  <2>3. Uncounted' = Uncounted /\ Overcounted = {} /\ Overcounted' = sweep.active
    BY <2>1, <2>2 DEF Uncounted, Overcounted
  <2>4. CASE raced'
    BY <1>c, <1>e, <2>2, <2>3, <2>4
  <2>5. CASE ~ raced'
    <3>1. ActiveRows' = ActiveRows \ sweep.active /\ ActiveRows \cap sweep.active = sweep.active
      BY <1>a, <1>c, <2>1, <2>5 DEF ActiveRows
    <3>2. Cardinality(ActiveRows') = Cardinality(ActiveRows) - Cardinality(sweep.active)
      <4>1. Cardinality(ActiveRows \ sweep.active)
              = Cardinality(ActiveRows) - Cardinality(ActiveRows \cap sweep.active)
        BY <1>c, FS_Difference
      <4> QED BY <3>1, <4>1
    <3>3. gauge = Cardinality(ActiveRows) - Cardinality(Uncounted) + 0
      BY <1>d, <2>1, <2>3, <2>5, FS_EmptySet
    <3>4. gauge' = Cardinality(ActiveRows') - Cardinality(Uncounted') + Cardinality(Overcounted')
      BY <1>a, <1>c, <2>1, <2>3, <3>2, <3>3
    <3> QED BY <1>c, <1>e, <2>2, <2>3, <3>4
  <2> QED BY <2>4, <2>5
<1>15. CASE cleanup_count
  <2>1. /\ sweep.pc = "count" /\ gauge' = gauge - Cardinality(sweep.active) /\ sweep' = Asleep
        /\ UNCHANGED <<relay, job, raced>>
    BY <1>15 DEF cleanup_count
  <2>2. Uncounted' = Uncounted /\ ActiveRows' = ActiveRows /\ Overcounted = sweep.active /\ Overcounted' = {}
    BY <1>b, <2>1 DEF Uncounted, ActiveRows, Overcounted
  <2>3. Cardinality(Overcounted') = 0
    BY <2>2, FS_EmptySet
  <2>4. raced' \/ gauge' = Cardinality(ActiveRows') - Cardinality(Uncounted') + Cardinality(Overcounted')
    BY <1>a, <1>c, <1>d, <2>1, <2>2, <2>3
  <2> QED BY <1>b, <1>c, <1>e, <2>1, <2>2, <2>4
<1>16. CASE backend_restart
  <2>1. /\ sweep' = Asleep /\ gauge' = 0 /\ relay' = relay /\ \A k \in Jobs : job'[k].pc = "idle"
        /\ raced' <=> raced \/ \E r \in Relays : relay[r] = "active"
    BY <1>16, <1>b DEF backend_restart, restart
  <2>2. Uncounted' = {} /\ Overcounted' = {} /\ (raced' \/ ActiveRows' = {})
    BY <1>b, <2>1 DEF Uncounted, Overcounted, ActiveRows
  <2>3. Cardinality({}) = 0 /\ IsFiniteSet({})
    BY FS_EmptySet
  <2>4. raced' \/ gauge' = Cardinality(ActiveRows') - Cardinality(Uncounted') + Cardinality(Overcounted')
    BY <2>1, <2>2, <2>3
  <2> QED BY <1>b, <1>e, <2>1, <2>2, <2>3, <2>4
<1>17. CASE RelayStep \/ \E j \in Jobs : add_valid_token(j)
  BY <1>8, <1>9, <1>10, <1>11, <1>12, <1>13, <1>14, <1>15, <1>17 DEF RelayStep, RelayJobStep, RelayLoop
<1> QED BY <1>2, <1>3, <1>4, <1>5, <1>7, <1>16, <1>17, StepKinds

-----------------------------------------------------------------------------
(* The theorems. *)

\* The inductive invariant: the types need the failures within the reports,
\* and the properties need what the requests in flight will write back.
NatInv == NatTypeOK /\ JobInv /\ EstablishedShows /\ AnnouncedInv /\ EndpointInv /\ FailInv /\ CountInv

\* At first there are no sessions, and every endpoint is active.
LEMMA InitNat == NatInit => NatInv
<1> SUFFICES ASSUME NatInit PROVE NatInv
  OBVIOUS
<1>a. Idle.pc = "idle" /\ Asleep.pc = "asleep" /\ Asleep.rows = {} /\ Asleep.active = {}
  BY DEF Idle, Asleep
<1>b. \A j \in Jobs : job[j] = Idle /\ job[j].pc = "idle"
  BY <1>a DEF NatInit, RelayInit
<1>c. MaxReports \in Nat /\ MaxRestarts \in Nat /\ IsFiniteSet(Relays) /\ InitScores \subseteq 0..SCORE_MAX
  BY EndpointsAssumption, RestartsAssumption
<1>1. RelayTypeOK
  <2>1. sweep \in [pc : {"asleep", "commit", "count"}, rows : SUBSET Relays, active : SUBSET Relays]
    BY DEF NatInit, RelayInit, Asleep
  <2>2. raced \in BOOLEAN
    BY DEF NatInit, RelayInit
  <2> QED BY <1>c, <2>1, <2>2 DEF NatInit, RelayInit, RelayTypeOK
<1>2. NatTypeOK
  <2>1. NoRow \in NatRow
    BY <1>c DEF NoRow, NatRow
  <2>2. nat \in [NatIds -> NatRow] /\ job \in [Jobs -> {Idle} \cup RelayJob \cup NatJob]
    BY <2>1 DEF NatInit, RelayInit
  <2>3. score \in [Endpoints -> 0..SCORE_MAX]
    BY <1>c DEF NatInit
  <2>4. late \in BOOLEAN /\ crossed \in BOOLEAN
    BY DEF NatInit
  <2> QED BY <1>1, <1>c, <2>2, <2>3, <2>4 DEF NatInit, NatTypeOK
<1>3. JobInv /\ AnnouncedInv /\ EndpointInv
  BY <1>b DEF NatInit, JobInv, AnnouncedInv, EndpointInv
<1>4. EstablishedShows
  BY DEF NatInit, NoRow, EstablishedShows
<1>5. FailInv
  <2>1. \A s \in NatIds : Failing(s) = {} /\ failed[s] = 0 /\ reports[s] = 0
    BY <1>b DEF NatInit, Failing
  <2> QED BY <2>1, FS_EmptySet DEF FailInv
<1>6. CountInv
  <2>1. Uncounted = {} /\ Overcounted = {} /\ {r \in Relays : relay[r] = "active"} = {} /\ gauge = 0
    BY <1>a, <1>b DEF NatInit, RelayInit, Uncounted, Overcounted
  <2>2. Cardinality({}) = 0 /\ IsFiniteSet({})
    BY FS_EmptySet
  <2> QED BY <1>a, <2>1, <2>2 DEF NatInit, RelayInit, CountInv, GaugeIsExact
<1> QED BY <1>2, <1>3, <1>4, <1>5, <1>6 DEF NatInv

\* The invariant survives every step.
LEMMA NextNat == NatInv /\ [NatNext]_allVars => NatInv'
BY NextNatTypes, NextResults, NextEndpoints, NextFails, NextCounts DEF NatInv

\* The rows, the requests in flight and the counters always have their types.
THEOREM TypeCorrect == NatSpec => []NatTypeOK
<1>1. NatInv => NatTypeOK BY DEF NatInv
<1> QED BY InitNat, NextNat, <1>1, PTL DEF NatSpec

\* An announced success is in the database once its handler has ended,
\* whatever other reports, sweeps and restarts come in between.
THEOREM AnnouncedAreStored == NatSpec => []AnnouncedIsStored
<1>1. NatInv => AnnouncedIsStored
  <2>1. NatTypeOK => \A j \in Jobs : job[j].pc \in Succeeding => job[j] \in NatJob
    BY JobKinds DEF NatTypeOK, AnyJob, Succeeding
  <2> QED BY <2>1 DEF NatInv, AnnouncedInv, AnnouncedIsStored, Handled, Succeeding, NatTypeOK
<1> QED BY InitNat, NextNat, <1>1, PTL DEF NatSpec

\* An established session shows its result, unless a commit hid it.
THEOREM EstablishedAlwaysShows == NatSpec => []EstablishedShows
<1>1. NatInv => EstablishedShows BY DEF NatInv
<1> QED BY InitNat, NextNat, <1>1, PTL DEF NatSpec

\* A device with endpoints keeps an active one, unless two promotions cross.
THEOREM EndpointAlwaysRemains ==
    ASSUME Endpoints # {}
    PROVE  NatSpec => []EndpointRemains
<1>1. NatInv => EndpointRemains BY DEF NatInv, EndpointInv, EndpointRemains
<1> QED BY InitNat, NextNat, <1>1, PTL DEF NatSpec

\* The gauge of active relay connections agrees with the rows until a commit
\* overwrites what it has not seen, for any number of sessions and requests.
THEOREM GaugeAlwaysExact == NatSpec => []GaugeIsExact
<1>1. NatInv => GaugeIsExact BY DEF NatInv, CountInv
<1> QED BY InitNat, NextNat, <1>1, PTL DEF NatSpec
=============================================================================
