------------------------------ MODULE Endpoints ------------------------------
(***************************************************************************)
(* The endpoint rows of one device: the daemon's endpoint monitor that     *)
(* reports its address (src/midscaled/daemon/endpoint_monitor.py), the     *)
(* probes of other devices, the promotions of the NAT service, and the     *)
(* handlers that keep the rows (src/backend/app/services/daemon.py,        *)
(* nat.py).                                                                *)
(*                                                                         *)
(* A probe's or a promotion's request loads the row of its address,        *)
(* computes the new counters and the score, and writes the columns that    *)
(* differ at its commit; requests interleave between the two.              *)
(*                                                                         *)
(* Abstractions.  A row keeps what these requests read and write, but for  *)
(* is_active: a promotion finds any one of the rows of its address, and    *)
(* the deactivation of the others is in NatTraversal.  Every row has the   *)
(* default priority.  stale_endpoint_cleanup flushes its changes and       *)
(* closes the session without a commit, so it has no step.                 *)
(* The probes are an input: main.py of the daemon starts no prober.        *)
(* _publish_config_change, which fails on every call and changes nothing,  *)
(* is left out.                                                            *)
(***************************************************************************)
EXTENDS EndpointScoring, Sequences, FiniteSets

CONSTANTS
    Addrs,       \* addresses of the device's host
    NoAddr,      \* no address: no network, nothing reported yet
    Probers,     \* devices that probe this one or validate a path to it
    Latencies,   \* latencies of a reachable probe, in milliseconds
    MaxMoves,    \* bound on the changes of the host's address
    MaxProbes,   \* bound on the probes and promotions
    MaxFaults,   \* bound on lost requests, lost answers and daemon restarts
    MaxRows      \* bound on the rows

ASSUME EndpointAssumption ==
    /\ NoAddr \notin Addrs /\ IsFiniteSet(Probers)
    /\ Latencies \subseteq Nat
    /\ {MaxMoves, MaxProbes, MaxFaults, MaxRows} \subseteq Nat

DEFAULT_PRIORITY == 100

VARIABLES
    host,      \* the address of the host
    current,   \* DaemonState.current_endpoint
    report,    \* the address the monitor is reporting, or NoAddr
    answer,    \* the answer of that report: "none", "ok" or "lost"
    late,      \* reports on their way that no monitor waits for any more
    rows,      \* the device's rows of device_endpoints
    probe,     \* what each prober's request holds
    moves, probes, faults,
    raced,     \* history: rows whose probes or promotions overlapped
    lifted     \* history: rows promoted since they were last probed

endpointVars == <<host, current, report, answer, late, rows, probe,
                  moves, probes, faults, raced, lifted>>

history == <<raced, lifted>>

Row == [addr : Addrs, reachable : BOOLEAN,
        latency : Latencies \cup {NoLatency}, failures : 0..MaxProbes,
        successes : 0..MaxProbes, score : 0..SCORE_MAX]

NoProbe == [pc |-> "idle"]

Probe == {NoProbe} \cup [pc : {"save", "promote"}, row : 1..MaxRows, old : Row, new : Row]
                \cup [pc : {"insert"}, new : Row]

EndpointTypeOK ==
    /\ host \in Addrs \cup {NoAddr} /\ current \in Addrs \cup {NoAddr}
    /\ report \in Addrs \cup {NoAddr} /\ answer \in {"none", "ok", "lost"}
    /\ late \in [Addrs -> 0..MaxFaults]
    /\ rows \in Seq(Row) /\ Len(rows) <= MaxRows
    /\ probe \in [Probers -> Probe]
    /\ moves \in 0..MaxMoves /\ probes \in 0..MaxProbes /\ faults \in 0..MaxFaults
    /\ raced \subseteq 1..MaxRows /\ lifted \subseteq 1..MaxRows

EndpointInit ==
    /\ host \in Addrs
    /\ current = NoAddr /\ report = NoAddr /\ answer = "none"
    /\ late = [a \in Addrs |-> 0] /\ rows = <<>>
    /\ probe = [p \in Probers |-> NoProbe]
    /\ moves = 0 /\ probes = 0 /\ faults = 0
    /\ raced = {} /\ lifted = {}

RowsOf(a) == {i \in DOMAIN rows : rows[i].addr = a}

-----------------------------------------------------------------------------
(* The endpoint monitor. *)

\* The host moves to another network, or loses it.
host_moves ==
    /\ moves < MaxMoves
    /\ host' \in (Addrs \cup {NoAddr}) \ {host}
    /\ moves' = moves + 1
    /\ UNCHANGED <<current, report, answer, late, rows, probe,
                   probes, faults, history>>

\* What query_stun_server returns: the datagram endpoint has no remote
\* address and sendto names none, so the request fails before it is sent.
query_stun_server == NoAddr

\* The address of the interface that has the default route.
detect_endpoint_local == host

detect_endpoint ==
    IF query_stun_server # NoAddr THEN query_stun_server ELSE detect_endpoint_local

\* Mutant: an address is reported in every cycle.
detect_EveryCycle ==
    /\ report = NoAddr /\ detect_endpoint # NoAddr /\ Len(rows) < MaxRows
    /\ report' = detect_endpoint
    /\ UNCHANGED <<host, current, answer, late, rows, probe,
                   moves, probes, faults, history>>

\* Mutant: only a first address is reported.
detect_Once ==
    /\ report = NoAddr /\ detect_endpoint # NoAddr /\ current = NoAddr
    /\ Len(rows) < MaxRows
    /\ report' = detect_endpoint
    /\ UNCHANGED <<host, current, answer, late, rows, probe,
                   moves, probes, faults, history>>

\* A cycle of _run_loop: an address other than the last one is reported.
detect ==
    /\ report = NoAddr /\ detect_endpoint \notin {NoAddr, current}
    /\ Len(rows) < MaxRows
    /\ report' = detect_endpoint
    /\ UNCHANGED <<host, current, answer, late, rows, probe,
                   moves, probes, faults, history>>

unprobed(a) ==
    [addr |-> a, reachable |-> FALSE, latency |-> NoLatency,
     failures |-> 0, successes |-> 0, score |-> 0]

\* report_endpoint of the server always inserts a row.
report_endpoint ==
    /\ report # NoAddr /\ answer = "none" /\ Len(rows) < MaxRows
    /\ rows' = Append(rows, unprobed(report))
    /\ answer' = "ok"
    /\ UNCHANGED <<host, current, report, late, probe,
                   moves, probes, faults, history>>

\* The monitor gives up on its request: it did not reach the server, or not
\* yet, or its answer does not come back.
abandon == late' = [a \in Addrs |-> IF a = report /\ answer = "none" THEN late[a] + 1 ELSE late[a]]

report_lost ==
    /\ report # NoAddr /\ answer \in {"none", "ok"} /\ faults < MaxFaults
    /\ abandon
    /\ answer' = "lost"
    /\ faults' = faults + 1
    /\ UNCHANGED <<host, current, report, rows, probe,
                   moves, probes, history>>

\* A request that was given up is served.
report_late(a) ==
    /\ late[a] > 0 /\ Len(rows) < MaxRows
    /\ late' = [late EXCEPT ![a] = @ - 1]
    /\ rows' = Append(rows, unprobed(a))
    /\ UNCHANGED <<host, current, report, answer, probe, moves, probes, faults, history>>

\* Mutant: the address is taken as reported whatever the answer.
report_answered_Unchecked ==
    /\ answer # "none"
    /\ current' = report
    /\ report' = NoAddr /\ answer' = "none"
    /\ UNCHANGED <<host, late, rows, probe, moves, probes, faults, history>>

\* The monitor goes on; the address counts as reported after a success.
report_answered ==
    /\ answer # "none"
    /\ current' = IF answer = "ok" THEN report ELSE current
    /\ report' = NoAddr /\ answer' = "none"
    /\ UNCHANGED <<host, late, rows, probe, moves, probes, faults, history>>

\* The daemon restarts and has reported nothing.
daemon_restart ==
    /\ faults < MaxFaults
    /\ faults' = faults + 1
    /\ abandon
    /\ current' = NoAddr /\ report' = NoAddr /\ answer' = "none"
    /\ UNCHANGED <<host, rows, probe, moves, probes, history>>

-----------------------------------------------------------------------------
(* process_probe_result. *)

rescored(row) ==
    [row EXCEPT !.score = compute_endpoint_score(row.reachable, row.latency,
                             row.failures, row.successes, DEFAULT_PRIORITY)]

\* The row after a probe.
probed(row, reachable, latency) ==
    rescored([row EXCEPT !.reachable = reachable, !.latency = latency,
                !.successes = IF reachable THEN @ + 1 ELSE @,
                !.failures = IF reachable THEN @ ELSE @ + 1])

\* Another request holds row i.
Held(i) == \E q \in Probers : probe[q].pc \in {"save", "promote"} /\ probe[q].row = i

\* Request p loads row i and will save it as new.
load(p, kind, i, new) ==
    /\ probe' = [probe EXCEPT ![p] = [pc |-> kind, row |-> i, old |-> rows[i], new |-> new]]
    /\ raced' = raced \cup {k \in {i} : Held(k)}

\* The row of the address is loaded.  If there are several the request
\* fails with 500 and changes nothing: it has no step here.
probe_load(p, a, reachable, latency) ==
    /\ probe[p] = NoProbe /\ probes < MaxProbes
    /\ probes' = probes + 1
    /\ \/ \E i \in RowsOf(a) :
            /\ RowsOf(a) = {i}
            /\ load(p, "save", i, probed(rows[i], reachable, latency))
       \/ /\ RowsOf(a) = {}
          /\ probe' = [probe EXCEPT ![p] =
                  [pc |-> "insert", new |-> probed(unprobed(a), reachable, latency)]]
          /\ UNCHANGED raced
    /\ UNCHANGED <<host, current, report, answer, late, rows,
                   moves, faults, lifted>>

\* Row i after the commit of request p: the columns that differ from the
\* loaded ones are written.
saved(p, i) ==
    [f \in DOMAIN rows[i] |->
        IF probe[p].new[f] # probe[p].old[f] THEN probe[p].new[f] ELSE rows[i][f]]

\* Mutant: the score is left out of the columns written.
probe_save_OldScore(p) ==
    /\ probe[p].pc = "save"
    /\ LET i == probe[p].row
       IN /\ rows' = [rows EXCEPT ![i] = [saved(p, i) EXCEPT !.score = rows[i].score]]
          /\ lifted' = lifted \ {i}
    /\ probe' = [probe EXCEPT ![p] = NoProbe]
    /\ UNCHANGED <<host, current, report, answer, late, moves, probes, faults, raced>>

\* The commit of a probe.
probe_save(p) ==
    /\ probe[p].pc = "save"
    /\ LET i == probe[p].row
       IN /\ rows' = [rows EXCEPT ![i] = saved(p, i)]
          /\ lifted' = lifted \ {i}
    /\ probe' = [probe EXCEPT ![p] = NoProbe]
    /\ UNCHANGED <<host, current, report, answer, late, moves, probes, faults, raced>>

\* The commit of a first probe inserts its row.
probe_insert(p) ==
    /\ probe[p].pc = "insert" /\ Len(rows) < MaxRows
    /\ rows' = Append(rows, probe[p].new)
    /\ probe' = [probe EXCEPT ![p] = NoProbe]
    /\ UNCHANGED <<host, current, report, answer, late, moves, probes, faults, history>>

-----------------------------------------------------------------------------
(* _promote_endpoint. *)

\* The row after a promotion.  The score is raised and not computed, but for
\* a score of 0, and that without the latency of an earlier probe.
promoted(row, latency) ==
    [row EXCEPT !.reachable = TRUE, !.successes = @ + 1,
       !.latency = IF latency = NoLatency THEN @ ELSE latency,
       !.score = IF @ = 0 THEN compute_endpoint_score(TRUE, latency, row.failures,
                                  row.successes + 1, DEFAULT_PRIORITY)
                          ELSE least(@ + 30, SCORE_MAX)]

\* The active row of the address is loaded.
promote_load(p, a, latency) ==
    /\ probe[p] = NoProbe /\ probes < MaxProbes
    /\ probes' = probes + 1
    /\ \E i \in RowsOf(a) : load(p, "promote", i, promoted(rows[i], latency))
    /\ UNCHANGED <<host, current, report, answer, late, rows, moves, faults, lifted>>

\* The commit of a promotion.
promote_save(p) ==
    /\ probe[p].pc = "promote"
    /\ LET i == probe[p].row
       IN /\ rows' = [rows EXCEPT ![i] = saved(p, i)]
          /\ lifted' = lifted \cup {i}
    /\ probe' = [probe EXCEPT ![p] = NoProbe]
    /\ UNCHANGED <<host, current, report, answer, late, moves, probes, faults, raced>>

-----------------------------------------------------------------------------
Monitor == detect \/ report_endpoint \/ report_answered

EndpointNext ==
    \/ host_moves \/ daemon_restart \/ report_lost \/ Monitor
    \/ \E a \in Addrs : report_late(a)
    \/ \E p \in Probers :
         \/ probe_save(p) \/ probe_insert(p) \/ promote_save(p)
         \/ \E a \in Addrs :
              \/ probe_load(p, a, FALSE, NoLatency)
              \/ \E l \in Latencies : probe_load(p, a, TRUE, l)
              \/ \E l \in Latencies \cup {NoLatency} : promote_load(p, a, l)

EndpointSpec == EndpointInit /\ [][EndpointNext]_endpointVars

\* The monitor runs in a loop of its own.
FairEndpointSpec == EndpointSpec /\ WF_endpointVars(Monitor)

-----------------------------------------------------------------------------
(* Properties. *)

\* The address the monitor takes as reported has a row, though requests and
\* answers are lost and the daemon restarts (endpoint_monitor.py:168-202).
ReportedIsStored == current # NoAddr => RowsOf(current) # {}

\* A row that was probed has the score of its own counters, unless requests
\* for it overlapped or a promotion has raised it since: the next probe puts
\* back what a promotion added (daemon.py:202-227, nat.py:378-391).
ScoreIsOfTheRow ==
    \A i \in DOMAIN rows :
        \/ rows[i].successes + rows[i].failures = 0 \/ i \in raced \cup lifted
        \/ rescored(rows[i]) = rows[i]

\* A second row of an address makes its probes fail from then on.  While an
\* address is the one the monitor has reported it gets no further row, but
\* for the insert of a probe that looked before the report and for a report
\* the monitor had given up (endpoint_monitor.py:174, daemon.py:202-289).
NoFurtherRow ==
    [][\A a \in Addrs :
         (/\ RowsOf(a) # {} /\ current = a /\ late[a] = 0
          /\ \A p \in Probers : probe[p].pc # "insert")
           => RowsOf(a)' = RowsOf(a)]_endpointVars

\* Once the host stays at an address, the monitor has reported it, unless
\* the bound on the rows is reached.
AddressIsReported ==
    \A a \in Addrs : <>[](host = a) => <>[](current = a \/ Len(rows) = MaxRows)
=============================================================================
