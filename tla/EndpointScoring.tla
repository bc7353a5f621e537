--------------------------- MODULE EndpointScoring ---------------------------
(***************************************************************************)
(* Scores of endpoint candidates and the choice of the best one            *)
(* (src/backend/app/services/endpoint_scoring.py).                         *)
(*                                                                         *)
(* An endpoint is a record with the fields score, reachable, latency and   *)
(* priority; the latency is in milliseconds, or NoLatency where the code   *)
(* has None.                                                               *)
(***************************************************************************)
EXTENDS Integers

BASE_SCORE == 50
SCORE_MAX == 200
NoLatency == -1

least(a, b) == IF a < b THEN a ELSE b

\* Mutant: no floor.
clamp_Floorless(n) == least(n, SCORE_MAX)

clamp(n) == IF n < 0 THEN 0 ELSE least(n, SCORE_MAX)

compute_endpoint_score(reachable, latency, failures, successes, priority) ==
    clamp(BASE_SCORE + (IF reachable THEN 100 ELSE 0)
            - least(priority, 100)
            - (IF latency = NoLatency THEN 0 ELSE latency \div 10)
            - failures * 5 + successes * 2)

\* The key of the sort.  A latency of 0 is falsy, like None, and counts as
\* the worst.
sort_key(e) ==
    << e.score, IF e.reachable THEN 1 ELSE 0,
       IF e.latency \in {0, NoLatency} THEN -9999 ELSE -e.latency,
       -e.priority >>

\* The order of Python on such keys.
precedes(k, l) ==
    \E i \in 1..4 : k[i] < l[i] /\ \A h \in 1..(i - 1) : k[h] = l[h]

\* What select_best_endpoint may return: the sort is stable, and the order
\* of the rows the database returns is not determined.
select_best_endpoint(endpoints) ==
    {e \in endpoints : \A f \in endpoints : ~ precedes(sort_key(e), sort_key(f))}

\* Mutant: the boost has no ceiling.
boosted_Uncapped(score, latency) ==
    IF score = 0 THEN compute_endpoint_score(TRUE, latency, 0, 1, 100) ELSE score + 30

\* The boost of a promotion.
boosted(score, latency) ==
    IF score = 0 THEN compute_endpoint_score(TRUE, latency, 0, 1, 100)
                 ELSE least(score + 30, SCORE_MAX)
=============================================================================
