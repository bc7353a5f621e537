-------------------------- MODULE EnrollmentProofs --------------------------
(***************************************************************************)
(* Proofs about enrolment and revocation for any number of devices, keys,  *)
(* hosts and overlapping requests.                                         *)
(***************************************************************************)
EXTENDS Enrollment, TLAPS, WellFoundedInduction

\* A request that inserts is alone with an id that no row has yet, and knows
\* only rows that are there; a request on a row has one, as loaded and as
\* assigned.  Rows are never deleted, so what a request knew stays true.
RequestsInv ==
    \A r \in Requests :
        /\ req[r].op \in InsertOps =>
             /\ req[r].dev \in Devices /\ row[req[r].dev] = NoRow
             /\ req[r].existing \subseteq Rows
             /\ \A s \in Requests : req[s].dev = req[r].dev => s = r
        /\ req[r].op \in RowOps =>
             req[r].dev \in Rows /\ req[r].loaded \in Row /\ req[r].new \in Row

BeforeInv == \A d \in Devices : before[d] \subseteq Rows

TypeInv == TypeOK /\ RequestsInv /\ BeforeInv

\* An address allocated but not committed yet was free among the rows its
\* request could see, and those that keep the address they were given
\* still do not hold it.
AddressInv ==
    \A r \in Requests :
        (req[r].op \in InsertOps /\ req[r].ip # NoIp) =>
            \A e \in req[r].existing \ named : row[e].addr # req[r].ip

\* A single-use key that admitted a device is gone, and a request that was
\* let in by one saw no device that it had admitted.
KeyInv ==
    /\ \A d \in Rows : viaKey[d] \in Keys \ reusable => key[viaKey[d]] = "deleted"
    /\ \A r \in Requests :
         (req[r].op \in InsertOps /\ req[r].key \in Keys \ reusable) =>
             \A e \in req[r].existing : viaKey[e] # req[r].key

\* No request in progress, other than an administrator's, takes a barred
\* device out of its revocation.
BarredInv ==
    /\ \A d \in barred : row[d].status = "revoked" /\ ~ Enrolling(d)
    /\ \A r \in Requests :
         /\ req[r].op \in {"process_heartbeat", "rotate_device_token"} =>
              req[r].new.status = req[r].loaded.status
         /\ req[r].op = "revoke_device" =>
              req[r].new.status = "revoked" /\ req[r].loaded.status # "revoked"

-----------------------------------------------------------------------------
(* The operators the model is built from. *)

\* What a request may hold.
Request == [op : Ops \cup {"idle"}, dev : Devices \cup {NoDevice}, key : Keys \cup {NoKey},
            used : SUBSET Devices, ip : Hosts \cup {NoIp},
            existing : SUBSET Devices, loaded : Row \cup {NoRow}, new : Row \cup {NoRow}]

\* A device that is in the table is told from one that is not.
LEMMA NoRowIsNone == NoRow \notin Row
BY DEF NoRow, Row, Statuses

\* The free host that allocate_ip picks is one of the free hosts.
LEMMA FirstIsMember ==
    ASSUME NEW S \in SUBSET Nat, S # {}
    PROVE  First(S) \in S
<1> DEFINE R == {ss \in Nat \X Nat : ss[1] < ss[2]}
<1>1. IsWellFoundedOn(R, Nat)
  BY NatLessThanWellFounded DEF OpToRel
<1> HIDE DEF R
<1>2. PICK x \in S : \A y \in S : ~ (<<y, x>> \in R)
  BY <1>1, WFMin
<1>3. ASSUME NEW y \in S PROVE x <= y
  <2>1. x \in Nat /\ y \in Nat
    OBVIOUS
  <2>2. ~ (<<y, x>> \in Nat \X Nat /\ y < x)
    BY <1>2 DEF R
  <2> QED BY <2>1, <2>2
<1> QED BY <1>3 DEF First

\* A free host is a host that no row holds.
LEMMA FreeHostIsFree ==
    ASSUME TypeOK, FreeHosts # {}
    PROVE  First(FreeHosts) \in Hosts /\ \A e \in Rows : row[e].addr # First(FreeHosts)
<1>1. FreeHosts \in SUBSET Nat
  BY DEF FreeHosts, Hosts
<1>2. First(FreeHosts) \in FreeHosts
  BY <1>1, FirstIsMember
<1> QED BY <1>2 DEF FreeHosts

\* A flush writes the columns that the request changed and leaves the rest.
LEMMA FlushedColumns ==
    ASSUME NEW old \in Row, NEW q, q.new \in Row, q.loaded \in Row
    PROVE  /\ Flushed(old, q) \in Row
           /\ Flushed(old, q).status =
                IF q.new.status # q.loaded.status THEN q.new.status ELSE old.status
           /\ Flushed(old, q).addr =
                IF q.new.addr # q.loaded.addr THEN q.new.addr ELSE old.addr
BY DEF Flushed, Row

\* The idle request has the type of a request.
LEMMA IdleType == Idle \in Request
BY DEF Idle, Request, NoIp, NoRow

\* A client that names an address changes no other column.
LEMMA WithAddressType ==
    ASSUME NEW old \in Row, NEW ip \in Chosen \cup {NoIp}
    PROVE  WithAddress(old, ip) \in Row /\ WithAddress(old, ip).status = old.status
BY EnrollmentAssumption DEF WithAddress, Row, Hosts

-----------------------------------------------------------------------------
(* What the steps do. *)

\* A step that only moves request r on to q.
RequestStep(r, q) ==
    /\ req' = [req EXCEPT ![r] = q]
    /\ UNCHANGED <<tableVars, expired, before, barred>>

\* A request that inserts begins: its id is fresh, and a key it names is live.
Begins(q) ==
    /\ q.op \in InsertOps /\ q.dev \in Devices /\ Fresh(q.dev) /\ q.ip = NoIp
    /\ q.existing = Rows /\ q.key \in Keys \cup {NoKey}
    /\ q.key \in Keys => key[q.key] = "live"

\* A request on a row begins.
Loads(q) ==
    /\ q.op \in RowOps /\ q.dev \in Rows /\ q.loaded = row[q.dev] /\ q.new \in Row
    /\ q.op = "enroll_device" => q.loaded.status = "pending"
    /\ q.op \in {"process_heartbeat", "rotate_device_token"} => q.new.status = q.loaded.status
    /\ q.op = "revoke_device" => q.new.status = "revoked" /\ q.loaded.status # "revoked"

\* A request that inserts has been given an address.
Allocates(r, q) ==
    /\ req[r].op \in InsertOps /\ q = [req[r] EXCEPT !.ip = First(FreeHosts)]
    /\ FreeHosts # {}

\* What begin_insert stores.
LEMMA BeginInsert ==
    ASSUME TypeOK, NEW r \in Requests, NEW op \in InsertOps, NEW d \in Devices,
           NEW k \in Keys \cup {NoKey}, k \in Keys => key[k] = "live",
           begin_insert(r, op, d, k)
    PROVE  \E q \in Request : RequestStep(r, q) /\ Begins(q)
<1> DEFINE q == [Idle EXCEPT !.op = op, !.dev = d, !.key = k, !.existing = Rows,
                              !.used = IF k = NoKey THEN {} ELSE usedBy[k]]
<1>1. Rows \in SUBSET Devices /\ (k # NoKey => usedBy[k] \in SUBSET Devices) /\ op \in Ops
  BY DEF Rows, TypeOK, begin_insert
<1>2. q \in Request
  BY <1>1, IdleType DEF Request
<1>3. RequestStep(r, q)
  BY DEF begin_insert, RequestStep
<1>4. Begins(q)
  BY DEF begin_insert, Begins, Idle
<1> QED BY <1>2, <1>3, <1>4

\* What load_row stores.
LEMMA LoadRow ==
    ASSUME TypeOK, NEW r \in Requests, NEW op \in RowOps, NEW d \in Devices, NEW new \in Row,
           op = "enroll_device" => row[d].status = "pending",
           op \in {"process_heartbeat", "rotate_device_token"} => new.status = row[d].status,
           op = "revoke_device" => new.status = "revoked" /\ row[d].status # "revoked",
           load_row(r, op, d, new)
    PROVE  \E q \in Request : RequestStep(r, q) /\ Loads(q)
<1> DEFINE q == [Idle EXCEPT !.op = op, !.dev = d, !.loaded = row[d], !.new = new]
<1>1. q \in Request
  BY IdleType DEF Request, load_row, TypeOK
<1>2. RequestStep(r, q)
  BY DEF load_row, RequestStep
<1>3. Loads(q)
  BY DEF load_row, Loads, Idle
<1> QED BY <1>1, <1>2, <1>3

\* A step that moves a request on: it begins, is given an address, or ends
\* without a commit.
MovesOn(r, q) ==
    RequestStep(r, q) /\ (Begins(q) \/ Loads(q) \/ Allocates(r, q) \/ q = Idle)

\* Every step is one on the keys, moves a request on, or commits one.
LEMMA StepKinds ==
    ASSUME TypeOK, Next
    PROVE  \/ \E k \in Keys : \/ \E b \in BOOLEAN : create_preauth_key(k, b)
                             \/ delete_preauth_key(k) \/ key_expires(k)
           \/ \E r \in Requests, q \in Request : MovesOn(r, q)
           \/ \E r \in Requests : commit_insert(r) \/ commit_row(r)
<1> DEFINE Moves == \E r \in Requests, q \in Request : MovesOn(r, q)
<1>1. ASSUME NEW r \in Requests, NEW d \in Devices, NEW k \in Keys,
             enroll_by_key(r, d, k) \/ register_device(r, d, k)
      PROVE  Moves
  <2>1. PICK op \in InsertOps : begin_insert(r, op, d, k)
    BY <1>1 DEF enroll_by_key, register_device, InsertOps
  <2>2. key[k] = "live"
    BY <1>1 DEF enroll_by_key, register_device, KeyAccepted
  <2>3. \E q \in Request : RequestStep(r, q) /\ Begins(q)
    BY <2>1, <2>2, BeginInsert
  <2> QED BY <2>3 DEF MovesOn
<1>2. ASSUME NEW r \in Requests, NEW d \in Devices, create_device(r, d) \/ create_node_device(r, d)
      PROVE  Moves
  <2>1. PICK op \in InsertOps : begin_insert(r, op, d, NoKey)
    BY <1>2 DEF create_device, create_node_device, InsertOps
  <2>2. \E q \in Request : RequestStep(r, q) /\ Begins(q)
    BY <2>1, BeginInsert, EnrollmentAssumption
  <2> QED BY <2>2 DEF MovesOn
<1>3. ASSUME NEW r \in Requests, NEW d \in Devices, NEW op \in RowOps, NEW new,
             load_row(r, op, d, new),
             row[d] \in Row => new \in Row,
             op = "enroll_device" => row[d].status = "pending",
             (op \in {"process_heartbeat", "rotate_device_token"} /\ row[d] \in Row) =>
                new.status = row[d].status,
             op = "revoke_device" /\ row[d] \in Row =>
                new.status = "revoked" /\ row[d].status # "revoked"
      PROVE  Moves
  <2>1. row[d] \in Row
    BY <1>3 DEF load_row, Rows, TypeOK
  <2>2. \E q \in Request : RequestStep(r, q) /\ Loads(q)
    BY <1>3, <2>1, LoadRow
  <2> QED BY <2>2 DEF MovesOn
<1>4. ASSUME NEW r \in Requests, NEW d \in Devices, NEW ip \in Chosen \cup {NoIp},
             enroll_device(r, d, ip)
      PROVE  Moves
  <2> DEFINE new == WithAddress([row[d] EXCEPT !.status = "active", !.token = TRUE], ip)
  <2>1. load_row(r, "enroll_device", d, new) /\ row[d].status = "pending"
    BY <1>4 DEF enroll_device
  <2>2. row[d] \in Row => [row[d] EXCEPT !.status = "active", !.token = TRUE] \in Row
    BY DEF Row, Statuses
  <2>3. row[d] \in Row => new \in Row
    BY <2>2, WithAddressType
  <2> HIDE DEF new
  <2> QED BY <2>1, <2>3, <1>3 DEF RowOps
<1>5. ASSUME NEW r \in Requests, NEW d \in Devices, NEW ip \in Chosen \cup {NoIp},
             process_heartbeat(r, d, ip)
      PROVE  Moves
  BY <1>5, <1>3, WithAddressType DEF process_heartbeat, RowOps
<1>6. ASSUME NEW r \in Requests, NEW d \in Devices, NEW active \in BOOLEAN,
             NEW status \in NewStatuses \cup {row[d].status}, update_device(r, d, active, status)
      PROVE  Moves
  <2>1. row[d] \in Row => [row[d] EXCEPT !.active = active, !.status = status] \in Row
    BY EnrollmentAssumption DEF Row, Statuses
  <2> QED BY <1>6, <1>3, <2>1 DEF update_device, RowOps
<1>7. ASSUME NEW r \in Requests, NEW d \in Devices, revoke_device(r, d)
      PROVE  Moves
  <2> DEFINE new == [row[d] EXCEPT !.status = "revoked", !.active = FALSE]
  <2>1. row[d] \in Row => new \in Row /\ new.status = "revoked"
    BY DEF Row, Statuses
  <2>2. load_row(r, "revoke_device", d, new) /\ row[d].status # "revoked"
    BY <1>7 DEF revoke_device
  <2> HIDE DEF new
  <2> QED BY <1>3, <2>1, <2>2 DEF RowOps
<1>8. ASSUME NEW r \in Requests, NEW d \in Devices, rotate_device_token(r, d)
      PROVE  Moves
  <2>1. row[d] \in Row => /\ [row[d] EXCEPT !.token = TRUE] \in Row
                          /\ [row[d] EXCEPT !.token = TRUE].status = row[d].status
    BY DEF Row
  <2> QED BY <1>8, <1>3, <2>1 DEF rotate_device_token, RowOps
<1>9. ASSUME NEW r \in Requests, allocate_ip(r) PROVE Moves
  <2>1. CASE FreeHosts = {}
    BY <1>9, <2>1, IdleType DEF allocate_ip, MovesOn, RequestStep
  <2>2. CASE FreeHosts # {}
    <3> DEFINE q == [req[r] EXCEPT !.ip = First(FreeHosts)]
    <3>1. req[r] \in Request
      BY DEF TypeOK, Request
    <3>2. q \in Request
      BY <2>2, <3>1, FreeHostIsFree DEF Request
    <3>3. MovesOn(r, q)
      BY <1>9, <2>2 DEF allocate_ip, MovesOn, RequestStep, Allocates
    <3> QED BY <3>2, <3>3
  <2> QED BY <2>1, <2>2
<1>10. ASSUME NEW r \in Requests, abort(r) PROVE Moves
  BY <1>10, IdleType DEF abort, MovesOn, RequestStep
<1> HIDE DEF Moves
<1>11. (\E k \in Keys : \/ \E b \in BOOLEAN : create_preauth_key(k, b)
                        \/ delete_preauth_key(k) \/ key_expires(k))
       \/ Moves \/ \E r \in Requests : commit_insert(r) \/ commit_row(r)
  BY <1>1, <1>2, <1>4, <1>5, <1>6, <1>7, <1>8, <1>9, <1>10 DEF Next
<1> QED BY <1>11 DEF Moves

-----------------------------------------------------------------------------
(* The types, and what requests know. *)

\* The database starts empty.
LEMMA InitType == Init => TypeInv
<1> SUFFICES ASSUME Init PROVE TypeInv
  OBVIOUS
<1>1. Rows = {}
  BY DEF Init, Rows
<1>2. TypeOK
  BY <1>1, IdleType DEF Init, TypeOK, Request
<1> QED BY <1>2, <1>1 DEF Init, TypeInv, RequestsInv, BeforeInv, Idle, InsertOps, RowOps

\* What the commit of an insert does to the tables.
LEMMA InsertEffect ==
    ASSUME TypeInv, NEW r \in Requests, commit_insert(r)
    PROVE  /\ req[r].dev \in Devices \ Rows /\ req[r].key \in Keys \cup {NoKey}
           /\ Inserted(req[r]) \in Row
           /\ row' = [row EXCEPT ![req[r].dev] = Inserted(req[r])]
           /\ Rows' = Rows \cup {req[r].dev}
           /\ key' \in [Keys -> {"none", "live", "deleted"}]
           /\ usedBy' \in [Keys -> SUBSET Devices]
<1>1. req[r] \in Request /\ req[r].op \in InsertOps /\ req[r].ip \in Hosts
  BY DEF TypeInv, TypeOK, Request, commit_insert
<1>2. req[r].dev \in Devices \ Rows /\ req[r].key \in Keys \cup {NoKey} /\ req[r].used \in SUBSET Devices
  BY <1>1 DEF TypeInv, RequestsInv, Rows, Request
<1>3. Inserted(req[r]) \in Row
  BY <1>1 DEF Inserted, Row, Statuses
<1>4. row' = [row EXCEPT ![req[r].dev] = Inserted(req[r])]
  BY DEF commit_insert
<1>5. Rows' = Rows \cup {req[r].dev}
  BY <1>2, <1>3, <1>4, NoRowIsNone DEF Rows, TypeInv, TypeOK
<1>6. spend_key(req[r])
  BY DEF commit_insert
<1>7. key' \in [Keys -> {"none", "live", "deleted"}] /\ usedBy' \in [Keys -> SUBSET Devices]
  BY <1>2, <1>6 DEF spend_key, TypeInv, TypeOK
<1> QED BY <1>2, <1>3, <1>4, <1>5, <1>7

\* What the commit of a request on a row does to it.
LEMMA RowEffect ==
    ASSUME TypeInv, NEW r \in Requests, commit_row(r)
    PROVE  LET q == req[r]
               new == Flushed(row[q.dev], q) IN
           /\ q.dev \in Rows /\ row[q.dev] \in Row /\ new \in Row
           /\ new.status = IF q.new.status # q.loaded.status THEN q.new.status ELSE row[q.dev].status
           /\ new.addr = IF q.new.addr # q.loaded.addr THEN q.new.addr ELSE row[q.dev].addr
           /\ row' = [row EXCEPT ![q.dev] = new]
           /\ Rows' = Rows
<1> DEFINE q == req[r]
           new == Flushed(row[q.dev], q)
<1>1. q.dev \in Rows /\ q.loaded \in Row /\ q.new \in Row
  BY DEF TypeInv, RequestsInv, commit_row
<1>2. row[q.dev] \in Row
  BY <1>1 DEF TypeInv, TypeOK, Rows
<1>3. /\ new \in Row
      /\ new.status = IF q.new.status # q.loaded.status THEN q.new.status ELSE row[q.dev].status
      /\ new.addr = IF q.new.addr # q.loaded.addr THEN q.new.addr ELSE row[q.dev].addr
  BY <1>1, <1>2, FlushedColumns
<1>4. row' = [row EXCEPT ![q.dev] = new]
  BY DEF commit_row
<1> HIDE DEF new
<1>5. Rows' = Rows
  BY <1>1, <1>3, <1>4, NoRowIsNone DEF Rows, TypeInv, TypeOK
<1> QED BY <1>1, <1>2, <1>3, <1>4, <1>5 DEF new

\* Every step keeps the types and what requests know.
LEMMA NextType == TypeInv /\ [Next]_vars => TypeInv'
<1> SUFFICES ASSUME TypeInv, [Next]_vars PROVE TypeInv'
  OBVIOUS
<1>1. ASSUME NEW k \in Keys, \/ \E b \in BOOLEAN : create_preauth_key(k, b)
                              \/ delete_preauth_key(k) \/ key_expires(k)
      PROVE  TypeInv'
  BY <1>1 DEF create_preauth_key, delete_preauth_key, key_expires, tableVars, TypeInv, TypeOK,
     RequestsInv, BeforeInv, Rows
<1>2. ASSUME NEW r \in Requests, NEW q \in Request, MovesOn(r, q) PROVE TypeInv'
  <2>1. req' = [req EXCEPT ![r] = q] /\ req' \in [Requests -> Request] /\ Rows' = Rows
    BY <1>2 DEF MovesOn, RequestStep, TypeInv, TypeOK, Request, Rows, tableVars
  <2>2. TypeOK' /\ BeforeInv'
    BY <1>2, <2>1 DEF MovesOn, RequestStep, TypeInv, TypeOK, BeforeInv, Request, tableVars
  <2>3. RequestsInv'
    <3>1. CASE Begins(q)
      BY <1>2, <2>1, <3>1 DEF MovesOn, RequestStep, TypeInv, RequestsInv, tableVars, Begins, Fresh,
         InsertOps, RowOps
    <3>2. CASE Loads(q)
      <4>1. q.loaded \in Row
        BY <3>2 DEF Loads, Rows, TypeInv, TypeOK
      <4> QED
        BY <1>2, <2>1, <3>2, <4>1 DEF MovesOn, RequestStep, TypeInv, RequestsInv, tableVars, Loads,
           InsertOps, RowOps, Rows
    <3>3. CASE Allocates(r, q)
      <4>1. /\ q.op = req[r].op /\ q.dev = req[r].dev /\ q.existing = req[r].existing
            /\ q.loaded = req[r].loaded /\ q.new = req[r].new
        BY <3>3 DEF Allocates, TypeInv, TypeOK
      <4> QED
        BY <1>2, <2>1, <3>3, <4>1 DEF MovesOn, RequestStep, TypeInv, RequestsInv, tableVars
    <3>4. CASE q = Idle
      BY <1>2, <2>1, <3>4, EnrollmentAssumption DEF MovesOn, RequestStep, TypeInv, RequestsInv,
         tableVars, Idle, InsertOps, RowOps
    <3> QED BY <1>2, <3>1, <3>2, <3>3, <3>4 DEF MovesOn
  <2> QED BY <2>2, <2>3 DEF TypeInv
<1>3. ASSUME NEW r \in Requests, commit_insert(r) PROVE TypeInv'
  <2>1. req' = [req EXCEPT ![r] = Idle] /\ req' \in [Requests -> Request]
    BY <1>3, IdleType DEF commit_insert, TypeInv, TypeOK, Request
  <2>2. req[r].existing \in SUBSET Devices /\ req[r].existing \subseteq Rows
    BY <1>3 DEF TypeInv, TypeOK, RequestsInv, commit_insert
  <2>3. TypeOK'
    BY <1>3, <2>1, <2>2, InsertEffect DEF commit_insert, TypeInv, TypeOK, Request
  <2>4. RequestsInv'
    <3>1. req'[r].op = "idle" /\ req'[r].dev = NoDevice /\ \A s \in Requests \ {r} : req'[s] = req[s]
      BY <2>1 DEF Idle, TypeInv, TypeOK
    <3>2. req[r].op \in InsertOps /\ Rows' = Rows \cup {req[r].dev}
      BY <1>3, InsertEffect DEF commit_insert
    <3>3. ASSUME NEW s \in Requests \ {r}, req[s].op \in InsertOps
          PROVE  row'[req[s].dev] = NoRow
      BY <1>3, <3>2, <3>3, InsertEffect DEF TypeInv, TypeOK, RequestsInv
    <3> QED BY <3>1, <3>2, <3>3, EnrollmentAssumption DEF TypeInv, RequestsInv, InsertOps, RowOps
  <2>5. BeforeInv'
    BY <1>3, <2>2, InsertEffect DEF commit_insert, TypeInv, TypeOK, BeforeInv
  <2> QED BY <2>3, <2>4, <2>5 DEF TypeInv
<1>4. ASSUME NEW r \in Requests, commit_row(r) PROVE TypeInv'
  <2>1. req' = [req EXCEPT ![r] = Idle] /\ req' \in [Requests -> Request]
    BY <1>4, IdleType DEF commit_row, TypeInv, TypeOK, Request
  <2>2. TypeOK'
    <3>1. row' \in [Devices -> Row \cup {NoRow}] /\ req[r].dev \in Rows /\ Rows' = Rows
      BY <1>4, RowEffect DEF TypeInv, TypeOK, Rows
    <3> QED BY <1>4, <2>1, <3>1 DEF commit_row, TypeInv, TypeOK, Request
  <2>3. RequestsInv'
    <3>1. req'[r].op = "idle" /\ req'[r].dev = NoDevice /\ \A s \in Requests \ {r} : req'[s] = req[s]
      BY <2>1 DEF Idle, TypeInv, TypeOK
    <3>2. req[r].dev \in Rows /\ Rows' = Rows /\ \A d \in Devices \ Rows : row'[d] = row[d]
      BY <1>4, RowEffect DEF TypeInv, TypeOK
    <3> QED BY <3>1, <3>2, EnrollmentAssumption DEF TypeInv, RequestsInv, InsertOps, RowOps, Rows
  <2>4. BeforeInv'
    BY <1>4, RowEffect DEF commit_row, TypeInv, BeforeInv
  <2> QED BY <2>2, <2>3, <2>4 DEF TypeInv
<1>5. CASE UNCHANGED vars
  BY <1>5 DEF vars, tableVars, TypeInv, TypeOK, RequestsInv, BeforeInv, Rows
<1> QED
  BY <1>1, <1>2, <1>3, <1>4, <1>5, StepKinds DEF TypeInv

\* The tables and the requests always have their types: in particular a
\* request that commits writes a row that is there, with an address of the
\* subnet.
THEOREM TypeCorrect == Spec => []TypeOK
<1>1. TypeInv => TypeOK
  BY DEF TypeInv
<1> QED BY InitType, NextType, <1>1, PTL DEF Spec

-----------------------------------------------------------------------------
(* Addresses. *)

\* Every step keeps allocated addresses apart from those already given.
LEMMA NextAddress ==
    TypeInv /\ AddressInv /\ SharedOnlyByOverlap /\ [Next]_vars => (AddressInv /\ SharedOnlyByOverlap)'
<1> SUFFICES ASSUME TypeInv, AddressInv, SharedOnlyByOverlap, [Next]_vars
             PROVE  (AddressInv /\ SharedOnlyByOverlap)'
  OBVIOUS
<1>1. ASSUME NEW k \in Keys, \/ \E b \in BOOLEAN : create_preauth_key(k, b)
                              \/ delete_preauth_key(k) \/ key_expires(k)
      PROVE  (AddressInv /\ SharedOnlyByOverlap)'
  BY <1>1 DEF create_preauth_key, delete_preauth_key, key_expires, tableVars, AddressInv,
     SharedOnlyByOverlap, Rows
<1>2. ASSUME NEW r \in Requests, NEW q \in Request, MovesOn(r, q)
      PROVE  (AddressInv /\ SharedOnlyByOverlap)'
  <2>1. req' = [req EXCEPT ![r] = q] /\ UNCHANGED <<row, named, before>> /\ Rows' = Rows
    BY <1>2 DEF MovesOn, RequestStep, tableVars, Rows
  <2>2. (q.op \in InsertOps /\ q.ip # NoIp) => \A e \in q.existing \ named : row[e].addr # q.ip
    <3>1. CASE Allocates(r, q)
      <4>1. q.ip = First(FreeHosts) /\ q.existing = req[r].existing /\ req[r].existing \subseteq Rows
        BY <3>1 DEF Allocates, TypeInv, TypeOK, RequestsInv
      <4> QED BY <3>1, <4>1, FreeHostIsFree DEF Allocates, TypeInv
    <3>2. CASE Begins(q) \/ Loads(q) \/ q = Idle
      BY <3>2 DEF Begins, Loads, Idle, InsertOps, RowOps
    <3> QED BY <1>2, <3>1, <3>2 DEF MovesOn
  <2>3. AddressInv'
    BY <2>1, <2>2 DEF AddressInv, TypeInv, TypeOK
  <2> QED BY <2>1, <2>3 DEF SharedOnlyByOverlap
<1>3. ASSUME NEW r \in Requests, commit_insert(r) PROVE (AddressInv /\ SharedOnlyByOverlap)'
  <2> DEFINE d == req[r].dev
  <2>1. /\ d \in Devices \ Rows /\ Rows' = Rows \cup {d} /\ named' = named
        /\ row' = [row EXCEPT ![d] = Inserted(req[r])]
        /\ before' = [before EXCEPT ![d] = req[r].existing]
    BY <1>3, InsertEffect DEF commit_insert
  <2>2. req[r].op \in InsertOps /\ req[r].ip # NoIp /\ req[r].existing \subseteq Rows
    BY <1>3 DEF commit_insert, TypeInv, RequestsInv
  <2>3. req' = [req EXCEPT ![r] = Idle]
    BY <1>3 DEF commit_insert
  <2>4. AddressInv'
    <3> SUFFICES ASSUME NEW s \in Requests, req'[s].op \in InsertOps, req'[s].ip # NoIp,
                        NEW e \in req'[s].existing \ named'
                 PROVE  row'[e].addr # req'[s].ip
      BY DEF AddressInv
    <3>1. s # r /\ req'[s] = req[s]
      BY <2>3 DEF Idle, InsertOps, TypeInv, TypeOK
    <3>2. e \in Rows /\ e \in Devices
      BY <3>1 DEF TypeInv, RequestsInv, Rows
    <3>3. row'[e] = row[e]
      BY <2>1, <3>2 DEF TypeInv, TypeOK
    <3> QED BY <2>1, <3>1, <3>3 DEF AddressInv
  <2>5. ASSUME NEW e \in Rows \ named PROVE e \in before'[d] => row'[e].addr # row'[d].addr
    <3>1. row'[e] = row[e] /\ row'[d].addr = req[r].ip /\ before'[d] = req[r].existing
      BY <2>1 DEF TypeInv, TypeOK, Inserted, Rows
    <3> QED BY <2>2, <3>1 DEF AddressInv
  <2>6. \A e \in Rows : d \notin before'[e] /\ before'[e] = before[e] /\ row'[e] = row[e]
    BY <2>1 DEF TypeInv, TypeOK, BeforeInv, Rows
  <2> HIDE DEF d
  <2> QED BY <2>1, <2>4, <2>5, <2>6 DEF SharedOnlyByOverlap
<1>4. ASSUME NEW r \in Requests, commit_row(r) PROVE (AddressInv /\ SharedOnlyByOverlap)'
  <2>1. /\ before' = before /\ Rows' = Rows /\ req' = [req EXCEPT ![r] = Idle]
        /\ named \subseteq named'
    BY <1>4, RowEffect DEF commit_row
  <2>2. ASSUME NEW e \in Rows \ named' PROVE row'[e].addr = row[e].addr
    <3>1. CASE e # req[r].dev
      BY <1>4, <3>1, RowEffect DEF TypeInv, TypeOK, Rows
    <3>2. CASE e = req[r].dev
      <4>1. req[r].new.addr = req[r].loaded.addr
        BY <1>4, <2>2, <3>2 DEF commit_row
      <4> QED BY <1>4, <3>2, <4>1, RowEffect DEF TypeInv, TypeOK, Rows
    <3> QED BY <3>1, <3>2
  <2>3. \A s \in Requests : req'[s].op \in InsertOps => req'[s] = req[s] /\ req[s].existing \subseteq Rows
    BY <2>1 DEF Idle, InsertOps, TypeInv, TypeOK, RequestsInv
  <2> QED BY <2>1, <2>2, <2>3 DEF AddressInv, SharedOnlyByOverlap
<1>5. CASE UNCHANGED vars
  BY <1>5 DEF vars, tableVars, AddressInv, SharedOnlyByOverlap, Rows
<1> QED
  BY <1>1, <1>2, <1>3, <1>4, <1>5, StepKinds DEF TypeInv

\* Two devices share an address that the server allocated only if the
\* requests that created them overlapped, whatever is revoked, disabled,
\* refused or aborted in between (ipam.py:27-49).
THEOREM AddressesApart == Spec => []SharedOnlyByOverlap
<1>1. Init => AddressInv /\ SharedOnlyByOverlap
  BY DEF Init, AddressInv, SharedOnlyByOverlap, Rows, Idle, InsertOps
<1> QED BY <1>1, InitType, NextType, NextAddress, PTL DEF Spec

-----------------------------------------------------------------------------
(* Keys. *)

\* Every step keeps a spent single-use key from admitting again.
LEMMA NextKey ==
    TypeInv /\ KeyInv /\ ReusedOnlyByOverlap /\ [Next]_vars => (KeyInv /\ ReusedOnlyByOverlap)'
<1> SUFFICES ASSUME TypeInv, KeyInv, ReusedOnlyByOverlap, [Next]_vars
             PROVE  (KeyInv /\ ReusedOnlyByOverlap)'
  OBVIOUS
<1>1. ASSUME NEW k \in Keys, \/ \E b \in BOOLEAN : create_preauth_key(k, b)
                              \/ delete_preauth_key(k) \/ key_expires(k)
      PROVE  (KeyInv /\ ReusedOnlyByOverlap)'
  <2>1. /\ UNCHANGED <<row, viaKey, req, before>> /\ reusable \subseteq reusable'
        /\ \A j \in Keys : key[j] = "deleted" => key'[j] = "deleted"
    BY <1>1 DEF create_preauth_key, delete_preauth_key, key_expires, tableVars, TypeInv, TypeOK
  <2> QED BY <2>1 DEF KeyInv, ReusedOnlyByOverlap, Rows
<1>2. ASSUME NEW r \in Requests, NEW q \in Request, MovesOn(r, q)
      PROVE  (KeyInv /\ ReusedOnlyByOverlap)'
  <2>1. /\ req' = [req EXCEPT ![r] = q] /\ Rows' = Rows
        /\ UNCHANGED <<row, viaKey, before, reusable, key>>
    BY <1>2 DEF MovesOn, RequestStep, tableVars, Rows
  <2>2. (q.op \in InsertOps /\ q.key \in Keys \ reusable) => \A e \in q.existing : viaKey[e] # q.key
    <3>1. CASE Begins(q)
      BY <3>1 DEF Begins, KeyInv
    <3>2. CASE Loads(q) \/ q = Idle
      BY <3>2 DEF Loads, Idle, InsertOps, RowOps
    <3>3. CASE Allocates(r, q)
      <4>1. q.key = req[r].key /\ q.existing = req[r].existing /\ q.op = req[r].op
        BY <3>3 DEF Allocates, TypeInv, TypeOK
      <4> QED BY <4>1 DEF KeyInv
    <3> QED BY <1>2, <3>1, <3>2, <3>3 DEF MovesOn
  <2>3. KeyInv'
    BY <2>1, <2>2 DEF KeyInv, TypeInv, TypeOK
  <2> QED BY <2>1, <2>3 DEF ReusedOnlyByOverlap
<1>3. ASSUME NEW r \in Requests, commit_insert(r) PROVE (KeyInv /\ ReusedOnlyByOverlap)'
  <2> DEFINE d == req[r].dev
             k == req[r].key
  <2>1. /\ d \in Devices \ Rows /\ Rows' = Rows \cup {d} /\ reusable' = reusable
        /\ viaKey' = [viaKey EXCEPT ![d] = k]
        /\ before' = [before EXCEPT ![d] = req[r].existing]
        /\ req' = [req EXCEPT ![r] = Idle] /\ spend_key(req[r])
    BY <1>3, InsertEffect DEF commit_insert
  <2>2. req[r].op \in InsertOps /\ req[r].existing \subseteq Rows
    BY <1>3 DEF commit_insert, TypeInv, RequestsInv
  <2>3. /\ \A j \in Keys : key[j] = "deleted" => key'[j] = "deleted"
        /\ k \in Keys \ reusable => key'[k] = "deleted"
    BY <2>1, EnrollmentAssumption DEF spend_key, TypeInv, TypeOK
  <2>4. viaKey'[d] = k /\ before'[d] = req[r].existing
    BY <2>1 DEF TypeInv, TypeOK
  <2>5. \A e \in Rows : d \notin before'[e] /\ before'[e] = before[e] /\ viaKey'[e] = viaKey[e]
    BY <2>1 DEF TypeInv, TypeOK, BeforeInv, Rows
  <2>6. \A s \in Requests : req'[s].op \in InsertOps => req'[s] = req[s] /\ req[s].existing \subseteq Rows
    BY <2>1 DEF Idle, InsertOps, TypeInv, TypeOK, RequestsInv
  <2>7. k \in Keys \ reusable => \A e \in req[r].existing : viaKey[e] # k
    BY <2>2 DEF KeyInv
  <2> HIDE DEF d, k
  <2>8. KeyInv'
    <3>1. ASSUME NEW e \in Rows', viaKey'[e] \in Keys \ reusable' PROVE key'[viaKey'[e]] = "deleted"
      BY <2>1, <2>3, <2>4, <2>5, <3>1 DEF KeyInv
    <3>2. ASSUME NEW s \in Requests, req'[s].op \in InsertOps, req'[s].key \in Keys \ reusable',
                 NEW e \in req'[s].existing
          PROVE  viaKey'[e] # req'[s].key
      BY <2>1, <2>5, <2>6, <3>2 DEF KeyInv
    <3> QED BY <3>1, <3>2 DEF KeyInv
  <2> QED BY <2>1, <2>2, <2>4, <2>5, <2>7, <2>8 DEF ReusedOnlyByOverlap
<1>4. ASSUME NEW r \in Requests, commit_row(r) PROVE (KeyInv /\ ReusedOnlyByOverlap)'
  <2>1. /\ UNCHANGED <<before, viaKey, reusable, key>> /\ Rows' = Rows
        /\ req' = [req EXCEPT ![r] = Idle]
    BY <1>4, RowEffect DEF commit_row
  <2>2. \A s \in Requests : req'[s].op \in InsertOps => req'[s] = req[s]
    BY <2>1 DEF Idle, InsertOps, TypeInv, TypeOK
  <2> QED BY <2>1, <2>2 DEF KeyInv, ReusedOnlyByOverlap
<1>5. CASE UNCHANGED vars
  BY <1>5 DEF vars, tableVars, KeyInv, ReusedOnlyByOverlap, Rows
<1> QED
  BY <1>1, <1>2, <1>3, <1>4, <1>5, StepKinds DEF TypeInv

\* A single-use key admits a second device only by a request that overlapped
\* the first one's, by either call that takes a key (devices.py:472-477,
\* 504-505, 575-576).
THEOREM KeysAdmitOnce == Spec => []ReusedOnlyByOverlap
<1>1. Init => KeyInv /\ ReusedOnlyByOverlap
  BY DEF Init, KeyInv, ReusedOnlyByOverlap, Rows, Idle, InsertOps
<1> QED BY <1>1, InitType, NextType, NextKey, PTL DEF Spec

-----------------------------------------------------------------------------
(* Revocation. *)

\* Every step other than an administrator's keeps a revoked device revoked.
LEMMA NextBarred == TypeInv /\ BarredInv /\ [Next]_vars => BarredInv'
<1> SUFFICES ASSUME TypeInv, BarredInv, [Next]_vars PROVE BarredInv'
  OBVIOUS
<1>1. ASSUME NEW k \in Keys, \/ \E b \in BOOLEAN : create_preauth_key(k, b)
                              \/ delete_preauth_key(k) \/ key_expires(k)
      PROVE  BarredInv'
  BY <1>1 DEF create_preauth_key, delete_preauth_key, key_expires, tableVars, BarredInv, Enrolling
<1>2. ASSUME NEW r \in Requests, NEW q \in Request, MovesOn(r, q) PROVE BarredInv'
  <2>1. req' = [req EXCEPT ![r] = q] /\ UNCHANGED <<row, barred>>
    BY <1>2 DEF MovesOn, RequestStep, tableVars
  <2>2. CASE Loads(q)
    BY <2>1, <2>2 DEF Loads, BarredInv, Enrolling, TypeInv, TypeOK
  <2>3. CASE Begins(q) \/ q = Idle \/ Allocates(r, q)
    <3>1. q.op \notin RowOps
      BY <2>3 DEF Begins, Idle, Allocates, InsertOps, RowOps, TypeInv, TypeOK
    <3> QED BY <2>1, <3>1 DEF BarredInv, Enrolling, TypeInv, TypeOK, RowOps
  <2> QED BY <1>2, <2>2, <2>3 DEF MovesOn
<1>3. ASSUME NEW r \in Requests, commit_insert(r) PROVE BarredInv'
  <2>1. /\ req' = [req EXCEPT ![r] = Idle] /\ barred' = barred
        /\ \A d \in barred : row'[d] = row[d]
    BY <1>3, InsertEffect DEF commit_insert, TypeInv, TypeOK, Rows
  <2> QED BY <2>1 DEF BarredInv, Enrolling, TypeInv, TypeOK, Idle
<1>4. ASSUME NEW r \in Requests, commit_row(r) PROVE BarredInv'
  <2>1. req' = [req EXCEPT ![r] = Idle]
    BY <1>4 DEF commit_row
  <2>2. \A d : Enrolling(d)' => Enrolling(d)
    BY <2>1 DEF Enrolling, TypeInv, TypeOK, Idle
  <2>3. ASSUME NEW d \in barred' PROVE row'[d].status = "revoked" /\ ~ Enrolling(d)
    <3>1. CASE d # req[r].dev
      BY <1>4, <3>1, RowEffect DEF commit_row, BarredInv, TypeInv, TypeOK, Rows
    <3>2. CASE d = req[r].dev
      <4> DEFINE q == req[r]
      <4>1. row'[d].status = IF q.new.status # q.loaded.status THEN q.new.status ELSE row[d].status
        BY <1>4, <3>2, RowEffect DEF TypeInv, TypeOK, Rows
      <4>2. CASE q.op = "revoke_device" /\ ~ Enrolling(d)
        BY <4>1, <4>2 DEF BarredInv
      <4>3. CASE ~ (q.op = "revoke_device" /\ ~ Enrolling(d))
        <5>1. d \in barred /\ ~ (q.op = "update_device" /\ q.new.status # q.loaded.status)
          BY <1>4, <2>3, <3>2, <4>3 DEF commit_row
        <5>2. row[d].status = "revoked" /\ ~ Enrolling(d)
          BY <5>1 DEF BarredInv
        <5>3. q.op \in RowOps /\ q.op # "enroll_device" /\ q.op # "revoke_device"
          BY <1>4, <3>2, <4>3, <5>2 DEF commit_row, Enrolling
        <5>4. q.new.status = q.loaded.status
          BY <5>1, <5>3 DEF BarredInv, RowOps
        <5> QED BY <4>1, <5>2, <5>4
      <4> QED BY <4>2, <4>3
    <3> QED BY <3>1, <3>2
  <2>4. \A s \in Requests : req'[s].op # "idle" => req'[s] = req[s]
    BY <2>1 DEF Idle, TypeInv, TypeOK
  <2> QED BY <2>2, <2>3, <2>4 DEF BarredInv
<1>5. CASE UNCHANGED vars
  BY <1>5 DEF vars, tableVars, BarredInv, Enrolling
<1> QED
  BY <1>1, <1>2, <1>3, <1>4, <1>5, StepKinds DEF TypeInv

\* A revoked device does not authenticate until its status is set by hand,
\* whatever requests on it were in progress, unless one of them was its
\* enrolment (devices.py:229-241, api/deps.py).
THEOREM RevocationHolds == Spec => []RevokedStaysOut
<1>1. Init => BarredInv
  BY DEF Init, BarredInv, Idle
<1>2. BarredInv => RevokedStaysOut
  BY DEF BarredInv, RevokedStaysOut, Authenticates
<1> QED BY <1>1, <1>2, InitType, NextType, NextBarred, PTL DEF Spec
=============================================================================
