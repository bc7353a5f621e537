----------------------------- MODULE Enrollment -----------------------------
(***************************************************************************)
(* How devices enter and leave a network: pre-auth keys, address           *)
(* allocation, enrolment, administrative changes and revocation            *)
(* (src/backend/app/api/v1/devices.py, api/v1/networks.py, api/deps.py,    *)
(* services/ipam.py).                                                      *)
(*                                                                         *)
(* A request reads what it needs, one query at a time, and writes and      *)
(* commits at its end (database.py: one session per request, PostgreSQL at *)
(* READ COMMITTED).  Requests interleave freely between these steps.  A    *)
(* request on a row loads it, assigns to its columns and, when flushed,    *)
(* writes the columns whose value differs from the one it loaded.          *)
(*                                                                         *)
(* Abstractions.  One network, whose hosts are 1 .. LastHost; the server   *)
(* device created with the network (create_network) holds host 1.  A       *)
(* device's token is there or not: a rotation changes its value only.  The *)
(* ownership checks of the administrator's calls pass.  Names, tags and    *)
(* timestamps are left out; a key expires by a step of its own.            *)
(***************************************************************************)
EXTENDS Integers, FiniteSets

CONSTANTS
    Devices,      \* device ids; each is created at most once
    Keys,         \* pre-auth keys
    Requests,     \* requests that may be in progress at once
    LastHost,     \* number of hosts of the subnet
    Chosen,       \* addresses a client may name in enroll_device or a heartbeat
    NewStatuses,  \* values an administrator gives to enrollment_status
    Ops,          \* the operations clients call
    NoDevice, NoKey

InsertOps == {"enroll_by_key", "register_device", "create_device", "create_node_device"}
RowOps == {"enroll_device", "revoke_device", "update_device", "process_heartbeat", "rotate_device_token"}
Statuses == {"pending", "active", "revoked", "expired"}

ASSUME EnrollmentAssumption ==
    /\ LastHost \in Nat \ {0}
    /\ Chosen \subseteq 1..LastHost
    /\ NewStatuses \subseteq Statuses
    /\ Ops \subseteq InsertOps \cup RowOps
    /\ NoDevice \notin Devices /\ NoKey \notin Keys

VARIABLES
    row,      \* the device table; NoRow when there is no such row
    key,      \* a key is not created yet, in the table, or deleted
    reusable, \* the reusable keys
    expired,  \* keys past expires_at
    usedBy,   \* used_by of a key
    req,      \* what each request in progress has read and intends
    viaKey,   \* key it was created with
    named,    \* devices whose address a client chose
    before,   \* devices in the table when the request creating a device began
    barred    \* devices revoked, with no enroll_device on them in progress, since
              \* their status was last set by hand

tableVars == <<row, key, reusable, usedBy, viaKey, named>>
vars == <<tableVars, expired, req, before, barred>>

Hosts == 1..LastHost
Gateway == 1
NoIp == 0

\* The columns of a device that matter here.
NoRow == [status |-> "none", active |-> FALSE, addr |-> NoIp, token |-> FALSE,
          nodeOwned |-> FALSE]
Row == [status : Statuses, active : BOOLEAN, addr : Hosts, token : BOOLEAN,
        nodeOwned : BOOLEAN]

Rows == {d \in Devices : row[d] # NoRow}

\* existing is Rows when an insert began (history); used is used_by as read;
\* loaded and new are the row as loaded and as assigned, NoRow for an insert.
Idle == [op |-> "idle", dev |-> NoDevice, key |-> NoKey, used |-> {}, ip |-> NoIp,
         existing |-> {}, loaded |-> NoRow, new |-> NoRow]

TypeOK ==
    /\ row \in [Devices -> Row \cup {NoRow}]
    /\ key \in [Keys -> {"none", "live", "deleted"}]
    /\ reusable \subseteq Keys /\ expired \subseteq Keys
    /\ usedBy \in [Keys -> SUBSET Devices]
    /\ req \in [Requests ->
                 [op : Ops \cup {"idle"}, dev : Devices \cup {NoDevice}, key : Keys \cup {NoKey},
                  used : SUBSET Devices, ip : Hosts \cup {NoIp},
                  existing : SUBSET Devices, loaded : Row \cup {NoRow}, new : Row \cup {NoRow}]]
    /\ viaKey \in [Devices -> Keys \cup {NoKey}]
    /\ named \subseteq Rows /\ barred \subseteq Rows
    /\ before \in [Devices -> SUBSET Devices]

Init ==
    /\ row = [d \in Devices |-> NoRow]
    /\ key = [k \in Keys |-> "none"]
    /\ reusable = {} /\ expired = {}
    /\ usedBy = [k \in Keys |-> {}]
    /\ req = [r \in Requests |-> Idle]
    /\ viaKey = [d \in Devices |-> NoKey]
    /\ named = {} /\ barred = {}
    /\ before = [d \in Devices |-> {}]

\* _lookup_device_by_token and _check_device_status.
Authenticates(d) ==
    /\ row[d].token /\ row[d].active
    /\ row[d].status \notin {"revoked", "expired", "pending"}

-----------------------------------------------------------------------------
(* Keys. *)

create_preauth_key(k, isReusable) ==
    /\ key[k] = "none"
    /\ key' = [key EXCEPT ![k] = "live"]
    /\ reusable' = IF isReusable THEN reusable \cup {k} ELSE reusable
    /\ UNCHANGED <<row, usedBy, viaKey, named, expired, req, before, barred>>

delete_preauth_key(k) ==
    /\ key[k] = "live"
    /\ key' = [key EXCEPT ![k] = "deleted"]
    /\ UNCHANGED <<row, reusable, usedBy, viaKey, named, expired, req, before, barred>>

key_expires(k) ==
    /\ key[k] = "live" /\ k \notin expired
    /\ expired' = expired \cup {k}
    /\ UNCHANGED <<tableVars, req, before, barred>>

-----------------------------------------------------------------------------
(* Requests that insert a device. *)

\* A fresh uuid: no row has it and no other request will insert it.
Fresh(d) == row[d] = NoRow /\ \A r \in Requests : req[r].dev # d

begin_insert(r, op, d, k) ==
    /\ req[r] = Idle /\ op \in Ops /\ Fresh(d)
    /\ req' = [req EXCEPT ![r] = [Idle EXCEPT !.op = op, !.dev = d, !.key = k,
                                    !.existing = Rows,
                                    !.used = IF k = NoKey THEN {} ELSE usedBy[k]]]
    /\ UNCHANGED <<tableVars, expired, before, barred>>

KeyAccepted(k) == key[k] = "live" /\ k \notin expired

\* The first query of enroll_by_key and its refusals.
enroll_by_key(r, d, k) ==
    /\ KeyAccepted(k)
    /\ k \in reusable \/ usedBy[k] = {}
    /\ begin_insert(r, "enroll_by_key", d, k)

\* register_device does not look at used_by.
register_device(r, d, k) ==
    /\ KeyAccepted(k)
    /\ begin_insert(r, "register_device", d, k)

\* An administrator creates a device with keys of the server, or one whose
\* owner will enrol it.
create_device(r, d) == begin_insert(r, "create_device", d, NoKey)

create_node_device(r, d) == begin_insert(r, "create_node_device", d, NoKey)

FreeHosts == (Hosts \ {Gateway}) \ {row[d].addr : d \in Rows}

First(S) == CHOOSE h \in S : \A i \in S : h <= i

\* Mutant: only the addresses of active devices count as used.
allocate_ip_ActiveOnly(r) ==
    LET free == (Hosts \ {Gateway}) \ {row[d].addr : d \in {e \in Rows : row[e].active}} IN
    /\ req[r].op \in InsertOps /\ req[r].ip = NoIp
    /\ req' = [req EXCEPT ![r] = IF free = {} THEN Idle ELSE [@ EXCEPT !.ip = First(free)]]
    /\ UNCHANGED <<tableVars, expired, before, barred>>

\* Mutant: the broadcast address counts as a host.
allocate_ip_PastEnd(r) ==
    LET free == (2..(LastHost + 1)) \ {row[d].addr : d \in Rows} IN
    /\ req[r].op \in InsertOps /\ req[r].ip = NoIp
    /\ req' = [req EXCEPT ![r] = IF free = {} THEN Idle ELSE [@ EXCEPT !.ip = First(free)]]
    /\ UNCHANGED <<tableVars, expired, before, barred>>

\* The first host that no row holds, the gateway apart; 409 if there is none.
allocate_ip(r) ==
    /\ req[r].op \in InsertOps /\ req[r].ip = NoIp
    /\ req' = [req EXCEPT ![r] = IF FreeHosts = {} THEN Idle
                                  ELSE [@ EXCEPT !.ip = First(FreeHosts)]]
    /\ UNCHANGED <<tableVars, expired, before, barred>>

\* The row the operation inserts.
Inserted(q) == [status |-> IF q.op = "create_node_device" THEN "pending" ELSE "active",
                active |-> TRUE,
                addr   |-> q.ip,
                token  |-> q.op = "enroll_by_key",
                nodeOwned |-> q.op \in {"enroll_by_key", "create_node_device"}]

\* Mutant: a single-use key is kept.
spend_key_Kept(q) == UNCHANGED <<key, usedBy>>

\* A single-use key is deleted: deleting one that is gone already changes
\* nothing and is only warned about.  used_by of a reusable key is written
\* back with the new device appended to what was read.
spend_key(q) ==
    \/ q.key = NoKey /\ UNCHANGED <<key, usedBy>>
    \/ q.key \in Keys \ reusable /\ key' = [key EXCEPT ![q.key] = "deleted"] /\ UNCHANGED usedBy
    \/ q.key \in reusable /\ usedBy' = [usedBy EXCEPT ![q.key] = q.used \cup {q.dev}] /\ UNCHANGED key

commit_insert(r) ==
    LET q == req[r] IN
    /\ q.op \in InsertOps /\ q.ip # NoIp
    /\ q.key \in reusable => key[q.key] = "live"
    /\ row' = [row EXCEPT ![q.dev] = Inserted(q)]
    /\ spend_key(q)
    /\ viaKey' = [viaKey EXCEPT ![q.dev] = q.key]
    /\ before' = [before EXCEPT ![q.dev] = q.existing]
    /\ req' = [req EXCEPT ![r] = Idle]
    /\ UNCHANGED <<reusable, named, expired, barred>>

-----------------------------------------------------------------------------
(* Requests on a device. *)

\* The row is loaded and its columns assigned to.
load_row(r, op, d, new) ==
    /\ req[r] = Idle /\ op \in Ops /\ d \in Rows
    /\ req' = [req EXCEPT ![r] = [Idle EXCEPT !.op = op, !.dev = d, !.loaded = row[d], !.new = new]]
    /\ UNCHANGED <<tableVars, expired, before, barred>>

\* An address the client may name in its request.
WithAddress(old, ip) == IF ip = NoIp THEN old ELSE [old EXCEPT !.addr = ip]

\* The owner of a pending node-owned device completes it.
enroll_device(r, d, ip) ==
    /\ row[d].nodeOwned
    /\ row[d].status = "pending"
    /\ load_row(r, "enroll_device", d,
                WithAddress([row[d] EXCEPT !.status = "active", !.token = TRUE], ip))

revoke_device(r, d) ==
    /\ row[d].status # "revoked"
    /\ load_row(r, "revoke_device", d, [row[d] EXCEPT !.status = "revoked", !.active = FALSE])

\* A field left out of the request is one given the value it has.
update_device(r, d, active, status) ==
    load_row(r, "update_device", d, [row[d] EXCEPT !.active = active, !.status = status])

process_heartbeat(r, d, ip) ==
    /\ Authenticates(d)
    /\ load_row(r, "process_heartbeat", d, WithAddress(row[d], ip))

\* The device has a token already, or it would not authenticate.
rotate_device_token(r, d) ==
    /\ Authenticates(d)
    /\ load_row(r, "rotate_device_token", d, [row[d] EXCEPT !.token = TRUE])

\* Mutant: all columns are written.
Flushed_Whole(old, q) == q.new

\* The flush: a column is written where the assigned value differs from the
\* loaded one, over whatever the row holds by then.
Flushed(old, q) ==
    [c \in DOMAIN old |-> IF q.new[c] # q.loaded[c] THEN q.new[c] ELSE old[c]]

Enrolling(d) == \E r \in Requests : req[r].op = "enroll_device" /\ req[r].dev = d

commit_row(r) ==
    LET q == req[r] IN
    /\ q.op \in RowOps
    /\ row' = [row EXCEPT ![q.dev] = Flushed(@, q)]
    /\ named' = IF q.new.addr # q.loaded.addr THEN named \cup {q.dev} ELSE named
    /\ barred' = IF q.op = "revoke_device" /\ ~ Enrolling(q.dev) THEN barred \cup {q.dev}
                 ELSE IF q.op = "update_device" /\ q.new.status # q.loaded.status THEN barred \ {q.dev}
                 ELSE barred
    /\ req' = [req EXCEPT ![r] = Idle]
    /\ UNCHANGED <<key, reusable, usedBy, viaKey, expired, before>>

\* A request fails and is rolled back: the client went away, the server
\* stopped, or the reusable key to update is gone (StaleDataError).
abort(r) ==
    /\ req[r] # Idle
    /\ req' = [req EXCEPT ![r] = Idle]
    /\ UNCHANGED <<tableVars, expired, before, barred>>

Next ==
    \/ \E k \in Keys : (\E b \in BOOLEAN : create_preauth_key(k, b)) \/ delete_preauth_key(k) \/ key_expires(k)
    \/ \E r \in Requests, d \in Devices :
         \/ \E k \in Keys : enroll_by_key(r, d, k) \/ register_device(r, d, k)
         \/ create_device(r, d) \/ create_node_device(r, d)
         \/ \E ip \in Chosen \cup {NoIp} : enroll_device(r, d, ip) \/ process_heartbeat(r, d, ip)
         \/ \E active \in BOOLEAN, status \in NewStatuses \cup {row[d].status} :
              update_device(r, d, active, status)
         \/ revoke_device(r, d) \/ rotate_device_token(r, d)
    \/ \E r \in Requests : allocate_ip(r) \/ commit_insert(r) \/ commit_row(r) \/ abort(r)

Spec == Init /\ [][Next]_vars

-----------------------------------------------------------------------------
(* Properties. *)

\* Two devices whose addresses the server allocated (ipam.py:27-49) share
\* one only if the requests that created them overlapped: revoked, disabled
\* and pending devices keep theirs, and no failed request takes one.
SharedOnlyByOverlap ==
    \A d, e \in Rows \ named :
        (d # e /\ row[d].addr = row[e].addr) => d \notin before[e] /\ e \notin before[d]

\* A single-use key admits a second device only by a request that overlapped
\* the first one's, by either of the two calls that take a key
\* (devices.py:472-477, 504-505, 575-576).
ReusedOnlyByOverlap ==
    \A d, e \in Rows :
        (d # e /\ viaKey[d] = viaKey[e] /\ viaKey[d] \in Keys \ reusable)
            => d \notin before[e] /\ e \notin before[d]

\* test_phase5.py:327-328, "revoked device should be rejected": a revoked
\* device does not authenticate until its status is set by hand, whatever
\* requests on it were in progress when it was revoked, unless one of them
\* was its enrolment: enroll_device (devices.py:229-241) checks the status it
\* loaded and overwrites a revocation committed since.
RevokedStaysOut == \A d \in barred : ~ Authenticates(d)
=============================================================================
