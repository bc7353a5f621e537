--------------------------- MODULE DaemonLifecycle ---------------------------
(***************************************************************************)
(* How a host becomes a device: the enroll command, the start of the       *)
(* daemon with the registration of older hosts (src/midscaled/daemon/      *)
(* main.py), the files both keep their results in (state_store.py) and the *)
(* calls to the server (api_client.py).                                    *)
(*                                                                         *)
(* enrollment.json and private.key are replaced in one step each,          *)
(* identity.json is truncated and then written.  Either process may die    *)
(* between any two steps, and requests and answers may be lost.  The       *)
(* service manager (install/midscaled.service) starts the daemon again     *)
(* when it has ended, until it has started it too often.                   *)
(*                                                                         *)
(* Abstractions.  A device of the server stands for its id, its token and  *)
(* its key.  The parts the daemon starts once it runs have modules of      *)
(* their own, and enroll --apply is what DaemonReconciler does with a      *)
(* configuration.                                                          *)
(***************************************************************************)
EXTENDS Naturals, FiniteSets

CONSTANTS
    MaxDevices,   \* bound on the devices created
    StartLimit,   \* StartLimitBurst of midscaled.service
    MaxFaults     \* bound on crashes and lost messages

ASSUME LifecycleAssumption ==
    MaxDevices \in Nat \ {0} /\ StartLimit \in Nat \ {0} /\ MaxFaults \in Nat

None == 0
Torn == MaxDevices + 1   \* a file that was truncated and not written

Ids == 1..MaxDevices

VARIABLES
    configured,  \* MIDSCALE_PREAUTH_KEY is set for the daemon
    reusable,    \* the pre-auth key is reusable
    created,     \* devices created on the server with the key
    identity,    \* identity.json
    enrollment,  \* enrollment.json
    key,         \* keys/private.key
    cmd,         \* the enroll command
    daemon,      \* the daemon
    unit,        \* the service: "active", or "failed" and not restarted
    starts,      \* its starts in the last StartLimitInterval
    faults,
    lost,        \* history: devices whose enrolment or registration was cut off
    legacy       \* history: registrations by the daemon

vars == <<configured, reusable, created, identity, enrollment, key, cmd, daemon,
          unit, starts, faults, lost, legacy>>

service == <<unit, starts>>

CmdStates == {"idle", "call", "answered", "key", "identity", "write"}
DaemonStates == {"down", "load", "register", "save", "write", "running"}

TypeOK ==
    /\ configured \in BOOLEAN /\ reusable \in BOOLEAN
    /\ created \in 0..MaxDevices /\ faults \in 0..MaxFaults
    /\ identity \in Ids \cup {None, Torn}
    /\ enrollment \in Ids \cup {None} /\ key \in Ids \cup {None}
    /\ cmd \in [pc : CmdStates, device : Ids \cup {None}]
    /\ daemon \in [pc : DaemonStates, id : Ids \cup {None}, token : Ids \cup {None}]
    /\ unit \in {"active", "failed"} /\ starts \in 0..StartLimit
    /\ lost \subseteq Ids /\ legacy \subseteq Ids

Idle == [pc |-> "idle", device |-> None]
Down == [pc |-> "down", id |-> None, token |-> None]

Init ==
    /\ configured \in BOOLEAN /\ reusable \in BOOLEAN
    /\ created = 0 /\ faults = 0
    /\ identity = None /\ enrollment = None /\ key = None
    /\ cmd = Idle /\ daemon = Down
    /\ unit = "active" /\ starts = 0
    /\ lost = {} /\ legacy = {}

Fault == faults < MaxFaults /\ faults' = faults + 1

\* The server takes the key: a key that is not reusable is deleted with its
\* first use.
KeyIsGood == reusable \/ created = 0

\* Mutant: the token alone counts as an enrolment.
has_enrollment_TokenOnly(token) == token # None

has_enrollment(token) == token # None /\ key # None

\* A file that cannot be parsed reads as an empty one.
read_json(file) == IF file = Torn THEN None ELSE file

-----------------------------------------------------------------------------
(* midscaled enroll. *)

\* The command ends at once when there is an enrolment.
cmd_enroll ==
    /\ cmd = Idle /\ ~ has_enrollment(enrollment)
    /\ cmd' = [cmd EXCEPT !.pc = "call"]
    /\ UNCHANGED <<configured, reusable, created, identity, enrollment, key, daemon,
                   service, faults, lost, legacy>>

\* Mutant: the request is sent again when the answer is late, and creates
\* a second device.
enroll_Retried ==
    /\ cmd.pc = "call"
    /\ IF KeyIsGood
         THEN /\ created + 1 < MaxDevices /\ created' = created + 2
              /\ cmd' = [pc |-> "answered", device |-> created + 2]
         ELSE cmd' = Idle /\ UNCHANGED created
    /\ UNCHANGED <<configured, reusable, identity, enrollment, key, daemon,
                   service, faults, lost, legacy>>

\* The server enrolls the device, or refuses.
enroll ==
    /\ cmd.pc = "call"
    /\ IF KeyIsGood
         THEN /\ created < MaxDevices /\ created' = created + 1
              /\ cmd' = [pc |-> "answered", device |-> created + 1]
         ELSE cmd' = Idle /\ UNCHANGED created
    /\ UNCHANGED <<configured, reusable, identity, enrollment, key, daemon,
                   service, faults, lost, legacy>>

\* Mutant: the identity is saved before the key.
save_key_Last ==
    /\ cmd.pc = "key"
    /\ \/ /\ identity # cmd.device
          /\ identity' = cmd.device
          /\ UNCHANGED <<key, cmd>>
       \/ /\ identity = cmd.device
          /\ key' = cmd.device
          /\ cmd' = [cmd EXCEPT !.pc = "identity"]
          /\ UNCHANGED identity
    /\ UNCHANGED <<configured, reusable, created, enrollment, daemon,
                   service, faults, lost, legacy>>

\* save_enrollment: first the credentials ...
save_enrollment ==
    /\ cmd.pc = "answered"
    /\ enrollment' = cmd.device
    /\ cmd' = [cmd EXCEPT !.pc = "key"]
    /\ UNCHANGED <<configured, reusable, created, identity, key, daemon, service, faults, lost, legacy>>

\* ... then the private key.
save_key ==
    /\ cmd.pc = "key"
    /\ key' = cmd.device
    /\ cmd' = [cmd EXCEPT !.pc = "identity"]
    /\ UNCHANGED <<configured, reusable, created, identity, enrollment, daemon,
                   service, faults, lost, legacy>>

\* save_identity truncates the file and writes it.
save_identity ==
    /\ cmd.pc = "identity"
    /\ identity' = Torn
    /\ cmd' = [cmd EXCEPT !.pc = "write"]
    /\ UNCHANGED <<configured, reusable, created, enrollment, key, daemon, service, faults, lost, legacy>>

write_identity ==
    /\ cmd.pc = "write"
    /\ identity' = cmd.device
    /\ cmd' = Idle
    /\ UNCHANGED <<configured, reusable, created, enrollment, key, daemon, service, faults, lost, legacy>>

\* The command dies, or its request or the answer is lost: it ends with 1.
enroll_fails ==
    /\ cmd # Idle /\ Fault
    /\ cmd' = Idle
    /\ lost' = lost \cup ({cmd.device} \ {None})
    /\ UNCHANGED <<configured, reusable, created, identity, enrollment, key, daemon, service, legacy>>

-----------------------------------------------------------------------------
(* The daemon. *)

\* Restart=always and the start at installation: run loads the identity ...
start_daemon ==
    /\ daemon = Down /\ unit = "active" /\ starts < StartLimit
    /\ starts' = starts + 1
    /\ daemon' = [pc |-> "load", id |-> read_json(identity), token |-> None]
    /\ UNCHANGED <<configured, reusable, created, identity, enrollment, key, cmd, unit,
                   faults, lost, legacy>>

\* ... and the enrolment, and goes on with both; without an enrolment it
\* registers if it has a pre-auth key, and else it ends.
load_enrollment ==
    /\ daemon.pc = "load"
    /\ daemon' =
         CASE daemon.id # None /\ enrollment # None ->
                [daemon EXCEPT !.pc = "running", !.token = enrollment]
           [] ~ (daemon.id # None /\ enrollment # None)
                /\ ~ has_enrollment(enrollment) /\ configured ->
                [daemon EXCEPT !.pc = "register", !.token = enrollment]
           [] OTHER -> Down
    /\ UNCHANGED <<configured, reusable, created, identity, enrollment, key, cmd,
                   service, faults, lost, legacy>>

\* _legacy_register: the server creates a device with keys of its own.
legacy_register ==
    /\ daemon.pc = "register"
    /\ IF KeyIsGood
         THEN /\ created < MaxDevices /\ created' = created + 1
              /\ daemon' = [daemon EXCEPT !.pc = "save", !.id = created + 1]
              /\ legacy' = legacy \cup {created + 1}
         ELSE daemon' = Down /\ UNCHANGED <<created, legacy>>
    /\ UNCHANGED <<configured, reusable, identity, enrollment, key, cmd, service, faults, lost>>

save_registered ==
    /\ daemon.pc = "save"
    /\ identity' = Torn
    /\ daemon' = [daemon EXCEPT !.pc = "write"]
    /\ UNCHANGED <<configured, reusable, created, enrollment, key, cmd, service, faults, lost, legacy>>

\* The daemon runs as registered, with the token it had read, if any.
write_registered ==
    /\ daemon.pc = "write"
    /\ identity' = daemon.id
    /\ daemon' = [daemon EXCEPT !.pc = "running"]
    /\ UNCHANGED <<configured, reusable, created, enrollment, key, cmd, service, faults, lost, legacy>>

\* The daemon dies or is stopped, or its registration is lost.
daemon_fails ==
    /\ daemon # Down /\ Fault
    /\ daemon' = Down
    /\ UNCHANGED <<configured, reusable, created, identity, enrollment, key, cmd, service, lost, legacy>>

-----------------------------------------------------------------------------
(* The service manager. *)

serviceFrame == <<configured, reusable, created, identity, enrollment, key, cmd, daemon,
                  faults, lost, legacy>>

\* One start too many within the interval: the service is given up.
start_limit_hit ==
    /\ daemon = Down /\ unit = "active" /\ starts = StartLimit
    /\ unit' = "failed"
    /\ UNCHANGED <<serviceFrame, starts>>

\* The interval passes: its starts count no more.
interval_passes ==
    /\ starts > 0
    /\ starts' = 0
    /\ UNCHANGED <<serviceFrame, unit>>

\* systemctl restart, which the limit refuses as well.
operator_restarts ==
    /\ unit = "failed" /\ starts < StartLimit
    /\ unit' = "active"
    /\ UNCHANGED <<serviceFrame, starts>>

-----------------------------------------------------------------------------
Command ==
    enroll \/ save_enrollment \/ save_key \/ save_identity \/ write_identity

Daemon ==
    \/ start_daemon \/ start_limit_hit \/ load_enrollment
    \/ legacy_register \/ save_registered \/ write_registered

Next ==
    \/ cmd_enroll \/ Command \/ enroll_fails \/ Daemon \/ daemon_fails
    \/ interval_passes \/ operator_restarts

Spec == Init /\ [][Next]_vars

\* The service manager starts the daemon within its limit, and the operator
\* runs the command until the device is enrolled.  Nobody need restart a
\* service that was given up.
FairSpec == Spec /\ WF_vars(cmd_enroll) /\ WF_vars(Command) /\ WF_vars(Daemon)

-----------------------------------------------------------------------------
(* Properties. *)

RunsEnrolled == daemon.pc = "running" /\ daemon.id # None /\ daemon.token # None

\* A daemon that runs enrolled has the id, the token and the key of one and
\* the same device, however often commands were cut off between their
\* saves, on a host where no daemon registered (main.py:66-72, 180-188).
RunsAsOneDevice ==
    RunsEnrolled /\ legacy = {} => daemon.id = daemon.token /\ key = daemon.token

\* On a host whose daemon has no pre-auth key to register with, every device
\* the server created is the one in use, that of a command in progress or
\* one whose command was cut off: neither restarts of the daemon nor the
\* command, however often it is run, leave another (main.py:44-72, 190-208).
DevicesAccountedFor ==
    ~ configured => \A d \in 1..created : d \in lost \/ d = cmd.device \/ d = enrollment

\* What the files must not become: a key and a token without an identity.
\* The daemon then ends with "incomplete enrollment state", and the command
\* with "already enrolled".
Incomplete == enrollment # None /\ key # None /\ read_json(identity) = None /\ cmd = Idle

\* With a key that lasts, a host ends up with a daemon that runs enrolled,
\* unless a command was cut off exactly while it saved the identity, or the
\* service was given up for good: its daemon ends as long as the host is not
\* enrolled, and the manager stops restarting it (main.py:190-221,
\* midscaled.service:11-14).
ComesUp ==
    reusable /\ ~ configured =>
        \/ <>[]RunsEnrolled
        \/ <>[](Incomplete /\ enrollment \in lost)
        \/ <>[](unit = "failed")
=============================================================================
