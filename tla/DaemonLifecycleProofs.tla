----------------------- MODULE DaemonLifecycleProofs -----------------------
(***************************************************************************)
(* Proofs about the enrolment of a host for any number of devices, faults  *)
(* and repetitions of the command.                                         *)
(***************************************************************************)
EXTENDS DaemonLifecycle, TLAPS

\* How far the files have come with the command: until the key is saved no
\* complete enrolment is there, and from then on no command begins.
CommandInv ==
    /\ cmd.pc \in {"idle", "call"} <=> cmd.device = None
    /\ cmd.pc \in {"call", "answered", "key"} => key = None
    /\ cmd.pc \in {"key", "identity", "write"} => enrollment = cmd.device
    /\ cmd.pc \in {"identity", "write"} => key = cmd.device
    /\ key # None => enrollment = key

\* Credentials without a key are those of the command in progress, or of one
\* that was cut off.
CutOffInv == (enrollment # None /\ key = None) => enrollment = cmd.device \/ enrollment \in lost

\* On a host where no daemon registered, an identity is that of the device
\* whose key is saved, in the file and in the daemon that has read it.
IdentityInv ==
    legacy = {} =>
        /\ identity \notin {None, Torn} => identity = key
        /\ daemon.pc \notin {"save", "write"}
        /\ daemon.id # None => daemon.id = key
        /\ daemon.pc = "running" => daemon.token = daemon.id

\* Without a key to register with, the daemon never does.
RegisterInv == ~ configured => daemon.pc \notin {"register", "save", "write"}

LifecycleInv ==
    /\ TypeOK /\ CommandInv /\ CutOffInv /\ IdentityInv /\ RegisterInv
    /\ DevicesAccountedFor

\* What the service manager and the operator do to the service.
ServiceStep == start_limit_hit \/ interval_passes \/ operator_restarts

\* Device ids, no device and a torn file are told apart.
LEMMA IdsDistinct ==
    None \notin Ids /\ Torn \notin Ids /\ Torn # None /\ Ids \subseteq Nat
BY LifecycleAssumption DEF Ids, None, Torn

\* A new device has an id of its own.
LEMMA NewDevice ==
    ASSUME TypeOK, created < MaxDevices
    PROVE  created + 1 \in Ids /\ created + 1 \in 0..MaxDevices
BY LifecycleAssumption DEF TypeOK, Ids

\* A fault that may still happen stays within its bound.
LEMMA FaultType ==
    ASSUME TypeOK, Fault
    PROVE  faults' \in 0..MaxFaults
BY LifecycleAssumption DEF TypeOK, Fault

\* The daemon runs with what it has read, registers, or ends.
LEMMA LoadEffect ==
    ASSUME load_enrollment
    PROVE  /\ \/ /\ daemon.id # None /\ enrollment # None
                 /\ daemon' = [daemon EXCEPT !.pc = "running", !.token = enrollment]
              \/ /\ configured
                 /\ daemon' = [daemon EXCEPT !.pc = "register", !.token = enrollment]
              \/ daemon' = Down
           /\ UNCHANGED <<configured, reusable, created, identity, enrollment, key, cmd,
                          unit, starts, faults, lost, legacy>>
BY DEF load_enrollment, service

\* What the daemon may hold.
DaemonType == [pc : DaemonStates, id : Ids \cup {None}, token : Ids \cup {None}]

\* Reading the files and registering keep the type of the daemon.
LEMMA DaemonStepType ==
    ASSUME TypeOK, load_enrollment \/ legacy_register
    PROVE  daemon' \in DaemonType
<1>1. daemon \in DaemonType /\ enrollment \in Ids \cup {None}
  BY DEF TypeOK, DaemonType
<1>2. CASE daemon' = Down
  BY <1>2 DEF DaemonType, Down, DaemonStates
<1>3. CASE \E p \in DaemonStates : daemon' = [daemon EXCEPT !.pc = p, !.token = enrollment]
  BY <1>1, <1>3 DEF DaemonType
<1>4. CASE \E n \in Ids : daemon' = [daemon EXCEPT !.pc = "save", !.id = n]
  BY <1>1, <1>4 DEF DaemonType, DaemonStates
<1>5. load_enrollment => \/ daemon' = Down
                         \/ \E p \in DaemonStates : daemon' = [daemon EXCEPT !.pc = p, !.token = enrollment]
  BY LoadEffect DEF DaemonStates
<1>6. legacy_register => \/ daemon' = Down
                         \/ \E n \in Ids : daemon' = [daemon EXCEPT !.pc = "save", !.id = n]
  BY NewDevice DEF legacy_register
<1> QED BY <1>2, <1>3, <1>4, <1>5, <1>6

\* The host starts without files, and nothing runs.
LEMMA InitLifecycle == Init => LifecycleInv
<1> SUFFICES ASSUME Init PROVE LifecycleInv
  OBVIOUS
<1>1. 0 \in 0..MaxDevices /\ 0 \in 0..MaxFaults /\ 1..0 = {}
  BY LifecycleAssumption
<1> QED
  BY <1>1, LifecycleAssumption DEF Init, LifecycleInv, TypeOK, CommandInv, CutOffInv, IdentityInv, RegisterInv,
     DevicesAccountedFor, Idle, Down, CmdStates, DaemonStates, None

\* Every step keeps the types.
LEMMA NextType == LifecycleInv /\ [Next]_vars => TypeOK'
<1> SUFFICES ASSUME LifecycleInv, [Next]_vars PROVE TypeOK'
  OBVIOUS
<1> USE DEF LifecycleInv, TypeOK, CommandInv, Idle, Down, CmdStates, DaemonStates
<1> USE IdsDistinct, NewDevice DEF service
<1>1. CASE cmd_enroll
  BY <1>1 DEF cmd_enroll, has_enrollment
<1>2. CASE enroll
  BY <1>2 DEF enroll
<1>3. CASE save_enrollment
  BY <1>3 DEF save_enrollment
<1>4. CASE save_key
  BY <1>4 DEF save_key
<1>5. CASE save_identity
  BY <1>5 DEF save_identity
<1>6. CASE write_identity
  BY <1>6 DEF write_identity
<1>7. CASE enroll_fails
  <2>1. faults' \in 0..MaxFaults
    BY <1>7, FaultType DEF enroll_fails
  <2>2. cmd' \in [pc : CmdStates, device : Ids \cup {None}] /\ lost' \subseteq Ids
    BY <1>7 DEF enroll_fails
  <2> QED BY <1>7, <2>1, <2>2 DEF enroll_fails
<1>8. CASE start_daemon
  <2>1. starts' \in 0..StartLimit
    BY <1>8, LifecycleAssumption DEF start_daemon
  <2> QED BY <1>8, <2>1 DEF start_daemon, read_json
<1>9. CASE load_enrollment
  <2>1. daemon' \in DaemonType
    BY <1>9, DaemonStepType
  <2> QED BY <1>9, <2>1, LoadEffect DEF DaemonType
<1>10. CASE legacy_register
  <2>1. daemon' \in DaemonType
    BY <1>10, DaemonStepType
  <2>2. created' \in 0..MaxDevices /\ legacy' \subseteq Ids
    BY <1>10 DEF legacy_register
  <2> QED BY <1>10, <2>1, <2>2 DEF legacy_register, DaemonType
<1>11. CASE save_registered
  BY <1>11 DEF save_registered
<1>12. CASE write_registered
  BY <1>12 DEF write_registered
<1>13. CASE daemon_fails
  <2>1. faults' \in 0..MaxFaults
    BY <1>13, FaultType DEF daemon_fails
  <2>2. daemon' \in [pc : DaemonStates, id : Ids \cup {None}, token : Ids \cup {None}]
    BY <1>13 DEF daemon_fails
  <2> QED BY <1>13, <2>1, <2>2 DEF daemon_fails
<1>14. CASE UNCHANGED vars
  BY <1>14 DEF vars
<1>15. CASE ServiceStep
  <2>1. unit' \in {"active", "failed"} /\ starts' \in 0..StartLimit
    BY <1>15, LifecycleAssumption
       DEF ServiceStep, start_limit_hit, interval_passes, operator_restarts
  <2>2. UNCHANGED serviceFrame
    BY <1>15 DEF ServiceStep, start_limit_hit, interval_passes, operator_restarts
  <2> QED BY <2>1, <2>2 DEF serviceFrame
<1> QED
  BY <1>1, <1>2, <1>3, <1>4, <1>5, <1>6, <1>7, <1>8, <1>9, <1>10, <1>11, <1>12, <1>13, <1>14, <1>15
     DEF Next, Command, Daemon, ServiceStep

\* Every step keeps the files in step with the command.
LEMMA NextCommand == LifecycleInv /\ [Next]_vars => (CommandInv /\ CutOffInv)'
<1> SUFFICES ASSUME LifecycleInv, [Next]_vars PROVE (CommandInv /\ CutOffInv)'
  OBVIOUS
<1> USE DEF LifecycleInv, TypeOK, CommandInv, CutOffInv, Idle, CmdStates
<1> USE IdsDistinct, NewDevice DEF service
<1>1. CASE cmd_enroll
  BY <1>1 DEF cmd_enroll, has_enrollment
<1>2. CASE enroll
  BY <1>2 DEF enroll
<1>3. CASE save_enrollment
  BY <1>3 DEF save_enrollment
<1>4. CASE save_key
  BY <1>4 DEF save_key
<1>5. CASE save_identity
  BY <1>5 DEF save_identity
<1>6. CASE write_identity
  BY <1>6 DEF write_identity
<1>7. CASE enroll_fails
  BY <1>7 DEF enroll_fails, Fault
<1>8. CASE start_daemon
  BY <1>8 DEF start_daemon, read_json
<1>9. CASE load_enrollment
  BY <1>9, LoadEffect
<1>10. CASE legacy_register
  BY <1>10 DEF legacy_register
<1>11. CASE save_registered
  BY <1>11 DEF save_registered
<1>12. CASE write_registered
  BY <1>12 DEF write_registered
<1>13. CASE daemon_fails
  BY <1>13 DEF daemon_fails, Fault
<1>14. CASE UNCHANGED vars
  BY <1>14 DEF vars
<1>15. CASE ServiceStep
  BY <1>15, LifecycleAssumption
     DEF ServiceStep, start_limit_hit, interval_passes, operator_restarts, serviceFrame
<1> QED
  BY <1>1, <1>2, <1>3, <1>4, <1>5, <1>6, <1>7, <1>8, <1>9, <1>10, <1>11, <1>12, <1>13, <1>14, <1>15
     DEF Next, Command, Daemon, ServiceStep

\* Every step keeps the identity with the key.
LEMMA NextIdentity == LifecycleInv /\ [Next]_vars => IdentityInv'
<1> SUFFICES ASSUME LifecycleInv, [Next]_vars PROVE IdentityInv'
  OBVIOUS
<1> USE DEF LifecycleInv, TypeOK, CommandInv, IdentityInv, Idle, Down, CmdStates
<1> USE IdsDistinct, NewDevice DEF service
<1>1. CASE cmd_enroll
  BY <1>1 DEF cmd_enroll, has_enrollment
<1>2. CASE enroll
  BY <1>2 DEF enroll
<1>3. CASE save_enrollment
  BY <1>3 DEF save_enrollment
<1>4. CASE save_key
  BY <1>4 DEF save_key
<1>5. CASE save_identity
  BY <1>5 DEF save_identity
<1>6. CASE write_identity
  BY <1>6 DEF write_identity
<1>7. CASE enroll_fails
  BY <1>7 DEF enroll_fails, Fault
<1>8. CASE start_daemon
  BY <1>8 DEF start_daemon, read_json
<1>9. CASE load_enrollment
  <2>1. CASE daemon.id # None /\ daemon' = [daemon EXCEPT !.pc = "running", !.token = enrollment]
    <3>1. daemon'.pc = "running" /\ daemon'.id = daemon.id /\ daemon'.token = enrollment
      BY <2>1
    <3> QED BY <1>9, <2>1, <3>1, LoadEffect
  <2>2. CASE daemon' = [daemon EXCEPT !.pc = "register", !.token = enrollment]
    <3>1. daemon'.pc = "register" /\ daemon'.id = daemon.id
      BY <2>2
    <3> QED BY <1>9, <3>1, LoadEffect
  <2>3. CASE daemon' = Down
    BY <1>9, <2>3, LoadEffect
  <2> QED BY <1>9, <2>1, <2>2, <2>3, LoadEffect
<1>10. CASE legacy_register
  BY <1>10 DEF legacy_register
<1>11. CASE save_registered
  BY <1>11 DEF save_registered
<1>12. CASE write_registered
  BY <1>12 DEF write_registered
<1>13. CASE daemon_fails
  BY <1>13 DEF daemon_fails, Fault
<1>14. CASE UNCHANGED vars
  BY <1>14 DEF vars
<1>15. CASE ServiceStep
  BY <1>15, LifecycleAssumption
     DEF ServiceStep, start_limit_hit, interval_passes, operator_restarts, serviceFrame
<1> QED
  BY <1>1, <1>2, <1>3, <1>4, <1>5, <1>6, <1>7, <1>8, <1>9, <1>10, <1>11, <1>12, <1>13, <1>14, <1>15
     DEF Next, Command, Daemon, ServiceStep

\* Every step keeps a daemon without a key from registering.
LEMMA NextRegister == LifecycleInv /\ [Next]_vars => RegisterInv'
<1> SUFFICES ASSUME LifecycleInv, [Next]_vars PROVE RegisterInv'
  OBVIOUS
<1> USE DEF LifecycleInv, TypeOK, RegisterInv, Down
<1>1. CASE daemon' = daemon /\ configured' = configured
  BY <1>1
<1>2. CASE start_daemon
  BY <1>2 DEF start_daemon
<1>3. CASE load_enrollment
  <2>1. CASE daemon' = [daemon EXCEPT !.pc = "running", !.token = enrollment]
    BY <1>3, <2>1, LoadEffect
  <2>2. CASE configured \/ daemon' = Down
    BY <1>3, <2>2, LoadEffect
  <2> QED BY <1>3, <2>1, <2>2, LoadEffect
<1>4. CASE legacy_register
  BY <1>4 DEF legacy_register
<1>5. CASE save_registered
  BY <1>5 DEF save_registered
<1>6. CASE write_registered
  BY <1>6 DEF write_registered
<1>7. CASE daemon_fails
  BY <1>7 DEF daemon_fails
<1>8. CASE cmd_enroll \/ Command \/ enroll_fails \/ UNCHANGED vars
  BY <1>1, <1>8 DEF cmd_enroll, Command, enroll, save_enrollment, save_key, save_identity,
     write_identity, enroll_fails, vars
<1>9. CASE ServiceStep
  BY <1>1, <1>9 DEF ServiceStep, start_limit_hit, interval_passes, operator_restarts, serviceFrame
<1> QED
  BY <1>2, <1>3, <1>4, <1>5, <1>6, <1>7, <1>8, <1>9 DEF Next, Daemon, ServiceStep

\* Every step keeps the devices accounted for.
LEMMA NextAccounted == LifecycleInv /\ [Next]_vars => DevicesAccountedFor'
<1> SUFFICES ASSUME LifecycleInv, [Next]_vars PROVE DevicesAccountedFor'
  OBVIOUS
<1> USE DEF LifecycleInv, TypeOK, CommandInv, CutOffInv, RegisterInv, DevicesAccountedFor, Idle,
            CmdStates
<1> USE IdsDistinct, NewDevice DEF service
<1>1. CASE cmd_enroll
  BY <1>1 DEF cmd_enroll, has_enrollment
<1>2. CASE enroll
  <2>1. CASE KeyIsGood
    <3>1. cmd.device = None /\ created' = created + 1 /\ cmd'.device = created + 1
      BY <1>2, <2>1 DEF enroll
    <3>2. \A d \in 1..created' : d \in 1..created \/ d = cmd'.device
      BY <3>1
    <3>3. \A d \in 1..created : d # cmd.device
      BY <3>1 DEF None
    <3> QED BY <1>2, <3>2, <3>3 DEF enroll
  <2>2. CASE ~ KeyIsGood
    BY <1>2, <2>2 DEF enroll
  <2> QED BY <2>1, <2>2
<1>3. CASE save_enrollment
  <2>1. cmd'.device = cmd.device /\ enrollment' = cmd.device /\ key = None
    BY <1>3 DEF save_enrollment
  <2>2. \A d \in 1..created : d # None
    BY DEF None
  <2> QED BY <1>3, <2>1, <2>2 DEF save_enrollment
<1>4. CASE save_key
  BY <1>4 DEF save_key
<1>5. CASE save_identity
  BY <1>5 DEF save_identity
<1>6. CASE write_identity
  BY <1>6 DEF write_identity
<1>7. CASE enroll_fails
  BY <1>7 DEF enroll_fails, Fault
<1>8. CASE start_daemon
  BY <1>8 DEF start_daemon, read_json
<1>9. CASE load_enrollment
  BY <1>9, LoadEffect
<1>10. CASE legacy_register
  BY <1>10 DEF legacy_register
<1>11. CASE save_registered
  BY <1>11 DEF save_registered
<1>12. CASE write_registered
  BY <1>12 DEF write_registered
<1>13. CASE daemon_fails
  BY <1>13 DEF daemon_fails, Fault
<1>14. CASE UNCHANGED vars
  BY <1>14 DEF vars
<1>15. CASE ServiceStep
  BY <1>15, LifecycleAssumption
     DEF ServiceStep, start_limit_hit, interval_passes, operator_restarts, serviceFrame
<1> QED
  BY <1>1, <1>2, <1>3, <1>4, <1>5, <1>6, <1>7, <1>8, <1>9, <1>10, <1>11, <1>12, <1>13, <1>14, <1>15
     DEF Next, Command, Daemon, ServiceStep

\* The invariant survives every step.
LEMMA NextLifecycle == LifecycleInv /\ [Next]_vars => LifecycleInv'
BY NextType, NextCommand, NextIdentity, NextRegister, NextAccounted DEF LifecycleInv

\* The files, the command and the daemon always have their types.
THEOREM TypeCorrect == Spec => []TypeOK
<1>1. LifecycleInv => TypeOK
  BY DEF LifecycleInv
<1> QED BY InitLifecycle, NextLifecycle, <1>1, PTL DEF Spec

\* A daemon that runs enrolled has the id, the token and the key of one
\* device, wherever commands and daemons were cut off, on a host where no
\* daemon registered (main.py:66-72, 180-188).
THEOREM OneDevice == Spec => []RunsAsOneDevice
<1>1. LifecycleInv => RunsAsOneDevice
  BY DEF LifecycleInv, IdentityInv, RunsAsOneDevice, RunsEnrolled
<1> QED BY InitLifecycle, NextLifecycle, <1>1, PTL DEF Spec

\* On a host whose daemon has no pre-auth key, the server holds no device
\* that is not in use or cut off, however often the command is run and the
\* daemon restarted (main.py:44-72, 190-208).
THEOREM NoStrayDevices == Spec => []DevicesAccountedFor
<1>1. LifecycleInv => DevicesAccountedFor
  BY DEF LifecycleInv
<1> QED BY InitLifecycle, NextLifecycle, <1>1, PTL DEF Spec
=============================================================================
