----------------------------- MODULE RootSecurity -----------------------------
(***************************************************************************)
(* Identities of src/root_control: bootstrap of the root, enrolment of     *)
(* devices, authentication, sessions, and the intake that asks a session   *)
(* validator before it persists a command.  Several processes share the    *)
(* security store; each checks first and writes in a later transaction.    *)
(* Ids and tokens are fresh random values: any id not used yet.  Time is   *)
(* the moment a challenge or a session expires, at any step.               *)
(***************************************************************************)
EXTENDS Integers, FiniteSets

CONSTANTS
  RootIds, ChallengeIds, DeviceIds, SessionIds,   \* ids that may be drawn
  Callers,           \* processes with a store and services of their own
  max_failures,
  MaxTroubles,       \* bound: failed attempts to authenticate, and restarts
  Nobody             \* no id

ASSUME SecurityAssumption ==
  /\ max_failures \in Nat /\ MaxTroubles \in Nat
  /\ Nobody \notin RootIds \cup ChallengeIds \cup DeviceIds \cup SessionIds \cup Callers
  /\ RootIds \cap DeviceIds = {}

VARIABLES
  roots,             \* root_identity: ids of the rows, all active
  closed,            \* bootstrap_state.permanently_closed
  audited,           \* roots with a ROOT_BOOTSTRAP row in audit
  challenges,        \* id |-> [root, consumed, expired], root Nobody: no row
  devices,           \* id |-> [root, challenge, trust]
  sessions,          \* id |-> [root, device, assurance, revoked, expired]
  failures,          \* caller |-> in-memory count per root and device
  at,                \* where a caller is in a call
  holds,             \* caller |-> the ids and the context its call works on
  contexts,          \* caller |-> auth_context it got from authenticate
  secRestarts, failed,
  by,                \* history: the process that inserted a root or a device
  late,              \* history: caller |-> session |-> requests persisted when it was not valid any more
  known              \* history: roots whose recovery material was handed over

secStore == <<roots, closed, audited, challenges, devices, sessions>>
secVars  == <<secStore, failures, at, holds, contexts, secRestarts, failed, late, known, by>>

FailureKeys == RootIds \X DeviceIds

Assurance == {"NONE", "PRIMARY_AUTHENTICATED", "ELEVATED"}

ChallengeRows == [root : RootIds \cup {Nobody}, consumed : BOOLEAN, expired : BOOLEAN]
DeviceRows    == [root : RootIds \cup {Nobody}, challenge : ChallengeIds \cup {Nobody},
                  trust : {"NONE", "TRUSTED", "REVOKED"}]
SessionRows   == [root : RootIds \cup {Nobody}, device : DeviceIds \cup {Nobody},
                  assurance : Assurance, revoked : BOOLEAN, expired : BOOLEAN]
Contexts      == [root : RootIds \cup {Nobody}, device : DeviceIds \cup {Nobody},
                  assurance : Assurance]

NoChallenge == [root |-> Nobody, consumed |-> FALSE, expired |-> FALSE]
NoDevice    == [root |-> Nobody, challenge |-> Nobody, trust |-> "NONE"]
NoSession   == [root |-> Nobody, device |-> Nobody, assurance |-> "NONE",
                revoked |-> FALSE, expired |-> FALSE]
NoContext   == [root |-> Nobody, device |-> Nobody, assurance |-> "NONE"]

Go(c, where, id) == /\ at' = [at EXCEPT ![c] = where]
                    /\ holds' = [holds EXCEPT ![c] = id]
Return(c) == Go(c, "idle", Nobody)

----------------------------------------------------------------------------
(* RootBootstrapService.bootstrap: both checks, then one transaction, then *)
(* the audit row, and only then the recovery secret reaches the caller.    *)

CheckBootstrap(c) ==
  /\ at[c] = "idle" /\ ~closed /\ roots = {}
  /\ Go(c, "bootstrap", Nobody)
  /\ UNCHANGED <<secStore, failures, contexts, secRestarts, late, known, failed, by>>

(* A mutant: the call ends with the transaction. *)
Mut_InsertRoot(c) ==
  /\ at[c] = "bootstrap"
  /\ \E r \in RootIds \ roots :
       /\ roots' = roots \cup {r}
       /\ by' = [by EXCEPT ![r] = c]
       /\ Return(c)
  /\ closed' = TRUE
  /\ UNCHANGED <<audited, challenges, devices, sessions, failures, contexts,
                 secRestarts, late, known, failed>>

InsertRoot(c) ==
  /\ at[c] = "bootstrap"
  /\ \E r \in RootIds \ roots :
       /\ roots' = roots \cup {r}
       /\ by' = [by EXCEPT ![r] = c]
       /\ Go(c, "audit", r)
  /\ closed' = TRUE
  /\ UNCHANGED <<audited, challenges, devices, sessions, failures, contexts,
                 secRestarts, late, known, failed>>

AuditRoot(c) ==
  /\ at[c] = "audit"
  /\ audited' = audited \cup {holds[c]}
  /\ known' = known \cup {holds[c]}
  /\ Return(c)
  /\ UNCHANGED <<roots, closed, challenges, devices, sessions, failures, contexts,
                 secRestarts, late, failed, by>>

----------------------------------------------------------------------------
(* DeviceService.  A challenge may name any root id: nothing checks it.    *)

create_challenge(c) ==
  /\ at[c] = "idle"
  /\ \E i \in ChallengeIds, r \in RootIds :
       /\ challenges[i] = NoChallenge
       /\ challenges' = [challenges EXCEPT ![i] = [NoChallenge EXCEPT !.root = r]]
  /\ UNCHANGED <<roots, closed, audited, devices, sessions, failures, at,
                 holds, contexts,
                 secRestarts, late, known, failed, by>>

Open(i) == /\ challenges[i].root # Nobody
           /\ ~challenges[i].consumed /\ ~challenges[i].expired

CheckChallenge(c) ==
  /\ at[c] = "idle"
  /\ \E i \in ChallengeIds : Open(i) /\ Go(c, "enroll", i)
  /\ UNCHANGED <<secStore, failures, contexts, secRestarts, late, known, failed, by>>

(* A mutant: the challenge is not consumed. *)
Mut_InsertDevice(c) ==
  /\ at[c] = "enroll"
  /\ \E d \in DeviceIds :
       /\ devices[d] = NoDevice
       /\ devices' = [devices EXCEPT ![d] =
            [root |-> challenges[holds[c]].root, challenge |-> holds[c],
             trust |-> "TRUSTED"]]
       /\ by' = [by EXCEPT ![d] = c]
  /\ UNCHANGED challenges
  /\ Return(c)
  /\ UNCHANGED <<roots, closed, audited, sessions, failures, contexts,
                 secRestarts, late, known, failed>>

InsertDevice(c) ==
  /\ at[c] = "enroll"
  /\ \E d \in DeviceIds :
       /\ devices[d] = NoDevice
       /\ devices' = [devices EXCEPT ![d] =
            [root |-> challenges[holds[c]].root, challenge |-> holds[c],
             trust |-> "TRUSTED"]]
       /\ by' = [by EXCEPT ![d] = c]
  /\ challenges' = [challenges EXCEPT ![holds[c]].consumed = TRUE]
  /\ Return(c)
  /\ UNCHANGED <<roots, closed, audited, sessions, failures, contexts,
                 secRestarts, late, known, failed>>

(* One transaction: the device and every session of it.                    *)
RevokeDevice(c) ==
  /\ at[c] = "idle"
  /\ \E d \in DeviceIds :
       /\ devices[d] # NoDevice
       /\ devices' = [devices EXCEPT ![d].trust = "REVOKED"]
       /\ sessions' = [s \in SessionIds |->
            IF sessions[s].device = d THEN [sessions[s] EXCEPT !.revoked = TRUE]
                                      ELSE sessions[s]]
  /\ UNCHANGED <<roots, closed, audited, challenges, failures, at, holds, contexts,
                 secRestarts, late, known, failed, by>>

----------------------------------------------------------------------------
(* AuthenticationService.  The count of failures is kept in memory, per    *)
(* root and device as they were given; a blocked key stays blocked.        *)

(* A mutant: the device is not compared with the root. *)
Mut_OkDevice(r, d) == devices[d].trust = "TRUSTED"

OkDevice(r, d) == devices[d].root = r /\ devices[d].trust = "TRUSTED"

authenticate(c) ==
  /\ at[c] = "idle"
  /\ \E r \in RootIds, d \in DeviceIds, password \in BOOLEAN :
       /\ failures[c][<<r, d>>] < max_failures
       /\ IF OkDevice(r, d) /\ r \in roots /\ password
            THEN /\ contexts' = [contexts EXCEPT ![c] =
                      [root |-> r, device |-> d, assurance |-> "PRIMARY_AUTHENTICATED"]]
                 /\ failures' = [failures EXCEPT ![c][<<r, d>>] = 0]
                 /\ UNCHANGED failed
            ELSE /\ secRestarts + failed < MaxTroubles /\ failed' = failed + 1
                 /\ failures' = [failures EXCEPT ![c][<<r, d>>] = @ + 1]
                 /\ UNCHANGED contexts
  /\ UNCHANGED <<secStore, at, holds, secRestarts, late, known, by>>

require_step_up(c) ==
  /\ at[c] = "idle" /\ contexts[c] # NoContext
  /\ contexts' = [contexts EXCEPT ![c].assurance = "ELEVATED"]
  /\ UNCHANGED <<secStore, failures, at, holds, secRestarts, late, known, failed, by>>

----------------------------------------------------------------------------
(* SessionService.                                                         *)

CheckDevice(c) ==
  /\ at[c] = "idle" /\ contexts[c] # NoContext
  /\ devices[contexts[c].device].trust = "TRUSTED"
  /\ Go(c, "issue", Nobody)
  /\ UNCHANGED <<secStore, failures, contexts, secRestarts, late, known, failed, by>>

InsertSession(c) ==
  /\ at[c] = "issue"
  /\ \E s \in SessionIds :
       /\ sessions[s] = NoSession
       /\ sessions' = [sessions EXCEPT ![s] =
            [root |-> contexts[c].root, device |-> contexts[c].device,
             assurance |-> contexts[c].assurance, revoked |-> FALSE, expired |-> FALSE]]
  /\ Return(c)
  /\ UNCHANGED <<roots, closed, audited, challenges, devices, failures, contexts,
                 secRestarts, late, known, failed, by>>

(* What validate accepts: not revoked, of a trusted device, not expired.   *)
ValidSession(s) == /\ sessions[s] # NoSession
            /\ ~sessions[s].revoked
            /\ devices[sessions[s].device].trust = "TRUSTED"
            /\ ~sessions[s].expired

RevokeSession(c) ==
  /\ at[c] = "idle"
  /\ \E s \in SessionIds :
       /\ sessions[s] # NoSession
       /\ sessions' = [sessions EXCEPT ![s].revoked = TRUE]
  /\ UNCHANGED <<roots, closed, audited, challenges, devices, failures, at, holds,
                 contexts, secRestarts, late, known, failed, by>>

global_revoke(c) ==
  /\ at[c] = "idle"
  /\ \E r \in roots :
       sessions' = [s \in SessionIds |->
         IF sessions[s].root = r THEN [sessions[s] EXCEPT !.revoked = TRUE]
                                 ELSE sessions[s]]
  /\ UNCHANGED <<roots, closed, audited, challenges, devices, failures, at, holds,
                 contexts, secRestarts, late, known, failed, by>>

----------------------------------------------------------------------------
(* RootCommandIntake.submit: the session is validated, then the request is *)
(* checked and hashed, then the command is persisted.                      *)

(* A mutant: a session is known or not, that is all. *)
Mut_ValidateRequest(c) ==
  /\ at[c] = "idle"
  /\ \E s \in SessionIds : sessions[s] # NoSession /\ Go(c, "submit", s)
  /\ UNCHANGED <<secStore, failures, contexts, secRestarts, late, known, failed, by>>

ValidateRequest(c) ==
  /\ at[c] = "idle"
  /\ \E s \in SessionIds : ValidSession(s) /\ Go(c, "submit", s)
  /\ UNCHANGED <<secStore, failures, contexts, secRestarts, late, known, failed, by>>

PersistRequest(c) ==
  /\ at[c] = "submit"
  /\ late' = IF ValidSession(holds[c]) THEN late
             ELSE [late EXCEPT ![c][holds[c]] = @ + 1]
  /\ Return(c)
  /\ UNCHANGED <<secStore, failures, contexts, secRestarts, known, failed, by>>

----------------------------------------------------------------------------
(* Time (of a challenge or a session that nothing else has ended), and a   *)
(* process that dies and starts again: its call, its context and its       *)
(* counts are gone.                                                        *)

Expire ==
  /\ \/ /\ \E i \in ChallengeIds :
             /\ Open(i)
             /\ challenges' = [challenges EXCEPT ![i].expired = TRUE]
        /\ UNCHANGED sessions
     \/ /\ \E s \in SessionIds :
             /\ ValidSession(s)
             /\ sessions' = [sessions EXCEPT ![s].expired = TRUE]
        /\ UNCHANGED challenges
  /\ UNCHANGED <<roots, closed, audited, devices, failures, at, holds,
                 contexts, secRestarts, late, known, failed, by>>

RestartCaller(c) ==
  /\ secRestarts + failed < MaxTroubles
  /\ secRestarts' = secRestarts + 1
  /\ failures' = [failures EXCEPT ![c] = [k \in FailureKeys |-> 0]]
  /\ contexts' = [contexts EXCEPT ![c] = NoContext]
  /\ Return(c)
  /\ UNCHANGED <<secStore, late, known, failed, by>>

SecInit ==
  /\ roots = {} /\ closed = FALSE /\ audited = {} /\ known = {}
  /\ challenges = [i \in ChallengeIds |-> NoChallenge]
  /\ devices = [d \in DeviceIds |-> NoDevice]
  /\ sessions = [s \in SessionIds |-> NoSession]
  /\ failures = [c \in Callers |-> [k \in FailureKeys |-> 0]]
  /\ at = [c \in Callers |-> "idle"] /\ holds = [c \in Callers |-> Nobody]
  /\ contexts = [c \in Callers |-> NoContext]
  /\ secRestarts = 0 /\ failed = 0
  /\ by = [x \in RootIds \cup DeviceIds |-> Nobody]
  /\ late = [c \in Callers |-> [s \in SessionIds |-> 0]]

SecNext ==
  \/ \E c \in Callers :
       \/ CheckBootstrap(c) \/ InsertRoot(c) \/ AuditRoot(c)
       \/ create_challenge(c) \/ CheckChallenge(c) \/ InsertDevice(c) \/ RevokeDevice(c)
       \/ authenticate(c) \/ require_step_up(c)
       \/ CheckDevice(c) \/ InsertSession(c) \/ RevokeSession(c) \/ global_revoke(c)
       \/ ValidateRequest(c) \/ PersistRequest(c) \/ RestartCaller(c)
  \/ Expire

SecSpec == SecInit /\ [][SecNext]_secVars

----------------------------------------------------------------------------
SecTypeOK ==
  /\ roots \subseteq RootIds /\ audited \subseteq RootIds /\ known \subseteq RootIds
  /\ closed \in BOOLEAN
  /\ challenges \in [ChallengeIds -> ChallengeRows]
  /\ devices \in [DeviceIds -> DeviceRows]
  /\ sessions \in [SessionIds -> SessionRows]
  /\ contexts \in [Callers -> Contexts]
  /\ at \in [Callers -> {"idle", "bootstrap", "audit", "enroll", "issue", "submit"}]
  /\ holds \in [Callers -> RootIds \cup ChallengeIds \cup SessionIds \cup {Nobody}]
  /\ failures \in [Callers -> [FailureKeys -> Nat]]
  /\ by \in [RootIds \cup DeviceIds -> Callers \cup {Nobody}]
  /\ late \in [Callers -> [SessionIds -> Nat]]
  /\ secRestarts \in 0 .. MaxTroubles /\ failed \in 0 .. MaxTroubles

(* A session stands on a chain that no check reads as a whole: its device  *)
(* is enrolled for the very root of the session, by a consumed challenge   *)
(* of that root, and the root is an identity on record.                    *)
ChainStands ==
  \A s \in SessionIds :
    sessions[s] # NoSession =>
      LET d == devices[sessions[s].device]
      IN  /\ sessions[s].root \in roots /\ closed
          /\ sessions[s].device \in DeviceIds /\ d # NoDevice
          /\ d.root = sessions[s].root
          /\ d.challenge \in ChallengeIds
          /\ challenges[d.challenge].root = d.root /\ challenges[d.challenge].consumed

(* The bootstrap closes for good and a challenge is used once, up to the   *)
(* calls that had passed their check before: two roots, or two devices of  *)
(* one challenge, were inserted by two different processes.                *)
RaceBound ==
  /\ \A r, q \in roots : by[r] = by[q] => r = q
  /\ \A d, e \in DeviceIds :
       devices[d] # NoDevice /\ devices[d].challenge = devices[e].challenge
         /\ by[d] = by[e] => d = e

(* A command is persisted under a session that is no longer valid only by  *)
(* a call that had validated it before: one command of each process.       *)
LateOnce == \A c \in Callers, s \in SessionIds : late[c][s] <= 1

(* The recovery secret and the audit row come after the transaction that   *)
(* closes the bootstrap: a root whose secret nobody has is one whose       *)
(* bootstrap is still under way or was cut off by a restart.               *)
RootHandedOver ==
  /\ known = audited
  /\ Cardinality({r \in roots : r \notin known
                    /\ ~\E c \in Callers : at[c] = "audit" /\ holds[c] = r}) <= secRestarts
=============================================================================
