--------------------------- MODULE CommandRegistry ---------------------------
(***************************************************************************)
(* The command registry of root control: durable intake, the versioned     *)
(* command rows, the state machine in front of them and the table of       *)
(* idempotent operations.                                                  *)
(*                                                                         *)
(* Threads share one CommandRegistry (check_same_thread=False, an RLock).  *)
(* What one registry method does under the lock is one step; intake and    *)
(* CommandStateMachine.transition call several methods, so other threads   *)
(* run between their steps.  A restart loses the threads and the audit     *)
(* list, which are in memory, and keeps the SQLite tables.                 *)
(*                                                                         *)
(* Abstracted: there is one root identity (bootstrap admits no second), so *)
(* command_id and receipt_id, uuids made of it and the idempotency key,    *)
(* are the key; a hash is the content it is the hash of; addressing fields *)
(* and times are left out; calls that raise before they change anything    *)
(* (an invalid session, an altered content, an edge that is not allowed,   *)
(* an unknown command) are stutters.                                       *)
(***************************************************************************)
EXTENDS Naturals, Sequences

CONSTANTS
  Threads,      \* callers of the services
  Keys,         \* idempotency keys of commands
  Contents,     \* original_content
  Operations,   \* pairs of an operation_type and an idempotency key
  Payloads,     \* payloads of operations
  Refs,         \* result_ref values
  None,         \* no content, no payload
  MaxVersion,   \* bound: versions of one command
  MaxRestarts   \* bound: restarts in one behaviour

ASSUME RegistryAssumption ==
  /\ MaxVersion \in Nat \ {0}
  /\ MaxRestarts \in Nat
  /\ None \notin Contents \union Payloads \union Refs

(* state_machine.py, ALLOWED                                               *)
ALLOWED ==
  [RECEIVED |-> {"AUTHENTICATING"},
   AUTHENTICATING |-> {"REJECTED_UNAUTHENTICATED", "VALIDATING"},
   VALIDATING |-> {"CLARIFICATION_REQUIRED", "ACCEPTED", "FAILED"},
   CLARIFICATION_REQUIRED |-> {"VALIDATING", "CANCELLED", "SUPERSEDED"},
   ACCEPTED |-> {"PLANNING", "CANCELLED", "SUPERSEDED"},
   PLANNING |-> {"WAITING_FOR_APPROVAL", "SCHEDULED", "BLOCKED", "FAILED",
                 "CANCELLED", "SUPERSEDED"},
   WAITING_FOR_APPROVAL |-> {"SCHEDULED", "BLOCKED", "CANCELLED", "SUPERSEDED"},
   SCHEDULED |-> {"IN_PROGRESS", "BLOCKED", "CANCELLED", "SUPERSEDED"},
   IN_PROGRESS |-> {"PAUSED", "BLOCKED", "COMPLETED", "COMPLETED_WITH_RESTRICTIONS",
                    "FAILED", "CANCELLED", "SUPERSEDED"},
   PAUSED |-> {"IN_PROGRESS", "BLOCKED", "CANCELLED", "SUPERSEDED"},
   BLOCKED |-> {"PLANNING", "IN_PROGRESS", "FAILED", "CANCELLED", "SUPERSEDED"}]

Final == {"REJECTED_UNAUTHENTICATED", "COMPLETED", "COMPLETED_WITH_RESTRICTIONS",
          "FAILED", "CANCELLED", "SUPERSEDED"}
Statuses == DOMAIN ALLOWED \union Final

(* ALLOWED.get(previous, set())                                            *)
NextStatuses(s) == IF s \in DOMAIN ALLOWED THEN ALLOWED[s] ELSE {}

(* What a thread keeps between its steps.                                  *)
Submits == [key : Keys, content : Contents]
Moves == [key : Keys, expected : 1 .. MaxVersion, previous : Statuses, next : Statuses]
Evidence == [key : Keys, previous_status : Statuses, next_status : Statuses,
             previous_version : 1 .. MaxVersion, new_version : 1 .. MaxVersion,
             actor : Threads]

VARIABLES
  \* table commands, one row per idempotency key; version 0: no row
  status, version, content,
  \* table operation_idempotency: the payload and the result_ref, or None
  op_payload, op_ref,
  \* threads
  pc, submit, move,
  \* CommandStateMachine.audit; the order of the list is not kept
  audit,
  \* history: the statuses of each command in commit order, the answers given
  \* to intake calls and to operations, restarts so far
  log, receipts, op_answers, restarts

tables  == <<status, version, content, op_payload, op_ref>>
threads == <<pc, submit, move>>
answers == <<receipts, op_answers>>
vars    == <<tables, threads, audit, log, answers, restarts>>

Init ==
  /\ status = [k \in Keys |-> "RECEIVED"]
  /\ version = [k \in Keys |-> 0]
  /\ content = [k \in Keys |-> None]
  /\ op_payload = [o \in Operations |-> None]
  /\ op_ref = [o \in Operations |-> None]
  /\ pc = [t \in Threads |-> "idle"]
  /\ submit = [t \in Threads |-> None]
  /\ move = [t \in Threads |-> None]
  /\ audit = {}
  /\ log = [k \in Keys |-> <<>>]
  /\ receipts = {} /\ op_answers = {} /\ restarts = 0

GoTo(t, from, to) == pc[t] = from /\ pc' = [pc EXCEPT ![t] = to]

-----------------------------------------------------------------------------
(* Intake                                                                  *)

(* CommandIntakeService.submit up to the call of persist_intake: session,  *)
(* authorisation, fields and hash have been checked.                       *)
Submit(t, r) ==
  /\ GoTo(t, "idle", "persist")
  /\ submit' = [submit EXCEPT ![t] = r]
  /\ UNCHANGED <<tables, move, audit, log, answers, restarts>>

(* persist_intake inserts the row ...                                      *)
PersistNew(t) ==
  LET r == submit[t] IN
  /\ GoTo(t, "persist", "receipt")
  /\ version[r.key] = 0
  /\ status' = [status EXCEPT ![r.key] = "RECEIVED"]
  /\ version' = [version EXCEPT ![r.key] = 1]
  /\ content' = [content EXCEPT ![r.key] = r.content]
  /\ log' = [log EXCEPT ![r.key] = <<"RECEIVED">>]
  /\ UNCHANGED <<op_payload, op_ref, submit, move, audit, answers, restarts>>

(* ... or finds it with the same payload hash ...                          *)
PersistDuplicate(t) ==
  LET r == submit[t] IN
  /\ GoTo(t, "persist", "receipt")
  /\ version[r.key] # 0 /\ content[r.key] = r.content
  /\ UNCHANGED <<tables, submit, move, audit, log, answers, restarts>>

(* ... or with another one: IDEMPOTENCY_CONTENT_CONFLICT.                  *)
PersistConflict(t) ==
  LET r == submit[t] IN
  /\ GoTo(t, "persist", "idle")
  /\ version[r.key] # 0 /\ content[r.key] # r.content
  /\ submit' = [submit EXCEPT ![t] = None]
  /\ UNCHANGED <<tables, move, audit, log, answers, restarts>>

Receipt(t) ==
  /\ GoTo(t, "receipt", "idle")
  /\ receipts' = receipts \union {submit[t]}
  /\ submit' = [submit EXCEPT ![t] = None]
  /\ UNCHANGED <<tables, move, audit, log, op_answers, restarts>>

-----------------------------------------------------------------------------
(* CommandStateMachine.transition                                          *)

(* The caller passes a version it has read earlier; get reads the status.  *)
Get(t, k, v, s) ==
  /\ v \in 1 .. version[k] /\ v < MaxVersion
  /\ s \in NextStatuses(status[k])
  /\ GoTo(t, "idle", "commit")
  /\ move' = [move EXCEPT ![t] = [key |-> k, expected |-> v, previous |-> status[k], next |-> s]]
  /\ UNCHANGED <<tables, submit, audit, log, answers, restarts>>

(* CommandRegistry.transition, version as expected                         *)
Commit(t) ==
  LET m == move[t] IN
  /\ GoTo(t, "commit", "read_back")
  /\ version[m.key] = m.expected
  /\ status' = [status EXCEPT ![m.key] = m.next]
  /\ version' = [version EXCEPT ![m.key] = @ + 1]
  /\ log' = [log EXCEPT ![m.key] = Append(@, m.next)]
  /\ UNCHANGED <<content, op_payload, op_ref, submit, move, audit, answers, restarts>>

(* Mutant: a stale version is taken for a retry of what is already done.   *)
Mut_StaleVersion(t) ==
  /\ GoTo(t, "commit", "read_back")
  /\ version[move[t].key] # move[t].expected
  /\ UNCHANGED <<tables, submit, move, audit, log, answers, restarts>>

(* ConcurrentUpdate("STALE_VERSION")                                       *)
StaleVersion(t) ==
  /\ GoTo(t, "commit", "idle")
  /\ version[move[t].key] # move[t].expected
  /\ move' = [move EXCEPT ![t] = None]
  /\ UNCHANGED <<tables, submit, audit, log, answers, restarts>>

EvidenceOf(t) ==
  LET m == move[t] IN
  [key |-> m.key, previous_status |-> m.previous, next_status |-> m.next,
   previous_version |-> m.expected, new_version |-> version[m.key], actor |-> t]

(* Mutant: a row that has moved on in the meantime counts as a conflict.   *)
Mut_ReadBack(t) ==
  /\ GoTo(t, "read_back", "idle")
  /\ audit' = IF version[move[t].key] = move[t].expected + 1 THEN audit \union {EvidenceOf(t)} ELSE audit
  /\ move' = [move EXCEPT ![t] = None]
  /\ UNCHANGED <<tables, submit, log, answers, restarts>>

(* registry.transition returns self.get(command_id), read after the commit *)
(* and outside its transaction; then the evidence is appended.             *)
ReadBack(t) ==
  /\ GoTo(t, "read_back", "idle")
  /\ audit' = audit \union {EvidenceOf(t)}
  /\ move' = [move EXCEPT ![t] = None]
  /\ UNCHANGED <<tables, submit, log, answers, restarts>>

-----------------------------------------------------------------------------
(* record_operation: one transaction                                       *)

Answer(o, p, r) == op_answers' = op_answers \union {<<o, p, r>>}

RecordOperation(o, p, r) ==
  /\ op_payload[o] = None
  /\ op_payload' = [op_payload EXCEPT ![o] = p]
  /\ op_ref' = [op_ref EXCEPT ![o] = r]
  /\ Answer(o, p, r)
  /\ UNCHANGED <<status, version, content, threads, audit, log, receipts, restarts>>

(* Mutant: a duplicate is answered with the result_ref of the caller.      *)
Mut_RepeatOperation(o, p, r) ==
  /\ op_payload[o] # None /\ op_payload[o] = p
  /\ Answer(o, p, r)
  /\ UNCHANGED <<tables, threads, audit, log, receipts, restarts>>

(* A duplicate is answered with the result_ref of the first call, whatever *)
(* the caller passes; another payload raises OPERATION_CONTENT_CONFLICT.   *)
RepeatOperation(o, p, r) ==
  /\ op_payload[o] # None /\ op_payload[o] = p
  /\ Answer(o, p, op_ref[o])
  /\ UNCHANGED <<tables, threads, audit, log, receipts, restarts>>

-----------------------------------------------------------------------------
(* The process dies and is started again on the same database file.        *)
Restart ==
  /\ restarts < MaxRestarts
  /\ restarts' = restarts + 1
  /\ pc' = [t \in Threads |-> "idle"]
  /\ submit' = [t \in Threads |-> None]
  /\ move' = [t \in Threads |-> None]
  /\ audit' = {}
  /\ UNCHANGED <<tables, log, answers>>

Step(t) ==
  \/ \E r \in Submits : Submit(t, r)
  \/ PersistNew(t) \/ PersistDuplicate(t) \/ PersistConflict(t) \/ Receipt(t)
  \/ \E k \in Keys, v \in 1 .. MaxVersion, s \in Statuses : Get(t, k, v, s)
  \/ Commit(t) \/ StaleVersion(t) \/ ReadBack(t)

Next ==
  \/ \E t \in Threads : Step(t)
  \/ \E o \in Operations, p \in Payloads, r \in Refs :
       RecordOperation(o, p, r) \/ RepeatOperation(o, p, r)
  \/ Restart

Spec == Init /\ [][Next]_vars

-----------------------------------------------------------------------------
TypeOK ==
  /\ status \in [Keys -> Statuses]
  /\ version \in [Keys -> 0 .. MaxVersion]
  /\ content \in [Keys -> Contents \union {None}]
  /\ op_payload \in [Operations -> Payloads \union {None}]
  /\ op_ref \in [Operations -> Refs \union {None}]
  /\ \A o \in Operations : op_payload[o] # None => op_ref[o] # None
  /\ pc \in [Threads -> {"idle", "persist", "receipt", "commit", "read_back"}]
  /\ submit \in [Threads -> Submits \union {None}]
  /\ move \in [Threads -> Moves \union {None}]
  /\ audit \subseteq Evidence
  /\ log \in [Keys -> Seq(Statuses)]
  /\ receipts \subseteq Submits
  /\ op_answers \subseteq Operations \X Payloads \X Refs
  /\ restarts \in 0 .. MaxRestarts

(* Every change of status that is committed is an edge of ALLOWED, though  *)
(* the edge is checked on a status read before the transaction and the     *)
(* transaction compares only the version the caller brought.               *)
OnlyAllowedEdges ==
  \A k \in Keys : \A i \in 1 .. Len(log[k]) - 1 : log[k][i + 1] \in NextStatuses(log[k][i])

(* The audit never tells of a transition that did not happen: the status   *)
(* before and after are those of the two versions, in the committed order, *)
(* and no version is left by two transitions.                              *)
AuditIsTrue ==
  /\ \A e \in audit :
       /\ e.previous_version < Len(log[e.key])
       /\ log[e.key][e.previous_version] = e.previous_status
       /\ log[e.key][e.previous_version + 1] = e.next_status
  /\ \A e, f \in audit : e.key = f.key /\ e.previous_version = f.previous_version => e = f

(* As long as the process has not been restarted, every committed          *)
(* transition is in the audit or about to be appended by its thread.       *)
AuditIsComplete ==
  restarts = 0 => \A k \in Keys : \A v \in 1 .. Len(log[k]) - 1 :
    \/ \E e \in audit : e.key = k /\ e.previous_version = v
    \/ \E t \in Threads : pc[t] = "read_back" /\ move[t].key = k /\ move[t].expected = v

(* Whoever holds a receipt, or an answer to an operation, before or after  *)
(* a restart, holds what the table says: no second content under a key,    *)
(* one result for an operation whatever its repetitions bring.             *)
AnswersAgree ==
  /\ \A r \in receipts : version[r.key] > 0 /\ content[r.key] = r.content
  /\ \A a \in op_answers : op_payload[a[1]] = a[2] /\ op_ref[a[1]] = a[3]

-----------------------------------------------------------------------------
(* The strengthening the proofs use.  A thread past its first step has its *)
(* call, and its receipt is for the row as it stands.                      *)
SubmitHolds(t) ==
  /\ pc[t] \in {"persist", "receipt"} => submit[t] \in Submits
  /\ pc[t] = "receipt" => version[submit[t].key] > 0 /\ content[submit[t].key] = submit[t].content

(* The status read is still the status if the version is still the one     *)
(* expected, because the version was read no later than the status.        *)
MoveHolds(t) ==
  /\ pc[t] \in {"commit", "read_back"} =>
       /\ move[t] \in Moves
       /\ move[t].expected < MaxVersion
       /\ move[t].next \in NextStatuses(move[t].previous)
  /\ pc[t] = "commit" =>
       /\ move[t].expected <= version[move[t].key]
       /\ move[t].expected = version[move[t].key] => move[t].previous = status[move[t].key]
  /\ pc[t] = "read_back" =>
       /\ move[t].expected < version[move[t].key]
       /\ log[move[t].key][move[t].expected] = move[t].previous
       /\ log[move[t].key][move[t].expected + 1] = move[t].next

ThreadsHold == \A t \in Threads : SubmitHolds(t) /\ MoveHolds(t)

(* The row is the last entry of the log.                                   *)
LogHolds ==
  \A k \in Keys :
    /\ Len(log[k]) = version[k]
    /\ version[k] > 0 => log[k][version[k]] = status[k]

(* No version is left twice, counting the evidence still to be appended.   *)
LeftOnce ==
  \A t \in Threads : pc[t] = "read_back" =>
    /\ \A e \in audit : e.key = move[t].key => e.previous_version # move[t].expected
    /\ \A u \in Threads : pc[u] = "read_back" /\ move[u].key = move[t].key
                             /\ move[u].expected = move[t].expected => u = t

TypeInv == TypeOK /\ ThreadsHold /\ LogHolds
=============================================================================
