---------------------------- MODULE ComputeFabric ----------------------------
(***************************************************************************)
(* The compute fabric of SSI V5: the durable job queue on the i7 control   *)
(* node, the SSH transport, and the Node-01 worker with its workspace of   *)
(* directories.                                                            *)
(*                                                                         *)
(* Control processes (Procs) are the operating-system processes that run   *)
(* fabric.py code on the i7: each submits one job, or runs                 *)
(* dispatch_pending, or runs collect_remote_results.  They share the       *)
(* SQLite queue, the outbox of bundles and the results_collected           *)
(* directory.  With one process the i7 is sequential, as in one manual     *)
(* cycle; with two, command-line invocations overlap.                      *)
(*                                                                         *)
(* Abstracted: the priority order in which a loop takes its rows (any      *)
(* order), timestamps, the attempts counter and the compute_events log     *)
(* (written, never read), the compute_workers row that mark_result also    *)
(* touches (a display row), the tar stream (it arrives whole or not at     *)
(* all), and the content of files: a file of a result bundle is known by   *)
(* the execution that wrote it.                                            *)
(***************************************************************************)
EXTENDS Naturals, Sequences

CONSTANTS
  Procs,         \* control processes on the i7
  Jobs,          \* job ids, uuids: each is submitted at most once
  Keys,          \* idempotency keys
  NoKey,         \* idempotency_key=None
  KeyOf,         \* the idempotency key each job is created with
  Allowed,       \* jobs whose job_type is in ALLOWED_JOB_TYPES of the worker
  Fits,          \* jobs whose resource request the node can ever satisfy
  Outcomes,      \* values of "status" an execution can return
  MaxRuns,       \* bound: executions of one job
  MaxFaults,     \* bound: crashes and SSH failures in one behaviour
  None           \* no job, no result name

ASSUME FabricAssumption ==
  /\ KeyOf \in [Jobs -> Keys \union {NoKey}]
  /\ NoKey \notin Keys
  /\ Allowed \subseteq Jobs
  /\ MaxRuns \in Nat
  /\ MaxFaults \in Nat
  /\ None \notin Jobs
  /\ Outcomes \intersect {"ABSENT", "QUEUED", "REMOTE_QUEUED"} = {}

ResultSuffixes == {"done", "failed"}
Names == Jobs \X ResultSuffixes                \* names under results/ on Node-01
Files == {"body", "inputs", "manifest"}  \* result.json+output/, job.json+input_manifest.json, result_manifest.json

Results == [run : 1 .. MaxRuns, status : Outcomes]
NoResult == [run |-> 0, status |-> "NONE"]

(* A result directory: each file is absent or written by some execution.   *)
Dirs == [body : Results \union {NoResult}, inputs : BOOLEAN,
         manifest : 0 .. MaxRuns]
EmptyDir == [body |-> NoResult, inputs |-> FALSE, manifest |-> 0]

ControlStates == {"idle", "enqueue", "dispatch", "unpack", "publish",
                  "mark_ok", "mark_failed", "collect", "fetch", "verify",
                  "record", "ack"}
WorkerStates == {"idle", "executing", "body", "inputs", "manifest", "archive"}

VARIABLES
  \* compute_jobs
  status,          \* column status; "ABSENT" when the row does not exist
  dispatch_status, \* column dispatch_status
  bundle_path,     \* the jobs whose local_bundle_path is not NULL
  result_json,     \* column result_json
  \* the file systems
  outbox,          \* bundles built on the i7
  collected,       \* compute/results_collected on the i7
  incoming,        \* .incoming/ on Node-01
  inbox,           \* inbox/<job>.ready
  running,         \* running/<job>
  failed,          \* failed/<job>.ready.invalid_*
  results,         \* results/<job>.<suffix>
  present,         \* the names that exist in results/
  archive,         \* archive/result_<job>.<suffix>
  \* control processes
  pc, cur, pend,   \* program counter, current job, rows still to dispatch
  name, left,      \* current result name, names still to collect
  files,           \* files scp has still to copy
  \* worker
  wpc, wjob, wrun, \* program counter, claimed job, result of the execution
  \* history and bounds
  outcome,         \* outcome[j]: the result of every execution of j so far
  complete,        \* <<j, n>>: execution n of j wrote its whole bundle
  faults           \* faults so far

queue == <<status, dispatch_status, bundle_path, result_json>>
node  == <<incoming, inbox, running, failed, results, present, archive>>
ctl   == <<pc, cur, pend, name, left, files>>
wrk   == <<wpc, wjob, wrun>>
hist  == <<outcome, complete>>
vars  == <<queue, outbox, collected, node, ctl, wrk, hist, faults>>

Init ==
  /\ status = [j \in Jobs |-> "ABSENT"]
  /\ dispatch_status = [j \in Jobs |-> "ABSENT"]
  /\ bundle_path = {}
  /\ result_json = [j \in Jobs |-> NoResult]
  /\ outbox = {}
  /\ collected = [n \in Names |-> EmptyDir]
  /\ incoming = {} /\ inbox = {} /\ running = {} /\ failed = {}
  /\ results = [n \in Names |-> EmptyDir]
  /\ present = {} /\ archive = {}
  /\ pc = [p \in Procs |-> "idle"]
  /\ cur = [p \in Procs |-> None]
  /\ pend = [p \in Procs |-> {}]
  /\ name = [p \in Procs |-> None]
  /\ left = [p \in Procs |-> {}]
  /\ files = [p \in Procs |-> {}]
  /\ wpc = "idle" /\ wjob = None /\ wrun = NoResult
  /\ outcome = [j \in Jobs |-> <<>>]
  /\ complete = {}
  /\ faults = 0

(* A crash or an SSH failure, up to the bound.                             *)
Fault == faults < MaxFaults /\ faults' = faults + 1

GoTo(p, from, to) == pc[p] = from /\ pc' = [pc EXCEPT ![p] = to]

-----------------------------------------------------------------------------
(* ComputeQueueStore                                                       *)

(* UNIQUE INDEX ... WHERE idempotency_key IS NOT NULL                      *)
KeyTaken(j) == KeyOf[j] # NoKey /\ \E k \in Jobs : status[k] # "ABSENT" /\ KeyOf[k] = KeyOf[j]

InsertRow(j, hasBundle) ==
  /\ status' = [status EXCEPT ![j] = "QUEUED"]
  /\ dispatch_status' = [dispatch_status EXCEPT ![j] = "LOCAL_ONLY"]
  /\ bundle_path' = IF hasBundle THEN bundle_path \union {j} ELSE bundle_path
  /\ UNCHANGED result_json

mark_dispatched(j) ==
  /\ dispatch_status' = [dispatch_status EXCEPT ![j] = "DISPATCHED"]
  /\ status' = [status EXCEPT ![j] = "REMOTE_QUEUED"]
  /\ UNCHANGED <<bundle_path, result_json>>

mark_dispatch_failed(j) ==
  /\ dispatch_status' = [dispatch_status EXCEPT ![j] = "DISPATCH_FAILED"]
  /\ UNCHANGED <<status, bundle_path, result_json>>

mark_result(j, r) ==
  /\ status' = [status EXCEPT ![j] = r.status]
  /\ dispatch_status' = [dispatch_status EXCEPT ![j] = "RESULT_COLLECTED"]
  /\ result_json' = [result_json EXCEPT ![j] = r]
  /\ UNCHANGED bundle_path

(* Mutants: any row without a result is dispatched; rows that failed are   *)
(* retried whatever they failed at; failed dispatches are forgotten.       *)
Mut_rows_uncollected == {j \in Jobs : dispatch_status[j] \notin {"ABSENT", "RESULT_COLLECTED"}}
Mut_rows_retry == {j \in Jobs : status[j] \notin {"ABSENT", "COMPLETED"}}
Mut_rows_once == {j \in Jobs : status[j] = "QUEUED" /\ dispatch_status[j] = "LOCAL_ONLY"}

rows_for_dispatch ==
  {j \in Jobs : status[j] = "QUEUED" /\ dispatch_status[j] \in {"LOCAL_ONLY", "DISPATCH_FAILED"}}

-----------------------------------------------------------------------------
(* Control processes: submission                                           *)

(* QueueComputeBackend.submit: a row without a bundle.                     *)
SubmitQueueOnly(p, j) ==
  /\ pc[p] = "idle"
  /\ status[j] = "ABSENT" /\ j \notin outbox
  /\ ~KeyTaken(j)
  /\ InsertRow(j, FALSE)
  /\ UNCHANGED <<outbox, collected, node, ctl, wrk, hist, faults>>

(* RemoteQueueComputeBackend.submit: the bundle is built before the row.   *)
Build(p, j) ==
  /\ status[j] = "ABSENT" /\ j \notin outbox
  /\ GoTo(p, "idle", "enqueue")
  /\ cur' = [cur EXCEPT ![p] = j]
  /\ outbox' = outbox \union {j}
  /\ UNCHANGED <<queue, collected, node, pend, name, left, files, wrk, hist, faults>>

Enqueue(p) ==
  /\ GoTo(p, "enqueue", "unpack")
  /\ ~KeyTaken(cur[p])
  /\ InsertRow(cur[p], TRUE)
  /\ UNCHANGED <<outbox, collected, node, cur, pend, name, left, files, wrk, hist, faults>>

(* Mutant: submit does not compare the id that enqueue returned.           *)
Mut_EnqueueDuplicate(p) ==
  /\ GoTo(p, "enqueue", "unpack")
  /\ KeyTaken(cur[p])
  /\ UNCHANGED <<queue, outbox, collected, node, cur, pend, name, left, files, wrk, hist, faults>>

(* IntegrityError on the idempotency index: submit returns the other id.   *)
EnqueueDuplicate(p) ==
  /\ GoTo(p, "enqueue", "idle")
  /\ KeyTaken(cur[p])
  /\ cur' = [cur EXCEPT ![p] = None]
  /\ UNCHANGED <<queue, outbox, collected, node, pend, name, left, files, wrk, hist, faults>>

-----------------------------------------------------------------------------
(* Control processes: dispatch                                             *)

(* dispatch_pending reads its rows once and then works through them.       *)
BeginDispatch(p) ==
  /\ rows_for_dispatch # {}
  /\ GoTo(p, "idle", "dispatch")
  /\ pend' = [pend EXCEPT ![p] = rows_for_dispatch]
  /\ UNCHANGED <<queue, outbox, collected, node, cur, name, left, files, wrk, hist, faults>>

NextRow(p, j) ==
  /\ j \in pend[p]
  /\ GoTo(p, "dispatch", IF j \in bundle_path /\ j \in outbox THEN "unpack" ELSE "mark_failed")
  /\ cur' = [cur EXCEPT ![p] = j]
  /\ pend' = [pend EXCEPT ![p] = @ \ {j}]
  /\ UNCHANGED <<queue, outbox, collected, node, name, left, files, wrk, hist, faults>>

(* dispatch_bundle, first half of the remote script: rm, mkdir, untar.     *)
Unpack(p) ==
  /\ GoTo(p, "unpack", "publish")
  /\ incoming' = incoming \union {cur[p]}
  /\ UNCHANGED <<queue, outbox, collected, inbox, running, failed, results, present, archive,
                 cur, pend, name, left, files, wrk, hist, faults>>

(* Mutant: the return code of ssh is not looked at.                        *)
Mut_UnpackFails(p) ==
  /\ Fault
  /\ GoTo(p, "unpack", "mark_ok")
  /\ incoming' \in {incoming, incoming \ {cur[p]}}
  /\ UNCHANGED <<queue, outbox, collected, inbox, running, failed, results, present, archive,
                 cur, pend, name, left, files, wrk, hist>>

UnpackFails(p) ==
  /\ Fault
  /\ GoTo(p, "unpack", "mark_failed")
  /\ incoming' \in {incoming, incoming \ {cur[p]}}
  /\ UNCHANGED <<queue, outbox, collected, inbox, running, failed, results, present, archive,
                 cur, pend, name, left, files, wrk, hist>>

(* Second half: rm -rf ready; mv incoming ready.  Without an incoming      *)
(* directory (another dispatcher moved it) ready is removed and mv fails.  *)
MoveToInbox(j) ==
  /\ incoming' = incoming \ {j}
  /\ inbox' = IF j \in incoming THEN inbox \union {j} ELSE inbox \ {j}
  /\ UNCHANGED <<running, failed, results, present, archive>>

Publish(p) ==
  /\ GoTo(p, "publish", IF cur[p] \in incoming THEN "mark_ok" ELSE "mark_failed")
  /\ MoveToInbox(cur[p])
  /\ UNCHANGED <<queue, outbox, collected, cur, pend, name, left, files, wrk, hist, faults>>

(* The connection or the node is lost in the second half: nothing          *)
(* happened, or only the rm, or all of it and the answer never came.       *)
PublishFails(p) ==
  /\ Fault
  /\ GoTo(p, "publish", "mark_failed")
  /\ \/ UNCHANGED node
     \/ /\ inbox' = inbox \ {cur[p]}
        /\ UNCHANGED <<incoming, running, failed, results, present, archive>>
     \/ MoveToInbox(cur[p])
  /\ UNCHANGED <<queue, outbox, collected, cur, pend, name, left, files, wrk, hist>>

AfterMark(p, from) ==
  /\ GoTo(p, from, IF pend[p] = {} THEN "idle" ELSE "dispatch")
  /\ cur' = [cur EXCEPT ![p] = None]
  /\ UNCHANGED <<outbox, collected, node, pend, name, left, files, wrk, hist, faults>>

MarkDispatched(p) == AfterMark(p, "mark_ok") /\ mark_dispatched(cur[p])

MarkDispatchFailed(p) == AfterMark(p, "mark_failed") /\ mark_dispatch_failed(cur[p])

-----------------------------------------------------------------------------
(* Control processes: collection                                           *)

(* list_result_names                                                       *)
BeginCollect(p) ==
  /\ present # {}
  /\ GoTo(p, "idle", "collect")
  /\ left' = [left EXCEPT ![p] = present]
  /\ UNCHANGED <<queue, outbox, collected, node, cur, pend, name, files, wrk, hist, faults>>

(* fetch_result: the local copy is removed, then scp -r starts.            *)
FetchStart(p, n) ==
  /\ n \in left[p]
  /\ GoTo(p, "collect", "fetch")
  /\ name' = [name EXCEPT ![p] = n]
  /\ left' = [left EXCEPT ![p] = @ \ {n}]
  /\ files' = [files EXCEPT ![p] = Files]
  /\ collected' = [collected EXCEPT ![n] = EmptyDir]
  /\ UNCHANGED <<queue, outbox, node, cur, pend, wrk, hist, faults>>

(* scp -r copies what the remote directory holds when it gets there: a     *)
(* file that is not there leaves the local one alone.                      *)
CopiedOver(local, remote, f) ==
  CASE f = "body" /\ remote.body # NoResult  -> [local EXCEPT !.body = remote.body]
    [] f = "inputs" /\ remote.inputs         -> [local EXCEPT !.inputs = TRUE]
    [] f = "manifest" /\ remote.manifest # 0 -> [local EXCEPT !.manifest = remote.manifest]
    [] OTHER                                 -> local

CopyFile(p, f) ==
  LET n == name[p] IN
  /\ pc[p] = "fetch" /\ f \in files[p] /\ n \in present
  /\ files' = [files EXCEPT ![p] = @ \ {f}]
  /\ pc' = [pc EXCEPT ![p] = IF files[p] = {f} THEN "verify" ELSE "fetch"]
  /\ collected' = [collected EXCEPT ![n] = CopiedOver(@, results[n], f)]
  /\ UNCHANGED <<queue, outbox, node, cur, pend, name, left, wrk, hist, faults>>

(* The loop goes on with the next name after a success or an error.        *)
Continue(p, from) ==
  /\ GoTo(p, from, IF left[p] = {} THEN "idle" ELSE "collect")
  /\ name' = [name EXCEPT ![p] = None]
  /\ files' = [files EXCEPT ![p] = {}]
  /\ UNCHANGED <<queue, outbox, collected, cur, pend, left, wrk, hist>>

(* scp fails: the directory is gone, or the connection is lost.            *)
FetchFails(p) ==
  /\ Continue(p, "fetch")
  /\ \/ name[p] \notin present /\ UNCHANGED faults
     \/ name[p] \in present /\ Fault
  /\ UNCHANGED node

(* Mutant: the manifest is required but its hashes are not compared.       *)
Mut_Verifies(n) ==
  LET c == collected[n] j == n[1] IN
  /\ c.body # NoResult /\ c.inputs /\ c.manifest # 0
  /\ status[j] # "ABSENT"
  /\ j \in bundle_path /\ j \in outbox

(* ResultBundleVerifier.verify on the local copy: the required files are   *)
(* there, the manifest hashes the very files beside it, the row exists and *)
(* the trusted bundle is there to compare the inputs with.                 *)
Verifies(n) ==
  LET c == collected[n] j == n[1] IN
  /\ c.body # NoResult /\ c.inputs /\ c.manifest = c.body.run
  /\ status[j] # "ABSENT"
  /\ j \in bundle_path /\ j \in outbox

Verify(p) ==
  /\ GoTo(p, "verify", "record")
  /\ Verifies(name[p])
  /\ UNCHANGED <<queue, outbox, collected, node, cur, pend, name, left, files, wrk, hist, faults>>

(* Mutant: a rejected result is acknowledged like an accepted one.         *)
Mut_Reject(p) ==
  /\ GoTo(p, "verify", "ack")
  /\ ~Verifies(name[p])
  /\ UNCHANGED <<queue, outbox, collected, node, cur, pend, name, left, files, wrk, hist, faults>>

Reject(p) ==
  /\ Continue(p, "verify")
  /\ ~Verifies(name[p])
  /\ UNCHANGED <<node, faults>>

(* result.json is read again after the verification, then mark_result.     *)
Record(p) ==
  LET n == name[p] IN
  /\ GoTo(p, "record", "ack")
  /\ collected[n].body # NoResult
  /\ mark_result(n[1], collected[n].body)
  /\ UNCHANGED <<outbox, collected, node, cur, pend, name, left, files, wrk, hist, faults>>

(* The file is gone since: another collector is fetching the same name.    *)
RecordFails(p) ==
  /\ Continue(p, "record")
  /\ collected[name[p]].body = NoResult
  /\ UNCHANGED <<node, faults>>

(* acknowledge_result: rm -rf archive/result_<name>, then                  *)
(* mv results/<name> archive/result_<name>, which fails on a missing name. *)
MoveToArchive(n) ==
  /\ present' = present \ {n}
  /\ results' = [results EXCEPT ![n] = EmptyDir]
  /\ archive' = IF n \in present THEN archive \union {n} ELSE archive \ {n}
  /\ UNCHANGED <<incoming, inbox, running, failed>>

Acknowledge(p) ==
  /\ Continue(p, "ack")
  /\ MoveToArchive(name[p])
  /\ UNCHANGED faults

(* The connection is lost before, between or after the rm and the mv.      *)
AcknowledgeFails(p) ==
  /\ Fault
  /\ Continue(p, "ack")
  /\ \/ UNCHANGED node
     \/ /\ archive' = archive \ {name[p]}
        /\ UNCHANGED <<incoming, inbox, running, failed, results, present>>
     \/ MoveToArchive(name[p])

(* A control process is killed; the queue and the files stay.              *)
ControlCrash(p) ==
  /\ pc[p] # "idle" /\ Fault
  /\ pc' = [pc EXCEPT ![p] = "idle"]
  /\ cur' = [cur EXCEPT ![p] = None]
  /\ pend' = [pend EXCEPT ![p] = {}]
  /\ name' = [name EXCEPT ![p] = None]
  /\ left' = [left EXCEPT ![p] = {}]
  /\ files' = [files EXCEPT ![p] = {}]
  /\ UNCHANGED <<queue, outbox, collected, node, wrk, hist>>

-----------------------------------------------------------------------------
(* Node-01 worker                                                          *)

WGoTo(from, to) == wpc = from /\ wpc' = to

(* A job type outside ALLOWED_JOB_TYPES goes to failed/.                   *)
Quarantine(j) ==
  /\ wpc = "idle" /\ j \in inbox \ Allowed
  /\ inbox' = inbox \ {j}
  /\ failed' = failed \union {j}
  /\ UNCHANGED <<queue, outbox, collected, incoming, running, results, present, archive,
                 ctl, wrk, hist, faults>>

(* claim_next: one rename from inbox/ to running/, over a stale directory. *)
(* A job the node has no room for stays in inbox/ and is looked at again.  *)
Claim(j) ==
  /\ j \in inbox \intersect Allowed \intersect Fits
  /\ Len(outcome[j]) < MaxRuns
  /\ WGoTo("idle", "executing")
  /\ wjob' = j
  /\ inbox' = inbox \ {j}
  /\ running' = running \union {j}
  /\ UNCHANGED <<queue, outbox, collected, incoming, failed, results, present, archive,
                 ctl, wrun, hist, faults>>

NameOf(j, s) == <<j, IF s = "COMPLETED" THEN "done" ELSE "failed">>

(* Mutant: the result of an execution that raised keeps status COMPLETED.  *)
Mut_Execute(s) ==
  LET n == NameOf(wjob, s) IN
  /\ WGoTo("executing", "body")
  /\ wrun' = [run |-> Len(outcome[wjob]) + 1, status |-> "COMPLETED"]
  /\ outcome' = [outcome EXCEPT ![wjob] = Append(@, s)]
  /\ results' = [results EXCEPT ![n] = EmptyDir]
  /\ present' = present \union {n}
  /\ UNCHANGED <<queue, outbox, collected, incoming, inbox, running, failed, archive,
                 ctl, wjob, complete, faults>>

(* execute returns or raises; then the result directory is made afresh.    *)
Execute(s) ==
  LET n == NameOf(wjob, s) IN
  /\ WGoTo("executing", "body")
  /\ wrun' = [run |-> Len(outcome[wjob]) + 1, status |-> s]
  /\ outcome' = [outcome EXCEPT ![wjob] = Append(@, s)]
  /\ results' = [results EXCEPT ![n] = EmptyDir]
  /\ present' = present \union {n}
  /\ UNCHANGED <<queue, outbox, collected, incoming, inbox, running, failed, archive,
                 ctl, wjob, complete, faults>>

wname == NameOf(wjob, wrun.status)

(* copytree and atomic_json_write make the directory again if it is gone.  *)
WriteBody ==
  /\ WGoTo("body", "inputs")
  /\ results' = [results EXCEPT ![wname].body = wrun]
  /\ present' = present \union {wname}
  /\ UNCHANGED <<queue, outbox, collected, incoming, inbox, running, failed, archive,
                 ctl, wjob, wrun, hist, faults>>

WriteInputs ==
  /\ wname \in present
  /\ WGoTo("inputs", "manifest")
  /\ results' = [results EXCEPT ![wname].inputs = TRUE]
  /\ UNCHANGED <<queue, outbox, collected, incoming, inbox, running, failed, present, archive,
                 ctl, wjob, wrun, hist, faults>>

WriteManifest ==
  /\ WGoTo("manifest", "archive")
  /\ results' = [results EXCEPT ![wname].manifest = wrun.run]
  /\ present' = present \union {wname}
  /\ complete' = IF results[wname].body = wrun THEN complete \union {<<wjob, wrun.run>>} ELSE complete
  /\ UNCHANGED <<queue, outbox, collected, incoming, inbox, running, failed, archive,
                 ctl, wjob, wrun, outcome, faults>>

WorkerIdle == wpc' = "idle" /\ wjob' = None /\ wrun' = NoResult

Archive ==
  /\ wpc = "archive"
  /\ WorkerIdle
  /\ running' = running \ {wjob}
  /\ UNCHANGED <<queue, outbox, collected, incoming, inbox, failed, results, present, archive,
                 ctl, hist, faults>>

(* An acknowledgement moved the directory away under the worker: copy2, a  *)
(* rename or a hash raises, main logs the exception and polls on, and the  *)
(* job stays in running/.                                                  *)
WorkerError ==
  /\ wpc \in {"body", "inputs", "manifest"} /\ wname \notin present
  /\ WorkerIdle
  /\ UNCHANGED <<queue, outbox, collected, node, ctl, hist, faults>>

(* The worker is killed and restarted: it never looks at running/ again.   *)
WorkerCrash ==
  /\ wpc # "idle" /\ Fault
  /\ WorkerIdle
  /\ UNCHANGED <<queue, outbox, collected, node, ctl, hist>>

-----------------------------------------------------------------------------
ControlStep(p) ==
  \/ Enqueue(p) \/ EnqueueDuplicate(p)
  \/ \E j \in Jobs : NextRow(p, j)
  \/ Unpack(p) \/ Publish(p) \/ MarkDispatched(p) \/ MarkDispatchFailed(p)
  \/ \E n \in Names : FetchStart(p, n)
  \/ \E f \in Files : CopyFile(p, f)
  \/ FetchFails(p) \/ Verify(p) \/ Reject(p) \/ Record(p) \/ RecordFails(p)
  \/ Acknowledge(p)

WorkerStep ==
  \/ \E j \in Jobs : Quarantine(j) \/ Claim(j)
  \/ \E s \in Outcomes : Execute(s)
  \/ WriteBody \/ WriteInputs \/ WriteManifest \/ Archive \/ WorkerError

Next ==
  \/ \E p \in Procs :
       \/ \E j \in Jobs : SubmitQueueOnly(p, j) \/ Build(p, j)
       \/ BeginDispatch(p) \/ BeginCollect(p)
       \/ ControlStep(p)
       \/ UnpackFails(p) \/ PublishFails(p) \/ AcknowledgeFails(p) \/ ControlCrash(p)
  \/ WorkerStep
  \/ WorkerCrash

Spec == Init /\ [][Next]_vars

(* What runs by itself: the worker polls for ever (main, while True), a    *)
(* control process that has started a loop works through it, and the       *)
(* operator keeps running cycles, each of which dispatches and collects.   *)
Fairness ==
  /\ WF_vars(WorkerStep)
  /\ \A p \in Procs : /\ WF_vars(ControlStep(p))
                      /\ SF_vars(BeginDispatch(p))
                      /\ SF_vars(BeginCollect(p))

FairSpec == Spec /\ Fairness

-----------------------------------------------------------------------------
QueueTypeOK ==
  /\ status \in [Jobs -> {"ABSENT", "QUEUED", "REMOTE_QUEUED"} \union Outcomes]
  /\ dispatch_status \in [Jobs -> {"ABSENT", "LOCAL_ONLY", "DISPATCHED", "DISPATCH_FAILED",
                                    "RESULT_COLLECTED"}]
  /\ bundle_path \subseteq Jobs
  /\ result_json \in [Jobs -> Results \union {NoResult}]

FilesTypeOK ==
  /\ outbox \subseteq Jobs
  /\ collected \in [Names -> Dirs]
  /\ incoming \subseteq Jobs /\ inbox \subseteq Jobs
  /\ running \subseteq Jobs /\ failed \subseteq Jobs
  /\ results \in [Names -> Dirs]
  /\ present \subseteq Names /\ archive \subseteq Names

ControlTypeOK ==
  /\ pc \in [Procs -> ControlStates]
  /\ cur \in [Procs -> Jobs \union {None}]
  /\ pend \in [Procs -> SUBSET Jobs]
  /\ name \in [Procs -> Names \union {None}]
  /\ left \in [Procs -> SUBSET Names]
  /\ files \in [Procs -> SUBSET Files]

WorkerTypeOK ==
  /\ wpc \in WorkerStates
  /\ wjob \in Jobs \union {None}
  /\ wrun \in Results \union {NoResult}
  /\ outcome \in [Jobs -> Seq(Outcomes)]
  /\ \A j \in Jobs : Len(outcome[j]) <= MaxRuns
  /\ complete \subseteq Jobs \X (1 .. MaxRuns)
  /\ faults \in 0 .. MaxFaults

TypeOK == QueueTypeOK /\ FilesTypeOK /\ ControlTypeOK /\ WorkerTypeOK

(* Whatever of a job has reached Node-01, in any of its directories.       *)
OnNode == incoming \union inbox \union running \union failed
            \union {n[1] : n \in present \union archive}

(* Two jobs with the same idempotency key never both reach Node-01, though *)
(* the bundle is built and the row inserted in separate steps and any      *)
(* process may dispatch any row (submit returns before its dispatch when   *)
(* enqueue answers with another id).                                       *)
OneJobPerKey ==
  \A j, k \in OnNode : (j # k /\ KeyOf[j] # NoKey) => KeyOf[j] # KeyOf[k]

(* A result in the queue is what an execution of that very job on Node-01  *)
(* returned, whatever was torn, refetched or overwritten on the way.       *)
RecordedWasExecuted ==
  \A j \in Jobs : LET r == result_json[j] IN
    r # NoResult => r.run \in DOMAIN outcome[j] /\ outcome[j][r.run] = r.status

(* With one control process a recorded result also comes from a bundle the *)
(* worker finished: no result enters the queue from a half-written copy.   *)
RecordedIsComplete ==
  \A j \in Jobs : result_json[j] # NoResult => <<j, result_json[j].run>> \in complete

(* A result name is moved out of results/ only when the queue holds a      *)
(* result of that job: a crash or a lost answer between mark_result and    *)
(* acknowledge_result never discards an unrecorded result.                 *)
AcknowledgedIsRecorded == \A n \in archive : result_json[n[1]] # NoResult

(* With one control process, a job the queue shows as remote is still on   *)
(* Node-01: waiting, in running/, quarantined, or finished in results/.    *)
RemoteIsOnNode ==
  \A j \in Jobs : status[j] = "REMOTE_QUEUED" =>
    \/ j \in inbox \union running \union failed
    \/ \E s \in ResultSuffixes : results[<<j, s>>].body # NoResult /\ results[<<j, s>>].inputs
                             /\ results[<<j, s>>].manifest = results[<<j, s>>].body.run

(* With one control process and no failure so far, no job runs twice.      *)
OnceWithoutFaults == faults = 0 => \A j \in Jobs : Len(outcome[j]) <= 1

(* With one control process, a row whose result was collected is never     *)
(* dispatched again, by a stale row of dispatch_pending or a late mark.    *)
CollectedIsFinal ==
  [][\A j \in Jobs : dispatch_status[j] = "RESULT_COLLECTED" =>
                        dispatch_status'[j] = "RESULT_COLLECTED"]_vars

(* What nobody looks after: bundles the worker quarantined, requests the   *)
(* node can never satisfy, and executions that a crash or an error left in *)
(* running/.                                                               *)
Stranded(j) == j \in failed \/ j \in inbox \ Fits \/ (j \in running /\ wjob # j)

(* Every job that was enqueued with a bundle ends up with a result in the  *)
(* queue, or stranded on Node-01, however many of the failures happen.     *)
EventuallyRecorded ==
  \A j \in Jobs : j \in bundle_path ~> (result_json[j] # NoResult \/ Stranded(j))

(* What the fabric promises its users: whatever the processes, the network *)
(* and the worker do, the queue, the executions and the archive follow the *)
(* ledger of JobLedger.                                                    *)
Ledger == INSTANCE JobLedger WITH
  rows <- {j \in Jobs : status[j] # "ABSENT"}, runs <- outcome,
  recorded <- result_json, retired <- archive, Bundles <- Names

ImplementsLedger == Ledger!Spec

-----------------------------------------------------------------------------
(* The strengthening the proofs use: a process past its first step has the *)
(* job or the name it works on, and the worker has its job and its result. *)
ControlHolds ==
  \A p \in Procs :
    /\ pc[p] \in {"enqueue", "unpack", "publish", "mark_ok", "mark_failed"} => cur[p] \in Jobs
    /\ pc[p] \in {"fetch", "verify", "record", "ack"} => name[p] \in Names

WorkerHolds ==
  /\ wpc # "idle" => wjob \in Jobs
  /\ wpc = "executing" => Len(outcome[wjob]) < MaxRuns
  /\ wpc \in {"body", "inputs", "manifest", "archive"} =>
       /\ wrun \in Results
       /\ wrun.run = Len(outcome[wjob])
       /\ outcome[wjob][wrun.run] = wrun.status

TypeInv == TypeOK /\ ControlHolds /\ WorkerHolds
=============================================================================
