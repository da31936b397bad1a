# SSI V5: models and proofs

TLA+ models of SSI V5 Master, the TLC runs that check them on small instances,
and proofs, checked by TLAPS, that hold for every value of the constants. Paths
are relative to the repository (`src/` is its root); `fabric.py:655` is a line
of a file named in the section it appears in.

## 1. The system

SSI V5 has two halves. `ssi_v5/` is the control plane of a learning system: it
ingests raw evidence into "worlds", decides which networks are worth training,
queues training jobs, runs them on a second machine (Node-01), and registers
generations of networks, their predictors, predictions and outcomes.
`root_control/` is the boundary through which one human root identity gives
commands, approvals and bounded authority.

| Component | State | Operations | Hard behaviour | What makes it correct |
|---|---|---|---|---|
| Compute fabric (`ssi_v5/compute/fabric.py`) | SQLite `compute_jobs` with two status columns, outbox of bundles, `results_collected/` | enqueue, submit, dispatch_pending, collect_remote_results, mark_* | a dispatch whose answer is lost, two loops at once, scp of a directory being written, a crash between record and acknowledge | one job per idempotency key on the node; only executed, finished results recorded; nothing retired unrecorded; nothing lost |
| Node-01 worker (`compute/node_worker.py`) | `inbox/ running/ results/ archive/ failed/` | claim, execute, write bundle, archive, quarantine | killed between any two file operations; its result directory is acknowledged while it writes; clock of its own | every job ends with a result or in a known place; waiting cannot invert the order by two classes; windows belong to their targets |
| Result verifier (`compute/result_verifier.py`) | none | verify | reads a copy that another collector replaces | accepts only bundles of one execution |
| Gateway, priority, resource routing, envelope | none of their own | validate, decide, route, submit | two tables of job types, two readings of a node's resources | what is admitted is ordered as decided |
| Command registry (`root_control/commands/`) | SQLite `commands` (versioned rows), `operation_idempotency`; audit list in memory | submit, transition, record_operation | threads with stale statuses and versions; row read back after the commit; restart | only allowed edges; audit true and complete; answers stand |
| Clarification | none (its caller keeps the records) | create_request, respond, derive | - | - |
| Authority envelopes | records, uses, revocations in memory | create, revoke, authorize_use | retries, times out of order, re-creation | uses within the grant; revocation final |
| Approvals | proposals, decisions, counter in memory | register_proposal, decide, is_valid | content replaced after approval | approval only for the content it was given for |
| Bootstrap, authentication, devices, sessions | SQLite tables; counts of failures in memory | bootstrap, enroll, authenticate, revoke, issue, validate | checks outside the transaction, a hand-over after it, expiry at any time | one root, up to the race; a session rests on its device, challenge and root; revoked stays revoked |
| Generation lifecycle, champion registry | SQLite rows, hash-chained transitions | create, transition, decide | read, check and update in separate steps | only allowed transitions; promotion needs evidence |
| Predictor artifacts, predictions, outcomes | SQLite rows, material on disk | register, verify, evaluate | file placed before its row; checks before the insert | every record rests on the ones below |
| Artifact registry, event journal | content-addressed files and rows; hash-chained events | register_bytes, append, verify | torn files, writers that die, altered rows | refs stand; what is called VALID is what was appended |
| Replay | none, it reads | summary | several readings of a journal that grows | READY counted everything |
| Recovery, reconciliation | a registry of rows; reconciliation none | record; compare two values | - | - |
| Director | checkpoint per name | catch_up_once, advance | two directors, a limit that cuts a batch | no event below the checkpoint is left unread |
| Runtime, manual cycle, ingestion | checkpoint file | run cycle | a step that fails mid-cycle | no evidence skipped or lost |
| World factories (`worlds/legacy_factory.py`) | SQLite experiences, records, networks, trials, generations, artifacts | ingest, inherit, evaluate, commit, publish | files that change while they are read; commits one by one; number read long before it is used | evidence agrees with its sources; split is disjoint; generations in order |
| Continuum, agents, iskra, governance, others | small registries | register, decide, check | - | authority is never self-granted |

Interactions: the runtime's cycle calls the pipeline of the factories, then
ingestion events, then dispatch and collection, in that order; the factory hands
a parent domain's knowledge to its child domains; the gateway and the factory
submit to the fabric; the fabric reaches the worker only through files moved
over SSH; cycles register artifacts and append events that refer to them, and
directors and the replay read these; root control's intake asks the
sessions before it calls the registry, and its services share SQLite files
between threads and processes; predictions read the artifact and the lifecycle
registries through connections of their own.

`PROJECT.json` lists every component with its status, and, under `hazards`,
what is hard to test in each, at its line.

## 2. The modules

| Module | Models | Abstracts |
|---|---|---|
| `JobLedger` | what the fabric promises: accept once per key, run, record a run, retire after recording | everything else |
| `ComputeFabric` | `fabric.py`, `node_worker.py`, `result_verifier.py`: control processes that submit, dispatch and collect, the SSH transport, the worker | job contents; order and resources (in `JobAdmission`); heartbeats, `compute_workers`, `compute_events` |
| `JobAdmission` | `job_envelope.py`, `remote_gateway.py`, `priority_authority.py`, `resource_router.py`, the ordering in `fabric.py` and `node_worker.py` | the way of a bundle (in `ComputeFabric`) |
| `WorkerTraining` | the windows, targets and answer of a training job in `node_worker.py` | values, fitting, metrics |
| `CommandRegistry` | `commands/registry.py`, `state_machine.py`, `intake.py` | hashes are contents; one root identity; addressing fields |
| `RootSecurity` | `auth/bootstrap.py`, `auth/service.py`, `devices/service.py`, `sessions/service.py`, the intake as it uses them | secrets and hashes: a password is right or wrong |
| `AuthorityEnvelopes` | `authority/envelopes.py` | fields nothing reads are one field; times are instants |
| `ApprovalWorkflow` | `approvals/workflow.py` | fields nothing reads are one field; the hash is the proposal |
| `LifecycleStates`, `LifecycleOutline`, `GenerationLifecycle` | `lifecycle/generation_registry.py`: the table, what the registry promises, the registry | governance references, reasons, hashes |
| `PredictionChain` | `predictors/artifact.py`, `predictions/registry.py` over `LifecycleOutline` | lineage fields, contents of files |
| `OutcomeEvaluation` | `outcomes/registry.py` | evidence references, hashes |
| `ManualCycle` | `runtime/manual_cycle.py`, `runtime/incremental.py`, appends to `events/journal.py`, the pipeline of `worlds/legacy_factory.py` as the cycle and the command `run` use it, what `controller.main` and the tests give a cycle | file contents are versions; readiness and training policies; payloads of events |
| `EventJournal` | what is computed from the rows of a journal: `append`'s row, `verify_integrity`, `ReplayRebuildEngine` | a hash is its body; payloads |
| `WorldContinuity` | over it: `artifacts/registry.py`, appending cycles, `director/catchup.py`, runs of the replay, deaths and damage | state of domains within a rebuild |
| `WorldEvidence` | the ingestion half of `worlds/legacy_factory.py`: sports pairs and market series become experiences | texts, features, provenance |
| `NetworkFactory` | over it: `run_current_pipeline` and `CanonicalNetworkFactory`, gates, split, trials, plans, generations, artifacts | numbers a model yields; specs and reports |
| `MC...` | instances for TLC | |
| `..._proofs` | theorems and their proofs | |

### ComputeFabric

One module, because the queue, the transport and the worker interleave at the
level of single file operations. Variables are the columns of `compute_jobs`
(`status`, `dispatch_status`, `bundle_path`, `result_json`), the directories of
both machines (`outbox`, `collected`; `incoming`, `inbox`, `running`, `failed`,
`results`/`present`, `archive`), a program counter and locals for every control
process, and the worker's. `outcome`, `complete` and `faults` are history.

A step is what no other actor can see the middle of: one SQLite transaction, one
rename, one file of `scp -r`, one write into a result bundle. So
`dispatch_pending` is `BeginDispatch` (rows are read once), `NextRow`, `Unpack`
and `Publish` (the two halves of the remote script) and `MarkDispatched` or
`MarkDispatchFailed`; `collect_remote_results` is `BeginCollect`, `FetchStart`,
one `CopyFile` per group of files in any order, `Verify` or `Reject`, `Record`,
`Acknowledge`. `UnpackFails`, `PublishFails`, `FetchFails`, `AcknowledgeFails`
lose the connection before, within or after the remote script, with or without
its effect. `ControlCrash` and `WorkerCrash` kill a process between any two
steps. A file of a bundle is known by the execution that wrote it, which is what
the hashes in `result_manifest.json` establish. `WorkerError` is the exception
that `copy2` or a rename raises when an acknowledgement takes the directory away
while the worker writes into it.

### JobAdmission and WorkerTraining

`JobAdmission` keeps the queue's rows (`admitted`), where each job is (`place`),
the batch a dispatch has read and the list from which the worker claims. `Submit`
is the gateway in both its entries: validation, the priority authority, the
router, `EnqueueJob`, one attempt to send. `SubmitFactoryJob` is the factory's
own way, which asks neither authority nor router. `BeginDispatching` sorts the
rows and cuts them at the limit, `DispatchNext` sends the next one of that
reading. `ClaimNext` takes the first of `Candidates`, the worker's own filter and
its own order, by a clock that is `Skew` ahead. `ExecuteJob` asks
`WorkerTraining`, in which a row is its part and its place: which windows are
built, with which row's target each is compared, and what is answered.

### CommandRegistry

Threads share one registry object and its `RLock`; a registry method is one
step. `submit` is `Submit` (checks), `Persist...` and `Receipt`;
`CommandStateMachine.transition` is `Get` (reads the status, checks the edge
against `ALLOWED`), `Commit` or `StaleVersion` (the transaction compares only
the version the caller brought, which it may have read long before), `ReadBack`
(the row is read again after the commit, and the evidence appended). `Restart`
keeps the tables and loses the threads and the audit list. `log` is history: the
statuses of each command in commit order.

### RootSecurity

The tables of the four services (`roots`, `audited`, `challenges`, `devices`,
`sessions`) and the counts of failed attempts, which are kept in memory per root
and device. Every call that checks in one transaction and inserts in another is
two steps of a process: `CheckBootstrap`, `InsertRoot` (both checks are not
repeated), `AuditRoot` (the secret reaches the caller only after it);
`CheckChallenge`, `InsertDevice`; `CheckDevice`, `InsertSession`;
`ValidateRequest`, `PersistRequest` (the intake). `RevokeDevice` ends a device
and all its sessions in one transaction. `Expire` is the moment in which a
challenge or a session runs out; `RestartCaller` loses a call, its context and
its counts. `late`, per process and session, is history.

### AuthorityEnvelopes and ApprovalWorkflow

Single objects in memory, one action per method, refusals are stutters.
`authorize_use` takes any time, also an earlier one than the call before, any
usage id and any scope. `register_proposal` may replace the current version's
content, as the code allows (`workflow.py:90` refuses only older versions).

### LifecycleStates, LifecycleOutline and GenerationLifecycle

`LifecycleStates` is the table `ALLOWED_TRANSITIONS`. `GenerationLifecycle` is
the registry: a process has a connection of its own, and `transition()` is two
steps, `BeginTransition` (the generation is read and the request checked) and
`WriteTransition` (the row is updated, whatever its state is by now, and the
history appended, in one transaction). `DropTransition` is a process that dies between
them, or a database that stays locked.

`LifecycleOutline` is what this registry can promise its readers: a step goes
where `ALLOWED_TRANSITIONS` leads from *some* state the generation has been in.
That is weaker than the table suggests, and still enough for `Schooled`: nobody
reaches the shadow phase or beyond without having been trained and evaluated.

### PredictionChain and OutcomeEvaluation

`PredictionChain` EXTENDS `LifecycleOutline`: the two modules interact only
through its promise. It models `predictors/artifact.py` (`LoadGeneration`,
`Place`, `InsertArtifact`: the files are in place before the row is) and
`predictions/registry.py` (`VerifyArtifact`, `ReadGeneration`,
`InsertPrediction`), with `Crash` between any two of them and `Damage` of the
files on disk. A directory of files is known by the artifact it was written for.
Registering an artifact compares the lineage in the caller's manifest with the
generation's (world, domain, network, number, id and governance) before anything is
written, and a mismatch ends the call there. Only the governance reference may change
later, with a transition: a manifest that matched once may no longer match, and
another one does. A caller with a matching manifest is possible at every moment, and
one without leaves no trace, so the module has the former and no such field. An
artifact keeps the governance it was registered under; `register` of a prediction
compares the world, domain, network and number, which never change.

`OutcomeEvaluation` is `outcomes/registry.py`: `ReadVerified` and
`InsertOutcome` are the two transactions of `register_outcome`, `evaluate` reads
an outcome that never changes and inserts.

### ManualCycle

The stores are saved separately: `canonical` (canonical_worlds.sqlite3),
`checkpoint` (source_checkpoint.json), `jobs` (the queue), `journal`
(world_events), `invocations` (artifacts). A cycle's locals are `cycle`, with
`pc` its place and `todo` the events it is about to append, one transaction each.

`ManualWorldCycle.run` is `Start`, `Invoke` (once per world), `Collect`, `Walk`
(the watermark, one source after the other), `Decide`, the pipeline (`Ingest`
per domain, then `Gate` per domain), `Save`, `JournalEvidence` per domain,
`JournalNeeds`, `JournalJobs`, `Dispatch`, `Return`. The command `run`
(`controller.py:129`) is `Run` and a pipeline of its own beside the cycle's: it
ingests without checkpoint and journal. `Arrive` changes a source at any time;
`Crash` ends a cycle or a run at any step and puts no store back;
`LoseCheckpoint` is a checkpoint that `load` cannot read.

The version of a source stands for the experiences it gives, `canonical[d]` for
the version whose experiences are stored (`INSERT OR IGNORE`, so ingesting again
changes nothing). One cycle runs at a time; registering an invocation (a file and
a row) is one step. `account`, `baseline` and `raised` are history: what a cycle
did, which versions a bootstrap took for ingested without reading them, and
whether the pipeline of a cycle ever raised.

What a cycle is given (`ManualCycleDependencies`) decides how far it gets, and is
chosen at the start (`deps`):
- `"shipped"` is what `controller.main` and the defaults give it. The sports details
  of the ingestion are a list, so that a cycle that ingested ends in an
  `AttributeError` at `manual_cycle.py:147`, after `Save`. `dispatched` and
  `collected` are lists of jobs, of which lines 199 and 203 take `int(...)`: a cycle
  that sent or collected something ends in a `TypeError` at `Dispatch`, with nothing
  journalled of either; two empty lists count as 0. A route that would queue a job
  raises a `NameError` (`GateRaises`), which ends the pipeline and its cycle before
  there is a checkpoint. Such a cycle completes only if it skips or bootstraps the
  ingestion and has nothing to send or to collect. `SubmitOther` is another command
  of the controller that submits a job (`envelope-healthcheck`), so that there is
  something to send.
- `"tested"` is what `tests/runtime_cycle/test_manual_cycle.py` gives it, and what
  `run` is written for: details by domain, counts, a pipeline that may queue a job.

The command `run` has the shipped pipeline in both.

### EventJournal and WorldContinuity

`EventJournal` is operators over a sequence of rows: `NewRow` (what `append`
inserts), `JournalValid`, `ChainErrors`, `RebuildState`,
`SummaryStatus`. A row holds the body it was written with and a hash, which is the
body, so that an altered row is one whose hash is another body's.

`WorldContinuity` keeps `journal`, the artifacts' `storage` and `artifacts` rows,
the shared `checkpoint`, and a program counter for each cycle and director.
`register_bytes` is `RegisterBytes`, `LookAtPath`, `OpenFile` (truncates),
`FillFile`, `InsertArtifact`; then `AppendWithRef`. `AppendPlain` is any other
event. `catch_up_once` is `ReadCheckpoint`, `SelectEvents`, `CheckAdvance`,
`UpsertCheckpoint`: a director that is slow moves the checkpoint back. `Replay`
is one of its three readings, with steps of others in between. `Damage` alters or
removes a row, puts back an older copy of the journal, or loses a file; `Death` ends
a cycle or a director at any step. `truth`, what was ever appended, `read`,
`restored`, `gone` and two fields of `report` are history.

`recovery/reconciliation.py` is not modelled. `evaluate` compares two arguments and
`record` keeps the answer; nothing in the repository calls either (the controller
asks only for the registry's `summary`), so when a caller would read the checkpoint
and when the journal is not in the code, and the answer depends on it: read in the
wrong order, a system in good health is quarantined (section 5).

### WorldEvidence and NetworkFactory

`WorldEvidence` has the raw files, which other programs change between any two
steps (`WriteMarketRow`, `WriteResults`, `WritePoint`), `records` and
`experiences`. A sports pass is `ReadPair`, then per row `RecordRow` and
`InsertExperience`, its two commits (`torn` is history: the events of which a death
left only the first, until a later pass has recorded them verified again); a market
pass is `ReadSeries`, `InsertPeriod` per period, `RecordDomain`. An experience is never rewritten.

`NetworkFactory` EXTENDS it with what a pass does after its ingestion: `Inherit`
takes the parents' knowledge for the children, then each route is evaluated:
`ensure_network`, then `Wait`, or `run_trials`, which splits and computes, a
`save_trial` per trial, each a commit of its own, and what follows from them:
`PublishPlan` and `CandidatesReady`, or `QueueRaises`, or `NoChampion`, or
`commit_generation`, `PublishNetwork`, `PublishBehavior` and `WriteBundle`. `mem`
is what the process read before: the number of the generation it commits is one
more than in that copy. `Die` ends a process at any step. Each pass has a
laboratory: the dry one, one with a compute backend, or another that may find a
champion.

## 3. The runs

Each run asks a question of its own, and its bounds are in its `.cfg`.

| Run | Checks | Bounds and why they are enough |
|---|---|---|
| `fabric_one` | `RecordedIsComplete`, `RemoteIsOnNode`, `OnceWithoutFaults`, `CollectedIsFinal`, `EventuallyRecorded` | one control process, one failure, two executions, three jobs: an ordinary one, one whose type the worker refuses, one too large for the node; `FairSpec`. One failure already yields every ambiguous dispatch, lost acknowledgement, torn copy and second execution, and a job is worked on while another is collected |
| `fabric_two` | `OneJobPerKey`, `RecordedWasExecuted`, `ImplementsLedger` | two control processes, two jobs with one key, no failures: the interleavings alone (two dispatchers, two collectors of one name, submit against dispatch). `AcknowledgedIsRecorded` is part of the ledger (`Retire`) and not checked on its own |
| `root_control` | `AuditIsTrue`, `AuditIsComplete`, `AnswersAgree`, `UsesWithinGrant`, `SupersededForGood`, `ChainStands`, `RaceBound`, `LateOnce`, `RootHandedOver` | one part at a time, see below |
| `registries` | `StateIsOnRecord`, `PredictionRests`, `MaterialStands`, `OrphanIsCutOff`, `OneVerifiedContent`, `ImplementsOutline` | one part at a time, see below |
| `generations_quarantine` | `QuarantineStands` is violated | two processes, one generation, six transitions |
| `work` | `CheckpointCovers`, `CompletedIsCurrent`, `BaselineHasCause`, `CompletedIsAccounted`, `BoundedInversion`, `WindowsAligned` | one part at a time, see below |
| `cycle_details` | `IngestionJournalled` is violated | given what is shipped; no faults, no `run` |
| `cycle_dispatch` | `DispatchJournalled` is violated | given what is shipped; one job of another command, one `run`, no faults |
| `worlds` | `VerifiedIsStored`, `SplitSeparates`, `TargetStands`, `NumbersInOrder`, `RetrainOnGrowth` | four parts of one specification, see below; the factory's thresholds lowered to two samples and two periods, so that a gate opens within the instance |
| `worlds_candidates` | `TrialsArePlanned` is violated | the same parts with one process, no deaths |
| `continuity` | `RefsStand`, `VerifySound`, `ReplayCountsAll`, `NothingSkipped` | one cycle that uses one artifact id again and again, two directors, a batch of two, three events, one mishap: a death at any step, an altered or missing row, an older copy of the journal, a lost file. Three events are one more than a batch, and one more than a row and its neighbour |
| `continuity_replay` | `ReplayVerifiesContent` is violated | as above |

**Parts that share no state.** `root_control`, `registries` and `work` put several
components into one instance. These components share no variable, so a behaviour
of the instance runs one of them, chosen at the start (`part`); the states add up
and nothing is lost. Their bounds:
- registry: two threads submit two contents under one key, move the command up to
  version 4 (the state machine's branches, and a second thread whose status and
  version are two transitions old), record an operation with two payloads and two
  results, one restart between any two steps;
- envelopes: one id, every shape of envelope over two subjects and two resources,
  limits to 2, three usage ids, three times in any order;
- approvals: one proposal in three versions with risk and required assurance
  replaced at will, two keys;
- security: two processes, two roots and two devices but one challenge, one
  session, one failed attempt or restart: every race has two sides, and a device
  more than there are challenges;
- generations: two processes with a transition under way each, one generation,
  six transitions (the way to `ACTIVE` and one more), every authority and kind of
  evidence the checks tell apart;
- chain: two processes, one generation that moves on freely, two registrations,
  one fault on disk, any number of crashes;
- outcomes: two processes, two predictions, two outcome ids, two contents;
- cycle: two worlds with a domain each (one of sports, one of capital), each source
  changing once at any step, two cycles, one `run`, one job of another command, one
  death or lost checkpoint, given what is shipped or what is tested: a second cycle
  meets everything a first, cut off anywhere, can leave;
- admission: up to three jobs out of six classes of submissions, a batch of two,
  waits of up to 297 ageing steps (beyond the 120 at which the bonus ends, twice), a
  node whose clock is 299 seconds ahead, one short of an ageing step; training jobs
  with enough rows and with fewer than a window reaches back.

The instance of `registries` has one generation: a generation's rows and history are touched by no
transition of another, and `create_generation` of a child only reads its parent.
The clauses on a parent are therefore not exercised by TLC; the proofs hold for
any number of generations and parents.

**The parts of `worlds`.** Here the parts are ranges of one specification's
behaviours: all constants at once would be too many states, and each hazard needs
only some of them. All have two events, a parent and a child domain.
- overlap: two passes, by one process or by two at once, one change of any file at
  any step, one death, every laboratory; a parent series of three periods, which
  gives two experiences, and a child's that is empty;
- growth: three passes of one process over a series of seven periods, six
  experiences, and up to two points beyond its end. The first generation counts six;
  with seven the route is `WAITING_GROWTH`, since a fifth of six, rounded up, is two;
  with eight it is trained again, as its second generation: the rounding, and a share
  that differs from one more experience, decide;
- corrections: two passes of one process, up to two changes of results that are open,
  void, in conflict or played at first: one event may have two experiences behind an
  open gate, and a network a second generation from corrected evidence;
- overtaken: three passes of two processes and one correction: one commits from a copy
  of the network that is a generation behind, and replaces a generation.

Trials pass or not in any mix (at most one of two outside the growth), and a death
may leave one of two trials saved. No network reaches its third generation; the
proofs hold for any number.

Deadlock is not checked: every system here may stop, when all bounded inputs
are used up.

**With one control process.** `RecordedIsComplete`, `RemoteIsOnNode`,
`OnceWithoutFaults` and `CollectedIsFinal` are stated for one control process,
which is how the manual cycle runs. With two, TLC finds each of them violated:
two collectors share `results_collected/`, one dispatcher removes the directory
the other has published, both send the same row, a late mark follows a
collection. The code has no lock against a second process; no document says it
may be started, so these are hazards here and not findings.

**What a property concedes.** Several properties hold up to a race that the code
really has, and name it by a history variable: `RaceBound` and `LateOnce` allow one
row for each process that was past its check, `OneVerifiedContent` leaves out the
predictions for which two processes had read before either wrote, `TargetStands`
the experiences whose period was still filling up, `VerifiedIsStored` the events of
which a death left the record without the experience, until they are recorded
verified again, `SplitSeparates` the events whose result was corrected,
`RetrainOnGrowth` and the second half of `NumbersInOrder` the networks that two
processes evaluated at once (that numbers have no gap and `current_generation` is
one of them is claimed of these too),
`NothingSkipped` an older copy of the whole journal (of which `VerifySound` only says
that it is taken for the journal). Without the concession TLC finds each of them
violated on the same instance. With it they say that nothing else goes wrong. What
is conceded is a hazard that no property covers, and `PROJECT.json` says so at it.

**Fairness.** `EventuallyRecorded` needs that the worker polls (`while True` in
`main`, so weak fairness of its steps), that a control process that has begun a
loop works through it (weak fairness of `ControlStep`), and that cycles are run
again and again, each of which dispatches and collects (strong fairness of
`BeginDispatch` and `BeginCollect`: a process that is busy now begins again
later). Nothing is assumed of faults, which are bounded, nor of submission. The
conclusion admits the three ways in which the code leaves a job for good:
quarantined in `failed/`, too large for the node, or left in `running/` by a
crash or an exception; the hazards name their lines.

**Type invariants.** The detailed modules state one each (that of `WorldEvidence` is
part of `WorldTypeOK`, that of `WorkerTraining` of `AdmissionTypeOK`; the abstract
`JobLedger` and `LifecycleOutline` have none of their own). All are proved, and the
runs leave them out.

## 4. The proofs

All theorems are for any number of processes, threads, jobs, keys, executions,
rows, faults, versions and restarts. They rest on the named assumptions of the
modules (`FabricAssumption`, `AdmissionAssumption`, `RegistryAssumption`,
`SecurityAssumption`, `EnvelopeAssumption`, `ApprovalAssumption`,
`LifecycleAssumption`, `NoStateAssumption`, `ChainAssumption`, `OutcomeAssumption`,
`CycleAssumption`, `ContinuityAssumption`, `EvidenceAssumption`,
`FactoryAssumption`), which say that sentinels are not values
and that bounds are numbers; of `ManualCycle` that there is a domain and that each
belongs to a world; of `JobAdmission` what `JobEnvelope.validate` requires of a
caller; of `WorldContinuity` that two cycles give their artifacts different ids; of the
factories that a period has a length, that events have a time and that the shares
and thresholds are numbers in their ranges. Only the theorems for a single control
process say more in their statement.

**ComputeFabric.** `TypeInv` adds to `TypeOK` that a process past its first step
has the job or the name it works on, and that the worker's result is the last
one of its job. On it rest:
- `KeyOnNodeOnce` (`OneJobPerKey`), by `KeyInv`: rows have distinct keys, and
  whatever is on the node, or about to be sent, has a row. It is needed because
  the bundle exists before the row does.
- `AcknowledgedRecorded`, by `AckInv`: a process about to acknowledge, and a name
  in the archive, have a result in the queue. The prover needs that results are
  never taken back.
- `RecordedExecuted`, by `ExecInv`: every body of a result, remote, copied or
  recorded, is what an execution of that job returned. It survives torn and
  replaced copies because a file is replaced as a whole.
- `CollectedFinal`, for a single control process, by `FinalInv`: while it
  dispatches a row, that row has no result.
- `FabricImplementsLedger`: the refinement to `JobLedger`, by `FreshInv` (no
  runs, results or bundles of a job without a row) and the invariants above.

Three more are for a single control process, the way the cycle runs, and false for
two (section 3):
- `RecordedComplete` (`RecordedIsComplete`), by `CompleteInv`. A manifest is only
  ever written over the body and inputs of its own execution, so in a directory on
  Node-01 the manifest names a finished execution or is behind the body (`DirsInv`).
  A fetch takes its files one by one while the worker may start the name anew: of a
  copy with all three files of one execution, body and manifest agree (`FetchInv`),
  and this is what the verification asks before anything is recorded.
- `RemoteOnNode` (`RemoteIsOnNode`), by `RowsInv` and `RemoteInv`: the rows read for
  a dispatch are still queued and a collected row no longer says remote; a process
  about to mark a row has put its bundle on the node; the worker keeps its job in
  `running/` while it writes, and what it wrote stays in place until it is collected;
  a process that acknowledges has a collected row.
- `OnceUntilFault` (`OnceWithoutFaults`), by `OnceInv`: without a failure a bundle is
  published once, a job in `inbox/` or on its way there has not run, and a row that
  was sent is not read for dispatch again.

**JobAdmission.** `TwoWindowsAlign` is the arithmetic of `WorkerTraining` for all
numbers of rows and all windows: two training windows are enough for every window,
training and observation, to end at the row whose target it is compared with.
`CompletedAligned` adds, by `CompletedHadRows`, that a completed job had them.
`InversionBounded` needs, of `AgeBonus`, that it is monotone, at most 120, and that
gaining on a job of a class above takes 99 steps; `OrderInv` says that batch and
claim stay ordered by the clock they were sorted at while rows are appended behind.

**CommandRegistry.** `TypeInv` holds that the status a thread has read is still
the status if the version it expects is still the version: it was read no
earlier. This is why `OnlyAllowedEdges` holds although the edge is checked
outside the transaction. `AuditTrue` needs `LeftOnce`: no version is left twice,
counting the evidence still to be appended. `AuditComplete` and `AnswersStand`
follow in the same way.

**RootControl.** Envelopes and approvals: `EnvelopeInv` and `ApprovalInv` are the
properties with their types, plus that an unused id has no uses, that a record
was made under the checks its content asks for, and that a superseded approval
is behind the current version. `DecisionsAlwaysStand` counts the ids given out.

Security: `StoreMoves` says what no step does (a consumed challenge, a revoked
session, a distrusted device, a root come back), and everything else uses it.
`ChainInv` carries the chain through calls that are between their two steps: what a
call holds was on record when it looked, and is never taken back. `RaceInv` knows
that a process in its second step has not inserted before; `LateInv`, that a
session that has ended stays ended, so that a process can pass the check only
before; `HandedInv`, that roots cut off from their secret are no more than restarts.

**GenerationLifecycle and OutcomeEvaluation.** `CallsInv`: a request that was
checked leads from a state the generation has been in, as the history shows, and
was justified; `EntriesInv`: entries belong to generations that exist. They are
inductive because the history only grows, and they survive the interleaving that
breaks `QuarantineStands`. They give `StatesAreOnRecord`, `Qualification` and
`Refinement`, in which `seen` is the set of states in the history. For the outcomes,
`Agreement`: whoever is about to insert VERIFIED agrees with the verified rows there
are, unless the prediction was raced.

**PredictionChain.** `OutlineSchooled` is proved of the abstract registry alone,
from `LifecycleOutline`'s step; the chain's invariants use nothing else of the
lifecycle. They say that the generation a call holds was being trained when the
call read it (and that what was seen stays seen), that material in storage is
owned by a row, by a call about to insert one, or by a registration that was cut
off, and that only a call that placed material takes it away. `PredictionsRest`,
`ArtifactsRest`, `MaterialAlwaysStands` and `OrphansAreCutOff` follow.

**ManualCycle.** `TypeInv` adds that the cycle's pipeline is under way exactly
while the cycle waits for it, and that a pipeline has opened the canonical
state. `EvidenceInv`: nothing is ingested or marked that has not arrived
(`Seen`), a checkpoint claims what is ingested or was taken for it (`Claimed`),
a pipeline has reached the mark in every domain it is past (`Passed`), and a
cycle behind its decision has left nothing behind (`Caught`). `Claimed` is what
a skip rests on and `Passed` what saving makes of it; both survive sources that
change during the ingestion because versions only grow. They give
`CheckpointAlwaysCovers` and `CompletedCurrent`. `BaselineCaused` has an
invariant of its own, `CauseInv`: without faults, `run` commands and a pipeline
that raised there is a canonical state only where there is a checkpoint or a cycle
about to save the first one, so no decision is a bootstrap.

`CompletedAccounted` is about everything a cycle does, whatever the cycles are given,
with deaths, lost checkpoints and `run` commands: `Settled` says that each of its deeds is told,
in the journal or in the events to append, or is owed by a step ahead of the cycle
(`Owes`); `Opening`, that start and governance check are told for every world the
cycle has been through; `Completing`, that each completion among the events to
append has everything else in the journal or before it. `Completing` is what makes
an append keep the property, and it holds at `Dispatch` because nothing is owed any
more. That the difference of two totals shows every new job (`MoreJobs`) needs that
jobs are never removed, and `Ended`, that a cycle does nothing more after its
completion was journalled. A cycle that dies, or ends in one of the exceptions of
what is shipped (`AccountBreaksOff` for the `TypeError` at `Dispatch`), only ends:
what it has not told is in the account of a cycle that never completes.

**WorldContinuity.** `JournalInv`: the rows are in the order of their numbers, and a
row whose hash matches is true to the event that was appended under its number,
with the row before it (`RowIsTrue`); damage thins a journal (`Thinned`) but makes
no row true. From it `VerifyIsSound` follows by induction along the chain, and
`ReplayCounts` from the least event that a reading without a gap would miss.
`StoreInv`: a registered file is whole unless it was lost, and the path a cycle
works on is nobody else's; with `RefsKnown` it gives `RefsAlwaysStand`.
`DirectorInv`: what a director holds as read has been read, up to the checkpoint it
is about to write, wherever the checkpoint has moved since.

**WorldEvidence and NetworkFactory.** Their invariants are apart, each over the
part of the state it needs, and each proved once for the steps that touch that part
(`StepKinds`).
- `EvidenceInv`, for `VerifiedAlwaysStored`: an event has one id, a row that a pass
  read with a single version stood alone in the files (`AloneScored`, `RowsStood`),
  and a VERIFIED record is backed by its experience, or torn by a death, or a
  process is between the two commits with a verified row whose verdict it is
  (`RecordsBacked`). The last is why an event can be taken off `torn` as soon as a
  later pass has recorded it verified: that pass owes the experience.
- `SeriesInv`, for `TargetsStand`: an experience on record (`SettledRows`), or about
  to be inserted (`SettledTodo`), of a period that is not the open last one, is
  settled: its target is the last value of the next filled period, and a later period
  has points. New points leave that alone unless they arrive before the end of what
  was read, which the run counts as a backfill.
- `SplitInv`, for `SplitsSeparate`: what a process holds as training and observation
  rows is separated as in a stored plan or generation (`SplitsHeld`). Two samples of
  one event would have two ids, and so two results that each stood alone.
- `RouteInv`, for `GenerationsInOrder` and `HeavyTrainingOnGrowth`: of a network that
  one process at a time evaluates, the copy the process holds is the stored network
  until it commits, and one generation behind it afterwards (`Held`, `Numbered`).
- `GapInv`, for the half of `GenerationsInOrder` that holds of overlapped networks
  too: numbers have no gap and the current one is among them (`GapFree`), because a
  process that holds a copy counts a generation that is on record (`CopyCounts`),
  numbers are never taken back, and the one it writes is the next after its copy.

**Only model-checked:** `EventuallyRecorded`: liveness under fairness is out of the
prover's reach. So are RECURSIVE operators and induction over data, neither of which
the modules need. Every other property of a passing run is a theorem.

Theorems whose property no run lists, because a run of a small instance adds
nothing to them: the type invariants, `AcknowledgedRecorded`, `AllowedEdgesOnly`, `RevokedForGood`,
`SteppedUp`, `DecisionsAlwaysStand`, `Qualification`, `ArtifactsRest`,
`EvaluationsRest` and `TwoWindowsAlign`.

## 5. Findings

Each is a run that TLC finds violated, with the line that says otherwise.

- `QuarantineStands`: `test_terminal_quarantine_cannot_return` asserts that a
  quarantined generation is refused the way back to `PLANNED`, and
  `ALLOWED_TRANSITIONS` leads from `QUARANTINED` to `RETIRED` alone; a transition that
  was checked before the quarantine and written after it takes the generation to
  another state, as the `UPDATE` does not look at the state again.
- `IngestionJournalled`: `test_manual_cycle.py:17` gives the cycle a pipeline whose
  sports details are a mapping and asserts `RUN_COMPLETED`. The real ingestor
  returns a list, `manual_cycle.py:147` calls `.items()` on it, and the cycle ends
  in an `AttributeError` right after the checkpoint was saved. What it ingested is
  never journalled, and the next cycle skips it.
- `DispatchJournalled`: `test_manual_cycle.py:25` gives the cycle a `dispatch` that
  returns a count and line 35 asserts `RUN_COMPLETED`. What `controller.py:303-304`
  gives it returns lists of jobs (`fabric.py:691`, `720`), of which
  `manual_cycle.py:199` and `203` take `int(...)`: the first job that is sent or
  collected ends the cycle in a `TypeError`. The job is on its way, or the result in
  the queue, and the journal has no `COMPUTE_JOB_DISPATCHED`, no
  `COMPUTE_JOB_RESULT_RECEIVED` and no `WORLD_CYCLE_COMPLETED`.
- `TrialsArePlanned`: the docstring of `run_current_pipeline` takes a pass to its
  candidates. With a compute backend `_enqueue_candidate_jobs` raises a `NameError`
  (`canonical_namespace` is not imported) after the trials are saved: no plan, no
  job, and no later pass gets further.
- `ReplayVerifiesContent`: the docstring of the replay says content hashes are
  verified before state is applied; it verifies none, and the chain column it looks
  for is called otherwise, so a replay over an altered row reports `READY`.
  (`verify_integrity` of the journal does find it: `VerifySound`.)

More disagreements were seen while modelling and are no runs:

- the worker's docstring calls the result bundle immutable; a job whose dispatch
  was not recorded is executed again and its finished bundle rewritten;
- `authorize_use` tests the limit before it looks the usage id up, so the use that
  reaches the limit cannot be repeated, though its comment promises idempotent
  usage evidence;
- the row a transition returns, and its evidence, can be of another thread's later
  version, because the row is read after the commit and outside the lock;
- a docstring says the later conflicting outcome is stored as `CONFLICT`; two
  processes that both read before either inserts store two `VERIFIED` outcomes;
- `incremental.py:132` calls the bootstrap "migration safety: existing canonical
  state is treated as already ingested"; after a first ingestion that was cut off
  it skips what is not. Nobody has to die for that: the `NameError` of the shipped
  pipeline comes before the checkpoint, and the next cycle finds a canonical state
  without one (`BaselineHasCause` bounds when this can happen);
- `COMPUTE_JOB_CREATED` is journalled when the queue has more jobs than before,
  whoever submitted them: also of a cycle that skipped its ingestion;
- the reconciliation takes a checkpoint that is ahead of the journal for a loss; a
  caller that read the journal first and the checkpoint after it would quarantine a
  system in good health (nothing in the repository calls it);
- the resource router admits eleven types of jobs, of which the worker executes
  two, and quarantines the others; nothing tells the control side;
- a gateway's receipt for a resubmitted key names the class this submission was
  given, while the row keeps the first one's;
- deadlines only order jobs and nothing looks at dependencies: a job past its
  deadline, or before what it depends on, is executed;
- the context an authentication returned is not ended by a revocation of all
  sessions, and `issue` accepts it as long as the device is trusted.

## 6. Not modelled

- In the fabric: SQLite errors and lock waits, the worker's heartbeat and
  `compute_workers` row, the log `compute_events`, a crash between the `rm` and the
  `mv` of a `Publish` that succeeds, partly removed quarantine directories. The
  order of jobs is in `JobAdmission` and not in `ComputeFabric`, where any job may be
  next, which covers every order.
- In the worker: the heartbeat, the metrics, the numbers a model predicts.
- In root control: relationships, the validator and the ordering key, addressing
  fields that the payload hash does not cover, times with different UTC offsets
  (compared as text by the code), status projections and transport policies.
  Clarification keeps no state of its own.
- In the lifecycle and the chain: governance references and hashes, reasons and
  evidence references beyond their presence, the lineage fields of a manifest (section
  2: a mismatch writes nothing), `verify_integrity` of the artifacts, which reports and
  changes nothing, waiting for SQLite locks.
  The champion registry is append-only rows that nothing reads back.
- In the manual cycle: two cycles at once, files that a domain's ingestion has
  half read when they change or it dies (the domain counts as not ingested), the
  parent contexts, node check and manifests, the integrity checks before and after
  completion (they change nothing).
- In the continuity of the worlds: `RecoveryRegistry` and the reconciliation (section
  2: no caller, so no order of its readings), `verify_integrity` of the artifact
  registry, the lineage query, files with
  one content in two scopes, collisions of SHA-256, the director's contracts and
  priority authority (they validate or describe their arguments and keep nothing).
- In the factories: numeric features, the metrics of a model, the text of specs and
  reports; the thresholds of domains are constants.
- Continuum, agents, iskra, governance, behavior, scaling and freeze are append-only
  registries of one shape: a call validates its arguments and inserts one row under
  its key, and no other code decides anything by that row. There is nothing between
  two calls that could go wrong, and a model would restate an INSERT.
- Startup, validators, reports, entry points: console output and checks in one
  process and one order.

## 7. Plan

Done: the fabric, command registry, envelopes and approvals; lifecycle, artifacts,
predictions and outcomes; the manual cycle; admission and training on the node;
security; the journal with its writers and readers; the factories. Each has its
theorems.

Left, in this order:
1. What of the one-process theorems of the fabric stays true for two control
   processes, as an invariant that names the race (as `RaceBound` does), and its proof.
2. An abstract specification of the event journal that writers and readers share,
   refined by `WorldContinuity`, and by the appends of `ManualCycle`.
3. The factories' evidence as an abstract store (an id has one experience, for good)
   that `WorldEvidence` refines.
