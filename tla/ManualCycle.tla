---------------------------- MODULE ManualCycle ----------------------------
(* The runtime's manual cycle (ssi_v5/runtime/manual_cycle.py) with the    *)
(* source checkpoint (runtime/incremental.py), the event journal           *)
(* (events/journal.py) and the pipeline that ingests raw evidence and      *)
(* queues jobs (worlds/legacy_factory.py), beside the command `run`, which *)
(* is the pipeline without checkpoint and journal (runtime/controller.py). *)
(* Each store is saved on its own; a process may die between any two       *)
(* steps, and evidence arrives at any time.  Raw files are known by their  *)
(* version; experiences are known by the version they were made from.      *)
(*                                                                         *)
(* What the cycles are given (ManualCycleDependencies) is chosen at the    *)
(* start.  "shipped" is what controller.main gives it: a pipeline that    *)
(* raises where it would queue a job, details of the sports ingestion that *)
(* are a list, and lists of what was dispatched and collected.  "tested"   *)
(* is what test_manual_cycle gives it, and run() is written for: details   *)
(* by domain, and counts.                                                  *)
EXTENDS FiniteSets, Integers, Sequences

CONSTANTS
  Worlds,            \* the worlds, in their order
  Domains,           \* the legacy domains, in the order they are ingested
  WorldOf,           \* LEGACY_DOMAIN_ALIASES: the world of each domain
  Markets,           \* the domains of the market and capital ingestion
  Dependencies,      \* what cycles are given: "shipped", "tested" or either
  OtherJobs,         \* the jobs other commands submit (controller envelope-healthcheck, ...)
  MaxVersion,        \* bound: versions of a raw source
  MaxCycles,         \* bound: cycles
  MaxRuns,           \* bound: `run` commands
  MaxFaults,         \* bound: deaths of a cycle or run, and losses of the checkpoint
  None

AllDomains == {Domains[k] : k \in 1 .. Len(Domains)}
AllWorlds == {Worlds[k] : k \in 1 .. Len(Worlds)}

Versions == [AllDomains -> 0 .. MaxVersion]
Checkpoints == [mark : Versions, mode : {"AFTER_INGESTION", "BOOTSTRAP_EXISTING_STATE"}, cycle : 1 .. MaxCycles]

ASSUME CycleAssumption ==
  /\ Worlds \in Seq(STRING) /\ Domains \in Seq(STRING) /\ Domains # <<>>
  /\ WorldOf \in [AllDomains -> AllWorlds]
  /\ Markets \subseteq AllDomains
  /\ Dependencies \subseteq {"shipped", "tested"}
  /\ IsFiniteSet(OtherJobs)
  /\ MaxVersion \in Nat /\ MaxCycles \in Nat /\ MaxRuns \in Nat
  /\ MaxFaults \in Nat
  /\ None \notin AllDomains \union Versions \union Checkpoints

VARIABLES
  sources,     \* the version of each domain's raw files
  canonical,   \* canonical_worlds.sqlite3: the version ingested, or None
  checkpoint,  \* source_checkpoint.json, or None
  jobs,        \* compute_jobs: the domains with a job, and the other jobs
  journal,     \* world_events
  invocations, \* artifacts: the invocation of a cycle in a world
  cycle,       \* the cycle under way: its locals
  pipe,        \* how far each pipeline under way is
  account,     \* history: what the cycles did
  baseline,    \* history: the versions that a bootstrap took for ingested
  deps,        \* what the cycles are given
  raised,      \* history: did the pipeline of a cycle raise?
  cycles, runs, faults

stores == <<sources, canonical, checkpoint, jobs, journal, invocations>>
counters == <<deps, raised, cycles, runs, faults>>
vars == <<stores, cycle, pipe, account, baseline, counters>>

Zero == [d \in AllDomains |-> 0]
Idle == [pc |-> "idle", i |-> 1, mark |-> Zero, exists |-> FALSE, action |-> "none",
         before |-> {}, inserted |-> {}, collected |-> FALSE, todo |-> <<>>]

Pipelines == {"cycle", "run"}
N == Len(Domains)

Init ==
  /\ sources = Zero /\ canonical = None /\ checkpoint = None /\ jobs = {}
  /\ journal = <<>> /\ invocations = {}
  /\ cycle = Idle /\ pipe = [p \in Pipelines |-> 0]
  /\ account = {} /\ baseline = Zero
  /\ deps \in Dependencies /\ raised = FALSE /\ cycles = 0 /\ runs = 0 /\ faults = 0

(* The cycle is at a step, and has nothing left to journal before it.      *)
At(pc) == cycle.pc = pc /\ cycle.todo = <<>>

Event(type, world, domain) == [cycle |-> cycles, type |-> type, world |-> world, domain |-> domain]
InDomain(type, d) == Event(type, WorldOf[d], d)

(* _append_all: one event after the other, in every world.                 *)
InAllWorlds(type) == [k \in 1 .. Len(Worlds) |-> Event(type, Worlds[k], None)]

Deeds(type, domains) == [cycle : {cycles}, type : {type}, domain : domains]

-----------------------------------------------------------------------------
(* The environment: raw files change, ...                                  *)
Arrive(d) ==
  /\ sources[d] < MaxVersion
  /\ sources' = [sources EXCEPT ![d] = @ + 1]
  /\ UNCHANGED <<canonical, checkpoint, jobs, journal, invocations, cycle, pipe, account, baseline, counters>>

(* ... and the checkpoint is lost; load gives None of a file that is       *)
(* missing or cannot be read.                                              *)
LoseCheckpoint ==
  /\ faults < MaxFaults /\ checkpoint # None
  /\ checkpoint' = None /\ faults' = faults + 1
  /\ UNCHANGED <<sources, canonical, jobs, journal, invocations, cycle, pipe, account, baseline, deps, raised, cycles, runs>>

(* gateway.submit of another command; the stubs of the test know none.     *)
SubmitOther(job) ==
  /\ deps = "shipped" /\ job \notin jobs
  /\ jobs' = jobs \union {job}
  /\ UNCHANGED <<sources, canonical, checkpoint, journal, invocations, cycle, pipe, account, baseline, counters>>

(* Appends serialize (BEGIN IMMEDIATE): each is one step.                  *)
AppendEvent ==
  /\ cycle.todo # <<>>
  /\ journal' = Append(journal, Head(cycle.todo))
  /\ cycle' = [cycle EXCEPT !.todo = Tail(@)]
  /\ UNCHANGED <<sources, canonical, checkpoint, jobs, invocations, pipe, account, baseline, counters>>

Start ==
  /\ At("idle") /\ cycles < MaxCycles
  /\ cycles' = cycles + 1
  /\ cycle' = [Idle EXCEPT !.pc = "invoke"]
  /\ UNCHANGED <<stores, pipe, account, baseline, deps, raised, runs, faults>>

Invoke ==
  /\ At("invoke") /\ cycle.i <= Len(Worlds)
  /\ invocations' = invocations \union {<<cycles, Worlds[cycle.i]>>}
  /\ cycle' = [cycle EXCEPT !.i = @ + 1,
       !.todo = <<Event("WORLD_CYCLE_STARTED", Worlds[cycle.i], None),
                  Event("GOVERNANCE_VALIDATED", Worlds[cycle.i], None)>>]
  /\ UNCHANGED <<sources, canonical, checkpoint, jobs, journal, pipe, account, baseline, counters>>

(* deps.collect (ComputeFabric), the queue's summary, and whether there is *)
(* a canonical state, all before the sources are looked at.                *)
Collect(collected) ==
  /\ At("invoke") /\ cycle.i > Len(Worlds)
  /\ collected => jobs # {}
  /\ account' = account \union IF collected THEN Deeds("COMPUTE_JOB_RESULT_RECEIVED", {None}) ELSE {}
  /\ cycle' = [cycle EXCEPT !.pc = "walk", !.i = 1, !.collected = collected, !.before = jobs,
                            !.exists = canonical # None]
  /\ UNCHANGED <<stores, pipe, baseline, counters>>

(* build_source_watermark: one file after the other.                       *)
Walk ==
  /\ At("walk") /\ cycle.i <= N
  /\ cycle' = [cycle EXCEPT !.i = @ + 1, !.mark = [@ EXCEPT ![Domains[cycle.i]] = sources[Domains[cycle.i]]]]
  /\ UNCHANGED <<stores, pipe, account, baseline, counters>>

(* Mutant: one source that has not changed is enough to skip.              *)
Mut_decide ==
  CASE checkpoint = None /\ cycle.exists -> "BOOTSTRAP_CHECKPOINT"
    [] checkpoint = None /\ ~cycle.exists -> "RUN_INGESTION"
    [] checkpoint # None -> IF \E d \in AllDomains : checkpoint.mark[d] = cycle.mark[d]
                            THEN "SKIP_INGESTION" ELSE "RUN_INGESTION"

(* Mutant: the canonical state is opened before it is looked for.          *)
Mut_decide_opened ==
  CASE checkpoint = None -> "BOOTSTRAP_CHECKPOINT"
    [] checkpoint # None -> IF checkpoint.mark = cycle.mark THEN "SKIP_INGESTION" ELSE "RUN_INGESTION"

decide ==
  CASE checkpoint = None /\ cycle.exists -> "BOOTSTRAP_CHECKPOINT"
    [] checkpoint = None /\ ~cycle.exists -> "RUN_INGESTION"
    [] checkpoint # None -> IF checkpoint.mark = cycle.mark THEN "SKIP_INGESTION" ELSE "RUN_INGESTION"

(* StateStore opens the canonical state, and creates it if there is none.  *)
Opened == IF canonical = None THEN Zero ELSE canonical

Decide ==
  /\ At("walk") /\ cycle.i > N
  /\ cycle' = [cycle EXCEPT !.action = decide,
       !.pc = CASE decide = "RUN_INGESTION" -> "pipeline"
                [] decide = "BOOTSTRAP_CHECKPOINT" -> "save"
                [] decide = "SKIP_INGESTION" -> "count"]
  /\ canonical' = Opened
  /\ pipe' = IF decide = "RUN_INGESTION" THEN [pipe EXCEPT !["cycle"] = 1] ELSE pipe
  /\ UNCHANGED <<sources, checkpoint, jobs, journal, invocations, account, baseline, counters>>

-----------------------------------------------------------------------------
(* run_current_pipeline, of the cycle or of a `run` command: first every   *)
(* domain is ingested (INSERT OR IGNORE of every experience), ...          *)
Ingest(p) ==
  /\ pipe[p] \in 1 .. N
  /\ LET d == Domains[pipe[p]] IN
     /\ canonical' = [canonical EXCEPT ![d] = sources[d]]
     /\ IF p = "cycle"
        THEN /\ account' = account \union Deeds("RAW_EVIDENCE_INGESTED", {d}) \union
                  IF d \in Markets /\ sources[d] > canonical[d] THEN Deeds("EXPERIENCE_CREATED", {d}) ELSE {}
             /\ cycle' = [cycle EXCEPT !.inserted =
                  IF sources[d] > canonical[d] THEN @ \union {d} ELSE @]
        ELSE UNCHANGED <<account, cycle>>
  /\ pipe' = [pipe EXCEPT ![p] = @ + 1]
  /\ UNCHANGED <<sources, checkpoint, jobs, journal, invocations, baseline, counters>>

(* A `run` command has the shipped pipeline.                               *)
IsShipped(p) == p = "run" \/ deps = "shipped"

(* ... then every domain's gate is evaluated, which may queue a job, once  *)
(* per domain (the idempotency key has the generation, which stays).       *)
Gate(p, queues) ==
  /\ pipe[p] \in N + 1 .. 2 * N
  /\ queues => ~IsShipped(p)
  /\ LET d == Domains[pipe[p] - N] IN
     /\ jobs' = IF queues THEN jobs \union {d} ELSE jobs
     /\ account' = IF p # "cycle" THEN account
          ELSE account \union Deeds("TRAINING_NEED_CREATED", {d}) \union
               IF queues /\ d \notin jobs THEN Deeds("COMPUTE_JOB_CREATED", {None}) ELSE {}
  /\ IF pipe[p] < 2 * N
     THEN pipe' = [pipe EXCEPT ![p] = @ + 1] /\ UNCHANGED cycle
     ELSE /\ pipe' = [pipe EXCEPT ![p] = 0]
          /\ cycle' = IF p = "cycle" THEN [cycle EXCEPT !.pc = "save"] ELSE cycle
  /\ UNCHANGED <<sources, canonical, checkpoint, journal, invocations, baseline, counters>>

(* A route that the shipped pipeline would queue a job for raises          *)
(* (canonical_namespace is not defined): the pipeline and its cycle end,   *)
(* with what is ingested in the canonical state and no checkpoint of it.   *)
GateRaises(p) ==
  /\ pipe[p] \in N + 1 .. 2 * N /\ IsShipped(p)
  /\ pipe' = [pipe EXCEPT ![p] = 0]
  /\ IF p = "cycle" THEN cycle' = Idle /\ raised' = TRUE ELSE UNCHANGED <<cycle, raised>>
  /\ UNCHANGED <<stores, account, baseline, deps, cycles, runs, faults>>

(* run_world_cycle.                                                        *)
Run ==
  /\ pipe["run"] = 0 /\ runs < MaxRuns
  /\ runs' = runs + 1
  /\ canonical' = Opened
  /\ pipe' = [pipe EXCEPT !["run"] = 1]
  /\ UNCHANGED <<sources, checkpoint, jobs, journal, invocations, cycle, account, baseline, deps, raised, cycles, faults>>

-----------------------------------------------------------------------------
(* Mutant: the watermark is taken again after the ingestion.               *)
Mut_Save ==
  /\ At("save")
  /\ checkpoint' = [mark |-> sources, cycle |-> cycles,
       mode |-> IF cycle.action = "RUN_INGESTION" THEN "AFTER_INGESTION" ELSE "BOOTSTRAP_EXISTING_STATE"]
  /\ cycle' =
       IF cycle.action # "RUN_INGESTION" THEN [cycle EXCEPT !.pc = "count"]
       ELSE IF deps = "tested" THEN [cycle EXCEPT !.pc = "evidence", !.i = 1] ELSE Idle
  /\ baseline' = IF cycle.action = "RUN_INGESTION" THEN baseline
                 ELSE [d \in AllDomains |-> IF cycle.mark[d] > baseline[d] THEN cycle.mark[d] ELSE baseline[d]]
  /\ UNCHANGED <<sources, canonical, jobs, journal, invocations, pipe, account, counters>>

(* The watermark is the one taken before the ingestion.  With the shipped  *)
(* pipeline's details the cycle ends in an AttributeError right after it.  *)
Save ==
  /\ At("save")
  /\ checkpoint' = [mark |-> cycle.mark, cycle |-> cycles,
       mode |-> IF cycle.action = "RUN_INGESTION" THEN "AFTER_INGESTION" ELSE "BOOTSTRAP_EXISTING_STATE"]
  /\ cycle' =
       IF cycle.action # "RUN_INGESTION" THEN [cycle EXCEPT !.pc = "count"]
       ELSE IF deps = "tested" THEN [cycle EXCEPT !.pc = "evidence", !.i = 1] ELSE Idle
  /\ baseline' = IF cycle.action = "RUN_INGESTION" THEN baseline
                 ELSE [d \in AllDomains |-> IF cycle.mark[d] > baseline[d] THEN cycle.mark[d] ELSE baseline[d]]
  /\ UNCHANGED <<sources, canonical, jobs, journal, invocations, pipe, account, counters>>

(* The ingestion's events, domain by domain.                               *)
JournalEvidence ==
  /\ At("evidence") /\ cycle.i <= N
  /\ LET d == Domains[cycle.i] IN
     cycle' = [cycle EXCEPT !.i = @ + 1,
       !.todo = IF d \in Markets /\ d \in cycle.inserted
                THEN <<InDomain("RAW_EVIDENCE_INGESTED", d), InDomain("EXPERIENCE_CREATED", d)>>
                ELSE <<InDomain("RAW_EVIDENCE_INGESTED", d)>>]
  /\ UNCHANGED <<stores, pipe, account, baseline, counters>>

JournalNeeds ==
  /\ At("evidence") /\ cycle.i > N
  /\ cycle' = [cycle EXCEPT !.pc = "count",
       !.todo = [k \in 1 .. N |-> InDomain("TRAINING_NEED_CREATED", Domains[k])]]
  /\ UNCHANGED <<stores, pipe, account, baseline, counters>>

(* The jobs there are more than before, whoever queued them.               *)
JournalJobs ==
  /\ At("count")
  /\ cycle' = [cycle EXCEPT !.pc = "dispatch",
       !.todo = IF Cardinality(jobs) > Cardinality(cycle.before) THEN InAllWorlds("COMPUTE_JOB_CREATED") ELSE <<>>]
  /\ UNCHANGED <<stores, pipe, account, baseline, counters>>

(* Mutant: a list is no count, and is taken for none.                      *)
Mut_Dispatch(dispatched) ==
  /\ At("dispatch")
  /\ dispatched => jobs # {}
  /\ account' = account \union IF dispatched THEN Deeds("COMPUTE_JOB_DISPATCHED", {None}) ELSE {}
  /\ cycle' = [cycle EXCEPT !.pc = "return",
       !.todo = (IF dispatched /\ deps = "tested" THEN InAllWorlds("COMPUTE_JOB_DISPATCHED") ELSE <<>>) \o
                (IF cycle.collected /\ deps = "tested"
                 THEN InAllWorlds("COMPUTE_JOB_RESULT_RECEIVED") ELSE <<>>) \o
                InAllWorlds("WORLD_CYCLE_COMPLETED")]
  /\ UNCHANGED <<stores, pipe, baseline, counters>>

(* deps.dispatch (ComputeFabric); what is left then is to journal.  int()  *)
(* of a list of jobs raises a TypeError: where the shipped calls did send  *)
(* or collect something, the cycle ends here, with nothing journalled of   *)
(* either (an empty list counts as 0).                                     *)
Dispatch(dispatched) ==
  /\ At("dispatch")
  /\ dispatched => jobs # {}
  /\ account' = account \union IF dispatched THEN Deeds("COMPUTE_JOB_DISPATCHED", {None}) ELSE {}
  /\ cycle' =
       IF deps = "shipped" /\ (dispatched \/ cycle.collected) THEN Idle
       ELSE [cycle EXCEPT !.pc = "return",
               !.todo = (IF dispatched THEN InAllWorlds("COMPUTE_JOB_DISPATCHED") ELSE <<>>) \o
                        (IF cycle.collected THEN InAllWorlds("COMPUTE_JOB_RESULT_RECEIVED") ELSE <<>>) \o
                        InAllWorlds("WORLD_CYCLE_COMPLETED")]
  /\ UNCHANGED <<stores, pipe, baseline, counters>>

Return ==
  /\ At("return")
  /\ cycle' = Idle
  /\ UNCHANGED <<stores, pipe, account, baseline, counters>>

(* The environment: the process dies, or a call raises for a reason of its *)
(* own.  No store is put back.                                             *)
Crash(p) ==
  /\ faults < MaxFaults
  /\ IF p = "cycle" THEN cycle.pc # "idle" /\ cycle' = Idle ELSE pipe[p] # 0 /\ UNCHANGED cycle
  /\ pipe' = [pipe EXCEPT ![p] = 0]
  /\ faults' = faults + 1
  /\ UNCHANGED <<stores, account, baseline, deps, raised, cycles, runs>>

Next ==
  \/ \E d \in AllDomains : Arrive(d)
  \/ LoseCheckpoint
  \/ \E job \in OtherJobs : SubmitOther(job)
  \/ AppendEvent \/ Start \/ Invoke \/ Walk \/ Decide \/ Save
  \/ \E b \in BOOLEAN : Collect(b) \/ Dispatch(b)
  \/ JournalEvidence \/ JournalNeeds \/ JournalJobs \/ Return
  \/ Run
  \/ \E p \in Pipelines :
       \/ Ingest(p)
       \/ \E b \in BOOLEAN : Gate(p, b)
       \/ GateRaises(p)
       \/ Crash(p)

Spec == Init /\ [][Next]_vars

-----------------------------------------------------------------------------
PCs == {"idle", "invoke", "walk", "pipeline", "save", "evidence", "count", "dispatch", "return"}
Types == {"WORLD_CYCLE_STARTED", "WORLD_CYCLE_COMPLETED", "GOVERNANCE_VALIDATED", "RAW_EVIDENCE_INGESTED",
          "EXPERIENCE_CREATED", "TRAINING_NEED_CREATED", "COMPUTE_JOB_CREATED", "COMPUTE_JOB_DISPATCHED",
          "COMPUTE_JOB_RESULT_RECEIVED"}
Events == [cycle : 0 .. MaxCycles, type : Types, world : AllWorlds, domain : AllDomains \union {None}]
Locals ==
  [pc : PCs, i : Nat \ {0}, mark : Versions, exists : BOOLEAN,
   action : {"none", "BOOTSTRAP_CHECKPOINT", "RUN_INGESTION", "SKIP_INGESTION"},
   before : SUBSET (AllDomains \union OtherJobs), inserted : SUBSET AllDomains, collected : BOOLEAN, todo : Seq(Events)]

TypeOK ==
  /\ sources \in Versions /\ baseline \in Versions
  /\ canonical \in Versions \union {None}
  /\ checkpoint \in Checkpoints \union {None}
  /\ jobs \subseteq AllDomains \union OtherJobs
  /\ journal \in Seq(Events)
  /\ invocations \subseteq (1 .. MaxCycles) \X AllWorlds
  /\ cycle \in Locals
  /\ pipe \in [Pipelines -> 0 .. 2 * N]
  /\ account \subseteq [cycle : 1 .. MaxCycles, type : Types, domain : AllDomains \union {None}]
  /\ deps \in Dependencies /\ raised \in BOOLEAN
  /\ cycles \in 0 .. MaxCycles /\ runs \in 0 .. MaxRuns
  /\ faults \in 0 .. MaxFaults

(* A checkpoint that an ingestion left claims no more than is ingested,    *)
(* though files changed between the watermark and the ingestion, and       *)
(* between the ingestion and the checkpoint.                               *)
CheckpointCovers ==
  checkpoint # None /\ checkpoint.mode = "AFTER_INGESTION" =>
    canonical # None /\ \A d \in AllDomains : checkpoint.mark[d] <= canonical[d]

(* A cycle that completes, also one that skipped the ingestion, leaves no  *)
(* evidence behind that it has seen, but what a bootstrap took for         *)
(* ingested.                                                               *)
CompletedIsCurrent ==
  cycle.pc = "return" => canonical # None /\
    \A d \in AllDomains : cycle.mark[d] <= canonical[d] \/ cycle.mark[d] <= baseline[d]

(* "Migration safety": no bootstrap skips evidence of a project in which   *)
(* only cycles ran, no cycle died or had its pipeline raise, and no        *)
(* checkpoint was lost.                                                    *)
BaselineHasCause ==
  faults = 0 /\ runs = 0 /\ ~raised => baseline = Zero

Journalled(k, c, type, domain, world) == \E j \in 1 .. k :
  /\ journal[j].cycle = c /\ journal[j].type = type /\ journal[j].domain = domain
  /\ domain = None => journal[j].world = world

(* "Auditable": before a cycle is journalled as completed, its start, its  *)
(* invocation and everything it did are, wherever earlier cycles died.     *)
CompletedIsAccounted ==
  \A k \in 1 .. Len(journal) : journal[k].type = "WORLD_CYCLE_COMPLETED" =>
    LET e == journal[k] IN
    /\ <<e.cycle, e.world>> \in invocations
    /\ Journalled(k, e.cycle, "WORLD_CYCLE_STARTED", None, e.world)
    /\ Journalled(k, e.cycle, "GOVERNANCE_VALIDATED", None, e.world)
    /\ \A a \in account : a.cycle = e.cycle => Journalled(k, e.cycle, a.type, a.domain, e.world)

(* test_all_world_cycle_creates_invocations_and_journal: unless a cycle    *)
(* dies, an ingestion that is behind the checkpoint, and so never repeated *)
(* for what it covers, is in the journal.  Of what is shipped it is not    *)
(* true.                                                                   *)
IngestionJournalled ==
  faults = 0 /\ cycle.pc = "idle" /\ checkpoint # None /\ checkpoint.mode = "AFTER_INGESTION" =>
    \A d \in AllDomains : Journalled(Len(journal), checkpoint.cycle, "RAW_EVIDENCE_INGESTED", d, WorldOf[d])

(* The same test lets dispatch send jobs and asserts RUN_COMPLETED: unless *)
(* a cycle dies, what it dispatched is in the journal of every world when  *)
(* it is over.  Of what is shipped it is not true.                         *)
DispatchJournalled ==
  faults = 0 /\ cycle.pc = "idle" =>
    \A a \in account : a.type = "COMPUTE_JOB_DISPATCHED" =>
      \A w \in AllWorlds : Journalled(Len(journal), a.cycle, a.type, None, w)
=============================================================================
