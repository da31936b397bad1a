---------------------------- MODULE NetworkFactory ----------------------------
(***************************************************************************)
(* run_current_pipeline and CanonicalNetworkFactory of                     *)
(* src/ssi_v5/worlds/legacy_factory.py: after its ingestion a pass hands   *)
(* the parents' knowledge to the child domains and evaluates every route,  *)
(* through the gates to a plan of candidates or a generation.  Each commit *)
(* is a step; a process may die before any of them.                        *)
(***************************************************************************)
EXTENDS WorldEvidence

CONSTANTS
  Parents,         \* the parent domains
  Children,        \* the domains that inherit from them
  MinSamples, MinPeriods, MinDiversity,     \* ReadinessPolicy
  GrowthPercent, MinNew,                    \* RetrainingPolicy
  TrainPercent,                             \* SplitPolicy
  Kinds,           \* model kinds of the complexity tier
  Labs,            \* "dry", "backed": DryRunModelLab without and with a compute
                   \* backend; "real": another ModelLab
  MaxPasses, MaxFaults

(* The policies of DOMAIN_REGISTRY ask for more than the first complexity  *)
(* tier (24 samples, 2 periods): a ready route always has a tier, and two  *)
(* rows to split.                                                          *)
ASSUME FactoryAssumption ==
  /\ Parents \subseteq Markets /\ Children \subseteq Markets
  /\ Parents \cap Children = {}
  /\ MinSamples \in Nat /\ MinSamples >= 2 /\ MinPeriods \in Nat /\ MinDiversity \in Nat
  /\ GrowthPercent \in 0 .. 100 /\ MinNew \in Nat \ {0} /\ TrainPercent \in 1 .. 99
  /\ Kinds # {} /\ Labs \subseteq {"dry", "backed", "real"}
  /\ MaxPasses \in Nat /\ MaxFaults \in Nat

VARIABLES
  networks,        \* route |-> status, current_generation, last_train_samples
  trials,          \* model_trials
  generations,
  plans,           \* MODEL_CANDIDATE_PLAN artifacts
  published,       \* NETWORK_ARTIFACT and BEHAVIOR_ARTIFACT
  bundles,         \* generations whose files are on disk
  snapshots,       \* parent_snapshots
  passes, faults,
  overlapped       \* history: routes that two processes evaluated at once

factory == <<networks, trials, generations, plans, published, bundles, overlapped>>
worldVars == <<files, store, pc, mem, torn, factory, snapshots, passes, faults>>

Routes == {<<Sports, "PRIMARY">>} \cup (Markets \X {"PRIMARY", "SERIES"})

NoNetwork == [status |-> "ABSENT", gen |-> 0, last |-> 0]
NoContext == [d \in Parents |-> [count |-> 0, latest |-> 0]]
NoMemory  ==
  [pairs |-> {}, rows |-> {}, row |-> NoRow, domains |-> {}, domain |-> Sports,
   todo |-> {}, open |-> 0, routes |-> {}, route |-> <<Sports, "PRIMARY">>,
   net |-> NoNetwork, train |-> {}, observe |-> {}, passing |-> {}, saving |-> {},
   context |-> NoContext, lab |-> "dry"]

Evaluating == {"route", "saving", "trials", "planned", "committed", "published", "behaved"}

----------------------------------------------------------------------------
(* The gates.                                                              *)

Samples(rows) == Cardinality(rows)

Ready(rows) ==
  /\ Samples(rows) >= MinSamples
  /\ Cardinality({x.period : x \in rows}) >= MinPeriods
  /\ Cardinality({x.target : x \in rows}) >= MinDiversity

(* A mutant: the share is rounded down. *)
Mut_RequiredNew(last) == Max({MinNew, (last * GrowthPercent) \div 100})

(* The share is rounded up. *)
RequiredNew(last) == Max({MinNew, (last * GrowthPercent + 99) \div 100})

decide(current, last) ==
  IF last <= 0 THEN "TRAIN"
  ELSE IF current - last >= RequiredNew(last) THEN "RETRAIN" ELSE "WAIT"

(* chronological_split: rows of one time are ordered by their id, a hash,  *)
(* so that either may come first.                                          *)
TrainCount(n) == Max({1, Min({(n * TrainPercent) \div 100, n - 1})})

chronological_split(rows) ==
  {t \in kSubset(TrainCount(Cardinality(rows)), rows) :
     \A x \in t, y \in rows \ t : x.at <= y.at}

(* A route other than a primary one asks for the rows of its own key; with *)
(* one series per domain these are all the domain's rows.                  *)
RowsOf(r) == load_verified_experiences(r[1])

Gate(p, rows) ==
  IF ~Ready(rows) THEN "WAITING_DATA"
  ELSE IF decide(Samples(rows), mem[p].net.last) = "WAIT" THEN "WAITING_GROWTH"
  ELSE "OPEN"

----------------------------------------------------------------------------
(* evaluate_route.                                                         *)

Leave(p) == /\ pc' = [pc EXCEPT ![p] = "routes"]
            /\ mem' = [mem EXCEPT ![p] = [NoMemory EXCEPT
                 !.routes = mem[p].routes \ {mem[p].route},
                 !.context = mem[p].context, !.lab = mem[p].lab]]

Go(p, where) == pc' = [pc EXCEPT ![p] = where]

Stop(p, how) == Go(p, how) /\ mem' = [mem EXCEPT ![p] = NoMemory]

SetStatus(r, status) == networks' = [networks EXCEPT ![r].status = status]

(* INSERT OR IGNORE, then the row is read: what follows trusts this copy.  *)
ensure_network(p) ==
  /\ pc[p] = "routes"
  /\ mem[p].routes # {}
  /\ LET r   == First(mem[p].routes)
         row == IF networks[r] = NoNetwork THEN [NoNetwork EXCEPT !.status = "NEW"]
                                             ELSE networks[r]
     IN    /\ networks' = [networks EXCEPT ![r] = row]
           /\ mem' = [mem EXCEPT ![p].route = r, ![p].net = row]
           /\ overlapped' = overlapped \cup
                (IF \E q \in Procs \ {p} : pc[q] \in Evaluating /\ mem[q].route = r
                   THEN {r} ELSE {})
  /\ Go(p, "route")
  /\ UNCHANGED <<files, store, torn, trials, generations, plans, published, bundles,
                 snapshots, passes, faults>>

Wait(p) ==
  LET gate == Gate(p, RowsOf(mem[p].route))
  IN  /\ pc[p] = "route" /\ gate # "OPEN"
      /\ SetStatus(mem[p].route, gate)
      /\ Leave(p)
      /\ UNCHANGED <<files, store, torn, trials, generations, plans, published, bundles,
                     overlapped, snapshots, passes, faults>>

(* The dry lab never passes a model; what another lab finds is its own.    *)
Passing(lab) == IF lab = "real" THEN SUBSET Kinds ELSE {{}}

run_trials(p) ==
  LET rows == RowsOf(mem[p].route)
  IN  /\ pc[p] = "route" /\ Gate(p, rows) = "OPEN"
      /\ \E passing \in Passing(mem[p].lab),
            t \in chronological_split(rows) :
           mem' = [mem EXCEPT ![p].train = t, ![p].observe = rows \ t,
                              ![p].passing = passing, ![p].saving = Kinds]
      /\ Go(p, "saving")
      /\ UNCHANGED <<files, store, torn, factory, snapshots, passes, faults>>

(* A commit for each trial.  Its id is a hash of network, generation, kind *)
(* and architecture: a trial that a pass saved before it died is replaced  *)
(* by the same one of a later pass, and by nothing else.                   *)
save_trial(p) ==
  LET r   == mem[p].route
      gen == mem[p].net.gen + 1
      k   == First(mem[p].saving)
  IN  /\ pc[p] = "saving" /\ mem[p].saving # {}
      /\ trials' = {u \in trials : ~(u.net = r /\ u.gen = gen /\ u.kind = k)} \cup
                   {[net |-> r, gen |-> gen, kind |-> k, passed |-> k \in mem[p].passing]}
      /\ mem' = [mem EXCEPT ![p].saving = @ \ {k}]
      /\ Go(p, IF mem[p].saving = {k} THEN "trials" ELSE "saving")
      /\ UNCHANGED <<files, store, torn, networks, generations, plans, published,
                     bundles, overlapped, snapshots, passes, faults>>

(* With a backend _enqueue_candidate_jobs names canonical_namespace, which *)
(* this module does not import: the first candidate raises NameError, and  *)
(* the pass ends with it.  Without one it returns no jobs.                 *)
QueueRaises(p) ==
  /\ pc[p] = "trials" /\ mem[p].lab = "backed"
  /\ Stop(p, "raised")
  /\ UNCHANGED <<files, store, torn, factory, snapshots, passes, faults>>

PublishPlan(p) ==
  /\ pc[p] = "trials" /\ mem[p].lab = "dry"
  /\ plans' = plans \cup {[net |-> mem[p].route, gen |-> mem[p].net.gen + 1,
                           train |-> mem[p].train, observe |-> mem[p].observe,
                           context |-> IF mem[p].route[1] \in Children
                                         THEN mem[p].context ELSE NoContext]}
  /\ Go(p, "planned")
  /\ UNCHANGED <<files, store, torn, mem, networks, trials, generations, published,
                 bundles, overlapped, snapshots, passes, faults>>

CandidatesReady(p) ==
  /\ pc[p] = "planned"
  /\ SetStatus(mem[p].route, "MODEL_CANDIDATES_READY")
  /\ Leave(p)
  /\ UNCHANGED <<files, store, torn, trials, generations, plans, published, bundles,
                 overlapped, snapshots, passes, faults>>

NoChampion(p) ==
  /\ pc[p] = "trials" /\ mem[p].lab = "real" /\ mem[p].passing = {}
  /\ SetStatus(mem[p].route, "NO_CHAMPION")
  /\ Leave(p)
  /\ UNCHANGED <<files, store, torn, trials, generations, plans, published, bundles,
                 overlapped, snapshots, passes, faults>>

(* A mutant: a retraining leaves current_generation alone. *)
Mut_commit_generation(p) ==
  LET r == mem[p].route
      g == [net |-> r, gen |-> mem[p].net.gen + 1,
            train |-> mem[p].train, observe |-> mem[p].observe]
  IN  /\ pc[p] = "trials" /\ mem[p].lab = "real" /\ mem[p].passing # {}
      /\ generations' = {h \in generations : ~(h.net = r /\ h.gen = g.gen)} \cup {g}
      /\ networks' = [networks EXCEPT ![r] =
           [status |-> "ACTIVE", gen |-> Max({1, mem[p].net.gen}),
            last |-> Cardinality(g.train) + Cardinality(g.observe)]]
      /\ Go(p, "committed")
      /\ UNCHANGED <<files, store, torn, mem, trials, plans, published, bundles,
                     overlapped, snapshots, passes, faults>>

(* INSERT OR REPLACE of the generation and UPDATE of the network in one    *)
(* commit; the number is one more than in the copy read before the trials. *)
commit_generation(p) ==
  LET r == mem[p].route
      g == [net |-> r, gen |-> mem[p].net.gen + 1,
            train |-> mem[p].train, observe |-> mem[p].observe]
  IN  /\ pc[p] = "trials" /\ mem[p].lab = "real" /\ mem[p].passing # {}
      /\ generations' = {h \in generations : ~(h.net = r /\ h.gen = g.gen)} \cup {g}
      /\ networks' = [networks EXCEPT ![r] =
           [status |-> "ACTIVE", gen |-> g.gen,
            last |-> Cardinality(g.train) + Cardinality(g.observe)]]
      /\ Go(p, "committed")
      /\ UNCHANGED <<files, store, torn, mem, trials, plans, published, bundles,
                     overlapped, snapshots, passes, faults>>

Publish(p, type, from, to) ==
  /\ pc[p] = from
  /\ published' = published \cup {<<mem[p].route, mem[p].net.gen + 1, type>>}
  /\ Go(p, to)
  /\ UNCHANGED <<files, store, torn, mem, networks, trials, generations, plans, bundles,
                 overlapped, snapshots, passes, faults>>

PublishNetwork(p)  == Publish(p, "NETWORK_ARTIFACT", "committed", "published")
PublishBehavior(p) == Publish(p, "BEHAVIOR_ARTIFACT", "published", "behaved")

WriteBundle(p) ==
  /\ pc[p] = "behaved"
  /\ bundles' = bundles \cup {<<mem[p].route, mem[p].net.gen + 1>>}
  /\ Leave(p)
  /\ UNCHANGED <<files, store, torn, networks, trials, generations, plans, published,
                 overlapped, snapshots, passes, faults>>

----------------------------------------------------------------------------
(* run_current_pipeline.                                                   *)

Resting == {"idle", "ended", "raised", "died"}

Start(p) ==
  /\ pc[p] \in Resting /\ passes < MaxPasses
  /\ passes' = passes + 1
  /\ mem' = [mem EXCEPT ![p] = [NoMemory EXCEPT !.pairs = discover_pairs,
                !.domains = Markets, !.routes = {<<Sports, "PRIMARY">>}]]
  /\ Go(p, "pairs")
  /\ UNCHANGED <<files, store, torn, factory, snapshots, faults>>

ContextOf(d) ==
  LET rows == load_verified_experiences(d)
  IN  [count |-> Cardinality(rows),
       latest |-> IF rows = {} THEN 0 ELSE Max({x.at : x \in rows})]

(* The factory is built, build_parent_contexts reads, and the snapshot of  *)
(* every parent is saved for every child.                                  *)
Inherit(p) ==
  LET context == [d \in Parents |-> ContextOf(d)]
  IN  /\ pc[p] = "series" /\ mem[p].domains = {}
      /\ snapshots' = snapshots \cup
           {[child |-> c, parent |-> d, of |-> context[d]] : c \in Children, d \in Parents}
      /\ \E lab \in Labs :
           mem' = [mem EXCEPT ![p].context = context, ![p].lab = lab]
      /\ Go(p, "routes")
      /\ UNCHANGED <<files, store, torn, factory, passes, faults>>

Finish(p) ==
  /\ pc[p] = "routes" /\ mem[p].routes = {}
  /\ Stop(p, "ended")
  /\ UNCHANGED <<files, store, torn, factory, snapshots, passes, faults>>

Die(p) ==
  /\ pc[p] \notin Resting /\ faults < MaxFaults
  /\ faults' = faults + 1
  /\ torn' = IF pc[p] = "experience" THEN torn \cup {mem[p].row.event} ELSE torn
  /\ Stop(p, "died")
  /\ UNCHANGED <<files, store, factory, snapshots, passes>>

WorldInit ==
  /\ EvidenceInit
  /\ pc = [p \in Procs |-> "idle"] /\ mem = [p \in Procs |-> NoMemory]
  /\ networks = [r \in Routes |-> NoNetwork]
  /\ trials = {} /\ generations = {} /\ plans = {} /\ published = {} /\ bundles = {}
  /\ snapshots = {} /\ passes = 0 /\ faults = 0 /\ overlapped = {}

Apart == UNCHANGED <<factory, snapshots, passes, faults>>

WorldStep(p) ==
  \/ EvidenceStep(p) /\ Apart
  \/ Start(p) \/ Inherit(p) \/ Finish(p) \/ Die(p)
  \/ ensure_network(p) \/ Wait(p) \/ run_trials(p) \/ save_trial(p)
  \/ QueueRaises(p) \/ PublishPlan(p) \/ CandidatesReady(p)
  \/ NoChampion(p) \/ commit_generation(p)
  \/ PublishNetwork(p) \/ PublishBehavior(p) \/ WriteBundle(p)

WorldNext ==
  \/ EvidenceChanges /\ Apart
  \/ \E p \in Procs : WorldStep(p)

WorldSpec == WorldInit /\ [][WorldNext]_worldVars

----------------------------------------------------------------------------
Of(r) == {g \in generations : g.net = r}
Sized(g) == Cardinality(g.train) + Cardinality(g.observe)

WorldTypeOK ==
  /\ pc \in [Procs -> Resting \cup Evaluating \cup
               {"pairs", "rows", "experience", "series", "periods", "routes"}]
  /\ \A r \in Routes : networks[r].gen \in Nat /\ networks[r].last \in Nat
  /\ \A x, y \in experiences : ExperienceId(x) = ExperienceId(y) => x = y
  /\ \A g, h \in generations : g.net = h.net /\ g.gen = h.gen => g = h

(* What a network trains on and what it is observed on are different       *)
(* events: an event lies on both sides of a split, in a plan or in a       *)
(* generation, only if two different results each stood alone for it in    *)
(* the result files (a corrected file), and time runs from the one side to *)
(* the other.                                                              *)
SplitSeparates ==
  \A s \in plans \cup generations :
    \A x \in s.train, y \in s.observe :
      /\ x.at <= y.at
      /\ x.source = y.source /\ x.domain = Sports =>
           Cardinality(alone[x.source] \cap Complete) > 1

(* The generations of a network are numbered without a gap, and            *)
(* current_generation is one of them, even when a process commits from a   *)
(* copy another one has overtaken.  Unless two processes evaluated the     *)
(* network at once, current_generation is the last of them and the one     *)
(* last_train_samples counts, the trials of each hold a passed one, and    *)
(* its artifacts are published after it, the bundle after the artifacts.   *)
NumbersInOrder ==
  \A r \in Routes :
    LET last    == networks[r].gen
        numbers == {g.gen : g \in Of(r)}
    IN  /\ last \in numbers \cup {0}
        /\ \A n \in numbers : n > 0 /\ 1 .. n \subseteq numbers
        /\ r \notin overlapped =>
             /\ numbers = 1 .. last
             /\ \A g \in Of(r) :
                  /\ g.gen = last => Sized(g) = networks[r].last
                  /\ \E u \in trials : u.net = r /\ u.gen = g.gen /\ u.passed
             /\ \A a \in published : a[1] = r => a[2] \in 1 .. last
             /\ \A n \in 1 .. last : <<r, n>> \in bundles =>
                  {<<r, n, "NETWORK_ARTIFACT">>, <<r, n, "BEHAVIOR_ARTIFACT">>}
                    \subseteq published

(* Heavy training is repeated on growth only: of two generations of a      *)
(* network in a row the later one has seen a fifth more evidence, at least *)
(* one experience, unless two processes evaluated the network at once.     *)
RetrainOnGrowth ==
  \A r \in Routes \ overlapped :
    \A g, h \in Of(r) :
      h.gen = g.gen + 1 =>
        /\ Sized(h) > Sized(g)
        /\ 100 * (Sized(h) - Sized(g)) >= GrowthPercent * Sized(g)

(* run_current_pipeline: "... -> chronological 60/40 -> complexity ->      *)
(* candidates": a pass that has ended has taken each network whose trials  *)
(* it saved to a plan, a generation or the answer that there is none.      *)
TrialsArePlanned ==
  \A p \in Procs :
    pc[p] \in {"ended", "raised"} =>
      \A u \in trials :
        \/ \E s \in plans \cup generations : s.net = u.net /\ s.gen = u.gen
        \/ networks[u.net].status = "NO_CHAMPION"
=============================================================================
