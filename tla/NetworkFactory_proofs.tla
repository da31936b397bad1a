------------------------ MODULE NetworkFactory_proofs ------------------------
(***************************************************************************)
(* Proofs about WorldEvidence and NetworkFactory: the experience store, the *)
(* split, the numbers of the generations and the growth between them, for  *)
(* any number of processes, passes, deaths and changes of the raw files.   *)
(***************************************************************************)
EXTENDS NetworkFactory, WellFoundedInduction, FiniteSetTheorems, TLAPS

----------------------------------------------------------------------------
(* The types.                                                              *)

Rows == [event : Events, line : {"absent", "bare", "quoted"}, versions : SUBSET Results]

SportsExperiences ==
  [domain : {Sports}, source : Events, at : Nat, period : Nat, next : {0},
   target : Results, complete : BOOLEAN]

SeriesExperiences ==
  [domain : Markets, source : Markets, at : Ticks, period : Nat, next : Nat,
   target : Values, complete : {TRUE}]

Evidence == SportsExperiences \cup SeriesExperiences

Statuses == {"ABSENT", "NEW", "WAITING_DATA", "WAITING_GROWTH", "MODEL_CANDIDATES_READY",
             "NO_CHAMPION", "ACTIVE"}

Networks == [status : Statuses, gen : Nat, last : Nat]

(* What build_parent_contexts makes of a set of rows.                      *)
Contexts ==
  {[count |-> Cardinality(rows),
    latest |-> IF rows = {} THEN 0 ELSE Max({x.at : x \in rows})] : rows \in SUBSET Evidence}

Memories ==
  [pairs : SUBSET [file : Files, paired : BOOLEAN], rows : SUBSET Rows,
   row : Rows \cup {NoRow}, domains : SUBSET Markets, domain : Markets \cup {Sports},
   todo : SUBSET SeriesExperiences, open : Nat, routes : SUBSET Routes, route : Routes,
   net : Networks, train : SUBSET Evidence, observe : SUBSET Evidence,
   passing : SUBSET Kinds, saving : SUBSET Kinds, context : [Parents -> Contexts],
   lab : {"dry", "backed", "real"}]

Splits == [net : Routes, gen : Nat, train : SUBSET Evidence, observe : SUBSET Evidence]

FilesTyped ==
  /\ listed \in [Files -> [Events -> {"absent", "bare", "quoted"}]]
  /\ scored \in [Files -> [Events -> SUBSET Results]]
  /\ raw \in [Markets -> [Ticks -> Values \cup {NoValue}]]
  /\ alone \in [Events -> SUBSET Results]

StoreTyped == experiences \in SUBSET Evidence /\ IsFiniteSet(experiences)

Places ==
  Resting \cup Evaluating \cup {"pairs", "rows", "experience", "series", "periods", "routes"}

PcTyped == pc \in [Procs -> Places]

MemTyped ==
  /\ mem \in [Procs -> Memories]
  /\ \A p \in Procs : IsFiniteSet(mem[p].train) /\ IsFiniteSet(mem[p].observe)

FactoryTyped ==
  /\ networks \in [Routes -> Networks]
  /\ generations \in SUBSET Splits
  /\ \A s \in plans : s.train \in SUBSET Evidence /\ s.observe \in SUBSET Evidence

TypeInv == FilesTyped /\ StoreTyped /\ PcTyped /\ MemTyped /\ FactoryTyped

----------------------------------------------------------------------------
(* The inductive invariants.                                               *)

(* Sports: a row read with one version is one that stood alone, an         *)
(* experience has the target of such a row and is complete as the target   *)
(* says; a process that holds a row holds one that has an experience.      *)
OneId == \A x, y \in experiences : ExperienceId(x) = ExperienceId(y) => x = y

AloneScored ==
  \A f \in Files, e \in Events :
    Cardinality(scored[f][e]) = 1 => scored[f][e] \subseteq alone[e]

StoodAlone(row) == Cardinality(row.versions) = 1 => row.versions \subseteq alone[row.event]

RowsStood ==
  \A p \in Procs :
    /\ \A row \in mem[p].rows : StoodAlone(row)
    /\ pc[p] = "experience" =>
         mem[p].row \in Rows /\ StoodAlone(mem[p].row) /\ HasExperience(mem[p].row)

TargetsKnown ==
  \A x \in experiences :
    x.domain = Sports => /\ x.complete <=> x.target \in Complete
                         /\ x.target \in alone[x.source]

(* What a VERIFIED record leans on: as VerifiedIsStored, with the row held *)
(* being one that is verified itself.                                      *)
Backed(e) ==
  \/ \E x \in experiences : x.source = e /\ x.complete
  \/ e \in torn
  \/ \E p \in Procs : /\ pc[p] = "experience" /\ mem[p].row.event = e
                      /\ Verdict(mem[p].row) = "VERIFIED"

RecordsBacked == \A r \in records : r.of \in Events /\ r.status = "VERIFIED" => Backed(r.of)

EvidenceInv ==
  OneId /\ AloneScored /\ RowsStood /\ TargetsKnown /\ RecordsBacked

(* Markets: an experience whose target period is over agrees with a series *)
(* that only grows at its end; so does one a process is about to insert.   *)
Filled(d) == {t \in Ticks : raw[d][t] # NoValue}

Settled(x) ==
  x.domain \notin backfilled =>
    /\ x.period < x.next
    /\ PointsIn(raw[x.domain], x.next) # {}
    /\ \A t \in Filled(x.domain) : PeriodOf(t) > x.period => PeriodOf(t) >= x.next
    /\ \E t \in Filled(x.domain) : PeriodOf(t) > x.next
    /\ x.target = raw[x.domain][Max(PointsIn(raw[x.domain], x.next))]

SettledRows ==
  \A x \in experiences :
    x.domain \in Markets /\ ExperienceId(x) \notin provisional => Settled(x)

SettledTodo == \A p \in Procs : \A x \in mem[p].todo : x.next = mem[p].open \/ Settled(x)

SeriesInv == SettledRows /\ SettledTodo

(* The split: what a process, a plan or a generation holds is separated.   *)
Separates(train, observe) ==
  \A x \in train, y \in observe :
    /\ x.at <= y.at
    /\ x.source = y.source /\ x.domain = Sports =>
         Cardinality(alone[x.source] \cap Complete) > 1

SplitsHeld == \A p \in Procs : Separates(mem[p].train, mem[p].observe)

SplitInv == SplitSeparates /\ SplitsHeld

(* The routes that one process at a time evaluated: its copy is the row of *)
(* the network until it commits, and one generation behind after that.     *)
On(p, r) == pc[p] \in Evaluating /\ mem[p].route = r

OneEvaluates(r) == \A p, q \in Procs : On(p, r) /\ On(q, r) => p = q

Grown(n, last) == n > 0 /\ decide(n, last) # "WAIT"

Saved(r, n, k) == \E u \in trials : u.net = r /\ u.gen = n /\ u.kind = k /\ u.passed

CopyHolds(p, r) ==
  /\ pc[p] \in {"route", "saving", "trials", "planned"} => networks[r] = mem[p].net
  /\ pc[p] \in {"saving", "trials"} =>
       /\ Grown(Cardinality(mem[p].train) + Cardinality(mem[p].observe), mem[p].net.last)
       /\ \A k \in mem[p].passing \ mem[p].saving : Saved(r, mem[p].net.gen + 1, k)
  /\ pc[p] = "trials" => mem[p].saving = {}
  /\ pc[p] \in {"committed", "published", "behaved"} =>
       networks[r].gen = mem[p].net.gen + 1
  /\ pc[p] \in {"published", "behaved"} =>
       <<r, networks[r].gen, "NETWORK_ARTIFACT">> \in published
  /\ pc[p] = "behaved" => <<r, networks[r].gen, "BEHAVIOR_ARTIFACT">> \in published

InOrder(r) ==
  LET last == networks[r].gen
  IN  /\ {g.gen : g \in Of(r)} = 1 .. last
      /\ \A g \in Of(r) :
           /\ g.gen = last => Sized(g) = networks[r].last
           /\ \E u \in trials : u.net = r /\ u.gen = g.gen /\ u.passed
      /\ \A a \in published : a[1] = r => a[2] \in 1 .. last
      /\ \A n \in 1 .. last : <<r, n>> \in bundles =>
           {<<r, n, "NETWORK_ARTIFACT">>, <<r, n, "BEHAVIOR_ARTIFACT">>} \subseteq published

GrownTo(r) ==
  \A g, h \in Of(r) :
    h.gen = g.gen + 1 =>
      /\ Sized(h) > Sized(g)
      /\ 100 * (Sized(h) - Sized(g)) >= GrowthPercent * Sized(g)

Held(r) == OneEvaluates(r) /\ \A p \in Procs : On(p, r) => CopyHolds(p, r)

Numbered(r) ==
  /\ InOrder(r) /\ GrownTo(r)
  /\ \A b \in bundles : b[1] = r => b[2] \in 1 .. networks[r].gen

RouteInv == \A r \in Routes \ overlapped : Held(r) /\ Numbered(r)

(* A generation number belongs to one generation of a network.             *)
OneGeneration == \A g, h \in generations : g.net = h.net /\ g.gen = h.gen => g = h
----------------------------------------------------------------------------
(* Least and greatest elements, periods.                                   *)

LEMMA LeastOf ==
  ASSUME NEW S \in SUBSET Nat, S # {}
  PROVE  Min(S) \in S /\ \A y \in S : Min(S) <= y
<1>1. \E m \in S : \A y \in S : ~(<<y, m>> \in OpToRel(<, Nat))
  BY NatLessThanWellFounded, WFMin, Zenon
<1>2. \E m \in S : \A y \in S : ~(m \in Nat /\ y \in Nat /\ y < m)
  BY <1>1, Zenon DEF OpToRel
<1>3. \E m \in S : \A y \in S : m <= y
  BY <1>2
<1> QED
  BY <1>3 DEF Min

LEMMA GreatestOf ==
  ASSUME NEW n \in Nat, NEW S \in SUBSET (0 .. n), S # {}
  PROVE  Max(S) \in S /\ \A y \in S : Max(S) >= y
<1> DEFINE T == {n - x : x \in S}
<1>1. T \in SUBSET Nat /\ T # {}
  <2>1. PICK x \in S : TRUE
    OBVIOUS
  <2>2. n - x \in T
    OBVIOUS
  <2>3. \A y \in S : n - y \in Nat
    OBVIOUS
  <2> QED
    BY <2>2, <2>3
<1>2. Min(T) \in T /\ \A y \in T : Min(T) <= y
  BY <1>1, LeastOf
<1>3. PICK m \in S : Min(T) = n - m
  BY <1>2
<1>4. \A y \in S : m >= y
  <2> TAKE y \in S
  <2>1. n - y \in T
    OBVIOUS
  <2>2. n - m <= n - y
    BY <1>2, <1>3, <2>1
  <2> QED
    BY <2>2
<1> QED
  BY <1>4 DEF Max

LEMMA MaxOfTwo ==
  ASSUME NEW a \in Nat, NEW b \in Nat
  PROVE  Max({a, b}) \in {a, b} /\ Max({a, b}) >= a /\ Max({a, b}) >= b
<1>1. \E x \in {a, b} : \A y \in {a, b} : x >= y
  <2>1. CASE a >= b
    BY <2>1
  <2>2. CASE b >= a
    BY <2>2
  <2> QED
    BY <2>1, <2>2
<1> QED
  BY <1>1 DEF Max

LEMMA PeriodFacts ==
  /\ \A t \in Nat : PeriodOf(t) \in Nat
  /\ \A t, u \in Nat : t <= u => PeriodOf(t) <= PeriodOf(u)
<1>1. PeriodLength \in Nat \ {0}
  BY EvidenceAssumption
<1> DEFINE L == PeriodLength
<1> HIDE DEF L
<1>2. L \in Nat \ {0}
  BY <1>1 DEF L
<1>3. ASSUME NEW t \in Nat PROVE t \div L \in Nat
  BY <1>2
<1>4. ASSUME NEW t \in Nat, NEW u \in Nat, t <= u PROVE t \div L <= u \div L
  BY <1>2, <1>4
<1> QED
  BY <1>3, <1>4 DEF PeriodOf, L
----------------------------------------------------------------------------
(* What a step of one process does to its own memory and to the others'.   *)

Others(p) == \A q \in Procs \ {p} : mem'[q] = mem[q] /\ pc'[q] = pc[q]

SameRows(p)   == mem'[p].rows = mem[p].rows /\ mem'[p].row = mem[p].row
SameSeries(p) == mem'[p].todo = mem[p].todo /\ mem'[p].open = mem[p].open
SameSplit(p)  == mem'[p].train = mem[p].train /\ mem'[p].observe = mem[p].observe
SameRoute(p)  == /\ mem'[p].route = mem[p].route /\ mem'[p].net = mem[p].net
                 /\ mem'[p].passing = mem[p].passing /\ mem'[p].saving = mem[p].saving
Same(p)       == SameRows(p) /\ SameSeries(p) /\ SameSplit(p) /\ SameRoute(p)

Emptied(p) == /\ mem'[p].rows = {} /\ mem'[p].row = NoRow /\ mem'[p].todo = {}
              /\ mem'[p].train = {} /\ mem'[p].observe = {}

Typed == MemTyped /\ PcTyped

StepOf(p, m, where) ==
  /\ m \in Memories /\ IsFiniteSet(m.train) /\ IsFiniteSet(m.observe)
  /\ mem' = [mem EXCEPT ![p] = m]
  /\ pc' = [pc EXCEPT ![p] = where]
  /\ where \in Places

LEMMA StepFacts ==
  ASSUME Typed, NEW p \in Procs, NEW m, NEW where, StepOf(p, m, where)
  PROVE  Typed' /\ Others(p) /\ mem'[p] = m /\ pc'[p] = where
<1>1. mem \in [Procs -> Memories] /\ pc \in [Procs -> Places]
  BY DEF Typed, MemTyped, PcTyped
<1>2. mem' \in [Procs -> Memories] /\ pc' \in [Procs -> Places]
  BY <1>1 DEF StepOf
<1>3. Others(p) /\ mem'[p] = m /\ pc'[p] = where
  BY <1>1 DEF StepOf, Others
<1>4. \A q \in Procs : IsFiniteSet(mem'[q].train) /\ IsFiniteSet(mem'[q].observe)
  <2> TAKE q \in Procs
  <2>1. CASE q = p
    BY <1>3, <2>1 DEF StepOf
  <2>2. CASE q # p
    BY <1>3, <2>2 DEF Others, Typed, MemTyped
  <2> QED
    BY <2>1, <2>2
<1> QED
  BY <1>2, <1>3, <1>4 DEF Typed, MemTyped, PcTyped

LEMMA NoContextTyped == NoContext \in [Parents -> Contexts]
<1>1. [count |-> 0, latest |-> 0] \in Contexts
  <2> DEFINE rows == {}
             c == [count |-> Cardinality(rows),
                   latest |-> IF rows = {} THEN 0 ELSE Max({x.at : x \in rows})]
  <2>1. rows \in SUBSET Evidence /\ c = [count |-> 0, latest |-> 0]
    BY FS_EmptySet
  <2>2. c \in Contexts
    BY <2>1 DEF Contexts
  <2> QED
    BY <2>1, <2>2
<1> QED
  BY <1>1 DEF NoContext

LEMMA NoMemoryTyped ==
  /\ NoMemory \in Memories
  /\ IsFiniteSet(NoMemory.train) /\ IsFiniteSet(NoMemory.observe)
<1>1. <<Sports, "PRIMARY">> \in Routes
  BY DEF Routes
<1>2. NoNetwork \in Networks
  BY DEF NoNetwork, Networks, Statuses
<1>3. NoMemory \in Memories
  <2> DEFINE N == NoContext
             W == NoNetwork
             R == NoRow
             T == <<Sports, "PRIMARY">>
  <2>1. N \in [Parents -> Contexts] /\ W \in Networks /\ T \in Routes
    BY <1>1, <1>2, NoContextTyped
  <2> HIDE DEF N, W, T, R
  <2>2. [pairs |-> {}, rows |-> {}, row |-> R, domains |-> {}, domain |-> Sports,
         todo |-> {}, open |-> 0, routes |-> {}, route |-> T,
         net |-> W, train |-> {}, observe |-> {}, passing |-> {}, saving |-> {},
         context |-> N, lab |-> "dry"] \in Memories
    BY <2>1 DEF Memories, R
  <2> QED
    BY <2>2 DEF NoMemory, N, W, T, R
<1> QED
  BY <1>3, FS_EmptySet DEF NoMemory

(* A route is left, a pass begins or ends: little is remembered.           *)
LEMMA EmptiedByLeave ==
  ASSUME NEW R \in SUBSET Routes, NEW C \in [Parents -> Contexts],
         NEW l \in {"dry", "backed", "real"}
  PROVE  LET m == [NoMemory EXCEPT !.routes = R, !.context = C, !.lab = l]
         IN  /\ m \in Memories /\ IsFiniteSet(m.train) /\ IsFiniteSet(m.observe)
             /\ m.rows = {} /\ m.row = NoRow /\ m.todo = {} /\ m.train = {} /\ m.observe = {}
<1>1. NoMemory \in Memories
  BY NoMemoryTyped
<1>2. /\ NoMemory.rows = {} /\ NoMemory.row = NoRow /\ NoMemory.todo = {}
      /\ NoMemory.train = {} /\ NoMemory.observe = {}
  BY DEF NoMemory
<1> QED
  BY <1>1, <1>2, FS_EmptySet DEF Memories

LEMMA EmptiedByStart ==
  ASSUME NEW P \in SUBSET [file : Files, paired : BOOLEAN],
         NEW D \in SUBSET Markets, NEW R \in SUBSET Routes
  PROVE  LET m == [NoMemory EXCEPT !.pairs = P, !.domains = D, !.routes = R]
         IN  /\ m \in Memories /\ IsFiniteSet(m.train) /\ IsFiniteSet(m.observe)
             /\ m.rows = {} /\ m.row = NoRow /\ m.todo = {} /\ m.train = {} /\ m.observe = {}
<1>1. NoMemory \in Memories
  BY NoMemoryTyped
<1>2. /\ NoMemory.rows = {} /\ NoMemory.row = NoRow /\ NoMemory.todo = {}
      /\ NoMemory.train = {} /\ NoMemory.observe = {}
  BY DEF NoMemory
<1> QED
  BY <1>1, <1>2, FS_EmptySet DEF Memories

LEMMA LeaveEffect ==
  ASSUME Typed, NEW p \in Procs, Leave(p)
  PROVE  Typed' /\ Others(p) /\ Emptied(p) /\ pc'[p] = "routes"
<1> DEFINE R == mem[p].routes \ {mem[p].route}
           C == mem[p].context
           l == mem[p].lab
           m == [NoMemory EXCEPT !.routes = R, !.context = C, !.lab = l]
<1>1. mem[p] \in Memories
  BY DEF Typed, MemTyped
<1>2. R \in SUBSET Routes /\ C \in [Parents -> Contexts] /\ l \in {"dry", "backed", "real"}
  BY <1>1 DEF Memories
<1>3. mem' = [mem EXCEPT ![p] = m] /\ pc' = [pc EXCEPT ![p] = "routes"]
  BY DEF Leave
<1> HIDE DEF R, C, l
<1>4. /\ m \in Memories /\ IsFiniteSet(m.train) /\ IsFiniteSet(m.observe)
      /\ m.rows = {} /\ m.row = NoRow /\ m.todo = {} /\ m.train = {} /\ m.observe = {}
  BY <1>2, EmptiedByLeave
<1>5. "routes" \in Places
  BY DEF Places
<1> HIDE DEF m
<1>6. StepOf(p, m, "routes")
  BY <1>3, <1>4, <1>5 DEF StepOf
<1> QED
  BY <1>4, <1>6, StepFacts DEF Emptied

LEMMA StopEffect ==
  ASSUME Typed, NEW p \in Procs, NEW how \in Resting, Stop(p, how)
  PROVE  Typed' /\ Others(p) /\ Emptied(p) /\ pc'[p] = how
<1>1. StepOf(p, NoMemory, how)
  BY NoMemoryTyped DEF Stop, Go, StepOf, Places
<1>2. Typed' /\ Others(p) /\ mem'[p] = NoMemory /\ pc'[p] = how
  BY <1>1, StepFacts
<1> QED
  BY <1>2 DEF Emptied, NoMemory

LEMMA GoEffect ==
  ASSUME Typed, NEW p \in Procs, NEW where \in Places, Go(p, where), UNCHANGED mem
  PROVE  Typed' /\ Others(p) /\ Same(p) /\ pc'[p] = where
<1>1. pc \in [Procs -> Places]
  BY DEF Typed, PcTyped
<1>2. pc' \in [Procs -> Places] /\ pc'[p] = where /\ \A q \in Procs \ {p} : pc'[q] = pc[q]
  BY <1>1 DEF Go
<1>3. Typed'
  BY <1>2 DEF Typed, MemTyped, PcTyped
<1> QED
  BY <1>2, <1>3 DEF Others, Same, SameRows, SameSeries, SameSplit, SameRoute

(* The steps that leave the memory alone.                                  *)
LEMMA QuietEffect ==
  ASSUME Typed, NEW p \in Procs
  PROVE  /\ RowsDone(p) \/ PairsDone(p) \/ PublishPlan(p) \/ commit_generation(p)
             \/ PublishNetwork(p) \/ PublishBehavior(p) =>
               Typed' /\ Others(p) /\ Same(p) /\ UNCHANGED mem
         /\ RowsDone(p)          => pc[p] = "rows" /\ pc'[p] = "pairs"
         /\ PairsDone(p)         => pc[p] = "pairs" /\ pc'[p] = "series"
         /\ PublishPlan(p)       => pc[p] = "trials" /\ pc'[p] = "planned"
         /\ commit_generation(p) => pc[p] = "trials" /\ pc'[p] = "committed"
         /\ PublishNetwork(p)    => pc[p] = "committed" /\ pc'[p] = "published"
         /\ PublishBehavior(p)   => pc[p] = "published" /\ pc'[p] = "behaved"
<1>1. {"pairs", "series", "planned", "committed", "published", "behaved"} \subseteq Places
  BY DEF Places, Evaluating
<1>2. RowsDone(p) => Go(p, "pairs") /\ UNCHANGED mem /\ pc[p] = "rows"
  BY DEF RowsDone, Go
<1>3. PairsDone(p) => Go(p, "series") /\ UNCHANGED mem /\ pc[p] = "pairs"
  BY DEF PairsDone, Go
<1>4. PublishPlan(p) => Go(p, "planned") /\ UNCHANGED mem /\ pc[p] = "trials"
  BY DEF PublishPlan
<1>5. commit_generation(p) => Go(p, "committed") /\ UNCHANGED mem /\ pc[p] = "trials"
  BY DEF commit_generation
<1>6. PublishNetwork(p) => Go(p, "published") /\ UNCHANGED mem /\ pc[p] = "committed"
  BY DEF PublishNetwork, Publish
<1>7. PublishBehavior(p) => Go(p, "behaved") /\ UNCHANGED mem /\ pc[p] = "published"
  BY DEF PublishBehavior, Publish
<1> QED
  BY <1>1, <1>2, <1>3, <1>4, <1>5, <1>6, <1>7, GoEffect
----------------------------------------------------------------------------
(* What the series of a domain gives.                                      *)

Points == [Ticks -> Values \cup {NoValue}]

LEMMA PeriodsOfPoints ==
  ASSUME NEW points \in Points
  PROVE  /\ aggregate_periods(points) \in SUBSET (0 .. PeriodOf(MaxTick))
         /\ PeriodOf(MaxTick) \in Nat
         /\ aggregate_periods(points) # {} =>
              /\ Max(aggregate_periods(points)) \in aggregate_periods(points)
              /\ \A s \in aggregate_periods(points) : Max(aggregate_periods(points)) >= s
         /\ \A s : s \in aggregate_periods(points) <=> PointsIn(points, s) # {}
         /\ \A s \in aggregate_periods(points) :
              /\ Max(PointsIn(points, s)) \in PointsIn(points, s)
              /\ points[Max(PointsIn(points, s))] \in Values
<1> DEFINE A == aggregate_periods(points)
<1>1. MaxTick \in Nat
  BY EvidenceAssumption
<1>2. \A t \in Ticks : t \in Nat /\ t <= MaxTick
  BY <1>1 DEF Ticks
<1>3. \A t \in Ticks : PeriodOf(t) \in Nat /\ PeriodOf(t) <= PeriodOf(MaxTick)
  BY <1>1, <1>2, PeriodFacts
<1>4. PeriodOf(MaxTick) \in Nat
  BY <1>1, PeriodFacts
<1>5. A \in SUBSET (0 .. PeriodOf(MaxTick))
  BY <1>3, <1>4 DEF aggregate_periods
<1>6. A # {} => Max(A) \in A /\ \A s \in A : Max(A) >= s
  BY <1>4, <1>5, GreatestOf
<1>7. \A s : s \in A <=> PointsIn(points, s) # {}
  BY DEF aggregate_periods, PointsIn
<1>8. ASSUME NEW s \in A
      PROVE  /\ Max(PointsIn(points, s)) \in PointsIn(points, s)
             /\ points[Max(PointsIn(points, s))] \in Values
  <2>1. PointsIn(points, s) \in SUBSET (0 .. MaxTick) /\ PointsIn(points, s) # {}
    BY <1>7, <1>8 DEF PointsIn, Ticks
  <2>2. Max(PointsIn(points, s)) \in PointsIn(points, s)
    BY <1>1, <2>1, GreatestOf
  <2> QED
    BY <2>2 DEF PointsIn, Points
<1> QED
  BY <1>4, <1>5, <1>6, <1>7, <1>8

LEMMA ExperiencesOfPoints ==
  ASSUME NEW d \in Markets, NEW points \in Points, NEW x \in MarketExperiences(d, points)
  PROVE  /\ x \in SeriesExperiences /\ x.domain = d
         /\ x.period < x.next
         /\ x.next \in aggregate_periods(points)
         /\ \A s \in aggregate_periods(points) : s > x.period => s >= x.next
         /\ x.target = points[Max(PointsIn(points, x.next))]
<1> DEFINE A == aggregate_periods(points)
           After(s) == {v \in A : v > s}
<1>1. PICK s \in A :
        /\ \E v \in A : v > s
        /\ x = [domain |-> d, source |-> d, at |-> Max(PointsIn(points, s)), period |-> s,
                next |-> NextPeriod(points, s),
                target |-> Close(points, NextPeriod(points, s)), complete |-> TRUE]
  BY DEF MarketExperiences
<1>2. A \in SUBSET Nat
  BY PeriodsOfPoints
<1>3. After(s) \in SUBSET Nat /\ After(s) # {}
  BY <1>1, <1>2
<1>4. NextPeriod(points, s) = Min(After(s))
  BY DEF NextPeriod
<1>5. NextPeriod(points, s) \in After(s) /\ \A v \in After(s) : NextPeriod(points, s) <= v
  BY <1>3, <1>4, LeastOf
<1> DEFINE n == NextPeriod(points, s)
<1> HIDE DEF n
<1>6. /\ n \in A /\ n > s /\ n \in Nat /\ s \in Nat
      /\ \A v \in A : v > s => v >= n
  BY <1>2, <1>5, <1>1 DEF n
<1>7. /\ Max(PointsIn(points, s)) \in PointsIn(points, s)
      /\ points[Max(PointsIn(points, n))] \in Values
  BY <1>1, <1>6, PeriodsOfPoints
<1>8. Max(PointsIn(points, s)) \in Ticks
  BY <1>7 DEF PointsIn
<1>9. x = [domain |-> d, source |-> d, at |-> Max(PointsIn(points, s)), period |-> s,
           next |-> n, target |-> points[Max(PointsIn(points, n))], complete |-> TRUE]
  BY <1>1 DEF n, Close
<1> DEFINE a == Max(PointsIn(points, s))
           c == points[Max(PointsIn(points, n))]
<1> HIDE DEF a, c, A
<1>10. x = [domain |-> d, source |-> d, at |-> a, period |-> s, next |-> n,
            target |-> c, complete |-> TRUE]
  BY <1>9 DEF a, c
<1>11. a \in Ticks /\ c \in Values
  BY <1>7, <1>8 DEF a, c
<1>12. x \in SeriesExperiences /\ x.domain = d /\ x.period = s /\ x.next = n /\ x.target = c
  BY <1>6, <1>10, <1>11 DEF SeriesExperiences
<1> QED
  BY <1>6, <1>12 DEF A, c
----------------------------------------------------------------------------
(* The steps of an ingestion.                                              *)

LEMMA ReadPairEffect ==
  ASSUME TypeInv, NEW p \in Procs, ReadPair(p)
  PROVE  /\ Typed' /\ Others(p) /\ pc[p] = "pairs" /\ pc'[p] = "rows"
         /\ SameSeries(p) /\ SameSplit(p) /\ SameRoute(p)
         /\ \A row \in mem'[p].rows :
              /\ row.event \in Events
              /\ row.versions = {} \/ \E f \in Files : row.versions = scored[f][row.event]
<1> DEFINE pair == First(mem[p].pairs)
           rows == {[event |-> e, line |-> listed[pair.file][e],
                     versions |-> IF pair.paired THEN scored[pair.file][e] ELSE {}] :
                      e \in {x \in Events : listed[pair.file][x] # "absent"}}
           m == [mem[p] EXCEPT !.pairs = @ \ {pair}, !.rows = rows]
<1>1. pair \in [file : Files, paired : BOOLEAN]
  BY DEF ReadPair, First, TypeInv, MemTyped, Memories
<1>2. /\ rows \in SUBSET Rows
      /\ \A row \in rows :
           /\ row.event \in Events
           /\ row.versions = {} \/ \E f \in Files : row.versions = scored[f][row.event]
  BY <1>1 DEF TypeInv, FilesTyped, Rows
<1>3. mem' = [mem EXCEPT ![p] = m] /\ pc' = [pc EXCEPT ![p] = "rows"] /\ pc[p] = "pairs"
  BY DEF ReadPair, TypeInv, MemTyped, Memories
<1>4. Typed /\ mem[p] \in Memories /\ IsFiniteSet(mem[p].train) /\ IsFiniteSet(mem[p].observe)
  BY DEF TypeInv, MemTyped, Typed
<1>5. "rows" \in Places
  BY DEF Places
<1> HIDE DEF pair, rows
<1>6. m \in Memories
  BY <1>2, <1>4 DEF Memories
<1>7. /\ m.rows = rows /\ m.todo = mem[p].todo /\ m.open = mem[p].open
      /\ m.train = mem[p].train /\ m.observe = mem[p].observe
      /\ m.route = mem[p].route /\ m.net = mem[p].net /\ m.passing = mem[p].passing /\ m.saving = mem[p].saving
  BY <1>4 DEF Memories
<1> HIDE DEF m
<1>8. StepOf(p, m, "rows")
  BY <1>3, <1>4, <1>5, <1>6, <1>7 DEF StepOf
<1>9. Typed' /\ Others(p) /\ mem'[p] = m /\ pc'[p] = "rows"
  BY <1>4, <1>8, StepFacts
<1> QED
  BY <1>2, <1>3, <1>7, <1>9 DEF SameSeries, SameSplit, SameRoute

LEMMA RecordRowEffect ==
  ASSUME TypeInv, NEW p \in Procs, RecordRow(p)
  PROVE  /\ Typed' /\ Others(p) /\ pc[p] = "rows"
         /\ SameSeries(p) /\ SameSplit(p) /\ SameRoute(p)
         /\ \E row \in mem[p].rows :
              /\ mem'[p].rows \subseteq mem[p].rows
              /\ records' = records \cup {[of |-> row.event, status |-> Verdict(row)]}
              /\ torn' = torn \ (IF Verdict(row) = "VERIFIED" THEN {row.event} ELSE {})
              /\ \/ HasExperience(row) /\ mem'[p].row = row /\ pc'[p] = "experience"
                 \/ ~HasExperience(row) /\ pc'[p] = "rows"
<1> DEFINE row == First(mem[p].rows)
           rows == mem[p].rows \ {row}
           kept == IF HasExperience(row) THEN row ELSE NoRow
           where == IF HasExperience(row) THEN "experience" ELSE "rows"
           m == [mem[p] EXCEPT !.rows = rows, !.row = kept]
<1>1. Typed /\ mem[p] \in Memories /\ IsFiniteSet(mem[p].train) /\ IsFiniteSet(mem[p].observe)
  BY DEF TypeInv, MemTyped, Typed
<1>2. row \in mem[p].rows /\ row \in Rows /\ rows \in SUBSET Rows /\ rows \subseteq mem[p].rows
  BY <1>1 DEF RecordRow, save_ingestion_record, First, Memories
<1>3. kept \in Rows \cup {NoRow} /\ where \in Places
  BY <1>2 DEF Places
<1>4. /\ mem' = [mem EXCEPT ![p] = m] /\ pc' = [pc EXCEPT ![p] = where] /\ pc[p] = "rows"
      /\ records' = records \cup {[of |-> row.event, status |-> Verdict(row)]}
      /\ torn' = torn \ (IF Verdict(row) = "VERIFIED" THEN {row.event} ELSE {})
  BY DEF RecordRow, save_ingestion_record, TypeInv, MemTyped, Memories
<1>5. HasExperience(row) => kept = row /\ where = "experience"
  OBVIOUS
<1>6. ~HasExperience(row) => where = "rows"
  OBVIOUS
<1> HIDE DEF row, rows, kept, where
<1>7. m \in Memories
  BY <1>1, <1>2, <1>3 DEF Memories
<1>8. /\ m.rows = rows /\ m.row = kept /\ m.todo = mem[p].todo /\ m.open = mem[p].open
      /\ m.train = mem[p].train /\ m.observe = mem[p].observe
      /\ m.route = mem[p].route /\ m.net = mem[p].net /\ m.passing = mem[p].passing /\ m.saving = mem[p].saving
  BY <1>1 DEF Memories
<1> HIDE DEF m
<1>9. StepOf(p, m, where)
  BY <1>1, <1>3, <1>4, <1>7, <1>8 DEF StepOf
<1>10. Typed' /\ Others(p) /\ mem'[p] = m /\ pc'[p] = where
  BY <1>1, <1>9, StepFacts
<1> QED
  BY <1>2, <1>4, <1>5, <1>6, <1>8, <1>10 DEF SameSeries, SameSplit, SameRoute

LEMMA InsertExperienceEffect ==
  ASSUME TypeInv, NEW p \in Procs, InsertExperience(p)
  PROVE  /\ Typed' /\ Others(p) /\ pc[p] = "experience" /\ pc'[p] = "rows"
         /\ mem'[p].rows = mem[p].rows /\ SameSeries(p) /\ SameSplit(p) /\ SameRoute(p)
<1> DEFINE N == NoRow
           m == [mem[p] EXCEPT !.row = N]
<1>1. Typed /\ mem[p] \in Memories /\ IsFiniteSet(mem[p].train) /\ IsFiniteSet(mem[p].observe)
  BY DEF TypeInv, MemTyped, Typed
<1>2. mem' = [mem EXCEPT ![p] = m] /\ pc' = [pc EXCEPT ![p] = "rows"] /\ pc[p] = "experience"
  BY DEF InsertExperience, TypeInv, MemTyped, Memories
<1>3. "rows" \in Places
  BY DEF Places
<1>4. N \in Rows \cup {NoRow}
  OBVIOUS
<1> HIDE DEF N
<1>5. m \in Memories
  BY <1>1, <1>4 DEF Memories
<1>6. /\ m.rows = mem[p].rows /\ m.todo = mem[p].todo /\ m.open = mem[p].open
      /\ m.train = mem[p].train /\ m.observe = mem[p].observe
      /\ m.route = mem[p].route /\ m.net = mem[p].net /\ m.passing = mem[p].passing /\ m.saving = mem[p].saving
  BY <1>1 DEF Memories
<1> HIDE DEF m
<1>7. StepOf(p, m, "rows")
  BY <1>1, <1>2, <1>3, <1>5, <1>6 DEF StepOf
<1>8. Typed' /\ Others(p) /\ mem'[p] = m /\ pc'[p] = "rows"
  BY <1>1, <1>7, StepFacts
<1> QED
  BY <1>2, <1>6, <1>8 DEF SameSeries, SameSplit, SameRoute

LEMMA ReadSeriesEffect ==
  ASSUME TypeInv, NEW p \in Procs, ReadSeries(p)
  PROVE  /\ Typed' /\ Others(p) /\ pc[p] = "series" /\ pc'[p] \in {"series", "periods"}
         /\ SameRows(p) /\ SameSplit(p) /\ SameRoute(p)
         /\ \/ SameSeries(p)
            \/ \E d \in Markets :
                 /\ mem'[p].todo = MarketExperiences(d, raw[d])
                 /\ mem'[p].open = Max(aggregate_periods(raw[d]))
                 /\ aggregate_periods(raw[d]) # {}
         /\ \A r \in records' : r \in records \/ r.of \in Markets
<1> DEFINE d      == First(mem[p].domains)
           starts == aggregate_periods(raw[d])
           domains == mem[p].domains \ {d}
           key    == IF Cardinality(starts) > 1 THEN "SERIES" ELSE "PRIMARY"
           some   == mem[p].routes \cup {<<d, key>>}
           none   == mem[p].routes \cup {<<d, "PRIMARY">>}
           todo   == MarketExperiences(d, raw[d])
           open   == Max(starts)
           empty  == [mem[p] EXCEPT !.domains = domains, !.routes = none]
           full   == [mem[p] EXCEPT !.domains = domains, !.domain = d, !.todo = todo,
                                    !.open = open, !.routes = some]
<1>1. Typed /\ mem[p] \in Memories /\ IsFiniteSet(mem[p].train) /\ IsFiniteSet(mem[p].observe)
  BY DEF TypeInv, MemTyped, Typed
<1>2. d \in Markets /\ domains \in SUBSET Markets /\ pc[p] = "series"
  BY <1>1 DEF ReadSeries, save_ingestion_record, First, Memories
<1>3. raw[d] \in Points
  BY <1>2 DEF TypeInv, FilesTyped, Points
<1>4. some \in SUBSET Routes /\ none \in SUBSET Routes
  BY <1>1, <1>2 DEF Memories, Routes
<1>5. todo \in SUBSET SeriesExperiences /\ (starts # {} => open \in Nat)
  BY <1>2, <1>3, ExperiencesOfPoints, PeriodsOfPoints
<1>6. "series" \in Places /\ "periods" \in Places
  BY DEF Places
<1>7. CASE starts = {}
  <2>1. mem' = [mem EXCEPT ![p] = empty] /\ pc' = pc
        /\ records' = records \cup {[of |-> d, status |-> "WAITING_DATA"]}
    BY <1>7 DEF ReadSeries, save_ingestion_record
  <2>2. pc' = [pc EXCEPT ![p] = "series"]
    BY <1>1, <1>2, <2>1 DEF Typed, PcTyped
  <2> HIDE DEF domains, none
  <2>3. empty \in Memories
    BY <1>1, <1>2, <1>4 DEF Memories
  <2>4. /\ empty.rows = mem[p].rows /\ empty.row = mem[p].row
        /\ empty.todo = mem[p].todo /\ empty.open = mem[p].open
        /\ empty.train = mem[p].train /\ empty.observe = mem[p].observe
        /\ empty.route = mem[p].route /\ empty.net = mem[p].net
        /\ empty.passing = mem[p].passing /\ empty.saving = mem[p].saving
    BY <1>1 DEF Memories
  <2> HIDE DEF empty
  <2>5. StepOf(p, empty, "series")
    BY <1>1, <1>6, <2>1, <2>2, <2>3, <2>4 DEF StepOf
  <2>6. Typed' /\ Others(p) /\ mem'[p] = empty /\ pc'[p] = "series"
    BY <1>1, <2>5, StepFacts
  <2> QED
    BY <1>2, <2>1, <2>4, <2>6 DEF SameRows, SameSeries, SameSplit, SameRoute
<1>8. CASE starts # {}
  <2>1. mem' = [mem EXCEPT ![p] = full] /\ pc' = [pc EXCEPT ![p] = "periods"]
        /\ records' = records
    BY <1>8 DEF ReadSeries, save_ingestion_record
  <2> HIDE DEF domains, some, todo, open
  <2>2. full \in Memories
    BY <1>1, <1>2, <1>4, <1>5, <1>8 DEF Memories
  <2>3. /\ full.rows = mem[p].rows /\ full.row = mem[p].row
        /\ full.todo = todo /\ full.open = open
        /\ full.train = mem[p].train /\ full.observe = mem[p].observe
        /\ full.route = mem[p].route /\ full.net = mem[p].net
        /\ full.passing = mem[p].passing /\ full.saving = mem[p].saving
    BY <1>1 DEF Memories
  <2> HIDE DEF full
  <2>4. StepOf(p, full, "periods")
    BY <1>1, <1>6, <2>1, <2>2, <2>3 DEF StepOf
  <2>5. Typed' /\ Others(p) /\ mem'[p] = full /\ pc'[p] = "periods"
    BY <1>1, <2>4, StepFacts
  <2>6. mem'[p].todo = MarketExperiences(d, raw[d]) /\ mem'[p].open = Max(aggregate_periods(raw[d]))
    BY <2>3, <2>5 DEF todo, open
  <2> QED
    BY <1>2, <1>8, <2>1, <2>3, <2>5, <2>6 DEF SameRows, SameSplit, SameRoute
<1> QED
  BY <1>7, <1>8

(* The experience that InsertPeriod takes: the one of the earliest period. *)
Earliest(todo) == First({y \in todo : \A z \in todo : y.period <= z.period})

LEMMA InsertPeriodEffect ==
  ASSUME TypeInv, NEW p \in Procs, InsertPeriod(p)
  PROVE  /\ Typed' /\ Others(p) /\ pc[p] = "periods" /\ pc'[p] = "periods"
         /\ SameRows(p) /\ SameSplit(p) /\ SameRoute(p)
         /\ mem'[p].todo \subseteq mem[p].todo /\ mem'[p].open = mem[p].open
         /\ \E x \in mem[p].todo :
              /\ upsert_experience(x)
              /\ provisional' = IF ~Stored(x) /\ x.next = mem[p].open
                                   THEN provisional \cup {ExperienceId(x)} ELSE provisional
<1> DEFINE x == Earliest(mem[p].todo)
           todo == mem[p].todo \ {x}
           m == [mem[p] EXCEPT !.todo = todo]
<1>1. Typed /\ mem[p] \in Memories /\ IsFiniteSet(mem[p].train) /\ IsFiniteSet(mem[p].observe)
  BY DEF TypeInv, MemTyped, Typed
<1>2. x \in mem[p].todo
  <2>1. mem[p].todo # {} /\ mem[p].todo \in SUBSET SeriesExperiences
    BY <1>1 DEF InsertPeriod, Memories
  <2> DEFINE T == mem[p].todo
             N == {y.period : y \in T}
             E == {y \in T : \A z \in T : y.period <= z.period}
  <2>2. N \in SUBSET Nat /\ N # {}
    BY <2>1 DEF SeriesExperiences
  <2>3. Min(N) \in N /\ \A n \in N : Min(N) <= n
    BY <2>2, LeastOf
  <2>4. E # {}
    <3>1. PICK y \in T : y.period = Min(N)
      BY <2>3
    <3>2. \A z \in T : z.period \in N
      OBVIOUS
    <3> HIDE DEF N
    <3>3. \A z \in T : y.period <= z.period
      BY <2>3, <3>1, <3>2
    <3> QED
      BY <3>3
  <2>5. First(E) \in E
    BY <2>4 DEF First
  <2> QED
    BY <2>5 DEF Earliest
<1>3. todo \in SUBSET SeriesExperiences /\ todo \subseteq mem[p].todo
  BY <1>1 DEF Memories
<1>4. /\ mem' = [mem EXCEPT ![p] = m] /\ pc' = pc /\ pc[p] = "periods"
      /\ upsert_experience(x)
      /\ provisional' = IF ~Stored(x) /\ x.next = mem[p].open
                           THEN provisional \cup {ExperienceId(x)} ELSE provisional
  BY DEF InsertPeriod, Earliest
<1>5. pc' = [pc EXCEPT ![p] = "periods"] /\ "periods" \in Places
  BY <1>1, <1>4 DEF Typed, PcTyped, Places
<1> HIDE DEF x, todo
<1>6. m \in Memories
  BY <1>1, <1>3 DEF Memories
<1>7. /\ m.rows = mem[p].rows /\ m.row = mem[p].row /\ m.todo = todo /\ m.open = mem[p].open
      /\ m.train = mem[p].train /\ m.observe = mem[p].observe
      /\ m.route = mem[p].route /\ m.net = mem[p].net /\ m.passing = mem[p].passing /\ m.saving = mem[p].saving
  BY <1>1 DEF Memories
<1> HIDE DEF m
<1>8. StepOf(p, m, "periods")
  BY <1>1, <1>4, <1>5, <1>6, <1>7 DEF StepOf
<1>9. Typed' /\ Others(p) /\ mem'[p] = m /\ pc'[p] = "periods"
  BY <1>1, <1>8, StepFacts
<1> QED
  BY <1>2, <1>3, <1>4, <1>7, <1>9 DEF SameRows, SameSplit, SameRoute

LEMMA RecordDomainEffect ==
  ASSUME TypeInv, NEW p \in Procs, RecordDomain(p)
  PROVE  /\ Typed' /\ Others(p) /\ pc[p] = "periods" /\ pc'[p] = "series"
         /\ SameRows(p) /\ SameSplit(p) /\ SameRoute(p) /\ mem'[p].todo = {}
         /\ \A r \in records' : r \in records \/ r.of \in Markets \cup {Sports}
<1> DEFINE S == Sports
           m == [mem[p] EXCEPT !.domain = S, !.open = 0]
<1>1. Typed /\ mem[p] \in Memories /\ IsFiniteSet(mem[p].train) /\ IsFiniteSet(mem[p].observe)
  BY DEF TypeInv, MemTyped, Typed
<1>2. /\ mem' = [mem EXCEPT ![p] = m] /\ pc' = [pc EXCEPT ![p] = "series"]
      /\ pc[p] = "periods" /\ mem[p].todo = {}
      /\ records' = records \cup {[of |-> mem[p].domain, status |-> "VERIFIED"]}
  BY DEF RecordDomain, save_ingestion_record, TypeInv, MemTyped, Memories
<1>3. "series" \in Places /\ S \in Markets \cup {Sports} /\ mem[p].domain \in Markets \cup {Sports}
  BY <1>1 DEF Places, Memories
<1> HIDE DEF S
<1>4. m \in Memories
  BY <1>1, <1>3 DEF Memories
<1>5. /\ m.rows = mem[p].rows /\ m.row = mem[p].row /\ m.todo = mem[p].todo
      /\ m.train = mem[p].train /\ m.observe = mem[p].observe
      /\ m.route = mem[p].route /\ m.net = mem[p].net /\ m.passing = mem[p].passing /\ m.saving = mem[p].saving
  BY <1>1 DEF Memories
<1> HIDE DEF m
<1>6. StepOf(p, m, "series")
  BY <1>1, <1>2, <1>3, <1>4, <1>5 DEF StepOf
<1>7. Typed' /\ Others(p) /\ mem'[p] = m /\ pc'[p] = "series"
  BY <1>1, <1>6, StepFacts
<1> QED
  BY <1>2, <1>3, <1>5, <1>7 DEF SameRows, SameSplit, SameRoute
----------------------------------------------------------------------------
(* The steps of a pass around its ingestion.                               *)

LEMMA StartEffect ==
  ASSUME TypeInv, NEW p \in Procs, Start(p)
  PROVE  Typed' /\ Others(p) /\ Emptied(p) /\ pc[p] \in Resting /\ pc'[p] = "pairs"
<1> DEFINE P == discover_pairs
           D == Markets
           R == {<<Sports, "PRIMARY">>}
           m == [NoMemory EXCEPT !.pairs = P, !.domains = D, !.routes = R]
<1>1. Typed
  BY DEF TypeInv, Typed
<1>2. P \in SUBSET [file : Files, paired : BOOLEAN] /\ D \in SUBSET Markets /\ R \in SUBSET Routes
  <2>1. \A f \in Files : HasResults(f) \in BOOLEAN
    BY Zenon DEF HasResults
  <2>2. P \in SUBSET [file : Files, paired : BOOLEAN]
    <3>1. ASSUME NEW f \in Files
          PROVE  [file |-> f, paired |-> HasResults(f)] \in [file : Files, paired : BOOLEAN]
      BY <2>1
    <3> QED
      BY <3>1, Zenon DEF discover_pairs
  <2> QED
    BY <2>2 DEF Routes
<1>3. /\ mem' = [mem EXCEPT ![p] = m] /\ pc' = [pc EXCEPT ![p] = "pairs"]
      /\ pc[p] \in Resting
  BY DEF Start, Go
<1> HIDE DEF P, D, R
<1>4. /\ m \in Memories /\ IsFiniteSet(m.train) /\ IsFiniteSet(m.observe)
      /\ m.rows = {} /\ m.row = NoRow /\ m.todo = {} /\ m.train = {} /\ m.observe = {}
  BY <1>2, EmptiedByStart
<1>5. "pairs" \in Places
  BY DEF Places
<1> HIDE DEF m
<1>6. StepOf(p, m, "pairs")
  BY <1>3, <1>4, <1>5 DEF StepOf
<1> QED
  BY <1>1, <1>3, <1>4, <1>6, StepFacts DEF Emptied

LEMMA InheritEffect ==
  ASSUME TypeInv, NEW p \in Procs, Inherit(p)
  PROVE  Typed' /\ Others(p) /\ Same(p) /\ pc[p] = "series" /\ pc'[p] = "routes"
<1> DEFINE C == [d \in Parents |-> ContextOf(d)]
<1>1. Typed /\ mem[p] \in Memories /\ IsFiniteSet(mem[p].train) /\ IsFiniteSet(mem[p].observe)
  BY DEF TypeInv, MemTyped, Typed
<1>2. C \in [Parents -> Contexts]
  <2> SUFFICES ASSUME NEW d \in Parents PROVE ContextOf(d) \in Contexts
    OBVIOUS
  <2> DEFINE rows == load_verified_experiences(d)
  <2>1. rows \in SUBSET Evidence
    BY DEF TypeInv, StoreTyped, load_verified_experiences
  <2> QED
    BY <2>1 DEF Contexts, ContextOf
<1>3. PICK l \in Labs : mem' = [mem EXCEPT ![p].context = C, ![p].lab = l]
  BY DEF Inherit
<1>4. l \in {"dry", "backed", "real"}
  BY <1>3, FactoryAssumption
<1> DEFINE m == [mem[p] EXCEPT !.context = C, !.lab = l]
<1>5. mem' = [mem EXCEPT ![p] = m]
  BY <1>1, <1>3 DEF Typed, MemTyped, Memories
<1>6. pc' = [pc EXCEPT ![p] = "routes"] /\ pc[p] = "series" /\ "routes" \in Places
  BY DEF Inherit, Go, Places
<1> HIDE DEF C
<1>7. m \in Memories
  BY <1>1, <1>2, <1>4 DEF Memories
<1>8. /\ m.rows = mem[p].rows /\ m.row = mem[p].row
      /\ m.todo = mem[p].todo /\ m.open = mem[p].open
      /\ m.train = mem[p].train /\ m.observe = mem[p].observe
      /\ m.route = mem[p].route /\ m.net = mem[p].net /\ m.passing = mem[p].passing /\ m.saving = mem[p].saving
  BY <1>1 DEF Memories
<1> HIDE DEF m
<1>9. StepOf(p, m, "routes")
  BY <1>1, <1>5, <1>6, <1>7, <1>8 DEF StepOf
<1>10. Typed' /\ Others(p) /\ mem'[p] = m /\ pc'[p] = "routes"
  BY <1>1, <1>9, StepFacts
<1> QED
  BY <1>6, <1>8, <1>10 DEF Same, SameRows, SameSeries, SameSplit, SameRoute

(* Steps that end a pass or the work on a route.                           *)
LEMMA EndEffect ==
  ASSUME Typed, NEW p \in Procs, Finish(p) \/ Die(p) \/ QueueRaises(p)
  PROVE  Typed' /\ Others(p) /\ Emptied(p) /\ pc'[p] \in Resting
<1>1. \E how \in Resting : Stop(p, how)
  BY DEF Finish, Die, QueueRaises, Resting
<1> QED
  BY <1>1, StopEffect

LEMMA RouteEndEffect ==
  ASSUME Typed, NEW p \in Procs,
         Wait(p) \/ CandidatesReady(p) \/ NoChampion(p) \/ WriteBundle(p)
  PROVE  Typed' /\ Others(p) /\ Emptied(p) /\ pc'[p] = "routes"
<1>1. Leave(p)
  BY DEF Wait, CandidatesReady, NoChampion, WriteBundle
<1> QED
  BY <1>1, LeaveEffect

LEMMA EnsureEffect ==
  ASSUME TypeInv, NEW p \in Procs, ensure_network(p)
  PROVE  /\ Typed' /\ Others(p) /\ pc[p] = "routes" /\ pc'[p] = "route"
         /\ SameRows(p) /\ SameSeries(p) /\ SameSplit(p)
         /\ \E r \in Routes, row \in Networks :
              /\ mem'[p].route = r /\ mem'[p].net = row
              /\ networks' = [networks EXCEPT ![r] = row]
              /\ row.gen = networks[r].gen /\ row.last = networks[r].last
              /\ overlapped' = overlapped \cup
                   (IF \E q \in Procs \ {p} : pc[q] \in Evaluating /\ mem[q].route = r
                      THEN {r} ELSE {})
<1> DEFINE r == First(mem[p].routes)
           row == IF networks[r] = NoNetwork THEN [NoNetwork EXCEPT !.status = "NEW"]
                                             ELSE networks[r]
           m == [mem[p] EXCEPT !.route = r, !.net = row]
<1>1. Typed /\ mem[p] \in Memories /\ IsFiniteSet(mem[p].train) /\ IsFiniteSet(mem[p].observe)
  BY DEF TypeInv, MemTyped, Typed
<1>2. r \in Routes
  BY <1>1 DEF ensure_network, First, Memories
<1>3. row \in Networks /\ row.gen = networks[r].gen /\ row.last = networks[r].last
  BY <1>2 DEF TypeInv, FactoryTyped, Networks, NoNetwork, Statuses
<1>4. /\ mem' = [mem EXCEPT ![p] = m] /\ pc' = [pc EXCEPT ![p] = "route"]
      /\ pc[p] = "routes" /\ networks' = [networks EXCEPT ![r] = row]
  BY <1>1 DEF ensure_network, Go, Typed, MemTyped, Memories
<1>5. overlapped' = overlapped \cup
        (IF \E q \in Procs \ {p} : pc[q] \in Evaluating /\ mem[q].route = r THEN {r} ELSE {})
  BY DEF ensure_network
<1>6. "route" \in Places
  BY DEF Places, Evaluating
<1> HIDE DEF r, row
<1>7. m \in Memories
  BY <1>1, <1>2, <1>3 DEF Memories
<1>8. /\ m.rows = mem[p].rows /\ m.row = mem[p].row
      /\ m.todo = mem[p].todo /\ m.open = mem[p].open
      /\ m.train = mem[p].train /\ m.observe = mem[p].observe
      /\ m.route = r /\ m.net = row
  BY <1>1 DEF Memories
<1> HIDE DEF m
<1>9. StepOf(p, m, "route")
  BY <1>1, <1>4, <1>6, <1>7, <1>8 DEF StepOf
<1>10. Typed' /\ Others(p) /\ mem'[p] = m /\ pc'[p] = "route"
  BY <1>1, <1>9, StepFacts
<1> QED
  BY <1>2, <1>3, <1>4, <1>5, <1>8, <1>10 DEF SameRows, SameSeries, SameSplit

LEMMA TrialsEffect ==
  ASSUME TypeInv, NEW p \in Procs, run_trials(p)
  PROVE  LET rows == RowsOf(mem[p].route)
         IN  /\ Typed' /\ Others(p) /\ pc[p] = "route" /\ pc'[p] = "saving"
             /\ SameRows(p) /\ SameSeries(p)
             /\ mem'[p].route = mem[p].route /\ mem'[p].net = mem[p].net
             /\ mem'[p].train \in chronological_split(rows)
             /\ mem'[p].train \subseteq rows /\ mem'[p].observe = rows \ mem'[p].train
             /\ mem'[p].passing \subseteq Kinds /\ mem'[p].saving = Kinds
<1> DEFINE rows == RowsOf(mem[p].route)
<1>1. Typed /\ mem[p] \in Memories /\ IsFiniteSet(mem[p].train) /\ IsFiniteSet(mem[p].observe)
  BY DEF TypeInv, MemTyped, Typed
<1>2. PICK passing \in SUBSET Kinds, t \in chronological_split(rows) :
        mem' = [mem EXCEPT ![p].train = t, ![p].observe = rows \ t,
                           ![p].passing = passing, ![p].saving = Kinds]
  BY DEF run_trials, Passing
<1>3. t \subseteq rows /\ rows \subseteq experiences
  BY <1>2 DEF chronological_split, kSubset, RowsOf, load_verified_experiences
<1>4. t \in SUBSET Evidence /\ rows \ t \in SUBSET Evidence
  BY <1>3 DEF TypeInv, StoreTyped
<1>5. IsFiniteSet(t) /\ IsFiniteSet(rows \ t)
  <2>1. t \in SUBSET experiences /\ rows \ t \in SUBSET experiences /\ IsFiniteSet(experiences)
    BY <1>3 DEF TypeInv, StoreTyped
  <2> QED
    BY <2>1, FS_Subset
<1> DEFINE o == rows \ t
           m == [mem[p] EXCEPT !.train = t, !.observe = o, !.passing = passing, !.saving = Kinds]
<1>6. /\ mem' = [mem EXCEPT ![p] = m] /\ pc' = [pc EXCEPT ![p] = "saving"]
      /\ pc[p] = "route" /\ "saving" \in Places
  BY <1>1, <1>2 DEF run_trials, Passing, Go, Typed, MemTyped, Memories, Places, Evaluating
<1>7. o \in SUBSET Evidence /\ IsFiniteSet(o)
  BY <1>4, <1>5
<1> HIDE DEF o
<1>8. m \in Memories
  BY <1>1, <1>2, <1>4, <1>7 DEF Memories
<1>9. /\ m.rows = mem[p].rows /\ m.row = mem[p].row
      /\ m.todo = mem[p].todo /\ m.open = mem[p].open
      /\ m.train = t /\ m.observe = o
      /\ m.route = mem[p].route /\ m.net = mem[p].net
      /\ m.passing = passing /\ m.saving = Kinds
  BY <1>1 DEF Memories
<1> HIDE DEF m
<1>10. StepOf(p, m, "saving")
  BY <1>5, <1>6, <1>7, <1>8, <1>9 DEF StepOf
<1>11. Typed' /\ Others(p) /\ mem'[p] = m /\ pc'[p] = "saving"
  BY <1>1, <1>10, StepFacts
<1> HIDE DEF rows
<1>12. /\ mem'[p].train = t /\ mem'[p].observe = rows \ t
       /\ mem'[p].passing = passing /\ mem'[p].saving = Kinds
       /\ mem'[p].route = mem[p].route /\ mem'[p].net = mem[p].net
       /\ SameRows(p) /\ SameSeries(p)
  BY <1>9, <1>11 DEF o, SameRows, SameSeries
<1>13. /\ mem'[p].train \in chronological_split(rows) /\ mem'[p].train \subseteq rows
       /\ mem'[p].observe = rows \ mem'[p].train /\ mem'[p].passing \subseteq Kinds
  BY <1>2, <1>3, <1>12
<1> QED
  BY <1>6, <1>11, <1>12, <1>13, Zenon DEF rows

(* One trial is saved: the others of its generation stay.                  *)
LEMMA SaveEffect ==
  ASSUME TypeInv, NEW p \in Procs, save_trial(p)
  PROVE  /\ Typed' /\ Others(p) /\ pc[p] = "saving" /\ pc'[p] \in {"saving", "trials"}
         /\ SameRows(p) /\ SameSeries(p) /\ SameSplit(p)
         /\ mem'[p].route = mem[p].route /\ mem'[p].net = mem[p].net
         /\ mem'[p].passing = mem[p].passing
         /\ \E k \in Kinds :
              /\ mem'[p].saving = mem[p].saving \ {k}
              /\ pc'[p] = "trials" => mem'[p].saving = {}
              /\ trials' = {u \in trials : ~(u.net = mem[p].route /\ u.gen = mem[p].net.gen + 1
                                               /\ u.kind = k)} \cup
                    {[net |-> mem[p].route, gen |-> mem[p].net.gen + 1, kind |-> k,
                      passed |-> k \in mem[p].passing]}
<1> DEFINE k == First(mem[p].saving)
           m == [mem[p] EXCEPT !.saving = @ \ {k}]
           where == IF mem[p].saving = {k} THEN "trials" ELSE "saving"
<1>1. Typed /\ mem[p] \in Memories /\ IsFiniteSet(mem[p].train) /\ IsFiniteSet(mem[p].observe)
  BY DEF TypeInv, MemTyped, Typed
<1>2. mem[p].saving # {} /\ mem[p].saving \subseteq Kinds
  BY <1>1 DEF save_trial, Memories
<1>3. k \in Kinds /\ k \in mem[p].saving
  BY <1>2 DEF First
<1>4. /\ mem' = [mem EXCEPT ![p] = m] /\ pc' = [pc EXCEPT ![p] = where]
      /\ pc[p] = "saving"
  BY <1>1 DEF save_trial, Go, Typed, MemTyped, Memories
<1>5. trials' = {u \in trials : ~(u.net = mem[p].route /\ u.gen = mem[p].net.gen + 1
                                   /\ u.kind = k)} \cup
                {[net |-> mem[p].route, gen |-> mem[p].net.gen + 1, kind |-> k,
                  passed |-> k \in mem[p].passing]}
  BY DEF save_trial
<1> HIDE DEF k
<1>6. where \in {"saving", "trials"} /\ where \in Places
  BY DEF Places, Evaluating
<1>7. m \in Memories
  BY <1>1, <1>2 DEF Memories
<1>8. /\ m.rows = mem[p].rows /\ m.row = mem[p].row
      /\ m.todo = mem[p].todo /\ m.open = mem[p].open
      /\ m.train = mem[p].train /\ m.observe = mem[p].observe
      /\ m.route = mem[p].route /\ m.net = mem[p].net
      /\ m.passing = mem[p].passing /\ m.saving = mem[p].saving \ {k}
  BY <1>1 DEF Memories
<1>9. where = "trials" => m.saving = {}
  BY <1>8
<1> HIDE DEF m, where
<1>10. StepOf(p, m, where)
  BY <1>1, <1>4, <1>6, <1>7, <1>8 DEF StepOf
<1>11. Typed' /\ Others(p) /\ mem'[p] = m /\ pc'[p] = where
  BY <1>1, <1>10, StepFacts
<1>12. /\ mem'[p].saving = mem[p].saving \ {k}
       /\ pc'[p] = "trials" => mem'[p].saving = {}
  BY <1>8, <1>9, <1>11
<1>13. /\ SameRows(p) /\ SameSeries(p) /\ SameSplit(p)
       /\ mem'[p].route = mem[p].route /\ mem'[p].net = mem[p].net
       /\ mem'[p].passing = mem[p].passing
  BY <1>8, <1>11 DEF SameRows, SameSeries, SameSplit
<1> QED
  BY <1>3, <1>4, <1>5, <1>6, <1>11, <1>12, <1>13
----------------------------------------------------------------------------
(* The kinds of step, and the types.                                       *)

PassStep(p) == Start(p) \/ Inherit(p) \/ Finish(p) \/ Die(p)

RouteStep(p) ==
  \/ ensure_network(p) \/ Wait(p) \/ run_trials(p) \/ save_trial(p)
  \/ QueueRaises(p) \/ PublishPlan(p)
  \/ CandidatesReady(p) \/ NoChampion(p) \/ commit_generation(p)
  \/ PublishNetwork(p) \/ PublishBehavior(p) \/ WriteBundle(p)

LEMMA StepKinds ==
  ASSUME [WorldNext]_worldVars
  PROVE  \/ EvidenceChanges /\ UNCHANGED <<store, pc, mem, torn, factory>>
         \/ \E p \in Procs : EvidenceStep(p) /\ UNCHANGED <<files, factory>>
         \/ \E p \in Procs : PassStep(p) /\ UNCHANGED <<files, store, factory>>
         \/ \E p \in Procs : RouteStep(p) /\ UNCHANGED <<files, store, torn>>
         \/ UNCHANGED <<files, store, pc, mem, torn, factory>>
<1>1. EvidenceChanges /\ Apart => UNCHANGED <<store, pc, mem, torn, factory>>
  BY DEF EvidenceChanges, WriteMarketRow, WriteResults, WritePoint, Apart
<1>2. ASSUME NEW p \in Procs, EvidenceStep(p), Apart PROVE UNCHANGED <<files, factory>>
  BY <1>2 DEF EvidenceStep, ReadPair, RecordRow, InsertExperience, RowsDone, PairsDone,
              ReadSeries, InsertPeriod, RecordDomain, Apart
<1>3. ASSUME NEW p \in Procs, PassStep(p) PROVE UNCHANGED <<files, store, factory>>
  BY <1>3 DEF PassStep, Start, Inherit, Finish, Die
<1>4. ASSUME NEW p \in Procs, RouteStep(p) PROVE UNCHANGED <<files, store, torn>>
  BY <1>4 DEF RouteStep, ensure_network, Wait, run_trials, save_trial, QueueRaises, PublishPlan,
              CandidatesReady, NoChampion, commit_generation, PublishNetwork,
              PublishBehavior, Publish, WriteBundle
<1>5. UNCHANGED worldVars => UNCHANGED <<files, store, pc, mem, torn, factory>>
  BY DEF worldVars
<1> QED
  BY <1>1, <1>2, <1>3, <1>4, <1>5 DEF WorldNext, WorldStep, PassStep, RouteStep

LEMMA StepTyped ==
  ASSUME TypeInv, NEW p \in Procs, EvidenceStep(p) \/ PassStep(p) \/ RouteStep(p)
  PROVE  Typed' /\ Others(p)
<1> Typed
  BY DEF TypeInv, Typed
<1>1. CASE EvidenceStep(p)
  BY <1>1, ReadPairEffect, RecordRowEffect, InsertExperienceEffect, QuietEffect,
     ReadSeriesEffect, InsertPeriodEffect, RecordDomainEffect DEF EvidenceStep
<1>2. CASE PassStep(p)
  BY <1>2, StartEffect, InheritEffect, EndEffect DEF PassStep
<1>3. CASE RouteStep(p)
  BY <1>3, EnsureEffect, TrialsEffect, SaveEffect, EndEffect, RouteEndEffect, QuietEffect DEF RouteStep
<1> QED
  BY <1>1, <1>2, <1>3

LEMMA FilesTypedStep ==
  ASSUME FilesTyped, EvidenceChanges
  PROVE  FilesTyped'
<1>1. CASE WriteMarketRow
  BY <1>1 DEF WriteMarketRow, FilesTyped
<1>2. CASE WriteResults
  <2>1. PICK f \in Files, e \in Events, now \in SUBSET Results :
          /\ scored' = [scored EXCEPT ![f][e] = now]
          /\ alone' = IF Cardinality(now) = 1 THEN [alone EXCEPT ![e] = @ \cup now] ELSE alone
          /\ UNCHANGED <<listed, raw>>
    BY <1>2 DEF WriteResults
  <2>2. alone[e] \in SUBSET Results
    BY DEF FilesTyped
  <2>3. alone' \in [Events -> SUBSET Results]
    BY <2>1, <2>2 DEF FilesTyped
  <2>4. scored' \in [Files -> [Events -> SUBSET Results]]
    BY <2>1 DEF FilesTyped
  <2> QED
    BY <2>1, <2>3, <2>4 DEF FilesTyped
<1>3. CASE WritePoint
  BY <1>3 DEF WritePoint, FilesTyped
<1> QED
  BY <1>1, <1>2, <1>3 DEF EvidenceChanges

(* What an insertion adds.                                                 *)
LEMMA UpsertFacts ==
  ASSUME StoreTyped, NEW x \in Evidence, upsert_experience(x)
  PROVE  /\ StoreTyped' /\ experiences \subseteq experiences'
         /\ Stored(x) => experiences' = experiences
         /\ ~Stored(x) => experiences' = experiences \cup {x}
<1>1. experiences' = experiences \/ experiences' = experiences \cup {x}
  BY DEF upsert_experience
<1>2. IsFiniteSet(experiences \cup {x})
  BY FS_AddElement DEF StoreTyped
<1> QED
  BY <1>1, <1>2 DEF StoreTyped, upsert_experience

(* A verdict that gives an experience is about one result that stood alone. *)
LEMMA ExperienceOfRow ==
  ASSUME NEW row \in Rows, HasExperience(row)
  PROVE  LET x == Experience(row) IN
         /\ x \in SportsExperiences /\ x.domain = Sports /\ x.source = row.event
         /\ x.target \in row.versions /\ Cardinality(row.versions) = 1
         /\ x.complete <=> x.target \in Complete
         /\ Verdict(row) = "VERIFIED" => x.complete
<1> DEFINE v == row.versions
           r == CHOOSE c \in v : TRUE
           b == r \in Complete
           e == row.event
           at == TimeOf[row.event]
<1>1. /\ e \in Events /\ v \in SUBSET Results /\ IsFiniteSet(Results) /\ at \in Nat
  BY EvidenceAssumption DEF Rows
<1>2. IsFiniteSet(v)
  BY <1>1, FS_Subset
<1>3. v # {} /\ ~(Cardinality(v) > 1)
  BY DEF HasExperience, Verdict
<1>4. Cardinality(v) = 1
  BY <1>2, <1>3, FS_EmptySet, FS_CardinalityType
<1>5. r \in v /\ \A c \in v : c = r
  <2>1. \E c : v = {c}
    BY <1>2, <1>4, FS_Singleton
  <2> QED
    BY <2>1
<1>6. Verdict(row) = "VERIFIED" => b
  <2>1. Verdict(row) = "VERIFIED" => v \cap Complete # {}
    BY <1>3 DEF Verdict
  <2> QED
    BY <1>5, <2>1
<1>7. Experience(row) = [domain |-> Sports, source |-> e, at |-> at, period |-> at,
                         next |-> 0, target |-> r, complete |-> b]
  BY DEF Experience
<1>8. r \in Results /\ b \in BOOLEAN
  BY <1>1, <1>5
<1> HIDE DEF r, v, e, at, b
<1>9. /\ Experience(row).complete = b /\ Experience(row).target = r
      /\ Experience(row).source = e /\ Experience(row).domain = Sports
  BY <1>7
<1>10. ASSUME NEW c \in BOOLEAN
       PROVE  [domain |-> Sports, source |-> e, at |-> at, period |-> at,
               next |-> 0, target |-> r, complete |-> c] \in SportsExperiences
  BY <1>1, <1>8 DEF SportsExperiences
<1>11. Experience(row) \in SportsExperiences
  BY <1>7, <1>8, <1>10, Zenon
<1>12. (Experience(row).complete <=> r \in Complete) /\ (Verdict(row) = "VERIFIED" => Experience(row).complete)
  BY <1>6, <1>8, <1>9, Zenon DEF b
<1> QED
  BY <1>4, <1>5, <1>9, <1>11, <1>12 DEF v, e
(* What one evidence step puts into the store.                             *)
LEMMA StoreMoves ==
  ASSUME TypeInv, RowsStood, NEW p \in Procs, EvidenceStep(p)
  PROVE  \/ /\ InsertExperience(p)
            /\ upsert_experience(Experience(mem[p].row))
            /\ mem[p].row \in Rows /\ HasExperience(mem[p].row) /\ StoodAlone(mem[p].row)
            /\ Experience(mem[p].row) \in Evidence
         \/ /\ InsertPeriod(p)
            /\ \E x \in mem[p].todo : x \in SeriesExperiences /\ upsert_experience(x)
         \/ /\ ~InsertExperience(p) /\ ~InsertPeriod(p) /\ UNCHANGED <<experiences, provisional>>
<1>1. CASE InsertExperience(p)
  <2>1. pc[p] = "experience" /\ upsert_experience(Experience(mem[p].row))
    BY <1>1 DEF InsertExperience
  <2>2. mem[p].row \in Rows /\ HasExperience(mem[p].row) /\ StoodAlone(mem[p].row)
    BY <2>1 DEF RowsStood
  <2>3. Experience(mem[p].row) \in Evidence
    BY <2>2, ExperienceOfRow DEF Evidence
  <2> QED
    BY <1>1, <2>1, <2>2, <2>3
<1>2. CASE InsertPeriod(p)
  <2>1. mem[p].todo \in SUBSET SeriesExperiences
    BY DEF TypeInv, MemTyped, Memories
  <2> QED
    BY <1>2, <2>1, InsertPeriodEffect
<1>3. CASE ~InsertExperience(p) /\ ~InsertPeriod(p)
  BY <1>3 DEF EvidenceStep, ReadPair, RecordRow, RowsDone, PairsDone, ReadSeries,
              RecordDomain, store
<1> QED
  BY <1>1, <1>2, <1>3

LEMMA StatusTyped ==
  ASSUME TypeInv, NEW p \in Procs, NEW status \in Statuses, SetStatus(mem[p].route, status)
  PROVE  networks' \in [Routes -> Networks]
<1>1. mem[p].route \in Routes
  BY DEF TypeInv, MemTyped, Memories
<1>2. networks \in [Routes -> Networks]
  BY DEF TypeInv, FactoryTyped
<1>3. [networks[mem[p].route] EXCEPT !.status = status] \in Networks
  BY <1>1, <1>2 DEF Networks
<1> QED
  BY <1>1, <1>2, <1>3 DEF SetStatus

(* What commit_generation writes.                                          *)
LEMMA CommitEffect ==
  ASSUME TypeInv, NEW p \in Procs, commit_generation(p)
  PROVE  LET r == mem[p].route
             g == [net |-> r, gen |-> mem[p].net.gen + 1,
                   train |-> mem[p].train, observe |-> mem[p].observe]
             row == [status |-> "ACTIVE", gen |-> mem[p].net.gen + 1, last |-> Sized(g)]
         IN  /\ r \in Routes /\ g \in Splits /\ row \in Networks
             /\ generations' = {h \in generations : ~(h.net = r /\ h.gen = g.gen)} \cup {g}
             /\ networks' = [networks EXCEPT ![r] = row]
             /\ UNCHANGED <<mem, trials, plans, published, bundles, overlapped>>
             /\ mem[p].passing # {}
<1> DEFINE r == mem[p].route
           n == mem[p].net.gen + 1
           t == mem[p].train
           o == mem[p].observe
           g == [net |-> r, gen |-> n, train |-> t, observe |-> o]
<1>1. mem[p] \in Memories /\ IsFiniteSet(t) /\ IsFiniteSet(o)
  BY DEF TypeInv, MemTyped
<1>2. r \in Routes /\ n \in Nat /\ t \in SUBSET Evidence /\ o \in SUBSET Evidence
  BY <1>1 DEF Memories, Networks
<1>3. Cardinality(t) + Cardinality(o) \in Nat
  BY <1>1, FS_CardinalityType
<1>4. /\ generations' = {h \in generations : ~(h.net = r /\ h.gen = g.gen)} \cup {g}
      /\ networks' = [networks EXCEPT ![r] =
           [status |-> "ACTIVE", gen |-> g.gen, last |-> Cardinality(g.train) + Cardinality(g.observe)]]
      /\ UNCHANGED <<mem, trials, plans, published, bundles, overlapped>>
      /\ mem[p].passing # {}
  BY DEF commit_generation
<1>5. Sized(g) = Cardinality(g.train) + Cardinality(g.observe) /\ g.gen = n
  BY DEF Sized
<1> HIDE DEF r, n, t, o
<1>6. g \in Splits /\ Sized(g) \in Nat
  BY <1>2, <1>3, <1>5 DEF Splits
<1>7. networks' = [networks EXCEPT ![r] = [status |-> "ACTIVE", gen |-> n, last |-> Sized(g)]]
  BY <1>4, <1>5
<1>8. ASSUME NEW s \in Nat
      PROVE  [status |-> "ACTIVE", gen |-> n, last |-> s] \in Networks
  BY <1>2 DEF Networks, Statuses
<1> QED
  BY <1>2, <1>4, <1>6, <1>7, <1>8 DEF r, n, t, o

LEMMA FactoryTypedStep ==
  ASSUME TypeInv, NEW p \in Procs, RouteStep(p)
  PROVE  FactoryTyped'
<1>0. \A s \in plans' : s.train \in SUBSET Evidence /\ s.observe \in SUBSET Evidence
  <2>1. CASE PublishPlan(p)
    <3>1. mem[p].train \in SUBSET Evidence /\ mem[p].observe \in SUBSET Evidence
      BY DEF TypeInv, MemTyped, Memories
    <3>2. \A s \in plans' : s \in plans \/ (s.train = mem[p].train /\ s.observe = mem[p].observe)
      BY <2>1 DEF PublishPlan
    <3> QED
      BY <3>1, <3>2 DEF TypeInv, FactoryTyped
  <2>2. CASE ~PublishPlan(p)
    <3>1. plans' = plans
      BY <2>2 DEF RouteStep, ensure_network, Wait, run_trials, save_trial, QueueRaises, CandidatesReady,
                  NoChampion, commit_generation, PublishNetwork, PublishBehavior, Publish,
                  WriteBundle, factory
    <3> QED
      BY <3>1 DEF TypeInv, FactoryTyped
  <2> QED
    BY <2>1, <2>2
<1> USE DEF TypeInv, FactoryTyped
<1>1. CASE ensure_network(p)
  <2>1. \E r \in Routes, row \in Networks : networks' = [networks EXCEPT ![r] = row]
    BY <1>1, EnsureEffect
  <2>2. UNCHANGED generations
    BY <1>1 DEF ensure_network
  <2> QED
    BY <1>0, <2>1, <2>2
<1>2. CASE Wait(p) \/ CandidatesReady(p) \/ NoChampion(p)
  <2>1. \E status \in Statuses : SetStatus(mem[p].route, status)
    BY <1>2 DEF Wait, CandidatesReady, NoChampion, Gate, Statuses
  <2>2. UNCHANGED generations
    BY <1>2 DEF Wait, CandidatesReady, NoChampion
  <2> QED
    BY <1>0, <2>1, <2>2, StatusTyped
<1>3. CASE commit_generation(p)
  <2>1. networks' \in [Routes -> Networks]
    BY <1>3, CommitEffect
  <2>2. generations' \in SUBSET Splits
    BY <1>3, CommitEffect
  <2> QED
    BY <1>0, <2>1, <2>2
<1>4. CASE run_trials(p) \/ save_trial(p) \/ QueueRaises(p) \/ PublishPlan(p) \/ PublishNetwork(p)
             \/ PublishBehavior(p) \/ WriteBundle(p)
  BY <1>0, <1>4 DEF run_trials, save_trial, QueueRaises, PublishPlan, PublishNetwork, PublishBehavior, Publish,
              WriteBundle, factory
<1> QED
  BY <1>1, <1>2, <1>3, <1>4 DEF RouteStep

LEMMA TypeStep ==
  ASSUME TypeInv, RowsStood, [WorldNext]_worldVars
  PROVE  TypeInv'
<1>1. CASE EvidenceChanges /\ UNCHANGED <<store, pc, mem, torn, factory>>
  <2>1. FilesTyped'
    BY <1>1, FilesTypedStep DEF TypeInv
  <2> QED
    BY <1>1, <2>1 DEF TypeInv, StoreTyped, PcTyped, MemTyped, FactoryTyped, store, factory
<1>2. ASSUME NEW p \in Procs, EvidenceStep(p), UNCHANGED <<files, factory>>
      PROVE  TypeInv'
  <2>1. Typed'
    BY <1>2, StepTyped
  <2>2. StoreTyped'
    BY <1>2, StoreMoves, UpsertFacts DEF TypeInv, StoreTyped, Evidence
  <2>3. FilesTyped' /\ FactoryTyped'
    BY <1>2 DEF TypeInv, FilesTyped, FactoryTyped, files, factory
  <2> QED
    BY <2>1, <2>2, <2>3 DEF TypeInv, Typed
<1>3. ASSUME NEW p \in Procs, PassStep(p), UNCHANGED <<files, store, factory>>
      PROVE  TypeInv'
  <2>1. Typed'
    BY <1>3, StepTyped
  <2> QED
    BY <1>3, <2>1 DEF TypeInv, Typed, FilesTyped, StoreTyped, FactoryTyped, files, store, factory
<1>4. ASSUME NEW p \in Procs, RouteStep(p), UNCHANGED <<files, store, torn>>
      PROVE  TypeInv'
  <2>1. Typed'
    BY <1>4, StepTyped
  <2>2. FactoryTyped'
    BY <1>4, FactoryTypedStep
  <2> QED
    BY <1>4, <2>1, <2>2 DEF TypeInv, Typed, FilesTyped, StoreTyped, files, store
<1>5. CASE UNCHANGED <<files, store, pc, mem, torn, factory>>
  BY <1>5 DEF TypeInv, FilesTyped, StoreTyped, PcTyped, MemTyped, FactoryTyped,
              files, store, factory
<1> QED
  BY <1>1, <1>2, <1>3, <1>4, <1>5, StepKinds

LEMMA TypeInit == WorldInit => TypeInv
<1> SUFFICES ASSUME WorldInit PROVE TypeInv
  OBVIOUS
<1>1. FilesTyped
  <2>1. /\ listed \in [Files -> [Events -> {"absent", "bare", "quoted"}]]
        /\ scored \in [Files -> [Events -> SUBSET Results]]
        /\ raw \in [Markets -> [Ticks -> Values \cup {NoValue}]]
    BY EvidenceAssumption DEF WorldInit, EvidenceInit, Ticks
  <2>2. alone \in [Events -> SUBSET Results]
    BY <2>1 DEF WorldInit, EvidenceInit
  <2> QED
    BY <2>1, <2>2 DEF FilesTyped
<1>2. StoreTyped
  BY FS_EmptySet DEF WorldInit, EvidenceInit, StoreTyped
<1>3. PcTyped
  BY DEF WorldInit, PcTyped, Places, Resting
<1>4. MemTyped
  <2> DEFINE N == NoMemory
  <2>1. N \in Memories /\ IsFiniteSet(N.train) /\ IsFiniteSet(N.observe)
    BY NoMemoryTyped
  <2>2. mem = [p \in Procs |-> N]
    BY DEF WorldInit
  <2> HIDE DEF N
  <2> QED
    BY <2>1, <2>2 DEF MemTyped
<1>5. FactoryTyped
  BY DEF WorldInit, FactoryTyped, NoNetwork, Networks, Statuses
<1> QED
  BY <1>1, <1>2, <1>3, <1>4, <1>5 DEF TypeInv
----------------------------------------------------------------------------
(* The experience store.                                                   *)

LEMMA AloneGrows ==
  ASSUME FilesTyped, AloneScored, EvidenceChanges
  PROVE  AloneScored' /\ \A e \in Events : alone[e] \subseteq alone'[e]
<1>1. CASE WriteMarketRow \/ WritePoint
  BY <1>1 DEF WriteMarketRow, WritePoint, AloneScored
<1>2. CASE WriteResults
  <2>1. PICK f \in Files, e \in Events, now \in SUBSET Results :
          /\ scored' = [scored EXCEPT ![f][e] = now]
          /\ alone' = IF Cardinality(now) = 1 THEN [alone EXCEPT ![e] = @ \cup now] ELSE alone
    BY <1>2 DEF WriteResults
  <2>2. \A x \in Events : alone[x] \subseteq alone'[x]
    BY <2>1 DEF FilesTyped
  <2>3. Cardinality(now) = 1 => now \subseteq alone'[e]
    BY <2>1 DEF FilesTyped
  <2>4. \A g \in Files, x \in Events :
          \/ g = f /\ x = e /\ scored'[g][x] = now
          \/ scored'[g][x] = scored[g][x]
    BY <2>1 DEF FilesTyped
  <2>5. AloneScored'
    <3> SUFFICES ASSUME NEW g \in Files, NEW x \in Events, Cardinality(scored'[g][x]) = 1
                 PROVE  scored'[g][x] \subseteq alone'[x]
      BY DEF AloneScored
    <3>1. CASE g = f /\ x = e /\ scored'[g][x] = now
      BY <2>3, <3>1
    <3>2. CASE scored'[g][x] = scored[g][x]
      BY <2>2, <3>2 DEF AloneScored
    <3> QED
      BY <2>4, <3>1, <3>2
  <2> QED
    BY <2>2, <2>5
<1> QED
  BY <1>1, <1>2 DEF EvidenceChanges

(* An insertion keeps the ids apart, and the targets known.                *)
LEMMA UpsertKeeps ==
  ASSUME StoreTyped, OneId, TargetsKnown, NEW x \in Evidence, upsert_experience(x),
         UNCHANGED alone,
         x.domain = Sports => /\ x.complete <=> x.target \in Complete
                              /\ x.target \in alone[x.source]
  PROVE  OneId' /\ TargetsKnown' /\ experiences \subseteq experiences'
<1>1. CASE Stored(x)
  BY <1>1, UpsertFacts DEF OneId, TargetsKnown
<1>2. CASE ~Stored(x)
  <2>1. experiences' = experiences \cup {x}
    BY <1>2, UpsertFacts
  <2>2. \A y \in experiences : ExperienceId(y) # ExperienceId(x)
    BY <1>2 DEF Stored
  <2>3. OneId'
    BY <2>1, <2>2 DEF OneId
  <2>4. TargetsKnown'
    BY <2>1 DEF TargetsKnown
  <2> QED
    BY <2>1, <2>3, <2>4
<1> QED
  BY <1>1, <1>2

(* The steps that are not about a row of the market file.                  *)
LEMMA AwayFromRows ==
  ASSUME TypeInv, NEW p \in Procs,
         \/ RowsDone(p) \/ PairsDone(p) \/ ReadSeries(p) \/ InsertPeriod(p) \/ RecordDomain(p)
         \/ PassStep(p) \/ RouteStep(p)
  PROVE  /\ mem'[p].rows \subseteq mem[p].rows /\ pc'[p] # "experience"
         /\ torn \subseteq torn' /\ (pc[p] = "experience" => mem[p].row.event \in torn')
         /\ \A r \in records' : r \in records \/ r.of \notin Events
<1> Typed
  BY DEF TypeInv, Typed
<1>1. CASE RowsDone(p) \/ PairsDone(p)
  <2>1. pc[p] # "experience" /\ pc'[p] # "experience" /\ mem'[p].rows = mem[p].rows
    BY <1>1, QuietEffect DEF Same, SameRows
  <2> QED
    BY <1>1, <2>1 DEF RowsDone, PairsDone, store
<1>2. CASE ReadSeries(p) \/ RecordDomain(p)
  <2>1. /\ pc[p] # "experience" /\ pc'[p] # "experience" /\ mem'[p].rows = mem[p].rows
        /\ \A r \in records' : r \in records \/ r.of \in Markets \cup {Sports}
    BY <1>2, ReadSeriesEffect, RecordDomainEffect DEF SameRows
  <2>2. UNCHANGED torn
    BY <1>2 DEF ReadSeries, save_ingestion_record, RecordDomain
  <2> QED
    BY <2>1, <2>2, EvidenceAssumption DEF Sports
<1>3. CASE InsertPeriod(p)
  <2>1. pc[p] # "experience" /\ pc'[p] # "experience" /\ mem'[p].rows = mem[p].rows
    BY <1>3, InsertPeriodEffect DEF SameRows
  <2> QED
    BY <1>3, <2>1 DEF InsertPeriod
<1>4. CASE PassStep(p)
  <2>1. pc'[p] # "experience" /\ mem'[p].rows \subseteq mem[p].rows
    BY <1>4, StartEffect, InheritEffect, EndEffect DEF PassStep, Emptied, Same, SameRows, Resting
  <2>2. UNCHANGED records
    BY <1>4 DEF PassStep, Start, Inherit, Finish, Die, store
  <2>3. torn \subseteq torn' /\ (pc[p] = "experience" => mem[p].row.event \in torn')
    BY <1>4 DEF PassStep, Start, Inherit, Finish, Die, Resting
  <2> QED
    BY <2>1, <2>2, <2>3
<1>5. CASE RouteStep(p)
  <2>1. /\ pc'[p] # "experience" /\ pc[p] # "experience"
        /\ mem'[p].rows \subseteq mem[p].rows
    <3>1. CASE ensure_network(p) \/ run_trials(p) \/ save_trial(p)
      BY <3>1, EnsureEffect, TrialsEffect, SaveEffect DEF SameRows
    <3>2. CASE PublishPlan(p) \/ commit_generation(p) \/ PublishNetwork(p) \/ PublishBehavior(p)
      BY <3>2, QuietEffect DEF Same, SameRows
    <3>3. CASE Wait(p) \/ CandidatesReady(p) \/ NoChampion(p) \/ WriteBundle(p)
      BY <3>3, RouteEndEffect DEF Emptied, Wait, CandidatesReady, NoChampion, WriteBundle
    <3>4. CASE QueueRaises(p)
      BY <3>4, EndEffect DEF Emptied, QueueRaises, Resting
    <3> QED
      BY <1>5, <3>1, <3>2, <3>3, <3>4 DEF RouteStep
  <2>2. UNCHANGED <<store, torn>>
    BY <1>5 DEF RouteStep, ensure_network, Wait, run_trials, save_trial, QueueRaises, PublishPlan,
                CandidatesReady, NoChampion, commit_generation, PublishNetwork,
                PublishBehavior, Publish, WriteBundle
  <2> QED
    BY <2>1, <2>2 DEF store
<1> QED
  BY <1>1, <1>2, <1>3, <1>4, <1>5

LEMMA RowsFrame ==
  ASSUME EvidenceInv, NEW p \in Procs, Others(p), UNCHANGED <<scored, alone>>,
         mem'[p].rows \subseteq mem[p].rows, pc'[p] # "experience",
         torn \subseteq torn', pc[p] = "experience" => mem[p].row.event \in torn',
         \A r \in records' : r \in records \/ r.of \notin Events,
         OneId', TargetsKnown', experiences \subseteq experiences'
  PROVE  EvidenceInv'
<1>1. AloneScored'
  BY DEF EvidenceInv, AloneScored
<1>2. RowsStood'
  <2> SUFFICES ASSUME NEW q \in Procs
               PROVE  /\ \A row \in mem'[q].rows : StoodAlone(row)
                      /\ pc'[q] = "experience" => /\ mem'[q].row \in Rows
                                                  /\ StoodAlone(mem'[q].row)
                                                  /\ HasExperience(mem'[q].row)
    BY DEF RowsStood, StoodAlone
  <2>1. CASE q = p
    BY <2>1 DEF EvidenceInv, RowsStood
  <2>2. CASE q # p
    BY <2>2 DEF EvidenceInv, RowsStood, Others
  <2> QED
    BY <2>1, <2>2
<1>3. RecordsBacked'
  <2> SUFFICES ASSUME NEW r \in records', r.of \in Events, r.status = "VERIFIED"
               PROVE  Backed(r.of)'
    BY DEF RecordsBacked
  <2>1. Backed(r.of)
    BY DEF EvidenceInv, RecordsBacked
  <2>2. CASE \E q \in Procs : /\ pc[q] = "experience" /\ mem[q].row.event = r.of
                              /\ Verdict(mem[q].row) = "VERIFIED"
    BY <2>2 DEF Backed, Others
  <2> QED
    BY <2>1, <2>2 DEF Backed
<1> QED
  BY <1>1, <1>2, <1>3 DEF EvidenceInv

LEMMA EvidenceInvInit == WorldInit => EvidenceInv
<1> SUFFICES ASSUME WorldInit PROVE EvidenceInv
  OBVIOUS
<1>1. OneId /\ TargetsKnown /\ RecordsBacked
  BY DEF WorldInit, EvidenceInit, OneId, TargetsKnown, RecordsBacked
<1>2. AloneScored
  BY DEF WorldInit, EvidenceInit, AloneScored
<1>3. RowsStood
  <2>1. \A p \in Procs : mem[p].rows = {} /\ pc[p] # "experience"
    BY DEF WorldInit, NoMemory
  <2> QED
    BY <2>1 DEF RowsStood
<1> QED
  BY <1>1, <1>2, <1>3 DEF EvidenceInv

LEMMA ReadPairKeeps ==
  ASSUME TypeInv, EvidenceInv, NEW p \in Procs, ReadPair(p)
  PROVE  EvidenceInv'
<1>1. /\ Others(p) /\ pc[p] = "pairs" /\ pc'[p] = "rows"
      /\ UNCHANGED <<scored, alone, torn, records, experiences>>
  BY ReadPairEffect DEF ReadPair, files, store
<1>2. ASSUME NEW row \in mem'[p].rows PROVE StoodAlone(row)
  <2>1. row.event \in Events
    BY <1>2, ReadPairEffect
  <2>2. CASE row.versions = {}
    BY <2>2 DEF StoodAlone
  <2>3. CASE \E f \in Files : row.versions = scored[f][row.event]
    BY <2>1, <2>3 DEF StoodAlone, EvidenceInv, AloneScored
  <2> QED
    BY <1>2, <2>2, <2>3, ReadPairEffect
<1>3. RowsStood'
  <2> SUFFICES ASSUME NEW q \in Procs
               PROVE  /\ \A row \in mem'[q].rows : StoodAlone(row)
                      /\ pc'[q] = "experience" => /\ mem'[q].row \in Rows
                                                  /\ StoodAlone(mem'[q].row)
                                                  /\ HasExperience(mem'[q].row)
    BY <1>1 DEF RowsStood, StoodAlone
  <2>1. CASE q = p
    BY <1>1, <1>2, <2>1
  <2>2. CASE q # p
    BY <1>1, <2>2 DEF EvidenceInv, RowsStood, Others
  <2> QED
    BY <2>1, <2>2
<1>4. RecordsBacked'
  <2> SUFFICES ASSUME NEW r \in records, r.of \in Events, r.status = "VERIFIED"
               PROVE  Backed(r.of)'
    BY <1>1 DEF RecordsBacked
  <2>1. Backed(r.of)
    BY DEF EvidenceInv, RecordsBacked
  <2>2. CASE \E q \in Procs : /\ pc[q] = "experience" /\ mem[q].row.event = r.of
                              /\ Verdict(mem[q].row) = "VERIFIED"
    BY <1>1, <2>2 DEF Backed, Others
  <2> QED
    BY <1>1, <2>1, <2>2 DEF Backed
<1> QED
  BY <1>1, <1>3, <1>4 DEF EvidenceInv, OneId, AloneScored, TargetsKnown

LEMMA RecordRowKeeps ==
  ASSUME TypeInv, EvidenceInv, NEW p \in Procs, RecordRow(p)
  PROVE  EvidenceInv'
<1>1. /\ Others(p) /\ pc[p] = "rows" /\ UNCHANGED <<scored, alone, experiences>>
  BY RecordRowEffect DEF RecordRow, save_ingestion_record, files
<1>2. PICK row \in mem[p].rows :
        /\ mem'[p].rows \subseteq mem[p].rows
        /\ records' = records \cup {[of |-> row.event, status |-> Verdict(row)]}
        /\ torn' = torn \ (IF Verdict(row) = "VERIFIED" THEN {row.event} ELSE {})
        /\ \/ HasExperience(row) /\ mem'[p].row = row /\ pc'[p] = "experience"
           \/ ~HasExperience(row) /\ pc'[p] = "rows"
  BY RecordRowEffect
<1>3. row \in Rows /\ StoodAlone(row)
  BY <1>2 DEF TypeInv, MemTyped, Memories, EvidenceInv, RowsStood
<1>4. RowsStood'
  <2> SUFFICES ASSUME NEW q \in Procs
               PROVE  /\ \A x \in mem'[q].rows : StoodAlone(x)
                      /\ pc'[q] = "experience" => /\ mem'[q].row \in Rows
                                                  /\ StoodAlone(mem'[q].row)
                                                  /\ HasExperience(mem'[q].row)
    BY <1>1 DEF RowsStood, StoodAlone
  <2>1. CASE q = p
    BY <1>2, <1>3, <2>1 DEF EvidenceInv, RowsStood
  <2>2. CASE q # p
    BY <1>1, <2>2 DEF EvidenceInv, RowsStood, Others
  <2> QED
    BY <2>1, <2>2
<1>5. RecordsBacked'
  <2> SUFFICES ASSUME NEW r \in records', r.of \in Events, r.status = "VERIFIED"
               PROVE  Backed(r.of)'
    BY DEF RecordsBacked
  <2>1. CASE r.of = row.event /\ Verdict(row) = "VERIFIED"
    <3>1. HasExperience(row)
      BY <2>1 DEF HasExperience, Verdict
    <3>2. pc'[p] = "experience" /\ mem'[p].row = row
      BY <1>2, <3>1
    <3> QED
      BY <2>1, <3>2 DEF Backed
  <2>2. CASE r \in records /\ ~(r.of = row.event /\ Verdict(row) = "VERIFIED")
    <3>1. Backed(r.of) /\ (r.of \in torn => r.of \in torn')
      BY <1>2, <2>2 DEF EvidenceInv, RecordsBacked
    <3>2. CASE \E q \in Procs : /\ pc[q] = "experience" /\ mem[q].row.event = r.of
                                /\ Verdict(mem[q].row) = "VERIFIED"
      BY <1>1, <3>2 DEF Backed, Others
    <3> QED
      BY <1>1, <3>1, <3>2 DEF Backed
  <2>3. r \notin records => r.of = row.event /\ Verdict(row) = "VERIFIED"
    BY <1>2
  <2> QED
    BY <2>1, <2>2, <2>3
<1> QED
  BY <1>1, <1>4, <1>5 DEF EvidenceInv, OneId, AloneScored, TargetsKnown

LEMMA InsertExperienceKeeps ==
  ASSUME TypeInv, EvidenceInv, NEW p \in Procs, InsertExperience(p)
  PROVE  EvidenceInv'
<1> DEFINE row == mem[p].row
           x == Experience(row)
<1>1. /\ Others(p) /\ pc[p] = "experience" /\ pc'[p] = "rows" /\ mem'[p].rows = mem[p].rows
      /\ UNCHANGED <<scored, alone, records, torn>> /\ upsert_experience(x)
  BY InsertExperienceEffect DEF InsertExperience, files
<1>2. row \in Rows /\ HasExperience(row) /\ StoodAlone(row)
  BY <1>1 DEF EvidenceInv, RowsStood
<1> HIDE DEF row
<1>3. /\ x \in SportsExperiences /\ x.domain = Sports /\ x.source = row.event
      /\ x.target \in row.versions /\ Cardinality(row.versions) = 1
      /\ x.complete <=> x.target \in Complete
      /\ Verdict(row) = "VERIFIED" => x.complete
  BY <1>2, ExperienceOfRow
<1> HIDE DEF x
<1>4. x.target \in alone[x.source]
  BY <1>2, <1>3 DEF StoodAlone
<1>5. OneId' /\ TargetsKnown' /\ experiences \subseteq experiences'
  BY <1>1, <1>3, <1>4, UpsertKeeps DEF TypeInv, EvidenceInv, Evidence
<1>6. x.complete => \E y \in experiences' : y.source = row.event /\ y.complete
  <2> SUFFICES ASSUME x.complete
               PROVE  \E y \in experiences' : y.source = row.event /\ y.complete
    OBVIOUS
  <2>1. CASE Stored(x)
    <3>1. PICK y \in experiences : ExperienceId(y) = ExperienceId(x)
      BY <2>1 DEF Stored
    <3>2. ExperienceId(x) = <<Sports, x.source, x.target>>
      BY <1>3 DEF ExperienceId
    <3>3. y.domain = Sports
      BY <3>1, <3>2 DEF ExperienceId
    <3>4. y.source = x.source /\ y.target = x.target
      BY <3>1, <3>2, <3>3 DEF ExperienceId
    <3>5. y.complete
      BY <1>3, <3>3, <3>4 DEF EvidenceInv, TargetsKnown
    <3> QED
      BY <1>3, <1>5, <3>4, <3>5
  <2>2. CASE ~Stored(x)
    BY <1>1, <1>3, <2>2 DEF upsert_experience
  <2> QED
    BY <2>1, <2>2
<1>7. RowsStood'
  <2> SUFFICES ASSUME NEW q \in Procs
               PROVE  /\ \A z \in mem'[q].rows : StoodAlone(z)
                      /\ pc'[q] = "experience" => /\ mem'[q].row \in Rows
                                                  /\ StoodAlone(mem'[q].row)
                                                  /\ HasExperience(mem'[q].row)
    BY <1>1 DEF RowsStood, StoodAlone
  <2>1. CASE q = p
    BY <1>1, <2>1 DEF EvidenceInv, RowsStood
  <2>2. CASE q # p
    BY <1>1, <2>2 DEF EvidenceInv, RowsStood, Others
  <2> QED
    BY <2>1, <2>2
<1>8. RecordsBacked'
  <2> SUFFICES ASSUME NEW r \in records, r.of \in Events, r.status = "VERIFIED"
               PROVE  Backed(r.of)'
    BY <1>1 DEF RecordsBacked
  <2>1. Backed(r.of)
    BY DEF EvidenceInv, RecordsBacked
  <2>2. CASE \E y \in experiences : y.source = r.of /\ y.complete
    BY <1>5, <2>2 DEF Backed
  <2>3. CASE r.of \in torn
    BY <1>1, <2>3 DEF Backed
  <2>4. ASSUME NEW q \in Procs, pc[q] = "experience", mem[q].row.event = r.of,
               Verdict(mem[q].row) = "VERIFIED"
        PROVE  Backed(r.of)'
    <3>1. CASE q = p
      BY <1>3, <1>6, <2>4, <3>1 DEF Backed, row
    <3>2. CASE q # p
      BY <1>1, <2>4, <3>2 DEF Backed, Others
    <3> QED
      BY <3>1, <3>2
  <2> QED
    BY <2>1, <2>2, <2>3, <2>4 DEF Backed
<1> QED
  BY <1>1, <1>5, <1>7, <1>8 DEF EvidenceInv, AloneScored

LEMMA InsertPeriodStores ==
  ASSUME TypeInv, EvidenceInv, NEW p \in Procs, InsertPeriod(p), UNCHANGED files
  PROVE  OneId' /\ TargetsKnown' /\ experiences \subseteq experiences'
<1>1. PICK x \in mem[p].todo : upsert_experience(x)
  BY InsertPeriodEffect
<1>2. x \in SeriesExperiences
  BY DEF TypeInv, MemTyped, Memories
<1>3. x \in Evidence /\ x.domain # Sports
  BY <1>2, EvidenceAssumption DEF Evidence, SeriesExperiences, Sports
<1> QED
  BY <1>1, <1>3, UpsertKeeps DEF TypeInv, EvidenceInv, files

LEMMA EvidenceInvStep ==
  ASSUME TypeInv, EvidenceInv, [WorldNext]_worldVars
  PROVE  EvidenceInv'
<1>1. CASE EvidenceChanges /\ UNCHANGED <<store, pc, mem, torn, factory>>
  <2>1. AloneScored' /\ \A e \in Events : alone[e] \subseteq alone'[e]
    BY <1>1, AloneGrows DEF TypeInv, EvidenceInv
  <2>2. RowsStood'
    <3>1. ASSUME NEW row \in Rows, StoodAlone(row)
          PROVE  Cardinality(row.versions) = 1 => row.versions \subseteq alone'[row.event]
      BY <2>1, <3>1 DEF StoodAlone, Rows
    <3>2. ASSUME NEW q \in Procs
          PROVE  mem[q].rows \in SUBSET Rows
      BY DEF TypeInv, MemTyped, Memories
    <3> QED
      BY <1>1, <3>1, <3>2 DEF EvidenceInv, RowsStood, StoodAlone
  <2>3. TargetsKnown'
    <3> SUFFICES ASSUME NEW x \in experiences, x.domain = Sports
                 PROVE  (x.complete <=> x.target \in Complete) /\ x.target \in alone'[x.source]
      BY <1>1 DEF TargetsKnown, store
    <3>1. x.source \in Events
      BY EvidenceAssumption
         DEF TypeInv, StoreTyped, Evidence, SportsExperiences, SeriesExperiences, Sports
    <3> QED
      BY <2>1, <3>1 DEF EvidenceInv, TargetsKnown
  <2>4. RecordsBacked' /\ OneId'
    BY <1>1 DEF EvidenceInv, RecordsBacked, Backed, OneId, store
  <2> QED
    BY <2>1, <2>2, <2>3, <2>4 DEF EvidenceInv
<1>2. ASSUME NEW p \in Procs, EvidenceStep(p), UNCHANGED <<files, factory>>
      PROVE  EvidenceInv'
  <2>1. CASE ReadPair(p) \/ RecordRow(p) \/ InsertExperience(p)
    BY <2>1, ReadPairKeeps, RecordRowKeeps, InsertExperienceKeeps
  <2>2. CASE InsertPeriod(p)
    BY <1>2, <2>2, StepTyped, AwayFromRows, RowsFrame, InsertPeriodStores DEF files
  <2>3. CASE RowsDone(p) \/ PairsDone(p) \/ ReadSeries(p) \/ RecordDomain(p)
    <3>1. UNCHANGED experiences /\ UNCHANGED <<scored, alone>>
      BY <1>2, <2>3 DEF RowsDone, PairsDone, ReadSeries, RecordDomain, store, files
    <3>2. OneId' /\ TargetsKnown'
      BY <3>1 DEF EvidenceInv, OneId, TargetsKnown
    <3> QED
      BY <1>2, <2>3, <3>1, <3>2, StepTyped, AwayFromRows, RowsFrame
  <2> QED
    BY <1>2, <2>1, <2>2, <2>3 DEF EvidenceStep
<1>3. ASSUME NEW p \in Procs, PassStep(p) \/ RouteStep(p), UNCHANGED <<files, store>>
      PROVE  EvidenceInv'
  <2>1. UNCHANGED experiences /\ UNCHANGED <<scored, alone>>
    BY <1>3 DEF store, files
  <2>2. OneId' /\ TargetsKnown'
    BY <2>1 DEF EvidenceInv, OneId, TargetsKnown
  <2> QED
    BY <1>3, <2>1, <2>2, StepTyped, AwayFromRows, RowsFrame
<1>4. CASE UNCHANGED <<files, store, pc, mem, torn, factory>>
  BY <1>4 DEF EvidenceInv, OneId, AloneScored, RowsStood, StoodAlone, TargetsKnown,
              RecordsBacked, Backed, files, store
<1> QED
  BY <1>1, <1>2, <1>3, <1>4, StepKinds

LEMMA StoreInvariant == WorldSpec => [](TypeInv /\ EvidenceInv)
<1>1. WorldInit => TypeInv /\ EvidenceInv
  BY TypeInit, EvidenceInvInit
<1>2. TypeInv /\ EvidenceInv /\ [WorldNext]_worldVars => (TypeInv /\ EvidenceInv)'
  BY TypeStep, EvidenceInvStep DEF EvidenceInv
<1> QED
  BY <1>1, <1>2, PTL DEF WorldSpec

(* An event on record as VERIFIED has its complete experience, unless the  *)
(* pass is between the two commits or died there: for any number of passes *)
(* over changing files, in any interleaving.                               *)
THEOREM VerifiedAlwaysStored == WorldSpec => []VerifiedIsStored
<1>1. EvidenceInv => VerifiedIsStored
  BY DEF EvidenceInv, RecordsBacked, Backed, VerifiedIsStored
<1> QED
  BY <1>1, StoreInvariant, PTL
----------------------------------------------------------------------------
(* Market evidence and the series.                                         *)

(* A point behind the end of the series leaves the periods before it as    *)
(* they were.                                                              *)
LEMMA SettledStays ==
  ASSUME FilesTyped, NEW x \in SeriesExperiences, EvidenceChanges, Settled(x)
  PROVE  Settled(x)'
<1>1. CASE WriteMarketRow \/ WriteResults
  BY <1>1 DEF WriteMarketRow, WriteResults, Settled, Filled
<1>2. CASE WritePoint
  <2>1. PICK d \in Markets, t \in Ticks, v \in Values :
          /\ raw[d][t] = NoValue
          /\ raw' = [raw EXCEPT ![d][t] = v]
          /\ backfilled' = backfilled \cup
               (IF \E u \in t .. MaxTick : raw[d][u] # NoValue THEN {d} ELSE {})
    BY <1>2 DEF WritePoint
  <2>2. x.domain \in Markets /\ x.period \in Nat /\ x.next \in Nat
    BY DEF SeriesExperiences
  <2>3. \A u \in Ticks : u \in Nat /\ u <= MaxTick /\ PeriodOf(u) \in Nat
    BY EvidenceAssumption, PeriodFacts DEF Ticks
  <2>4. CASE x.domain # d
    <3>1. raw'[x.domain] = raw[x.domain] /\ (x.domain \in backfilled' <=> x.domain \in backfilled)
      BY <2>1, <2>2, <2>4 DEF FilesTyped
    <3> QED
      BY <3>1 DEF Settled, Filled
  <2>5. CASE x.domain = d
    <3> SUFFICES ASSUME d \notin backfilled'
                 PROVE  /\ x.period < x.next
                        /\ PointsIn(raw'[d], x.next) # {}
                        /\ \A u \in Filled(d)' : PeriodOf(u) > x.period => PeriodOf(u) >= x.next
                        /\ \E u \in Filled(d)' : PeriodOf(u) > x.next
                        /\ x.target = raw'[d][Max(PointsIn(raw'[d], x.next))]
      BY <2>5 DEF Settled
    <3>1. d \notin backfilled /\ ~ \E u \in t .. MaxTick : raw[d][u] # NoValue
      BY <2>1
    <3>2. \A u \in Filled(d) : u < t
      BY <2>3, <3>1 DEF Filled
    <3>3. /\ raw'[d][t] = v /\ v # NoValue
          /\ \A u \in Ticks \ {t} : raw'[d][u] = raw[d][u]
      BY <2>1, EvidenceAssumption DEF FilesTyped
    <3>4. Filled(d)' = Filled(d) \cup {t}
      BY <3>3 DEF Filled
    <3>5. /\ x.period < x.next
          /\ PointsIn(raw[d], x.next) # {}
          /\ \A u \in Filled(d) : PeriodOf(u) > x.period => PeriodOf(u) >= x.next
          /\ x.target = raw[d][Max(PointsIn(raw[d], x.next))]
      BY <2>5, <3>1 DEF Settled
    <3>6. PICK w \in Filled(d) : PeriodOf(w) > x.next
      BY <2>5, <3>1 DEF Settled
    <3>7. PeriodOf(t) > x.next
      <4>1. w \in Ticks /\ w < t
        BY <3>2, <3>6 DEF Filled
      <4>2. PeriodOf(w) <= PeriodOf(t)
        BY <2>3, <4>1, PeriodFacts
      <4> QED
        BY <2>2, <2>3, <3>6, <4>1, <4>2
    <3>8. PointsIn(raw'[d], x.next) = PointsIn(raw[d], x.next)
      BY <2>2, <2>3, <3>3, <3>7 DEF PointsIn
    <3>9. Max(PointsIn(raw[d], x.next)) \in Ticks \ {t}
      <4>1. raw[d] \in Points
        BY DEF FilesTyped, Points
      <4>2. Max(PointsIn(raw[d], x.next)) \in PointsIn(raw[d], x.next)
        BY <3>5, <4>1, PeriodsOfPoints
      <4> QED
        BY <2>1, <4>2 DEF PointsIn
    <3>10. \A u \in Filled(d)' : PeriodOf(u) > x.period => PeriodOf(u) >= x.next
      BY <2>2, <2>3, <3>4, <3>5, <3>7
    <3> QED
      BY <3>3, <3>4, <3>5, <3>6, <3>8, <3>9, <3>10
  <2> QED
    BY <2>4, <2>5
<1> QED
  BY <1>1, <1>2 DEF EvidenceChanges

LEMMA ReadSettled ==
  ASSUME FilesTyped, NEW d \in Markets, NEW x \in MarketExperiences(d, raw[d]),
         x.next # Max(aggregate_periods(raw[d]))
  PROVE  Settled(x)
<1> DEFINE A == aggregate_periods(raw[d])
<1>1. raw[d] \in Points
  BY DEF FilesTyped, Points
<1>2. /\ x \in SeriesExperiences /\ x.domain = d /\ x.period < x.next /\ x.next \in A
      /\ \A s \in A : s > x.period => s >= x.next
      /\ x.target = raw[d][Max(PointsIn(raw[d], x.next))]
  BY <1>1, ExperiencesOfPoints
<1>3. /\ A \in SUBSET Nat /\ Max(A) \in A /\ Max(A) >= x.next
      /\ PointsIn(raw[d], x.next) # {}
  BY <1>1, <1>2, PeriodsOfPoints
<1>4. \A t \in Filled(d) : PeriodOf(t) \in A
  BY DEF Filled, aggregate_periods
<1>5. PICK t \in Filled(d) : PeriodOf(t) = Max(A)
  BY <1>3 DEF aggregate_periods, Filled
<1>6. PeriodOf(t) > x.next
  BY <1>2, <1>3, <1>5
<1> HIDE DEF A
<1> QED
  BY <1>2, <1>3, <1>4, <1>6 DEF Settled

(* The steps after which a process has no other experience to insert.      *)
LEMMA AwayFromSeries ==
  ASSUME TypeInv, NEW p \in Procs,
         \/ ReadPair(p) \/ RecordRow(p) \/ InsertExperience(p) \/ RowsDone(p) \/ PairsDone(p)
         \/ RecordDomain(p) \/ PassStep(p) \/ RouteStep(p)
  PROVE  SameSeries(p) \/ mem'[p].todo = {}
<1> Typed
  BY DEF TypeInv, Typed
<1>1. CASE ReadPair(p) \/ RecordRow(p) \/ InsertExperience(p) \/ RowsDone(p) \/ PairsDone(p)
             \/ RecordDomain(p)
  BY <1>1, ReadPairEffect, RecordRowEffect, InsertExperienceEffect, QuietEffect,
     RecordDomainEffect DEF Same
<1>2. CASE PassStep(p)
  BY <1>2, StartEffect, InheritEffect, EndEffect DEF PassStep, Emptied, Same
<1>3. CASE RouteStep(p)
  BY <1>3, EnsureEffect, TrialsEffect, SaveEffect, EndEffect, RouteEndEffect, QuietEffect
     DEF RouteStep, Emptied, Same
<1> QED
  BY <1>1, <1>2, <1>3

LEMMA SeriesInvStep ==
  ASSUME TypeInv, EvidenceInv, SeriesInv, [WorldNext]_worldVars
  PROVE  SeriesInv'
<1> USE DEF SettledRows, SettledTodo
<1>0. SettledRows /\ SettledTodo
  BY DEF SeriesInv
<1>1. CASE EvidenceChanges /\ UNCHANGED <<store, pc, mem, torn, factory>>
  <2>1. \A x \in SeriesExperiences : Settled(x) => Settled(x)'
    BY <1>1, SettledStays DEF TypeInv
  <2>2. SettledRows'
    <3>1. \A x \in experiences : x.domain \in Markets => x \in SeriesExperiences
      BY EvidenceAssumption DEF TypeInv, StoreTyped, Evidence, SportsExperiences, Sports
    <3> QED
      BY <1>0, <1>1, <2>1, <3>1 DEF store
  <2>3. SettledTodo'
    <3>1. \A p \in Procs : mem[p].todo \in SUBSET SeriesExperiences
      BY DEF TypeInv, MemTyped, Memories
    <3> QED
      BY <1>0, <1>1, <2>1, <3>1
  <2> QED
    BY <2>2, <2>3 DEF SeriesInv
<1>2. ASSUME NEW p \in Procs, UNCHANGED files, Others(p),
             SameSeries(p) \/ mem'[p].todo = {}
      PROVE  SettledTodo'
  <2> SUFFICES ASSUME NEW q \in Procs, NEW x \in mem'[q].todo
               PROVE  x.next = mem'[q].open \/ Settled(x)
    BY <1>2 DEF Settled, Filled, files
  <2>1. CASE q = p
    BY <1>0, <1>2, <2>1 DEF SameSeries
  <2>2. CASE q # p
    BY <1>0, <1>2, <2>2 DEF Others
  <2> QED
    BY <2>1, <2>2
<1>3. ASSUME NEW p \in Procs, EvidenceStep(p), UNCHANGED <<files, factory>>
      PROVE  SeriesInv'
  <2>1. Others(p) /\ UNCHANGED <<raw, backfilled>>
    BY <1>3, StepTyped DEF files
  <2>2. \A x : Settled(x)' <=> Settled(x)
    BY <2>1 DEF Settled, Filled
  <2>3. CASE ReadSeries(p)
    <3>1. UNCHANGED <<experiences, provisional>>
      BY <2>3 DEF ReadSeries
    <3>2. \A x \in mem'[p].todo : x.next = mem'[p].open \/ Settled(x)
      <4>1. CASE SameSeries(p)
        BY <1>0, <4>1 DEF SameSeries
      <4>2. ASSUME NEW d \in Markets, mem'[p].todo = MarketExperiences(d, raw[d]),
                   mem'[p].open = Max(aggregate_periods(raw[d]))
            PROVE  \A x \in mem'[p].todo : x.next = mem'[p].open \/ Settled(x)
        BY <4>2, ReadSettled DEF TypeInv
      <4> QED
        BY <2>3, <4>1, <4>2, ReadSeriesEffect
    <3>3. SettledTodo'
      BY <1>0, <2>1, <2>2, <3>2 DEF Others
    <3> QED
      BY <1>0, <2>2, <3>1, <3>3 DEF SeriesInv
  <2>4. CASE InsertPeriod(p)
    <3>1. PICK x \in mem[p].todo :
            /\ upsert_experience(x)
            /\ provisional' = IF ~Stored(x) /\ x.next = mem[p].open
                                 THEN provisional \cup {ExperienceId(x)} ELSE provisional
      BY <2>4, InsertPeriodEffect
    <3>2. x.next = mem[p].open \/ Settled(x)
      BY <1>0
    <3>3. provisional \subseteq provisional'
      BY <3>1
    <3>4. SettledRows'
      <4>1. CASE Stored(x)
        BY <1>0, <2>2, <3>1, <3>3, <4>1 DEF upsert_experience
      <4>2. CASE ~Stored(x)
        <5>1. experiences' = experiences \cup {x}
          BY <3>1, <4>2 DEF upsert_experience
        <5>2. ExperienceId(x) \in provisional' \/ Settled(x)
          BY <3>1, <3>2, <4>2
        <5> QED
          BY <1>0, <2>2, <3>3, <5>1, <5>2
      <4> QED
        BY <4>1, <4>2
    <3>5. mem'[p].todo \subseteq mem[p].todo /\ mem'[p].open = mem[p].open
      BY <2>4, InsertPeriodEffect
    <3>6. SettledTodo'
      BY <1>0, <2>1, <2>2, <3>5 DEF Others
    <3> QED
      BY <3>4, <3>6 DEF SeriesInv
  <2>5. CASE InsertExperience(p)
    <3>1. UNCHANGED provisional
      BY <2>5 DEF InsertExperience
    <3>2. PICK x \in SportsExperiences : upsert_experience(x)
      <4>1. mem[p].row \in Rows /\ HasExperience(mem[p].row)
        BY <2>5 DEF InsertExperience, EvidenceInv, RowsStood
      <4> QED
        BY <2>5, <4>1, ExperienceOfRow DEF InsertExperience
    <3>3. x.domain \notin Markets
      BY EvidenceAssumption DEF SportsExperiences, Sports
    <3>4. SettledRows'
      BY <1>0, <2>2, <3>1, <3>2, <3>3 DEF upsert_experience
    <3> QED
      BY <1>2, <1>3, <2>1, <2>5, <3>4, AwayFromSeries DEF SeriesInv
  <2>6. CASE ~InsertExperience(p) /\ ~InsertPeriod(p) /\ ~ReadSeries(p)
    <3>1. UNCHANGED <<experiences, provisional>>
      BY <1>3, <2>6, StoreMoves DEF EvidenceInv
    <3>2. SettledTodo'
      BY <1>2, <1>3, <2>1, <2>6, AwayFromSeries DEF EvidenceStep
    <3> QED
      BY <1>0, <2>2, <3>1, <3>2 DEF SeriesInv
  <2> QED
    BY <2>3, <2>4, <2>5, <2>6
<1>4. ASSUME NEW p \in Procs, PassStep(p) \/ RouteStep(p), UNCHANGED <<files, store>>
      PROVE  SeriesInv'
  <2>1. SettledTodo'
    BY <1>2, <1>4, StepTyped, AwayFromSeries
  <2>2. SettledRows'
    BY <1>0, <1>4 DEF Settled, Filled, files, store
  <2> QED
    BY <2>1, <2>2 DEF SeriesInv
<1>5. CASE UNCHANGED <<files, store, pc, mem, torn, factory>>
  BY <1>0, <1>5 DEF SeriesInv, Settled, Filled, files, store
<1> QED
  BY <1>1, <1>3, <1>4, <1>5, StepKinds

LEMMA SeriesInvariant == WorldSpec => []SeriesInv
<1>1. WorldInit => SeriesInv
  <2> SUFFICES ASSUME WorldInit PROVE SeriesInv
    OBVIOUS
  <2>1. experiences = {} /\ \A p \in Procs : mem[p].todo = {}
    BY DEF WorldInit, EvidenceInit, NoMemory
  <2> QED
    BY <2>1 DEF SeriesInv, SettledRows, SettledTodo
<1>2. TypeInv /\ EvidenceInv /\ SeriesInv /\ [WorldNext]_worldVars => SeriesInv'
  BY SeriesInvStep
<1> QED
  BY <1>1, <1>2, StoreInvariant, PTL DEF WorldSpec

(* Market evidence agrees with its series: for any length of the series    *)
(* and of the periods, any values, and any passes and changes between two  *)
(* steps of a pass.                                                        *)
THEOREM TargetsStand == WorldSpec => []TargetStands
<1>1. TypeInv /\ SeriesInv => TargetStands
  <2> SUFFICES ASSUME TypeInv, SeriesInv, NEW x \in experiences, x.domain \in Markets,
                      x.domain \notin backfilled, ExperienceId(x) \notin provisional
               PROVE  LET filled == {t \in Ticks : raw[x.domain][t] # NoValue}
                          later  == {t \in filled : t \div PeriodLength > x.period}
                          next   == {t \in later : \A u \in later :
                                       t \div PeriodLength <= u \div PeriodLength}
                      IN  x.target = raw[x.domain][Max(next)]
    BY DEF TargetStands
  <2> DEFINE d == x.domain
             later == {t \in Filled(d) : PeriodOf(t) > x.period}
             next  == {t \in later : \A u \in later : PeriodOf(t) <= PeriodOf(u)}
  <2>1. x \in SeriesExperiences
    BY EvidenceAssumption DEF TypeInv, StoreTyped, Evidence, SportsExperiences, Sports
  <2>2. x.period \in Nat /\ x.next \in Nat
    BY <2>1 DEF SeriesExperiences
  <2>3. /\ x.period < x.next
        /\ PointsIn(raw[d], x.next) # {}
        /\ \A t \in Filled(d) : PeriodOf(t) > x.period => PeriodOf(t) >= x.next
        /\ x.target = raw[d][Max(PointsIn(raw[d], x.next))]
    BY DEF SeriesInv, SettledRows, Settled
  <2>4. \A t \in Ticks : PeriodOf(t) \in Nat
    BY PeriodFacts DEF Ticks
  <2>5. PICK w \in Filled(d) : PeriodOf(w) = x.next
    BY <2>3 DEF PointsIn, Filled
  <2>6. w \in later
    BY <2>2, <2>3, <2>5
  <2>7. next = PointsIn(raw[d], x.next)
    <3>1. ASSUME NEW t \in next PROVE t \in PointsIn(raw[d], x.next)
      <4>1. t \in Filled(d) /\ PeriodOf(t) >= x.next /\ PeriodOf(t) <= x.next
        BY <2>3, <2>5, <2>6
      <4> QED
        BY <2>2, <2>4, <4>1 DEF PointsIn, Filled
    <3>2. ASSUME NEW t \in PointsIn(raw[d], x.next) PROVE t \in next
      <4>1. t \in Filled(d) /\ PeriodOf(t) = x.next
        BY DEF PointsIn, Filled
      <4> QED
        BY <2>2, <2>3, <4>1
    <3> QED
      BY <3>1, <3>2
  <2> HIDE DEF d
  <2>8. x.target = raw[d][Max(next)]
    BY <2>3, <2>7
  <2> QED
    BY <2>8 DEF Filled, PeriodOf, d
<1> QED
  BY <1>1, StoreInvariant, SeriesInvariant, PTL

----------------------------------------------------------------------------
(* The split.                                                              *)

LEMMA SeparatesStays ==
  ASSUME NEW t \in SUBSET Evidence, NEW o \in SUBSET Evidence, Separates(t, o),
         FilesTyped', \A e \in Events : alone[e] \subseteq alone'[e]
  PROVE  \A x \in t, y \in o :
           /\ x.at <= y.at
           /\ x.source = y.source /\ x.domain = Sports =>
                Cardinality(alone'[x.source] \cap Complete) > 1
<1> SUFFICES ASSUME NEW x \in t, NEW y \in o, x.source = y.source, x.domain = Sports
             PROVE  Cardinality(alone'[x.source] \cap Complete) > 1
  BY DEF Separates
<1>1. x.source \in Events
  BY EvidenceAssumption DEF Evidence, SportsExperiences, SeriesExperiences, Sports
<1> DEFINE A == alone[x.source] \cap Complete
           B == alone'[x.source] \cap Complete
<1>2. Cardinality(A) > 1
  BY DEF Separates
<1>3. A \in SUBSET B /\ B \in SUBSET Results /\ IsFiniteSet(Results)
  BY <1>1, EvidenceAssumption DEF FilesTyped
<1> HIDE DEF A, B
<1>4. IsFiniteSet(B) /\ IsFiniteSet(A) /\ Cardinality(A) <= Cardinality(B)
  BY <1>3, FS_Subset
<1>5. Cardinality(A) \in Nat /\ Cardinality(B) \in Nat
  BY <1>4, FS_CardinalityType
<1>6. Cardinality(B) > 1
  BY <1>2, <1>4, <1>5
<1> QED
  BY <1>6 DEF B

(* Two rows of one event in the evidence of a domain are two results that  *)
(* each stood alone.                                                       *)
LEMMA SplitSeparated ==
  ASSUME TypeInv, EvidenceInv, NEW r \in Routes, NEW t \in chronological_split(RowsOf(r))
  PROVE  Separates(t, RowsOf(r) \ t)
<1> SUFFICES ASSUME NEW x \in t, NEW y \in RowsOf(r) \ t
             PROVE  /\ x.at <= y.at
                    /\ x.source = y.source /\ x.domain = Sports =>
                         Cardinality(alone[x.source] \cap Complete) > 1
  BY DEF Separates
<1>1. /\ t \subseteq RowsOf(r) /\ x.at <= y.at
  BY DEF chronological_split, kSubset
<1>2. /\ x \in experiences /\ x.domain = r[1] /\ x.complete
      /\ y \in experiences /\ y.domain = r[1] /\ y.complete /\ x # y
  BY <1>1 DEF RowsOf, load_verified_experiences
<1>3. ASSUME x.source = y.source, x.domain = Sports
      PROVE  Cardinality(alone[x.source] \cap Complete) > 1
  <2>1. ExperienceId(x) # ExperienceId(y)
    BY <1>2 DEF EvidenceInv, OneId
  <2>2. x.target # y.target
    BY <1>2, <1>3, <2>1 DEF ExperienceId
  <2>3. /\ x.target \in Complete /\ x.target \in alone[x.source]
        /\ y.target \in Complete /\ y.target \in alone[x.source]
    BY <1>2, <1>3 DEF EvidenceInv, TargetsKnown
  <2> DEFINE S == alone[x.source] \cap Complete
             P == {x.target} \cup {y.target}
  <2>4. IsFiniteSet(S)
    <3>1. S \in SUBSET Results /\ IsFiniteSet(Results)
      BY EvidenceAssumption
    <3> QED
      BY <3>1, FS_Subset
  <2>5. Cardinality(P) = 2
    <3> DEFINE Q == {x.target}
               b == y.target
    <3>1. IsFiniteSet(Q) /\ Cardinality(Q) = 1 /\ b \notin Q
      BY <2>2, FS_Singleton
    <3> HIDE DEF Q, b
    <3>2. Cardinality(Q \cup {b}) = IF b \in Q THEN Cardinality(Q) ELSE Cardinality(Q) + 1
      BY <3>1, FS_AddElement
    <3>3. Cardinality(Q \cup {b}) = 2
      BY <3>1, <3>2
    <3> QED
      BY <3>3 DEF Q, b
  <2>6. P \in SUBSET S
    BY <2>3
  <2> HIDE DEF S, P
  <2>7. Cardinality(P) <= Cardinality(S) /\ Cardinality(S) \in Nat
    BY <2>4, <2>6, FS_Subset, FS_CardinalityType
  <2>8. Cardinality(S) > 1
    BY <2>5, <2>7
  <2> QED
    BY <2>8 DEF S
<1> QED
  BY <1>1, <1>3

LEMMA SplitsHeldStep ==
  ASSUME TypeInv, EvidenceInv, SplitsHeld, TypeInv', [WorldNext]_worldVars
  PROVE  SplitsHeld'
<1>1. CASE EvidenceChanges /\ UNCHANGED <<store, pc, mem, torn, factory>>
  <2>1. \A e \in Events : alone[e] \subseteq alone'[e]
    BY <1>1, AloneGrows DEF TypeInv, EvidenceInv
  <2>2. FilesTyped'
    BY DEF TypeInv
  <2>3. ASSUME NEW q \in Procs
        PROVE  \A x \in mem[q].train, y \in mem[q].observe :
                 /\ x.at <= y.at
                 /\ x.source = y.source /\ x.domain = Sports =>
                      Cardinality(alone'[x.source] \cap Complete) > 1
    <3> DEFINE t == mem[q].train
               o == mem[q].observe
    <3>1. t \in SUBSET Evidence /\ o \in SUBSET Evidence
      BY DEF TypeInv, MemTyped, Memories
    <3>2. Separates(t, o)
      BY DEF SplitsHeld
    <3> HIDE DEF t, o
    <3>3. \A x \in t, y \in o :
            /\ x.at <= y.at
            /\ x.source = y.source /\ x.domain = Sports =>
                 Cardinality(alone'[x.source] \cap Complete) > 1
      BY <2>1, <2>2, <3>1, <3>2, SeparatesStays
    <3> QED
      BY <3>3 DEF t, o
  <2> QED
    BY <1>1, <2>3 DEF SplitsHeld, Separates
<1>2. ASSUME NEW p \in Procs, UNCHANGED files, Others(p),
             SameSplit(p) \/ Emptied(p) \/ run_trials(p)
      PROVE  SplitsHeld'
  <2> SUFFICES ASSUME NEW q \in Procs PROVE Separates(mem'[q].train, mem'[q].observe)
    BY <1>2 DEF SplitsHeld, Separates, files
  <2>1. CASE q # p
    BY <1>2, <2>1 DEF SplitsHeld, Others
  <2>2. CASE q = p /\ SameSplit(p)
    BY <2>2 DEF SplitsHeld, SameSplit
  <2>3. CASE q = p /\ Emptied(p)
    BY <2>3 DEF Separates, Emptied
  <2>4. CASE q = p /\ run_trials(p)
    <3>1. mem[p].route \in Routes
      BY DEF TypeInv, MemTyped, Memories
    <3>2. /\ mem'[p].train \in chronological_split(RowsOf(mem[p].route))
          /\ mem'[p].observe = RowsOf(mem[p].route) \ mem'[p].train
      BY <2>4, TrialsEffect
    <3> QED
      BY <2>4, <3>1, <3>2, SplitSeparated
  <2> QED
    BY <1>2, <2>1, <2>2, <2>3, <2>4
<1>3. ASSUME NEW p \in Procs, EvidenceStep(p) PROVE SameSplit(p)
  BY <1>3, ReadPairEffect, RecordRowEffect, InsertExperienceEffect, QuietEffect,
     ReadSeriesEffect, InsertPeriodEffect, RecordDomainEffect DEF EvidenceStep, Same, TypeInv, Typed
<1>4. ASSUME NEW p \in Procs, PassStep(p) PROVE SameSplit(p) \/ Emptied(p)
  BY <1>4, StartEffect, InheritEffect, EndEffect DEF PassStep, Same, TypeInv, Typed
<1>5. ASSUME NEW p \in Procs, RouteStep(p) PROVE SameSplit(p) \/ Emptied(p) \/ run_trials(p)
  BY <1>5, EnsureEffect, SaveEffect, EndEffect, RouteEndEffect, QuietEffect DEF RouteStep, Same, TypeInv, Typed
<1>6. CASE UNCHANGED <<files, store, pc, mem, torn, factory>>
  BY <1>6 DEF SplitsHeld, Separates, files
<1> QED
  BY <1>1, <1>2, <1>3, <1>4, <1>5, <1>6, StepKinds, StepTyped

(* Only a plan or a generation whose sides a process holds is added.       *)
LEMMA SplitsAdded ==
  ASSUME TypeInv, NEW p \in Procs, RouteStep(p), NEW s \in (plans \cup generations)'
  PROVE  s \in plans \cup generations \/ (s.train = mem[p].train /\ s.observe = mem[p].observe)
<1>1. CASE PublishPlan(p)
  BY <1>1 DEF PublishPlan
<1>2. CASE commit_generation(p)
  <2> DEFINE g == [net |-> mem[p].route, gen |-> mem[p].net.gen + 1,
                   train |-> mem[p].train, observe |-> mem[p].observe]
  <2>1. /\ generations' = {h \in generations : ~(h.net = g.net /\ h.gen = g.gen)} \cup {g}
        /\ plans' = plans
    BY <1>2 DEF commit_generation
  <2>2. g.train = mem[p].train /\ g.observe = mem[p].observe
    OBVIOUS
  <2> HIDE DEF g
  <2> QED
    BY <2>1, <2>2
<1>3. CASE ensure_network(p) \/ Wait(p) \/ run_trials(p) \/ save_trial(p) \/ QueueRaises(p)
             \/ CandidatesReady(p) \/ NoChampion(p)
             \/ PublishNetwork(p) \/ PublishBehavior(p) \/ WriteBundle(p)
  BY <1>3 DEF ensure_network, Wait, run_trials, save_trial, QueueRaises, CandidatesReady, NoChampion,
              PublishNetwork, PublishBehavior, Publish, WriteBundle, factory
<1> QED
  BY <1>1, <1>2, <1>3 DEF RouteStep

LEMMA SplitInvStep ==
  ASSUME TypeInv, EvidenceInv, SplitInv, TypeInv', [WorldNext]_worldVars
  PROVE  SplitInv'
<1>1. SplitsHeld'
  BY SplitsHeldStep DEF SplitInv
<1>2. \A s \in plans \cup generations : Separates(s.train, s.observe)
  BY DEF SplitInv, SplitSeparates, Separates
<1>3. CASE EvidenceChanges /\ UNCHANGED <<store, pc, mem, torn, factory>>
  <2>1. \A e \in Events : alone[e] \subseteq alone'[e]
    BY <1>3, AloneGrows DEF TypeInv, EvidenceInv
  <2>2. FilesTyped'
    BY DEF TypeInv
  <2>3. ASSUME NEW s \in plans \cup generations
        PROVE  \A x \in s.train, y \in s.observe :
                 /\ x.at <= y.at
                 /\ x.source = y.source /\ x.domain = Sports =>
                      Cardinality(alone'[x.source] \cap Complete) > 1
    <3> DEFINE t == s.train
               o == s.observe
    <3>1. t \in SUBSET Evidence /\ o \in SUBSET Evidence
      BY DEF TypeInv, FactoryTyped, Splits
    <3>2. Separates(t, o)
      BY <1>2
    <3> HIDE DEF t, o
    <3>3. \A x \in t, y \in o :
            /\ x.at <= y.at
            /\ x.source = y.source /\ x.domain = Sports =>
                 Cardinality(alone'[x.source] \cap Complete) > 1
      BY <2>1, <2>2, <3>1, <3>2, SeparatesStays
    <3> QED
      BY <3>3 DEF t, o
  <2>4. plans' = plans /\ generations' = generations
    BY <1>3 DEF factory
  <2>5. SplitSeparates'
    BY <2>3, <2>4 DEF SplitSeparates
  <2> QED
    BY <1>1, <2>5 DEF SplitInv
<1>4. ASSUME NEW p \in Procs, RouteStep(p), UNCHANGED <<files, store, torn>>
      PROVE  SplitInv'
  <2>1. Separates(mem[p].train, mem[p].observe)
    BY DEF SplitInv, SplitsHeld
  <2>2. \A s \in (plans \cup generations)' : Separates(s.train, s.observe)
    BY <1>2, <1>4, <2>1, SplitsAdded
  <2>3. alone' = alone
    BY <1>4 DEF files
  <2>4. SplitSeparates'
    BY <2>2, <2>3 DEF SplitSeparates, Separates
  <2> QED
    BY <1>1, <2>4 DEF SplitInv
<1>5. CASE UNCHANGED <<files, factory>>
  <2>1. alone' = alone /\ plans' = plans /\ generations' = generations
    BY <1>5 DEF files, factory
  <2>2. SplitSeparates'
    BY <2>1 DEF SplitInv, SplitSeparates
  <2> QED
    BY <1>1, <2>2 DEF SplitInv
<1> QED
  BY <1>3, <1>4, <1>5, StepKinds

LEMMA SplitInvariant == WorldSpec => []SplitInv
<1>1. WorldInit => SplitInv
  BY DEF WorldInit, NoMemory, SplitInv, SplitSeparates, SplitsHeld, Separates
<1>2. /\ TypeInv /\ EvidenceInv /\ SplitInv /\ (TypeInv /\ EvidenceInv)' /\ [WorldNext]_worldVars
      => SplitInv'
  BY SplitInvStep
<1> QED
  BY <1>1, <1>2, StoreInvariant, PTL DEF WorldSpec

(* What is trained on and what is observed are different events, before    *)
(* and after one another: of every plan and every generation of any number *)
(* of passes, whatever the result files say at each of them.               *)
THEOREM SplitsSeparate == WorldSpec => []SplitSeparates
<1>1. SplitInv => SplitSeparates
  BY DEF SplitInv
<1> QED
  BY <1>1, SplitInvariant, PTL
----------------------------------------------------------------------------
(* The numbers of the generations.                                         *)

(* What a route has to keep for its generations to stay in order.          *)
LEMMA NumberedStays ==
  ASSUME NEW r \in Routes, Numbered(r),
         networks'[r].gen = networks[r].gen, networks'[r].last = networks[r].last,
         \A g : g \in generations' /\ g.net = r <=> g \in generations /\ g.net = r,
         \A u \in trials : u.net = r /\ u.gen \in 1 .. networks[r].gen => u \in trials',
         published \subseteq published',
         \A a \in published' : a[1] = r => a \in published \/ a[2] \in 1 .. networks[r].gen,
         \A b \in bundles' : b[1] = r =>
           \/ b \in bundles
           \/ /\ b[2] \in 1 .. networks[r].gen
              /\ {<<r, b[2], "NETWORK_ARTIFACT">>, <<r, b[2], "BEHAVIOR_ARTIFACT">>}
                   \subseteq published'
  PROVE  Numbered(r)'
<1> DEFINE G == Of(r)
           n == networks[r].gen
<1>1. Of(r)' = G /\ networks'[r].gen = n
  BY DEF Of
<1>2. /\ {g.gen : g \in G} = 1 .. n
      /\ \A g \in G : /\ g.gen = n => Sized(g) = networks[r].last
                      /\ \E u \in trials : u.net = r /\ u.gen = g.gen /\ u.passed
      /\ \A a \in published : a[1] = r => a[2] \in 1 .. n
      /\ \A m \in 1 .. n : <<r, m>> \in bundles =>
           {<<r, m, "NETWORK_ARTIFACT">>, <<r, m, "BEHAVIOR_ARTIFACT">>} \subseteq published
  BY DEF Numbered, InOrder
<1>3. /\ \A b \in bundles : b[1] = r => b[2] \in 1 .. n
      /\ GrownTo(r)
  BY DEF Numbered
<1> HIDE DEF G
<1>4. \A g \in G : /\ g.gen = n => Sized(g) = networks'[r].last
                   /\ \E u \in trials' : u.net = r /\ u.gen = g.gen /\ u.passed
  <2> TAKE g \in G
  <2>1. g.gen \in 1 .. n
    BY <1>2
  <2> QED
    BY <1>2, <2>1
<1>5. \A a \in published' : a[1] = r => a[2] \in 1 .. n
  BY <1>2
<1>6. \A m \in 1 .. n : <<r, m>> \in bundles' =>
        {<<r, m, "NETWORK_ARTIFACT">>, <<r, m, "BEHAVIOR_ARTIFACT">>} \subseteq published'
  <2> TAKE m \in 1 .. n
  <2>1. <<r, m>>[1] = r /\ <<r, m>>[2] = m
    OBVIOUS
  <2> QED
    BY <1>2, <2>1
<1>7. \A b \in bundles' : b[1] = r => b[2] \in 1 .. n
  BY <1>3
<1>8. InOrder(r)'
  BY <1>1, <1>2, <1>4, <1>5, <1>6 DEF InOrder
<1>9. GrownTo(r)'
  BY <1>1, <1>3 DEF GrownTo, G
<1> QED
  BY <1>1, <1>7, <1>8, <1>9 DEF Numbered

(* What a process has read of a route holds while it is not written.       *)
LEMMA CopyStays ==
  ASSUME NEW q \in Procs, NEW r \in Routes, CopyHolds(q, r),
         pc'[q] = pc[q], mem'[q] = mem[q], networks'[r] = networks[r],
         \A u \in trials : u.net = r => u \in trials', published \subseteq published'
  PROVE  CopyHolds(q, r)'
<1>1. ASSUME NEW k \in mem[q].passing \ mem[q].saving, Saved(r, mem[q].net.gen + 1, k)
      PROVE  Saved(r, mem[q].net.gen + 1, k)'
  BY <1>1 DEF Saved
<1>2. pc[q] \in {"saving", "trials"} =>
        \A k \in mem'[q].passing \ mem'[q].saving : Saved(r, mem[q].net.gen + 1, k)'
  BY <1>1 DEF CopyHolds
<1> QED
  BY <1>2 DEF CopyHolds

(* The copies of a route the stepping process is not on afterwards.        *)
LEMMA HeldByOthers ==
  ASSUME NEW p \in Procs, Others(p), NEW r \in Routes, Held(r), ~On(p, r)',
         networks'[r] = networks[r], \A u \in trials : u.net = r => u \in trials',
         published \subseteq published'
  PROVE  Held(r)'
<1>1. \A q \in Procs : On(q, r)' => q # p /\ On(q, r) /\ pc'[q] = pc[q] /\ mem'[q] = mem[q]
  BY DEF Others, On
<1>2. OneEvaluates(r)'
  BY <1>1 DEF Held, OneEvaluates
<1>3. ASSUME NEW q \in Procs, On(q, r)' PROVE CopyHolds(q, r)'
  <2>1. CopyHolds(q, r) /\ pc'[q] = pc[q] /\ mem'[q] = mem[q]
    BY <1>1, <1>3 DEF Held
  <2> QED
    BY <2>1, CopyStays
<1> QED
  BY <1>2, <1>3 DEF Held

(* The copy of a route the stepping process alone is on.                   *)
LEMMA HeldAlone ==
  ASSUME NEW p \in Procs, Others(p), NEW r \in Routes,
         \A q \in Procs : On(q, r) => q = p,
         On(p, r)' => CopyHolds(p, r)'
  PROVE  Held(r)'
<1>1. \A q \in Procs : On(q, r)' => q = p
  BY DEF Others, On
<1> QED
  BY <1>1 DEF Held, OneEvaluates

(* Steps outside evaluate_route, and those that end it without a trace.    *)
LEMMA RouteFrame ==
  ASSUME RouteInv, NEW p \in Procs, Others(p), pc'[p] \notin Evaluating, UNCHANGED factory
  PROVE  RouteInv'
<1> SUFFICES ASSUME NEW r \in Routes, r \notin overlapped PROVE Held(r)' /\ Numbered(r)'
  BY DEF RouteInv, factory
<1>1. Held(r) /\ Numbered(r)
  BY DEF RouteInv
<1>2. Held(r)'
  BY <1>1, HeldByOthers DEF On, factory
<1>3. Numbered(r)'
  BY <1>1 DEF Numbered, InOrder, GrownTo, Of, factory
<1> QED
  BY <1>2, <1>3

LEMMA EnsureKeeps ==
  ASSUME TypeInv, RouteInv, NEW p \in Procs, ensure_network(p)
  PROVE  RouteInv'
<1>1. PICK s \in Routes, row \in Networks :
        /\ mem'[p].route = s /\ mem'[p].net = row
        /\ networks' = [networks EXCEPT ![s] = row]
        /\ row.gen = networks[s].gen /\ row.last = networks[s].last
        /\ overlapped' = overlapped \cup
             (IF \E q \in Procs \ {p} : pc[q] \in Evaluating /\ mem[q].route = s
                THEN {s} ELSE {})
  BY EnsureEffect
<1>2. Others(p) /\ pc'[p] = "route"
  BY EnsureEffect
<1>3. UNCHANGED <<trials, generations, published, bundles>>
  BY DEF ensure_network
<1>4. networks \in [Routes -> Networks]
  BY DEF TypeInv, FactoryTyped
<1> SUFFICES ASSUME NEW r \in Routes, r \notin overlapped' PROVE Held(r)' /\ Numbered(r)'
  BY DEF RouteInv
<1>5. r \notin overlapped /\ Held(r) /\ Numbered(r)
  BY <1>1 DEF RouteInv
<1>6. networks'[r].gen = networks[r].gen /\ networks'[r].last = networks[r].last
  BY <1>1, <1>4
<1>7. Numbered(r)'
  BY <1>3, <1>5, <1>6, NumberedStays
<1>8. CASE r = s
  <2>1. \A q \in Procs : On(q, r) => q = p
    BY <1>1, <1>8 DEF On
  <2>2. networks'[r] = mem'[p].net
    BY <1>1, <1>4, <1>8
  <2>3. CopyHolds(p, r)'
    BY <1>2, <2>2 DEF CopyHolds
  <2> QED
    BY <1>2, <1>7, <2>1, <2>3, HeldAlone
<1>9. CASE r # s
  <2>1. networks'[r] = networks[r] /\ ~On(p, r)'
    BY <1>1, <1>4, <1>9 DEF On
  <2> QED
    BY <1>2, <1>3, <1>5, <1>7, <2>1, HeldByOthers
<1> QED
  BY <1>8, <1>9

(* A route is left with another status, or with its bundle on disk.        *)
LEMMA LeaveKeeps ==
  ASSUME TypeInv, RouteInv, NEW p \in Procs,
         Wait(p) \/ CandidatesReady(p) \/ NoChampion(p) \/ WriteBundle(p)
  PROVE  RouteInv'
<1> DEFINE s == mem[p].route
<1>1. Others(p) /\ pc'[p] = "routes"
  BY RouteEndEffect DEF TypeInv, Typed
<1>2. /\ UNCHANGED <<trials, generations, published, overlapped>>
      /\ networks' = networks \/ \E status : networks' = [networks EXCEPT ![s].status = status]
      /\ bundles' = bundles \/ (pc[p] = "behaved" /\ bundles' = bundles \cup {<<s, mem[p].net.gen + 1>>})
      /\ pc[p] \in Evaluating
  BY DEF Wait, CandidatesReady, NoChampion, WriteBundle, SetStatus, Evaluating
<1>3. networks \in [Routes -> Networks] /\ s \in Routes
  BY DEF TypeInv, FactoryTyped, MemTyped, Memories
<1>4. ~\E r \in Routes : On(p, r)'
  BY <1>1 DEF On, Evaluating
<1> SUFFICES ASSUME NEW r \in Routes, r \notin overlapped PROVE Held(r)' /\ Numbered(r)'
  BY <1>2 DEF RouteInv
<1>5. Held(r) /\ Numbered(r)
  BY DEF RouteInv
<1>6. networks'[r].gen = networks[r].gen /\ networks'[r].last = networks[r].last
  <2>1. CASE \E status : networks' = [networks EXCEPT ![s].status = status]
    <3>1. PICK status : networks' = [networks EXCEPT ![s].status = status]
      BY <2>1
    <3>2. networks[r] \in Networks
      BY <1>3
    <3>3. networks'[r] = networks[r] \/ networks'[r] = [networks[r] EXCEPT !.status = status]
      BY <1>3, <3>1
    <3> QED
      BY <3>2, <3>3 DEF Networks
  <2> QED
    BY <1>2, <2>1
<1>7. Held(r)'
  <2>1. CASE r = s
    <3>1. \A q \in Procs : On(q, r) => q = p
      BY <1>2, <1>5, <2>1 DEF Held, OneEvaluates, On
    <3> QED
      BY <1>1, <1>4, <3>1, HeldAlone
  <2>2. CASE r # s
    <3>1. networks'[r] = networks[r]
      BY <1>2, <1>3, <2>2
    <3> QED
      BY <1>1, <1>2, <1>4, <1>5, <3>1, HeldByOthers
  <2> QED
    BY <2>1, <2>2
<1>8. \A b \in bundles' : b[1] = r =>
        \/ b \in bundles
        \/ /\ b[2] \in 1 .. networks[r].gen
           /\ {<<r, b[2], "NETWORK_ARTIFACT">>, <<r, b[2], "BEHAVIOR_ARTIFACT">>}
                \subseteq published'
  <2> SUFFICES ASSUME pc[p] = "behaved", r = s
               PROVE  /\ mem[p].net.gen + 1 \in 1 .. networks[r].gen
                      /\ {<<r, mem[p].net.gen + 1, "NETWORK_ARTIFACT">>,
                          <<r, mem[p].net.gen + 1, "BEHAVIOR_ARTIFACT">>} \subseteq published
    <3>1. <<s, mem[p].net.gen + 1>>[1] = s /\ <<s, mem[p].net.gen + 1>>[2] = mem[p].net.gen + 1
      OBVIOUS
    <3> QED
      BY <1>2, <3>1
  <2>1. On(p, r) /\ CopyHolds(p, r)
    BY <1>2, <1>5 DEF Held, On
  <2>2. mem[p].net.gen \in Nat
    BY DEF TypeInv, MemTyped, Memories, Networks
  <2> QED
    BY <2>1, <2>2 DEF CopyHolds
<1>9. Numbered(r)'
  BY <1>2, <1>5, <1>6, <1>8, NumberedStays
<1> QED
  BY <1>7, <1>9

(* The steps of a pass that has a ready route.                             *)
LEMMA PlanKeeps ==
  ASSUME TypeInv, RouteInv, NEW p \in Procs, PublishPlan(p)
  PROVE  RouteInv'
<1>1. Others(p) /\ mem' = mem /\ pc[p] = "trials" /\ pc'[p] = "planned"
  BY QuietEffect DEF TypeInv, Typed
<1>2. UNCHANGED <<networks, trials, generations, published, bundles, overlapped>>
  BY DEF PublishPlan
<1> SUFFICES ASSUME NEW r \in Routes, r \notin overlapped PROVE Held(r)' /\ Numbered(r)'
  BY <1>2 DEF RouteInv
<1>3. Held(r) /\ Numbered(r)
  BY DEF RouteInv
<1>4. Numbered(r)'
  BY <1>2, <1>3 DEF Numbered, InOrder, GrownTo, Of
<1>5. CASE r = mem[p].route
  <2>1. On(p, r)
    BY <1>1, <1>5 DEF On, Evaluating
  <2>2. (\A q \in Procs : On(q, r) => q = p) /\ CopyHolds(p, r)
    BY <1>3, <2>1 DEF Held, OneEvaluates
  <2>3. CopyHolds(p, r)'
    BY <1>1, <1>2, <2>2 DEF CopyHolds
  <2> QED
    BY <1>1, <1>4, <2>2, <2>3, HeldAlone
<1>6. CASE r # mem[p].route
  <2>1. ~On(p, r)'
    BY <1>1, <1>6 DEF On
  <2> QED
    BY <1>1, <1>2, <1>3, <1>4, <2>1, HeldByOthers
<1> QED
  BY <1>5, <1>6

LEMMA PublishKeeps ==
  ASSUME TypeInv, RouteInv, NEW p \in Procs, PublishNetwork(p) \/ PublishBehavior(p)
  PROVE  RouteInv'
<1> DEFINE n == mem[p].net.gen + 1
<1>1. PICK type \in {"NETWORK_ARTIFACT", "BEHAVIOR_ARTIFACT"} :
        /\ published' = published \cup {<<mem[p].route, n, type>>}
        /\ \/ type = "NETWORK_ARTIFACT" /\ pc[p] = "committed" /\ pc'[p] = "published"
           \/ type = "BEHAVIOR_ARTIFACT" /\ pc[p] = "published" /\ pc'[p] = "behaved"
  <2>1. CASE PublishNetwork(p)
    BY <2>1, QuietEffect DEF PublishNetwork, Publish, TypeInv, Typed
  <2>2. CASE PublishBehavior(p)
    BY <2>2, QuietEffect DEF PublishBehavior, Publish, TypeInv, Typed
  <2> QED
    BY <2>1, <2>2
<1>2. Others(p) /\ mem' = mem
  BY QuietEffect DEF TypeInv, Typed
<1>3. UNCHANGED <<networks, trials, generations, bundles, overlapped>>
  BY DEF PublishNetwork, PublishBehavior, Publish
<1>4. n \in Nat /\ n >= 1
  BY DEF TypeInv, MemTyped, Memories, Networks
<1> SUFFICES ASSUME NEW r \in Routes, r \notin overlapped PROVE Held(r)' /\ Numbered(r)'
  BY <1>3 DEF RouteInv
<1>5. Held(r) /\ Numbered(r)
  BY DEF RouteInv
<1>6. r = mem[p].route => /\ \A q \in Procs : On(q, r) => q = p
                          /\ CopyHolds(p, r) /\ networks[r].gen = n
  <2> SUFFICES ASSUME r = mem[p].route
               PROVE  /\ \A q \in Procs : On(q, r) => q = p
                      /\ CopyHolds(p, r) /\ networks[r].gen = n
    OBVIOUS
  <2>1. On(p, r)
    BY <1>1 DEF On, Evaluating
  <2>2. (\A q \in Procs : On(q, r) => q = p) /\ CopyHolds(p, r)
    BY <1>5, <2>1 DEF Held, OneEvaluates
  <2>3. networks[r].gen = n
    BY <1>1, <2>2 DEF CopyHolds
  <2> QED
    BY <2>2, <2>3
<1> HIDE DEF n
<1>7. Numbered(r)'
  <2>1. \A a \in published' : a[1] = r => a \in published \/ a[2] \in 1 .. networks[r].gen
    <3>1. <<mem[p].route, n, type>>[1] = mem[p].route /\ <<mem[p].route, n, type>>[2] = n
      OBVIOUS
    <3> QED
      BY <1>1, <1>4, <1>6, <3>1
  <2> QED
    BY <1>1, <1>3, <1>5, <2>1, NumberedStays
<1>8. CASE r = mem[p].route
  <2>1. CopyHolds(p, r)'
    BY <1>1, <1>2, <1>3, <1>6, <1>8 DEF CopyHolds, n
  <2> QED
    BY <1>2, <1>6, <1>7, <1>8, <2>1, HeldAlone
<1>9. CASE r # mem[p].route
  <2>1. ~On(p, r)'
    BY <1>2, <1>9 DEF On
  <2> QED
    BY <1>1, <1>2, <1>3, <1>5, <1>7, <2>1, HeldByOthers
<1> QED
  BY <1>8, <1>9

(* What the two gates promise of a split.                                  *)
LEMMA GrowthFacts ==
  ASSUME NEW n \in Nat, NEW last \in Nat, Grown(n, last)
  PROVE  n > last /\ 100 * (n - last) >= GrowthPercent * last
<1> DEFINE k == last * GrowthPercent
           share == (k + 99) \div 100
<1>1. k \in Nat /\ GrowthPercent * last = k
  BY FactoryAssumption
<1>2. CASE last = 0
  <2>1. k = 0
    BY <1>2, FactoryAssumption
  <2> QED
    BY <1>1, <1>2, <2>1 DEF Grown
<1>3. CASE last # 0
  <2>1. n - last >= Max({MinNew, share})
    BY <1>3 DEF Grown, decide, RequiredNew
  <2> HIDE DEF k
  <2>2. share \in Nat /\ 100 * share >= k
    BY <1>1
  <2> HIDE DEF share
  <2>3. MinNew \in Nat \ {0}
    BY FactoryAssumption
  <2>4. Max({MinNew, share}) \in Nat /\ Max({MinNew, share}) >= MinNew /\ Max({MinNew, share}) >= share
    BY <2>2, <2>3, MaxOfTwo
  <2>5. n - last >= MinNew /\ n - last >= share
    BY <2>1, <2>2, <2>3, <2>4
  <2> QED
    BY <1>1, <2>2, <2>3, <2>5
<1> QED
  BY <1>2, <1>3

LEMMA TrialsKeep ==
  ASSUME TypeInv, RouteInv, NEW p \in Procs, run_trials(p)
  PROVE  RouteInv'
<1> DEFINE s == mem[p].route
           rows == RowsOf(s)
           t == mem'[p].train
           o == mem'[p].observe
<1>1. /\ Others(p) /\ pc[p] = "route" /\ pc'[p] = "saving"
      /\ mem'[p].route = s /\ mem'[p].net = mem[p].net
      /\ t \subseteq rows /\ o = rows \ t
      /\ mem'[p].passing \subseteq Kinds /\ mem'[p].saving = Kinds
  BY TrialsEffect, Zenon
<1>2. UNCHANGED <<networks, trials, generations, published, bundles, overlapped>>
  BY DEF run_trials, factory
<1>3. Ready(rows) /\ decide(Samples(rows), mem[p].net.last) # "WAIT"
  BY DEF run_trials, Gate
<1>4. Cardinality(t) + Cardinality(o) = Samples(rows) /\ Samples(rows) \in Nat
  <2>1. rows \in SUBSET experiences /\ IsFiniteSet(experiences)
    BY DEF TypeInv, StoreTyped, RowsOf, load_verified_experiences
  <2>2. IsFiniteSet(rows) /\ t \in SUBSET rows /\ o = rows \ t
    BY <1>1, <2>1, FS_Subset
  <2> HIDE DEF rows, t, o
  <2>3. IsFiniteSet(t) /\ rows \cap t = t
    BY <2>2, FS_Subset
  <2>4. Cardinality(o) = Cardinality(rows) - Cardinality(t)
    BY <2>2, <2>3, FS_Difference
  <2>5. Cardinality(rows) \in Nat /\ Cardinality(t) \in Nat
    BY <2>2, <2>3, FS_CardinalityType
  <2> QED
    BY <2>4, <2>5 DEF Samples
<1>5. Grown(Cardinality(t) + Cardinality(o), mem'[p].net.last)
  <2>1. Samples(rows) > 0
    BY <1>3, <1>4, FactoryAssumption DEF Ready
  <2> HIDE DEF rows, t, o
  <2> QED
    BY <1>1, <1>3, <1>4, <2>1 DEF Grown
<1> HIDE DEF t, o, rows
<1> SUFFICES ASSUME NEW r \in Routes, r \notin overlapped PROVE Held(r)' /\ Numbered(r)'
  BY <1>2 DEF RouteInv
<1>6. Held(r) /\ Numbered(r)
  BY DEF RouteInv
<1>7. Numbered(r)'
  BY <1>2, <1>6 DEF Numbered, InOrder, GrownTo, Of
<1>8. CASE r = s
  <2>1. On(p, r)
    BY <1>1, <1>8 DEF On, Evaluating
  <2>2. (\A q \in Procs : On(q, r) => q = p) /\ networks[r] = mem[p].net
    BY <1>1, <1>6, <2>1 DEF Held, OneEvaluates, CopyHolds
  <2>3. CopyHolds(p, r)'
    <3>1. networks'[r] = mem'[p].net
      BY <1>1, <1>2, <2>2
    <3> QED
      BY <1>1, <1>5, <3>1 DEF CopyHolds, t, o
  <2> QED
    BY <1>1, <1>7, <2>2, <2>3, HeldAlone
<1>9. CASE r # s
  <2>1. ~On(p, r)'
    BY <1>1, <1>9 DEF On
  <2> QED
    BY <1>1, <1>2, <1>6, <1>7, <2>1, HeldByOthers
<1> QED
  BY <1>8, <1>9

LEMMA SaveKeeps ==
  ASSUME TypeInv, RouteInv, NEW p \in Procs, save_trial(p)
  PROVE  RouteInv'
<1> DEFINE s == mem[p].route
           n == mem[p].net.gen + 1
<1>1. PICK k \in Kinds :
        /\ mem'[p].saving = mem[p].saving \ {k}
        /\ pc'[p] = "trials" => mem'[p].saving = {}
        /\ trials' = {u \in trials : ~(u.net = s /\ u.gen = n /\ u.kind = k)} \cup
                     {[net |-> s, gen |-> n, kind |-> k, passed |-> k \in mem[p].passing]}
  BY SaveEffect
<1>2. /\ Others(p) /\ pc[p] = "saving" /\ pc'[p] \in {"saving", "trials"}
      /\ mem'[p].route = s /\ mem'[p].net = mem[p].net
      /\ mem'[p].train = mem[p].train /\ mem'[p].observe = mem[p].observe
      /\ mem'[p].passing = mem[p].passing
  BY SaveEffect DEF SameSplit
<1>3. UNCHANGED <<networks, generations, published, bundles, overlapped>>
  BY DEF save_trial
<1>4. mem[p].net.gen \in Nat
  BY DEF TypeInv, MemTyped, Memories, Networks
<1> DEFINE v == [net |-> s, gen |-> n, kind |-> k, passed |-> k \in mem[p].passing]
<1>5. v \in trials' /\ v.net = s /\ v.gen = n /\ v.kind = k
  BY <1>1
<1>6. k \in mem[p].passing => v.passed
  BY Zenon
<1>7. \A u \in trials : u.net # s \/ u.gen # n \/ u.kind # k => u \in trials'
  BY <1>1
<1> HIDE DEF v, n
<1> SUFFICES ASSUME NEW r \in Routes, r \notin overlapped PROVE Held(r)' /\ Numbered(r)'
  BY <1>3 DEF RouteInv
<1>8. Held(r) /\ Numbered(r)
  BY DEF RouteInv
<1>9. CASE r = s
  <2>1. On(p, r)
    BY <1>2, <1>9 DEF On, Evaluating
  <2>2. (\A q \in Procs : On(q, r) => q = p) /\ CopyHolds(p, r)
    BY <1>8, <2>1 DEF Held, OneEvaluates
  <2>3. \A j \in mem[p].passing \ mem[p].saving : Saved(r, n, j)
    BY <1>2, <2>2 DEF CopyHolds, n
  <2>4. ASSUME NEW j \in mem'[p].passing \ mem'[p].saving PROVE Saved(r, n, j)'
    <3>1. CASE j = k
      <4>1. v.passed
        BY <1>2, <1>6, <2>4, <3>1
      <4>2. n' = n
        BY <1>2 DEF n
      <4> QED
        BY <1>5, <1>9, <3>1, <4>1, <4>2 DEF Saved
    <3>2. CASE j # k
      <4>1. Saved(r, n, j)
        BY <1>1, <1>2, <2>3, <2>4, <3>2
      <4>2. PICK u \in trials : u.net = r /\ u.gen = n /\ u.kind = j /\ u.passed
        BY <4>1 DEF Saved
      <4>3. u \in trials'
        BY <1>7, <3>2, <4>2
      <4>4. n' = n
        BY <1>2 DEF n
      <4> QED
        BY <4>2, <4>3, <4>4 DEF Saved
    <3> QED
      BY <3>1, <3>2
  <2>5. CopyHolds(p, r)'
    BY <1>1, <1>2, <1>3, <2>2, <2>4 DEF CopyHolds, n
  <2>6. networks[r] = mem[p].net
    BY <1>2, <2>2 DEF CopyHolds
  <2>7. \A u \in trials : u.net = r /\ u.gen \in 1 .. networks[r].gen => u \in trials'
    BY <1>4, <1>7, <2>6 DEF n
  <2>8. Numbered(r)'
    BY <1>3, <1>8, <2>7, NumberedStays
  <2> QED
    BY <1>2, <2>2, <2>5, <2>8, HeldAlone
<1>10. CASE r # s
  <2>1. ~On(p, r)'
    BY <1>2, <1>10 DEF On
  <2>2. \A u \in trials : u.net = r => u \in trials'
    BY <1>7, <1>10
  <2> QED
    BY <1>2, <1>3, <1>8, <2>1, <2>2, HeldByOthers, NumberedStays
<1> QED
  BY <1>9, <1>10

LEMMA CommitKeeps ==
  ASSUME TypeInv, RouteInv, NEW p \in Procs, commit_generation(p)
  PROVE  RouteInv'
<1> DEFINE s == mem[p].route
           n == mem[p].net.gen + 1
           g == [net |-> s, gen |-> n, train |-> mem[p].train, observe |-> mem[p].observe]
           row == [status |-> "ACTIVE", gen |-> n, last |-> Sized(g)]
<1>1. /\ generations' = {h \in generations : ~(h.net = s /\ h.gen = n)} \cup {g}
      /\ networks' = [networks EXCEPT ![s] = row]
      /\ UNCHANGED <<mem, trials, plans, published, bundles, overlapped>>
      /\ mem[p].passing # {} /\ row \in Networks /\ s \in Routes
  BY CommitEffect
<1>2. Others(p) /\ pc[p] = "trials" /\ pc'[p] = "committed"
  BY QuietEffect DEF TypeInv, Typed
<1>3. networks \in [Routes -> Networks] /\ mem[p].net.gen \in Nat /\ n \in Nat
      /\ mem[p].net.last \in Nat
  BY DEF TypeInv, FactoryTyped, MemTyped, Memories, Networks
<1>4. g.net = s /\ g.gen = n /\ row.gen = n /\ row.last = Sized(g) /\ Sized(g) \in Nat
      /\ Sized(g) = Cardinality(mem[p].train) + Cardinality(mem[p].observe)
  BY <1>1 DEF Networks, Sized
<1> HIDE DEF g, row
<1> SUFFICES ASSUME NEW r \in Routes, r \notin overlapped PROVE Held(r)' /\ Numbered(r)'
  BY <1>1 DEF RouteInv
<1>5. Held(r) /\ Numbered(r)
  BY DEF RouteInv
<1>6. CASE r # s
  <2>1. networks'[r] = networks[r] /\ ~On(p, r)'
    BY <1>1, <1>3, <1>6 DEF On
  <2>2. \A h : h \in generations' /\ h.net = r <=> h \in generations /\ h.net = r
    BY <1>1, <1>4, <1>6
  <2>3. Numbered(r)'
    BY <1>1, <1>5, <2>1, <2>2, NumberedStays
  <2> QED
    BY <1>1, <1>2, <1>5, <2>1, <2>3, HeldByOthers
<1>7. CASE r = s
  <2> DEFINE last == mem[p].net.gen
             G == Of(r)
  <2>1. On(p, r)
    BY <1>2, <1>7 DEF On, Evaluating
  <2>2. (\A q \in Procs : On(q, r) => q = p) /\ CopyHolds(p, r)
    BY <1>5, <2>1 DEF Held, OneEvaluates
  <2>3. /\ networks[r] = mem[p].net /\ networks[r].gen = last
        /\ Grown(Sized(g), mem[p].net.last)
        /\ \E u \in trials : u.net = r /\ u.gen = n /\ u.passed
    <3>1. PICK k \in mem[p].passing : TRUE
      BY <1>1
    <3>2. mem[p].saving = {}
      BY <1>2, <2>2 DEF CopyHolds
    <3>3. Saved(r, n, k)
      BY <1>2, <2>2, <3>1, <3>2 DEF CopyHolds
    <3> QED
      BY <1>2, <1>4, <2>2, <3>3 DEF CopyHolds, Saved
  <2>4. networks'[r] = row
    BY <1>1, <1>3, <1>7
  <2>5. CopyHolds(p, r)'
    BY <1>1, <1>2, <1>4, <2>4 DEF CopyHolds, n
  <2>6. Held(r)'
    BY <1>2, <2>2, <2>5, HeldAlone
  <2>7. /\ {h.gen : h \in G} = 1 .. last
        /\ \A h \in G : /\ h.gen = last => Sized(h) = mem[p].net.last
                        /\ \E u \in trials : u.net = r /\ u.gen = h.gen /\ u.passed
        /\ \A a \in published : a[1] = r => a[2] \in 1 .. last
        /\ \A m \in 1 .. last : <<r, m>> \in bundles =>
             {<<r, m, "NETWORK_ARTIFACT">>, <<r, m, "BEHAVIOR_ARTIFACT">>} \subseteq published
        /\ \A b \in bundles : b[1] = r => b[2] \in 1 .. last
        /\ GrownTo(r)
    <3>1. /\ {h.gen : h \in Of(r)} = 1 .. networks[r].gen
          /\ \A h \in Of(r) :
               /\ h.gen = networks[r].gen => Sized(h) = networks[r].last
               /\ \E u \in trials : u.net = r /\ u.gen = h.gen /\ u.passed
          /\ \A a \in published : a[1] = r => a[2] \in 1 .. networks[r].gen
          /\ \A m \in 1 .. networks[r].gen : <<r, m>> \in bundles =>
               {<<r, m, "NETWORK_ARTIFACT">>, <<r, m, "BEHAVIOR_ARTIFACT">>} \subseteq published
      BY <1>5 DEF Numbered, InOrder
    <3>2. (\A b \in bundles : b[1] = r => b[2] \in 1 .. networks[r].gen) /\ GrownTo(r)
      BY <1>5 DEF Numbered
    <3>3. networks[r].gen = last /\ networks[r].last = mem[p].net.last
      BY <2>3
    <3> HIDE DEF last
    <3> QED
      BY <3>1, <3>2, <3>3, Zenon
  <2>8. \A h \in G : h.gen \in 1 .. last
    BY <2>7
  <2>9. Of(r)' = G \cup {g}
    <3>1. \A h : h \in generations' /\ h.net = r <=> h \in G \/ h = g
      BY <1>1, <1>3, <1>4, <1>7, <2>8 DEF Of
    <3> QED
      BY <3>1 DEF Of
  <2> DEFINE H == Of(r)'
  <2> HIDE DEF G, last, n
  <2>10. last \in Nat /\ n = last + 1
    BY <1>3 DEF last, n
  <2>11. {h.gen : h \in H} = 1 .. n
    <3>1. ASSUME NEW m \in 1 .. n PROVE \E h \in H : h.gen = m
      <4>1. CASE m = n
        BY <1>4, <2>9, <4>1
      <4>2. CASE m # n
        <5>1. m \in 1 .. last
          BY <2>10, <4>2
        <5>2. \E h \in G : h.gen = m
          BY <2>7, <5>1
        <5> QED
          BY <2>9, <5>2
      <4> QED
        BY <4>1, <4>2
    <3>2. ASSUME NEW h \in H PROVE h.gen \in 1 .. n
      BY <1>4, <2>8, <2>9, <2>10
    <3> HIDE DEF H
    <3> QED
      BY <3>1, <3>2
  <2>12. \A h \in H : /\ h.gen = n => Sized(h) = Sized(g)
                      /\ \E u \in trials' : u.net = r /\ u.gen = h.gen /\ u.passed
    <3> TAKE h \in H
    <3>1. CASE h = g
      BY <1>1, <1>4, <2>3, <3>1
    <3>2. CASE h \in G
      BY <1>1, <2>7, <2>8, <2>10, <3>2
    <3> QED
      BY <2>9, <3>1, <3>2
  <2>13. \A a \in published' : a[1] = r => a[2] \in 1 .. n
    BY <1>1, <2>7, <2>10
  <2>14. \A b \in bundles' : b[1] = r => b[2] \in 1 .. last
    BY <1>1, <2>7
  <2>15. \A m \in 1 .. n : <<r, m>> \in bundles' =>
           {<<r, m, "NETWORK_ARTIFACT">>, <<r, m, "BEHAVIOR_ARTIFACT">>} \subseteq published'
    <3> SUFFICES ASSUME NEW m \in 1 .. n, <<r, m>> \in bundles'
                 PROVE  {<<r, m, "NETWORK_ARTIFACT">>, <<r, m, "BEHAVIOR_ARTIFACT">>}
                          \subseteq published'
      OBVIOUS
    <3>1. <<r, m>>[1] = r /\ <<r, m>>[2] = m
      OBVIOUS
    <3>2. m \in 1 .. last
      BY <2>14, <3>1
    <3> QED
      BY <1>1, <2>7, <3>2
  <2>16. InOrder(r)'
    BY <1>4, <2>4, <2>11, <2>12, <2>13, <2>15 DEF InOrder
  <2>17. GrownTo(r)'
    <3> SUFFICES ASSUME NEW x \in H, NEW y \in H, y.gen = x.gen + 1
                 PROVE  /\ Sized(y) > Sized(x)
                        /\ 100 * (Sized(y) - Sized(x)) >= GrowthPercent * Sized(x)
      BY DEF GrownTo
    <3>1. CASE x \in G /\ y \in G
      BY <2>7, <3>1 DEF GrownTo, G
    <3>2. CASE x \in G /\ y = g
      <4>1. x.gen = last
        BY <1>4, <2>8, <2>10, <3>2
      <4>2. Sized(x) = mem[p].net.last
        BY <2>7, <3>2, <4>1
      <4> QED
        BY <1>3, <1>4, <2>3, <3>2, <4>2, GrowthFacts
    <3>3. CASE x = g
      <4>1. x.gen = last + 1 /\ y.gen \in 1 .. n
        BY <1>4, <2>10, <2>11, <3>3
      <4> QED
        BY <2>10, <4>1
    <3> QED
      BY <2>9, <3>1, <3>2, <3>3
  <2>18. \A b \in bundles' : b[1] = r => b[2] \in 1 .. networks'[r].gen
    BY <1>4, <2>4, <2>10, <2>14
  <2> QED
    BY <2>6, <2>16, <2>17, <2>18 DEF Numbered
<1> QED
  BY <1>6, <1>7

LEMMA RouteInvStep ==
  ASSUME TypeInv, RouteInv, [WorldNext]_worldVars
  PROVE  RouteInv'
<1> Typed
  BY DEF TypeInv, Typed
<1>1. CASE UNCHANGED <<pc, mem, factory>>
  <2> SUFFICES ASSUME NEW r \in Routes, r \notin overlapped PROVE Held(r)' /\ Numbered(r)'
    BY <1>1 DEF RouteInv, factory
  <2>1. Held(r) /\ Numbered(r)
    BY DEF RouteInv
  <2>2. Held(r)'
    <3>1. ASSUME NEW q \in Procs, On(q, r)' PROVE CopyHolds(q, r)'
      <4>1. CopyHolds(q, r)
        BY <1>1, <2>1, <3>1 DEF Held, On
      <4> QED
        BY <1>1, <4>1, CopyStays DEF factory
    <3> QED
      BY <1>1, <2>1, <3>1 DEF Held, OneEvaluates, On
  <2>3. Numbered(r)'
    BY <1>1, <2>1 DEF Numbered, InOrder, GrownTo, Of, factory
  <2> QED
    BY <2>2, <2>3
<1>2. ASSUME NEW p \in Procs, EvidenceStep(p), UNCHANGED factory
      PROVE  RouteInv'
  <2>1. Others(p)
    BY <1>2, StepTyped
  <2>2. pc'[p] \in {"pairs", "rows", "experience", "series", "periods"}
    BY <1>2 DEF EvidenceStep, ReadPair, RecordRow, InsertExperience, RowsDone, PairsDone,
                ReadSeries, InsertPeriod, RecordDomain, Typed, PcTyped
  <2> QED
    BY <1>2, <2>1, <2>2, RouteFrame DEF Evaluating
<1>3. ASSUME NEW p \in Procs, PassStep(p), UNCHANGED factory
      PROVE  RouteInv'
  <2>1. pc'[p] \in Resting \cup {"pairs", "routes"}
    BY <1>3, StartEffect, InheritEffect, EndEffect DEF PassStep
  <2> QED
    BY <1>3, <2>1, StepTyped, RouteFrame DEF Evaluating, Resting
<1>4. ASSUME NEW p \in Procs, RouteStep(p)
      PROVE  RouteInv'
  <2>1. CASE QueueRaises(p)
    <3>1. Others(p) /\ pc'[p] \in Resting
      BY <2>1, EndEffect
    <3> QED
      BY <2>1, <3>1, RouteFrame DEF QueueRaises, Evaluating, Resting
  <2> QED
    BY <1>4, <2>1, EnsureKeeps, LeaveKeeps, PlanKeeps, PublishKeeps, TrialsKeep, SaveKeeps,
       CommitKeeps
       DEF RouteStep
<1> QED
  BY <1>1, <1>2, <1>3, <1>4, StepKinds

LEMMA RouteInvariant == WorldSpec => []RouteInv
<1>1. WorldInit => RouteInv
  <2> SUFFICES ASSUME WorldInit, NEW r \in Routes PROVE Held(r) /\ Numbered(r)
    BY DEF RouteInv
  <2>1. /\ \A p \in Procs : pc[p] = "idle"
        /\ networks[r].gen = 0 /\ Of(r) = {} /\ published = {} /\ bundles = {}
    BY DEF WorldInit, NoNetwork, Of
  <2>2. Held(r)
    BY <2>1 DEF Held, OneEvaluates, On, Evaluating
  <2>3. 1 .. networks[r].gen = {} /\ {g.gen : g \in Of(r)} = {}
    BY <2>1
  <2>4. Numbered(r)
    BY <2>1, <2>3 DEF Numbered, InOrder, GrownTo
  <2> QED
    BY <2>2, <2>4
<1>2. TypeInv /\ RouteInv /\ [WorldNext]_worldVars => RouteInv'
  BY RouteInvStep
<1> QED
  BY <1>1, <1>2, StoreInvariant, PTL DEF WorldSpec

(* No number is left out, whoever evaluates: a number is one more than one *)
(* that a process has read, and what was read is never taken back.         *)
Numbers(r) == {g.gen : g \in Of(r)}

GapFree(r) ==
  /\ networks[r].gen \in Numbers(r) \cup {0}
  /\ \A n \in Numbers(r) : n \in Nat /\ n > 0 /\ 1 .. n \subseteq Numbers(r)

CopyCounts(p) ==
  pc[p] \in {"route", "saving", "trials"} => mem[p].net.gen \in Numbers(mem[p].route) \cup {0}

GapInv == (\A r \in Routes : GapFree(r)) /\ \A p \in Procs : CopyCounts(p)

LEMMA GapFrame ==
  ASSUME GapInv, NEW p \in Procs, Others(p), UNCHANGED generations,
         \A r \in Routes : networks'[r].gen = networks[r].gen, CopyCounts(p)'
  PROVE  GapInv'
<1>1. \A r : Numbers(r)' = Numbers(r)
  BY DEF Numbers, Of
<1>2. \A r \in Routes : GapFree(r)'
  BY <1>1 DEF GapInv, GapFree
<1>3. ASSUME NEW q \in Procs, q # p PROVE CopyCounts(q)'
  BY <1>1, <1>3 DEF GapInv, CopyCounts, Others
<1> QED
  BY <1>2, <1>3 DEF GapInv

LEMMA CommitLeavesNoGap ==
  ASSUME TypeInv, GapInv, NEW p \in Procs, commit_generation(p)
  PROVE  GapInv'
<1> DEFINE s == mem[p].route
           n == mem[p].net.gen + 1
           g == [net |-> s, gen |-> n, train |-> mem[p].train, observe |-> mem[p].observe]
           row == [status |-> "ACTIVE", gen |-> n, last |-> Sized(g)]
<1>1. /\ generations' = {h \in generations : ~(h.net = s /\ h.gen = n)} \cup {g}
      /\ networks' = [networks EXCEPT ![s] = row] /\ s \in Routes
  BY CommitEffect
<1>2. Others(p) /\ mem' = mem /\ pc[p] = "trials" /\ pc'[p] = "committed"
  BY QuietEffect DEF TypeInv, Typed
<1>3. networks \in [Routes -> Networks] /\ mem[p].net.gen \in Nat
  BY DEF TypeInv, FactoryTyped, MemTyped, Memories, Networks
<1>4. g.net = s /\ g.gen = n /\ row.gen = n
  OBVIOUS
<1>5. mem[p].net.gen \in Numbers(s) \cup {0}
  BY <1>2 DEF GapInv, CopyCounts
<1> HIDE DEF g, row
<1>6. \A r : r # s => Numbers(r)' = Numbers(r)
  BY <1>1, <1>4 DEF Numbers, Of
<1>7. Numbers(s)' = Numbers(s) \cup {n}
  <2>1. ASSUME NEW m \in Numbers(s) PROVE m \in Numbers(s)'
    <3>1. PICK h \in generations : h.net = s /\ h.gen = m
      BY DEF Numbers, Of
    <3>2. CASE m = n
      <4>1. g \in generations' /\ g.net = s /\ g.gen = m
        BY <1>1, <1>4, <3>2
      <4> QED
        BY <1>2, <4>1 DEF Numbers, Of
    <3>3. CASE m # n
      <4>1. h \in generations'
        BY <1>1, <3>1, <3>3
      <4> QED
        BY <1>2, <3>1, <4>1 DEF Numbers, Of
    <3> QED
      BY <3>2, <3>3
  <2>2. n \in Numbers(s)'
    <3>1. g \in generations' /\ g.net = s /\ g.gen = n
      BY <1>1, <1>4
    <3> QED
      BY <1>2, <3>1 DEF Numbers, Of
  <2>3. ASSUME NEW m \in Numbers(s)' PROVE m \in Numbers(s) \cup {n}
    <3>1. PICK h \in generations' : h.net = s /\ h.gen = m
      BY <1>2 DEF Numbers, Of
    <3>2. h \in generations \/ h = g
      BY <1>1
    <3> QED
      BY <1>4, <3>1, <3>2 DEF Numbers, Of
  <2> QED
    BY <2>1, <2>2, <2>3
<1>8. ASSUME NEW r \in Routes PROVE GapFree(r)'
  <2>1. CASE r # s
    <3>1. networks'[r] = networks[r]
      BY <1>1, <1>3, <2>1
    <3> QED
      BY <1>6, <2>1, <3>1 DEF GapInv, GapFree
  <2>2. CASE r = s
    <3>1. networks'[r].gen = n
      BY <1>1, <1>3, <1>4, <2>2
    <3>2. GapFree(s)
      BY <1>1 DEF GapInv
    <3>3. n \in Nat /\ n > 0
      BY <1>3
    <3>4. 1 .. n \subseteq Numbers(s) \cup {n}
      <4>1. CASE mem[p].net.gen = 0
        BY <1>3, <4>1
      <4>2. CASE mem[p].net.gen \in Numbers(s)
        <5>1. 1 .. mem[p].net.gen \subseteq Numbers(s)
          BY <3>2, <4>2 DEF GapFree
        <5> QED
          BY <1>3, <5>1
      <4> QED
        BY <1>5, <4>1, <4>2
    <3> HIDE DEF n
    <3>5. \A m \in Numbers(s) : m \in Nat /\ m > 0 /\ 1 .. m \subseteq Numbers(s)
      BY <3>2 DEF GapFree
    <3>6. Numbers(r)' = Numbers(s) \cup {n}
      BY <1>2, <1>7, <2>2
    <3>7. \A m \in Numbers(r)' : m \in Nat /\ m > 0 /\ 1 .. m \subseteq Numbers(r)'
      BY <3>3, <3>4, <3>5, <3>6
    <3> QED
      BY <3>1, <3>6, <3>7 DEF GapFree
  <2> QED
    BY <2>1, <2>2
<1>9. ASSUME NEW q \in Procs PROVE CopyCounts(q)'
  <2>1. CASE q = p
    BY <1>2, <2>1 DEF CopyCounts
  <2>2. CASE q # p
    <3>1. mem'[q] = mem[q] /\ pc'[q] = pc[q] /\ CopyCounts(q)
      BY <1>2, <2>2 DEF Others, GapInv
    <3>2. mem'[p].route = s
      BY <1>2
    <3>3. ASSUME NEW r PROVE Numbers(r) \subseteq Numbers(r)'
      BY <1>6, <1>7, <3>2
    <3> QED
      BY <3>1, <3>3 DEF CopyCounts
  <2> QED
    BY <2>1, <2>2
<1> QED
  BY <1>8, <1>9 DEF GapInv

LEMMA GapStep ==
  ASSUME TypeInv, GapInv, [WorldNext]_worldVars
  PROVE  GapInv'
<1> Typed
  BY DEF TypeInv, Typed
<1>1. CASE UNCHANGED <<pc, mem, factory>>
  BY <1>1 DEF GapInv, GapFree, CopyCounts, Numbers, Of, factory
<1>2. ASSUME NEW p \in Procs, EvidenceStep(p) \/ PassStep(p), UNCHANGED factory
      PROVE  GapInv'
  <2>1. Others(p)
    BY <1>2, StepTyped
  <2>2. CASE EvidenceStep(p)
    <3>1. pc'[p] \in {"pairs", "rows", "experience", "series", "periods"}
      BY <2>2 DEF EvidenceStep, ReadPair, RecordRow, InsertExperience, RowsDone, PairsDone,
                  ReadSeries, InsertPeriod, RecordDomain, Typed, PcTyped
    <3> QED
      BY <1>2, <2>1, <3>1, GapFrame DEF CopyCounts, factory
  <2>3. CASE PassStep(p)
    <3>1. pc'[p] \in Resting \cup {"pairs", "routes"}
      BY <2>3, StartEffect, InheritEffect, EndEffect DEF PassStep
    <3> QED
      BY <1>2, <2>1, <3>1, GapFrame DEF CopyCounts, factory, Resting
  <2> QED
    BY <1>2, <2>2, <2>3
<1>3. ASSUME NEW p \in Procs, RouteStep(p), ~commit_generation(p)
      PROVE  GapInv'
  <2>1. Others(p)
    BY <1>3, StepTyped
  <2>2. UNCHANGED generations
    BY <1>3 DEF RouteStep, ensure_network, Wait, run_trials, save_trial, QueueRaises, PublishPlan,
                CandidatesReady, NoChampion, PublishNetwork, PublishBehavior, Publish,
                WriteBundle, factory
  <2>3. networks \in [Routes -> Networks] /\ mem[p].route \in Routes
    BY DEF TypeInv, FactoryTyped, MemTyped, Memories
  <2>4. CASE ensure_network(p)
    <3>1. PICK s \in Routes, row \in Networks :
            /\ mem'[p].route = s /\ mem'[p].net = row
            /\ networks' = [networks EXCEPT ![s] = row] /\ row.gen = networks[s].gen
      BY <2>4, EnsureEffect
    <3>2. \A r \in Routes : networks'[r].gen = networks[r].gen
      BY <2>3, <3>1
    <3>3. CopyCounts(p)'
      BY <2>2, <3>1 DEF GapInv, GapFree, CopyCounts, Numbers, Of
    <3> QED
      BY <2>1, <2>2, <3>2, <3>3, GapFrame
  <2>5. CASE run_trials(p) \/ save_trial(p)
    <3>1. /\ pc[p] \in {"route", "saving"}
          /\ mem'[p].route = mem[p].route /\ mem'[p].net = mem[p].net
      BY <2>5, TrialsEffect, SaveEffect
    <3>2. networks' = networks
      BY <2>5 DEF run_trials, save_trial, factory
    <3>3. CopyCounts(p)'
      BY <2>2, <3>1 DEF GapInv, CopyCounts, Numbers, Of
    <3> QED
      BY <2>1, <2>2, <3>2, <3>3, GapFrame
  <2>6. CASE Wait(p) \/ CandidatesReady(p) \/ NoChampion(p) \/ WriteBundle(p)
    <3>1. pc'[p] = "routes"
      BY <2>6, RouteEndEffect
    <3>2. \/ networks' = networks
          \/ \E status : networks' = [networks EXCEPT ![mem[p].route].status = status]
      BY <2>6 DEF Wait, CandidatesReady, NoChampion, WriteBundle, SetStatus
    <3>3. ASSUME NEW r \in Routes PROVE networks'[r].gen = networks[r].gen
      <4>1. CASE \E status : networks' = [networks EXCEPT ![mem[p].route].status = status]
        <5>1. PICK status : networks' = [networks EXCEPT ![mem[p].route].status = status]
          BY <4>1
        <5>2. networks'[r] = networks[r] \/ networks'[r] = [networks[r] EXCEPT !.status = status]
          BY <2>3, <5>1
        <5>3. networks[r] \in Networks
          BY <2>3
        <5> QED
          BY <5>2, <5>3 DEF Networks
      <4> QED
        BY <3>2, <4>1
    <3> QED
      BY <2>1, <2>2, <3>1, <3>3, GapFrame DEF CopyCounts
  <2>7. CASE QueueRaises(p) \/ PublishPlan(p) \/ PublishNetwork(p) \/ PublishBehavior(p)
    <3>1. pc'[p] \in Resting \cup {"planned", "published", "behaved"}
      BY <2>7, EndEffect, QuietEffect
    <3>2. networks' = networks
      BY <2>7 DEF QueueRaises, PublishPlan, PublishNetwork, PublishBehavior, Publish, factory
    <3> QED
      BY <2>1, <2>2, <3>1, <3>2, GapFrame DEF CopyCounts, Resting
  <2> QED
    BY <1>3, <2>4, <2>5, <2>6, <2>7 DEF RouteStep
<1>4. ASSUME NEW p \in Procs, commit_generation(p)
      PROVE  GapInv'
  BY <1>4, CommitLeavesNoGap
<1> QED
  BY <1>1, <1>2, <1>3, <1>4, StepKinds

LEMMA GapInvariant == WorldSpec => []GapInv
<1>1. WorldInit => GapInv
  BY DEF WorldInit, NoNetwork, GapInv, GapFree, CopyCounts, Numbers, Of
<1>2. TypeInv /\ GapInv /\ [WorldNext]_worldVars => GapInv'
  BY GapStep
<1> QED
  BY <1>1, <1>2, StoreInvariant, PTL DEF WorldSpec

(* The generations of a network are numbered without a gap for any number  *)
(* of processes, passes and deaths; as long as no two processes evaluate   *)
(* the network at once, the last one is current and the one its growth is  *)
(* measured from, artifacts come after it and the bundle after them.       *)
THEOREM GenerationsInOrder == WorldSpec => []NumbersInOrder
<1>1. RouteInv /\ GapInv => NumbersInOrder
  BY DEF RouteInv, Numbered, InOrder, GapInv, GapFree, Numbers, NumbersInOrder
<1> QED
  BY <1>1, RouteInvariant, GapInvariant, PTL

(* A network that no two processes evaluated at once is never retrained on *)
(* less growth than its policy asks for: for any percentage, any number of *)
(* experiences and any share of them in the split.                         *)
THEOREM HeavyTrainingOnGrowth == WorldSpec => []RetrainOnGrowth
<1>1. RouteInv => RetrainOnGrowth
  BY DEF RouteInv, Numbered, GrownTo, RetrainOnGrowth
<1> QED
  BY <1>1, RouteInvariant, PTL

----------------------------------------------------------------------------
(* A generation of a network is replaced only by one with its number.      *)
LEMMA OneGenerationStep ==
  ASSUME TypeInv, OneGeneration, [WorldNext]_worldVars
  PROVE  OneGeneration'
<1>1. CASE UNCHANGED generations
  BY <1>1 DEF OneGeneration
<1>2. ASSUME NEW p \in Procs, commit_generation(p)
      PROVE  OneGeneration'
  <2> DEFINE g == [net |-> mem[p].route, gen |-> mem[p].net.gen + 1,
                   train |-> mem[p].train, observe |-> mem[p].observe]
  <2>1. generations' = {h \in generations : ~(h.net = g.net /\ h.gen = g.gen)} \cup {g}
    BY <1>2 DEF commit_generation
  <2> HIDE DEF g
  <2> QED
    BY <2>1 DEF OneGeneration
<1>3. ASSUME NEW p \in Procs, RouteStep(p), ~commit_generation(p)
      PROVE  UNCHANGED generations
  BY <1>3 DEF RouteStep, ensure_network, Wait, run_trials, save_trial, QueueRaises, PublishPlan,
              CandidatesReady, NoChampion, PublishNetwork, PublishBehavior, Publish,
              WriteBundle, factory
<1> QED
  BY <1>1, <1>2, <1>3, StepKinds DEF factory

(* The places of a process, the counters of a network, and the two keys:   *)
(* an experience per id, a generation per network and number.              *)
THEOREM WorldTypes == WorldSpec => []WorldTypeOK
<1>1. WorldInit => OneGeneration
  BY DEF WorldInit, OneGeneration
<1>2. TypeInv /\ OneGeneration /\ [WorldNext]_worldVars => OneGeneration'
  BY OneGenerationStep
<1>3. TypeInv /\ EvidenceInv /\ OneGeneration => WorldTypeOK
  BY DEF TypeInv, PcTyped, Places, FactoryTyped, Networks, EvidenceInv, OneId, OneGeneration,
         WorldTypeOK
<1> QED
  BY <1>1, <1>2, <1>3, StoreInvariant, PTL DEF WorldSpec
==============================================================================
