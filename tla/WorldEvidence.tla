---------------------------- MODULE WorldEvidence ----------------------------
(***************************************************************************)
(* The evidence half of src/ssi_v5/worlds/legacy_factory.py: raw files are *)
(* read by an ingestion pass and become rows of `experiences', which are   *)
(* inserted once and never rewritten.  The files belong to other programs: *)
(* they may change between any two steps of a pass.                        *)
(*                                                                         *)
(* A result stands for its signature (score_a, score_b, result_code), a    *)
(* market series for the closing values of its ticks, one symbol and one   *)
(* scale per domain.  Texts, features and provenance are left out.         *)
(***************************************************************************)
EXTENDS Integers, FiniteSets, FiniteSetsExt

CONSTANTS
  Events,          \* source_id of the sports events
  Files,           \* dates with a market file and, perhaps, a results file
  Results,         \* signatures a results row may have
  Complete,        \* those from which _target_for gets a complete target
  Uncontracted,    \* events of the domain without a target contract (golf)
  TimeOf,          \* scheduled time of an event
  Markets,         \* the domains of MarketCapitalWorldIngestor
  MaxTick, PeriodLength, Values,
  NoValue,         \* the series has no point at a tick
  FirstRows, FirstResults, FirstSeries,     \* what the files may hold at first
  Procs,           \* processes that run the pipeline
  MaxChanges       \* bound: changes of the raw files

(* Events and domains are named in one field of a record here, where a row *)
(* of ingestion_records has a column for each.                             *)
ASSUME EvidenceAssumption ==
  /\ IsFiniteSet(Results) /\ Complete \subseteq Results /\ Uncontracted \subseteq Events
  /\ TimeOf \in [Events -> Nat]
  /\ FirstRows \subseteq [Files -> [Events -> {"absent", "bare", "quoted"}]]
  /\ FirstResults \subseteq [Files -> [Events -> SUBSET Results]]
  /\ FirstSeries \subseteq [Markets -> [0 .. MaxTick -> Values \cup {NoValue}]]
  /\ MaxTick \in Nat /\ PeriodLength \in Nat \ {0} /\ MaxChanges \in Nat
  /\ NoValue \notin Values /\ "SPORTS" \notin Markets
  /\ Events \cap (Markets \cup {"SPORTS"}) = {}

VARIABLES
  listed,          \* the row of an event in the market file of a date
  scored,          \* the signatures in its results file
  raw,             \* the points of a market series
  changes,
  markets,         \* sports_markets
  records,         \* ingestion_records: event or domain, and status
  experiences,
  pc, mem,         \* where a process is and what it holds
  alone,           \* history: results that ever stood alone for an event
  backfilled,      \* history: series that got a point behind their last one
  torn,            \* history: events whose last pass died before the experience
  provisional      \* history: experiences whose target period was still the last

files == <<listed, scored, raw, changes, alone, backfilled>>
store == <<markets, records, experiences, provisional>>

Ticks == 0 .. MaxTick
Sports == "SPORTS"

----------------------------------------------------------------------------
(* The programs that write the raw files.                                  *)

WriteMarketRow ==
  \E f \in Files, e \in Events, line \in {"bare", "quoted"} :
    /\ changes < MaxChanges /\ listed[f][e] # line
    /\ listed' = [listed EXCEPT ![f][e] = line]
    /\ changes' = changes + 1
    /\ UNCHANGED <<scored, raw, alone, backfilled, store, pc, mem, torn>>

WriteResults ==
  \E f \in Files, e \in Events, now \in SUBSET Results \ {{}} :
    /\ changes < MaxChanges /\ scored[f][e] # now
    /\ scored' = [scored EXCEPT ![f][e] = now]
    /\ alone' = IF Cardinality(now) = 1 THEN [alone EXCEPT ![e] = @ \cup now]
                                       ELSE alone
    /\ changes' = changes + 1
    /\ UNCHANGED <<listed, raw, backfilled, store, pc, mem, torn>>

WritePoint ==
  \E d \in Markets, t \in Ticks, v \in Values :
    /\ changes < MaxChanges /\ raw[d][t] = NoValue
    /\ raw' = [raw EXCEPT ![d][t] = v]
    /\ backfilled' = backfilled \cup
         (IF \E u \in t .. MaxTick : raw[d][u] # NoValue THEN {d} ELSE {})
    /\ changes' = changes + 1
    /\ UNCHANGED <<listed, scored, alone, store, pc, mem, torn>>

----------------------------------------------------------------------------
(* The experience store.                                                   *)

(* The primary key: a sports experience is identified by its event and     *)
(* target, a market experience by its route and the starts of its periods. *)
ExperienceId(x) ==
  IF x.domain = Sports THEN <<x.domain, x.source, x.target>>
                       ELSE <<x.domain, x.period, x.next>>

Stored(x) == \E y \in experiences : ExperienceId(y) = ExperienceId(x)

(* INSERT OR IGNORE. *)
upsert_experience(x) ==
  experiences' = IF Stored(x) THEN experiences ELSE experiences \cup {x}

save_ingestion_record(of, status) == records' = records \cup {[of |-> of, status |-> status]}

load_verified_experiences(d) ==
  {x \in experiences : x.domain = d /\ x.complete}

----------------------------------------------------------------------------
(* Sports: one pair of files after the other, one row after the other.     *)

(* Files and rows come in an order of their own, the same in every pass.   *)
First(set) == CHOOSE x \in set : TRUE

NoRow == [event |-> "none", line |-> "absent", versions |-> {}]

HasResults(f) == \E e \in Events : scored[f][e] # {}

discover_pairs ==
  {[file |-> f, paired |-> HasResults(f)] :
     f \in {g \in Files : \E e \in Events : listed[g][e] # "absent"}}

(* A mutant: versions that disagree are not a conflict. *)
Mut_Verdict(row) ==
  IF row.line = "bare" THEN "INVALID"
  ELSE IF row.versions = {} THEN "WAITING_RESULT"
  ELSE IF row.event \in Uncontracted \/ row.versions \cap Complete = {} THEN "PARTIAL"
  ELSE "VERIFIED"

(* What the results say of a row of the market file. *)
Verdict(row) ==
  IF row.line = "bare" THEN "INVALID"
  ELSE IF row.versions = {} THEN "WAITING_RESULT"
  ELSE IF Cardinality(row.versions) > 1 THEN "CONFLICT"
  ELSE IF row.event \in Uncontracted \/ row.versions \cap Complete = {} THEN "PARTIAL"
  ELSE "VERIFIED"

Experience(row) ==
  LET result == CHOOSE r \in row.versions : TRUE
  IN  [domain |-> Sports, source |-> row.event, at |-> TimeOf[row.event],
       period |-> TimeOf[row.event], next |-> 0, target |-> result,
       complete |-> result \in Complete]

(* A mutant: an event that is on record as verified is done with.          *)
Mut_HasExperience(row) ==
  /\ Verdict(row) \in {"VERIFIED", "PARTIAL"}
  /\ row.event \notin Uncontracted
  /\ [of |-> row.event, status |-> "VERIFIED"] \notin records

HasExperience(row) ==
  /\ Verdict(row) \in {"VERIFIED", "PARTIAL"}
  /\ row.event \notin Uncontracted

ReadPair(p) ==
  /\ pc[p] = "pairs"
  /\ mem[p].pairs # {}
  /\ LET pair == First(mem[p].pairs)
     IN  mem' = [mem EXCEPT ![p].pairs = @ \ {pair},
                            ![p].rows =
                   {[event |-> e, line |-> listed[pair.file][e],
                     versions |-> IF pair.paired THEN scored[pair.file][e] ELSE {}] :
                      e \in {x \in Events : listed[pair.file][x] # "absent"}}]
  /\ pc' = [pc EXCEPT ![p] = "rows"]
  /\ UNCHANGED <<files, store, torn>>

(* The market row and the ingestion record, two commits; nothing reads     *)
(* sports_markets.                                                         *)
RecordRow(p) ==
  /\ pc[p] = "rows"
  /\ mem[p].rows # {}
  /\ LET row == First(mem[p].rows)
     IN  /\ markets' = markets \cup {row.event}
         /\ save_ingestion_record(row.event, Verdict(row))
         /\ mem' = [mem EXCEPT ![p].rows = @ \ {row},
                               ![p].row = IF HasExperience(row) THEN row ELSE NoRow]
         /\ pc' = [pc EXCEPT ![p] = IF HasExperience(row) THEN "experience" ELSE "rows"]
         /\ torn' = torn \ (IF Verdict(row) = "VERIFIED" THEN {row.event} ELSE {})
  /\ UNCHANGED <<files, experiences, provisional>>

InsertExperience(p) ==
  LET row == mem[p].row
  IN  /\ pc[p] = "experience"
      /\ upsert_experience(Experience(row))
      /\ mem' = [mem EXCEPT ![p].row = NoRow]
      /\ pc' = [pc EXCEPT ![p] = "rows"]
      /\ UNCHANGED <<files, markets, records, provisional, torn>>

RowsDone(p) ==
  /\ pc[p] = "rows" /\ mem[p].rows = {}
  /\ pc' = [pc EXCEPT ![p] = "pairs"]
  /\ UNCHANGED <<files, store, torn, mem>>

PairsDone(p) ==
  /\ pc[p] = "pairs" /\ mem[p].pairs = {}
  /\ pc' = [pc EXCEPT ![p] = "series"]
  /\ UNCHANGED <<files, store, torn, mem>>

----------------------------------------------------------------------------
(* Markets: the series of a domain is read at once; its periods are the    *)
(* non-empty spans of PeriodLength ticks, closed by their last point.      *)

PeriodOf(t) == t \div PeriodLength

PointsIn(points, start) == {t \in Ticks : points[t] # NoValue /\ PeriodOf(t) = start}

aggregate_periods(points) == {PeriodOf(t) : t \in {u \in Ticks : points[u] # NoValue}}

(* A mutant: a period is closed by its first point. *)
Mut_Close(points, start) == points[Min(PointsIn(points, start))]

Close(points, start) == points[Max(PointsIn(points, start))]

NextPeriod(points, start) == Min({s \in aggregate_periods(points) : s > start})

(* One experience for each period that has a following one. *)
MarketExperiences(d, points) ==
  LET starts == aggregate_periods(points)
  IN  {[domain |-> d, source |-> d, at |-> Max(PointsIn(points, s)), period |-> s,
        next |-> NextPeriod(points, s),
        target |-> Close(points, NextPeriod(points, s)), complete |-> TRUE] :
         s \in {u \in starts : \E v \in starts : v > u}}

ReadSeries(p) ==
  /\ pc[p] = "series"
  /\ mem[p].domains # {}
  /\ LET d      == First(mem[p].domains)
           starts == aggregate_periods(raw[d])
           rest   == [mem[p] EXCEPT !.domains = @ \ {d}]
     IN    IF starts = {}
             THEN /\ save_ingestion_record(d, "WAITING_DATA")
                  /\ mem' = [mem EXCEPT ![p] = [rest EXCEPT
                               !.routes = @ \cup {<<d, "PRIMARY">>}]]
                  /\ UNCHANGED pc
             ELSE /\ mem' = [mem EXCEPT ![p] = [rest EXCEPT
                               !.domain = d,
                               !.todo = MarketExperiences(d, raw[d]),
                               !.open = Max(starts),
                               !.routes = @ \cup
                                 {<<d, IF Cardinality(starts) > 1 THEN "SERIES"
                                                                ELSE "PRIMARY">>}]]
                  /\ pc' = [pc EXCEPT ![p] = "periods"]
                  /\ UNCHANGED records
  /\ UNCHANGED <<files, markets, experiences, provisional, torn>>

InsertPeriod(p) ==
  /\ pc[p] = "periods"
  /\ mem[p].todo # {}
  /\ LET x == First({y \in mem[p].todo : \A z \in mem[p].todo : y.period <= z.period})
     IN  /\ upsert_experience(x)
         /\ provisional' = IF ~Stored(x) /\ x.next = mem[p].open
                             THEN provisional \cup {ExperienceId(x)} ELSE provisional
         /\ mem' = [mem EXCEPT ![p].todo = @ \ {x}]
  /\ UNCHANGED <<files, markets, records, pc, torn>>

RecordDomain(p) ==
  /\ pc[p] = "periods" /\ mem[p].todo = {}
  /\ save_ingestion_record(mem[p].domain, "VERIFIED")
  /\ pc' = [pc EXCEPT ![p] = "series"]
  /\ mem' = [mem EXCEPT ![p].domain = Sports, ![p].open = 0]
  /\ UNCHANGED <<files, markets, experiences, provisional, torn>>

----------------------------------------------------------------------------
EvidenceInit ==
  /\ listed \in FirstRows /\ scored \in FirstResults /\ raw \in FirstSeries
  /\ alone = [e \in Events |-> UNION {scored[f][e] : f \in
                 {g \in Files : Cardinality(scored[g][e]) = 1}}]
  /\ changes = 0 /\ backfilled = {}
  /\ markets = {} /\ records = {} /\ experiences = {}
  /\ torn = {} /\ provisional = {}

EvidenceChanges == WriteMarketRow \/ WriteResults \/ WritePoint

EvidenceStep(p) ==
  \/ ReadPair(p) \/ RecordRow(p) \/ InsertExperience(p) \/ RowsDone(p)
  \/ PairsDone(p) \/ ReadSeries(p) \/ InsertPeriod(p) \/ RecordDomain(p)

----------------------------------------------------------------------------
(* Properties of the evidence.                                             *)

(* An event whose record says VERIFIED has a complete experience: the two  *)
(* commits of a row (save_ingestion_record, then upsert_experience) fall   *)
(* apart only while the pass is between them or when it died there, and    *)
(* the next pass that finds the row verified makes up for it.              *)
VerifiedIsStored ==
  \A r \in records :
    r.of \in Events /\ r.status = "VERIFIED" =>
      \/ \E x \in experiences : x.source = r.of /\ x.complete
      \/ r.of \in torn
      \/ \E p \in Procs : pc[p] = "experience" /\ mem[p].row.event = r.of

(* Market evidence on record agrees with the series as it is now: the      *)
(* target, which stands for the closing value it is computed from, is the  *)
(* last value of the period that follows, unless that period was still the *)
(* last one when its experience was inserted (the row is never updated     *)
(* after that) or points arrived behind the series' end.                   *)
TargetStands ==
  \A x \in experiences :
    x.domain \in Markets /\ x.domain \notin backfilled
      /\ ExperienceId(x) \notin provisional =>
      LET filled == {t \in Ticks : raw[x.domain][t] # NoValue}
          later  == {t \in filled : t \div PeriodLength > x.period}
          next   == {t \in later : \A u \in later : t \div PeriodLength <= u \div PeriodLength}
      IN  x.target = raw[x.domain][Max(next)]
=============================================================================
