------------------------ MODULE ManualCycle_proofs -------------------------
(* Theorems about ManualCycle, for any worlds, domains, cycles and faults. *)
EXTENDS ManualCycle, FiniteSetTheorems, TLAPS

(* Whoever is past its first step has a number, and a pipeline its place.  *)
Numbered ==
  /\ cycle.pc # "idle" => cycles > 0
  /\ pipe["cycle"] > 0 <=> cycle.pc = "pipeline"
  /\ \A p \in Pipelines : pipe[p] > 0 => canonical # None

TypeInv == TypeOK /\ Numbered

LEMMA DomainsFact ==
  /\ N \in Nat \ {0}
  /\ \A k \in 1 .. N : Domains[k] \in AllDomains
  /\ \A k \in 1 .. Len(Worlds) : Worlds[k] \in AllWorlds
  /\ \A d \in AllDomains : WorldOf[d] \in AllWorlds
  /\ Len(Worlds) \in Nat
  /\ None \notin AllDomains /\ None \notin Versions /\ None \notin Checkpoints
  /\ MaxVersion \in Nat /\ MaxCycles \in Nat /\ MaxRuns \in Nat /\ MaxFaults \in Nat
<1>1. Domains \in Seq(STRING) /\ Domains # <<>> /\ Worlds \in Seq(STRING)
  BY CycleAssumption
<1>2. Len(Domains) \in Nat /\ Len(Domains) # 0 /\ Len(Worlds) \in Nat
  BY <1>1
<1> QED BY <1>2, CycleAssumption DEF AllDomains, AllWorlds, N

LEMMA ZeroFact == Zero \in Versions
BY DomainsFact DEF Zero, Versions

LEMMA IdleFact == Idle \in Locals
<1>1. <<>> \in Seq(Events)
  OBVIOUS
<1> QED BY <1>1, ZeroFact DEF Idle, Locals, PCs

LEMMA IndexFact ==
  ASSUME cycle \in Locals
  PROVE  cycle.i \in Nat \ {0} /\ cycle.i + 1 \in Nat \ {0}
<1>1. cycle.i \in Nat \ {0}
  BY DEF Locals
<1> QED BY <1>1

(* What is journalled is an event.                                         *)
LEMMA EventFact ==
  ASSUME TypeOK, NEW t \in Types, NEW w \in AllWorlds, NEW d \in AllDomains \union {None}
  PROVE  Event(t, w, d) \in Events
BY DEF TypeOK, Event, Events

LEMMA InDomainFact ==
  ASSUME TypeOK, NEW t \in Types, NEW d \in AllDomains
  PROVE  InDomain(t, d) \in Events
BY EventFact, DomainsFact DEF InDomain

LEMMA InAllWorldsFact ==
  ASSUME TypeOK, NEW t \in Types
  PROVE  InAllWorlds(t) \in Seq(Events)
<1>1. \A k \in 1 .. Len(Worlds) : Event(t, Worlds[k], None) \in Events
  BY EventFact, DomainsFact
<1> QED BY <1>1, DomainsFact DEF InAllWorlds

LEMMA TypeInit == Init => TypeInv
<1> SUFFICES ASSUME Init PROVE TypeInv
  OBVIOUS
<1>1. <<>> \in Seq(Events)
  OBVIOUS
<1>2. deps \in Dependencies /\ raised \in BOOLEAN
  BY DEF Init
<1>4. TypeOK
  BY <1>1, <1>2, IdleFact, ZeroFact, DomainsFact DEF Init, TypeOK
<1>3. Numbered
  BY DEF Init, Numbered, Idle, Pipelines
<1> QED BY <1>3, <1>4 DEF TypeInv

(* The steps that leave the cycle's locals alone.                          *)
LEMMA OutsideTyped ==
  ASSUME TypeInv,
         \/ \E d \in AllDomains : Arrive(d)
         \/ \E job \in OtherJobs : SubmitOther(job)
         \/ LoseCheckpoint
         \/ Run
  PROVE  TypeInv'
<1> USE DEF TypeInv, Numbered
<1>1. ASSUME NEW d \in AllDomains, Arrive(d) PROVE TypeInv'
  <2>1. sources' \in Versions
    BY <1>1, DomainsFact DEF Arrive, TypeOK, Versions
  <2> QED BY <1>1, <2>1 DEF Arrive, TypeOK, counters
<1>2. CASE LoseCheckpoint
  BY <1>2, DomainsFact DEF LoseCheckpoint, TypeOK
<1>3. CASE Run
  <2>1. Opened \in Versions /\ Opened # None
    BY ZeroFact, DomainsFact DEF Opened, TypeOK
  <2>2. pipe' \in [Pipelines -> 0 .. 2 * N] /\ pipe'["cycle"] = pipe["cycle"]
    BY <1>3, DomainsFact DEF Run, TypeOK, Pipelines
  <2> QED BY <1>3, <2>1, <2>2, DomainsFact DEF Run, TypeOK
<1>4. ASSUME NEW job \in OtherJobs, SubmitOther(job) PROVE TypeInv'
  BY <1>4 DEF SubmitOther, TypeOK, counters
<1> QED BY <1>1, <1>2, <1>3, <1>4

(* The steps of a cycle between its stores.                                *)
LEMMA LocalsTyped ==
  ASSUME TypeInv, AppendEvent \/ Start \/ Walk \/ Return
  PROVE  TypeInv'
<1> USE DEF TypeInv, Numbered
<1>1. CASE AppendEvent
  <2>1. Head(cycle.todo) \in Events /\ Tail(cycle.todo) \in Seq(Events) /\ cycle \in Locals
    <3>1. cycle.todo \in Seq(Events) /\ cycle.todo # <<>> /\ cycle \in Locals
      BY <1>1 DEF AppendEvent, TypeOK, Locals
    <3> QED BY <3>1
  <2>2. cycle' \in Locals /\ cycle'.pc = cycle.pc
    BY <1>1, <2>1 DEF AppendEvent, Locals
  <2>3. journal' \in Seq(Events)
    BY <1>1, <2>1 DEF AppendEvent, TypeOK
  <2> QED BY <1>1, <2>2, <2>3 DEF AppendEvent, TypeOK, counters
<1>2. CASE Start
  <2>1. cycle' \in Locals /\ cycle'.pc = "invoke"
    BY <1>2, IdleFact DEF Start, Locals, PCs, Idle
  <2>2. cycles' \in 0 .. MaxCycles /\ cycles' > 0
    BY <1>2, DomainsFact DEF Start, TypeOK
  <2>3. cycle.pc = "idle"
    BY <1>2 DEF Start, At
  <2> QED BY <1>2, <2>1, <2>2, <2>3 DEF Start, TypeOK, stores
<1>3. CASE Walk
  <2>1. Domains[cycle.i] \in AllDomains
    BY <1>3, DomainsFact DEF Walk, TypeOK, Locals
  <2>2. [cycle.mark EXCEPT ![Domains[cycle.i]] = sources[Domains[cycle.i]]] \in Versions
    BY <2>1 DEF TypeOK, Locals, Versions
  <2> DEFINE m == [cycle.mark EXCEPT ![Domains[cycle.i]] = sources[Domains[cycle.i]]]
  <2>3. cycle' = [cycle EXCEPT !.i = cycle.i + 1, !.mark = m]
    BY <1>3 DEF Walk
  <2> HIDE DEF m
  <2>4. cycle' \in Locals /\ cycle'.pc = cycle.pc
    BY <2>2, <2>3, IndexFact DEF TypeOK, Locals, m
  <2> QED BY <1>3, <2>4 DEF Walk, TypeOK, stores, counters
<1>4. CASE Return
  <2>1. cycle.pc = "return" /\ cycle' = Idle /\ Idle.pc = "idle"
    BY <1>4 DEF Return, At, Idle
  <2> QED BY <1>4, <2>1, IdleFact DEF Return, TypeOK, stores, counters
<1> QED BY <1>1, <1>2, <1>3, <1>4

(* The steps of a cycle that leave events to journal, or save a store.     *)
LEMMA StepsTyped ==
  ASSUME TypeInv,
         \/ Invoke \/ Decide \/ Save
         \/ \E b \in BOOLEAN : Collect(b) \/ Dispatch(b)
         \/ JournalEvidence \/ JournalNeeds \/ JournalJobs
  PROVE  TypeInv'
<1> USE DEF TypeInv, Numbered
<1>0. cycle \in Locals /\ cycles \in 0 .. MaxCycles
  BY DEF TypeOK
<1>1. CASE Invoke
  <2> DEFINE w == Worlds[cycle.i]
             es == <<Event("WORLD_CYCLE_STARTED", w, None), Event("GOVERNANCE_VALIDATED", w, None)>>
  <2>1. w \in AllWorlds
    BY <1>1, <1>0, DomainsFact DEF Invoke, Locals
  <2>2. Event("WORLD_CYCLE_STARTED", w, None) \in Events /\ Event("GOVERNANCE_VALIDATED", w, None) \in Events
    BY <2>1, EventFact DEF Types
  <2>3. es \in Seq(Events)
    BY <2>2
  <2>4. cycle' = [cycle EXCEPT !.i = cycle.i + 1, !.todo = es]
    BY <1>1 DEF Invoke
  <2>5. cycle.pc = "invoke" /\ cycles \in 1 .. MaxCycles
    BY <1>1, <1>0, DomainsFact DEF Invoke, At
  <2>6. invocations' \subseteq (1 .. MaxCycles) \X AllWorlds
    BY <1>1, <2>1, <2>5 DEF Invoke, TypeOK
  <2> HIDE DEF es
  <2>7. cycle' \in Locals /\ cycle'.pc = cycle.pc
    BY <2>3, <2>4, <1>0, IndexFact DEF Locals
  <2> QED BY <1>1, <2>6, <2>7 DEF Invoke, TypeOK, counters
<1>2. ASSUME NEW b \in BOOLEAN, Collect(b) PROVE TypeInv'
  <2>1. cycle.pc = "invoke" /\ cycles \in 1 .. MaxCycles
    <3>1. cycle.pc = "invoke"
      BY <1>2 DEF Collect, At
    <3> QED BY <3>1, <1>0, DomainsFact
  <2>2. account' \subseteq [cycle : 1 .. MaxCycles, type : Types, domain : AllDomains \union {None}]
    BY <1>2, <2>1 DEF Collect, TypeOK, Deeds, Types
  <2> DEFINE x == canonical # None
  <2>4. cycle' = [cycle EXCEPT !.pc = "walk", !.i = 1, !.collected = b, !.before = jobs, !.exists = x]
    BY <1>2 DEF Collect
  <2>5. x \in BOOLEAN /\ jobs \in SUBSET (AllDomains \union OtherJobs) /\ 1 \in Nat \ {0} /\ "walk" \in PCs
    BY DEF TypeOK, PCs
  <2> HIDE DEF x
  <2>3. cycle' \in Locals /\ cycle'.pc = "walk"
    BY <2>4, <2>5, <1>0 DEF Locals
  <2> QED BY <1>2, <2>1, <2>2, <2>3 DEF Collect, TypeOK, stores, counters
<1>3. CASE Decide
  <2>1. decide \in {"BOOTSTRAP_CHECKPOINT", "RUN_INGESTION", "SKIP_INGESTION"}
    BY <1>0 DEF decide, Locals
  <2>2. Opened \in Versions /\ Opened # None
    BY ZeroFact, DomainsFact DEF Opened, TypeOK
  <2>3. cycle' \in Locals /\ cycle'.pc \in {"pipeline", "save", "count"}
        /\ (cycle'.pc = "pipeline" <=> decide = "RUN_INGESTION")
    BY <1>3, <1>0, <2>1 DEF Decide, Locals, PCs
  <2>4. cycle.pc = "walk" /\ pipe["cycle"] = 0
    BY <1>3, DomainsFact DEF Decide, At, TypeOK, Pipelines
  <2>5. pipe' \in [Pipelines -> 0 .. 2 * N] /\ (pipe'["cycle"] > 0 <=> decide = "RUN_INGESTION")
    BY <1>3, <2>4, DomainsFact DEF Decide, TypeOK, Pipelines
  <2> QED BY <1>3, <2>2, <2>3, <2>4, <2>5 DEF Decide, TypeOK, counters
<1>4. CASE Save
  <2>1. cycle.pc = "save" /\ cycles \in 1 .. MaxCycles
    BY <1>4, <1>0, DomainsFact DEF Save, At
  <2>2. checkpoint' \in Checkpoints
    BY <1>4, <1>0, <2>1 DEF Save, Checkpoints, Locals
  <2>3. baseline' \in Versions
    BY <1>4, <1>0 DEF Save, TypeOK, Versions, Locals
  <2>4. cycle' \in Locals /\ cycle'.pc \in {"count", "evidence", "idle"}
    BY <1>4, <1>0, IdleFact DEF Save, Locals, PCs, Idle
  <2> QED BY <1>4, <2>1, <2>2, <2>3, <2>4 DEF Save, TypeOK, counters
<1>5. CASE JournalEvidence
  <2> DEFINE d == Domains[cycle.i]
             raw == InDomain("RAW_EVIDENCE_INGESTED", d)
             made == InDomain("EXPERIENCE_CREATED", d)
             es == IF d \in Markets /\ d \in cycle.inserted THEN <<raw, made>> ELSE <<raw>>
  <2>1. d \in AllDomains
    BY <1>5, <1>0, DomainsFact DEF JournalEvidence, Locals
  <2>2. raw \in Events /\ made \in Events
    BY <2>1, InDomainFact DEF Types
  <2> HIDE DEF raw, made
  <2>3. es \in Seq(Events)
    BY <2>2
  <2>4. cycle' = [cycle EXCEPT !.i = cycle.i + 1, !.todo = es]
    BY <1>5 DEF JournalEvidence, raw, made
  <2> HIDE DEF es
  <2>5. cycle' \in Locals /\ cycle'.pc = cycle.pc
    BY <2>3, <2>4, <1>0, IndexFact DEF Locals
  <2> QED BY <1>5, <2>5 DEF JournalEvidence, TypeOK, stores, counters
<1>6. CASE JournalNeeds
  <2> DEFINE es == [k \in 1 .. N |-> InDomain("TRAINING_NEED_CREATED", Domains[k])]
  <2>1. \A k \in 1 .. N : InDomain("TRAINING_NEED_CREATED", Domains[k]) \in Events
    BY InDomainFact, DomainsFact DEF Types
  <2>2. es \in Seq(Events)
    BY <2>1, DomainsFact
  <2>3. cycle' = [cycle EXCEPT !.pc = "count", !.todo = es]
    BY <1>6 DEF JournalNeeds
  <2> HIDE DEF es
  <2>4. cycle' \in Locals /\ cycle'.pc = "count" /\ cycle.pc = "evidence"
    BY <1>6, <2>2, <2>3, <1>0 DEF Locals, PCs, JournalNeeds, At
  <2> QED BY <1>6, <2>4 DEF JournalNeeds, TypeOK, stores, counters
<1>7. CASE JournalJobs
  <2>1. InAllWorlds("COMPUTE_JOB_CREATED") \in Seq(Events) /\ <<>> \in Seq(Events)
    BY InAllWorldsFact DEF Types
  <2>2. cycle' \in Locals /\ cycle'.pc = "dispatch" /\ cycle.pc = "count"
    BY <1>7, <2>1, <1>0 DEF Locals, PCs, JournalJobs, At
  <2> QED BY <1>7, <2>2 DEF JournalJobs, TypeOK, stores, counters
<1>8. ASSUME NEW b \in BOOLEAN, Dispatch(b) PROVE TypeInv'
  <2> DEFINE e1 == IF b THEN InAllWorlds("COMPUTE_JOB_DISPATCHED") ELSE <<>>
             e2 == IF cycle.collected THEN InAllWorlds("COMPUTE_JOB_RESULT_RECEIVED") ELSE <<>>
             e3 == InAllWorlds("WORLD_CYCLE_COMPLETED")
  <2>1. e1 \in Seq(Events) /\ e2 \in Seq(Events) /\ e3 \in Seq(Events)
    BY InAllWorldsFact DEF Types
  <2>2. cycle' = Idle \/ cycle' = [cycle EXCEPT !.pc = "return", !.todo = e1 \o e2 \o e3]
    BY <1>8 DEF Dispatch
  <2> HIDE DEF e1, e2, e3
  <2>3. e1 \o e2 \o e3 \in Seq(Events)
    BY <2>1
  <2>4. cycle' \in Locals /\ cycle'.pc \in {"return", "idle"} /\ cycle.pc = "dispatch"
    <3>1. Idle.pc = "idle"
      BY DEF Idle
    <3> QED BY <1>8, <2>2, <2>3, <1>0, <3>1, IdleFact DEF Locals, PCs, Dispatch, At
  <2>5. cycles \in 1 .. MaxCycles
    BY <2>4, <1>0, DomainsFact
  <2>6. account' \subseteq [cycle : 1 .. MaxCycles, type : Types, domain : AllDomains \union {None}]
    BY <1>8, <2>5 DEF Dispatch, TypeOK, Deeds, Types
  <2> QED BY <1>8, <2>4, <2>5, <2>6 DEF Dispatch, TypeOK, stores, counters
<1> QED BY <1>1, <1>2, <1>3, <1>4, <1>5, <1>6, <1>7, <1>8

(* The steps of a pipeline, and deaths.                                    *)
LEMMA PipelineTyped ==
  ASSUME TypeInv, NEW p \in Pipelines,
         Ingest(p) \/ (\E b \in BOOLEAN : Gate(p, b)) \/ GateRaises(p) \/ Crash(p)
  PROVE  TypeInv'
<1> USE DEF TypeInv, Numbered
<1>0. cycle \in Locals /\ cycles \in 0 .. MaxCycles /\ pipe \in [Pipelines -> 0 .. 2 * N]
      /\ "cycle" \in Pipelines
  BY DEF TypeOK, Pipelines
<1>n. p = "cycle" /\ pipe[p] > 0 => cycle.pc = "pipeline" /\ cycles \in 1 .. MaxCycles
  BY <1>0, DomainsFact
<1>1. CASE Ingest(p)
  <2> DEFINE d == Domains[pipe[p]]
  <2>1. d \in AllDomains /\ pipe[p] > 0 /\ canonical # None
    BY <1>1, DomainsFact DEF Ingest
  <2>2. canonical' \in Versions /\ canonical' # None
    BY <1>1, <2>1, DomainsFact DEF Ingest, TypeOK, Versions
  <2>3. pipe' \in [Pipelines -> 0 .. 2 * N] /\ \A q \in Pipelines : pipe'[q] > 0 <=> pipe[q] > 0
    <3>1. pipe' = [pipe EXCEPT ![p] = @ + 1] /\ pipe[p] \in 1 .. N
      BY <1>1 DEF Ingest
    <3>2. N \in Nat
      BY DomainsFact
    <3> HIDE DEF TypeInv, Numbered
    <3>3. pipe[p] + 1 \in 0 .. 2 * N /\ pipe[p] + 1 > 0 /\ pipe[p] > 0
      BY <3>1, <3>2
    <3> QED
      BY <1>0, <3>1, <3>3
  <2>4. cycle' \in Locals /\ cycle'.pc = cycle.pc
    BY <1>1, <1>0, <2>1 DEF Ingest, Locals
  <2>5. account' \subseteq [cycle : 1 .. MaxCycles, type : Types, domain : AllDomains \union {None}]
    BY <1>1, <1>n, <2>1 DEF Ingest, TypeOK, Deeds, Types
  <2> QED BY <1>1, <1>0, <2>2, <2>3, <2>4, <2>5 DEF Ingest, TypeOK, counters
<1>2. ASSUME NEW b \in BOOLEAN, Gate(p, b) PROVE TypeInv'
  <2> DEFINE d == Domains[pipe[p] - N]
  <2>1. d \in AllDomains /\ pipe[p] > 0 /\ canonical # None
    <3>1. pipe[p] \in N + 1 .. 2 * N
      BY <1>2 DEF Gate
    <3>2. pipe[p] - N \in 1 .. N /\ pipe[p] > 0
      BY <3>1, DomainsFact
    <3> QED BY <3>2, DomainsFact
  <2>2. jobs' \subseteq AllDomains \union OtherJobs
    BY <1>2, <2>1 DEF Gate, TypeOK
  <2>3. account' \subseteq [cycle : 1 .. MaxCycles, type : Types, domain : AllDomains \union {None}]
    BY <1>2, <1>n, <2>1 DEF Gate, TypeOK, Deeds, Types
  <2>4. cycle' \in Locals
    BY <1>2, <1>0 DEF Gate, Locals, PCs
  <2>5. pipe' \in [Pipelines -> 0 .. 2 * N]
    <3>1. pipe[p] \in N + 1 .. 2 * N /\ ((pipe' = [pipe EXCEPT ![p] = pipe[p] + 1] /\ pipe[p] < 2 * N) \/ pipe' = [pipe EXCEPT ![p] = 0])
      BY <1>2 DEF Gate
    <3>2. N \in Nat
      BY DomainsFact
    <3> QED BY <3>1, <3>2, <1>0
  <2>6. (cycle'.pc # "idle" => cycles > 0) /\ (pipe'["cycle"] > 0 <=> cycle'.pc = "pipeline")
    <3>1. CASE p = "cycle" /\ ~(pipe[p] < 2 * N)
      <4>1. cycle' = [cycle EXCEPT !.pc = "save"] /\ pipe' = [pipe EXCEPT ![p] = 0]
        BY <1>2, <3>1 DEF Gate
      <4>2. cycle'.pc = "save" /\ pipe'["cycle"] = 0
        BY <4>1, <3>1, <1>0 DEF Locals
      <4> QED BY <4>2, <3>1, <1>n, <2>1, <1>0
    <3>2. CASE p = "cycle" /\ pipe[p] < 2 * N
      <4>1. cycle' = cycle /\ pipe' = [pipe EXCEPT ![p] = pipe[p] + 1]
        BY <1>2, <3>2 DEF Gate
      <4> QED BY <4>1, <3>2, <1>n, <2>1, <1>0
    <3>3. CASE p # "cycle"
      <4>1. cycle' = cycle /\ pipe'["cycle"] = pipe["cycle"]
        BY <1>2, <3>3, <1>0 DEF Gate
      <4> QED BY <4>1
    <3> QED BY <3>1, <3>2, <3>3
  <2> QED BY <1>2, <1>0, <2>1, <2>2, <2>3, <2>4, <2>5, <2>6 DEF Gate, TypeOK, counters
<1>3. CASE Crash(p)
  <2>1. faults' \in 0 .. MaxFaults
    BY <1>3, DomainsFact DEF Crash, TypeOK
  <2>2. cycle' \in Locals /\ (cycle' = cycle \/ (cycle'.pc = "idle" /\ p = "cycle"))
    <3>1. Idle.pc = "idle"
      BY DEF Idle
    <3>2. cycle' = cycle \/ (cycle' = Idle /\ p = "cycle")
      <4>1. CASE p = "cycle"
        BY <1>3, <4>1 DEF Crash
      <4>2. CASE p # "cycle"
        BY <1>3, <4>2 DEF Crash
      <4> QED BY <4>1, <4>2
    <3> QED BY <1>0, <3>1, <3>2, IdleFact
  <2>3. pipe' \in [Pipelines -> 0 .. 2 * N] /\ \A q \in Pipelines : pipe'[q] > 0 => pipe[q] > 0
    BY <1>3, <1>0, DomainsFact DEF Crash
  <2>4. pipe'["cycle"] > 0 <=> cycle'.pc = "pipeline"
    BY <1>3, <1>0, <2>2 DEF Crash, Idle, Pipelines
  <2> QED BY <1>3, <1>0, <2>1, <2>2, <2>3, <2>4 DEF Crash, TypeOK, stores
<1>4. CASE GateRaises(p)
  <2>1. raised' \in BOOLEAN
    BY <1>4 DEF GateRaises, TypeOK
  <2>2. cycle' \in Locals /\ (cycle' = cycle \/ (cycle'.pc = "idle" /\ p = "cycle"))
    <3>1. Idle.pc = "idle"
      BY DEF Idle
    <3>2. cycle' = cycle \/ (cycle' = Idle /\ p = "cycle")
      BY <1>4 DEF GateRaises
    <3> QED BY <1>0, <3>1, <3>2, IdleFact
  <2>3. pipe' \in [Pipelines -> 0 .. 2 * N] /\ \A q \in Pipelines : pipe'[q] > 0 => pipe[q] > 0
    BY <1>4, <1>0, DomainsFact DEF GateRaises
  <2>4. pipe'["cycle"] > 0 <=> cycle'.pc = "pipeline"
    BY <1>4, <1>0, <2>2 DEF GateRaises, Idle, Pipelines
  <2> QED BY <1>4, <1>0, <2>1, <2>2, <2>3, <2>4 DEF GateRaises, TypeOK, stores
<1> QED BY <1>1, <1>2, <1>3, <1>4

LEMMA TypeStep == TypeInv /\ [Next]_vars => TypeInv'
<1> SUFFICES ASSUME TypeInv, [Next]_vars PROVE TypeInv'
  OBVIOUS
<1>1. CASE Next
  BY <1>1, OutsideTyped, LocalsTyped, StepsTyped, PipelineTyped DEF Next
<1>2. CASE UNCHANGED vars
  BY <1>2 DEF vars, stores, counters, TypeInv, TypeOK, Numbered
<1> QED BY <1>1, <1>2

(* Every state has the types of the stores.                                *)
THEOREM CycleTyped == Spec => []TypeOK
<1>1. Init => TypeInv
  BY TypeInit
<1>2. TypeInv /\ [Next]_vars => TypeInv'
  BY TypeStep
<1>3. TypeInv => TypeOK
  BY DEF TypeInv
<1> QED BY <1>1, <1>2, <1>3, PTL DEF Spec

-----------------------------------------------------------------------------
(* What is ingested, seen, claimed and taken for ingested.                 *)
Seen ==
  /\ canonical # None => \A d \in AllDomains : canonical[d] <= sources[d]
  /\ \A d \in AllDomains : cycle.mark[d] <= sources[d]

(* A checkpoint is covered by what is ingested or taken for it.            *)
Claimed ==
  checkpoint # None =>
    /\ canonical # None
    /\ IF checkpoint.mode = "AFTER_INGESTION"
       THEN \A d \in AllDomains : checkpoint.mark[d] <= canonical[d]
       ELSE \A d \in AllDomains : checkpoint.mark[d] <= baseline[d]

(* The pipeline has come as far as its place says, ...                     *)
Passed ==
  /\ cycle.pc = "pipeline" =>
       /\ cycle.action = "RUN_INGESTION"
       /\ \A k \in 1 .. N : k < pipe["cycle"] => cycle.mark[Domains[k]] <= canonical[Domains[k]]
  /\ cycle.pc = "save" => canonical # None
  /\ cycle.pc = "save" /\ cycle.action = "RUN_INGESTION" =>
       \A d \in AllDomains : cycle.mark[d] <= canonical[d]

(* ... and a cycle past it leaves nothing behind.                          *)
Caught ==
  cycle.pc \in {"evidence", "count", "dispatch", "return"} =>
    /\ canonical # None
    /\ \A d \in AllDomains : cycle.mark[d] <= canonical[d] \/ cycle.mark[d] <= baseline[d]

EvidenceInv == TypeInv /\ Seen /\ Claimed /\ Passed /\ Caught

LEMMA IdleMark == Idle.pc = "idle" /\ Idle.mark = Zero /\ \A d \in AllDomains : Zero[d] = 0
BY DEF Idle, Zero

LEMMA VersionFact == ASSUME NEW f \in Versions, NEW d \in AllDomains PROVE f[d] \in Nat
BY DomainsFact DEF Versions

LEMMA EvidenceInit == Init => EvidenceInv
<1> SUFFICES ASSUME Init PROVE EvidenceInv
  OBVIOUS
<1>1. Seen /\ Claimed /\ Passed /\ Caught
  BY IdleMark DEF Init, Seen, Claimed, Passed, Caught
<1> QED BY <1>1, TypeInit DEF EvidenceInv

(* Steps of others, and of the cycle before its decision or after saving.  *)
LEMMA EvidenceOutside ==
  ASSUME EvidenceInv, TypeInv',
         \/ \E d \in AllDomains : Arrive(d)
         \/ \E job \in OtherJobs : SubmitOther(job)
         \/ LoseCheckpoint \/ Run
  PROVE  Seen' /\ Claimed' /\ Passed' /\ Caught'
<1> USE DEF EvidenceInv, TypeInv
<1>1. ASSUME NEW e \in AllDomains, Arrive(e) PROVE Seen' /\ Claimed' /\ Passed' /\ Caught'
  <2>1. UNCHANGED <<canonical, checkpoint, cycle, pipe, baseline>>
    BY <1>1 DEF Arrive
  <2>2. \A d \in AllDomains : sources[d] \in Nat /\ sources[d] <= sources'[d]
    BY <1>1, VersionFact DEF Arrive, TypeOK, Versions
  <2>3. \A d \in AllDomains : cycle.mark[d] \in Nat /\ (canonical # None => canonical[d] \in Nat)
    BY VersionFact, DomainsFact DEF TypeOK, Locals
  <2>4. \A d \in AllDomains : sources'[d] \in Nat
    BY VersionFact DEF TypeOK
  <2>5. Seen'
    BY <2>1, <2>2, <2>3, <2>4 DEF Seen
  <2> QED BY <2>1, <2>5 DEF Claimed, Passed, Caught
<1>2. CASE LoseCheckpoint
  BY <1>2 DEF LoseCheckpoint, Seen, Claimed, Passed, Caught
<1>3. CASE Run
  <2>1. UNCHANGED <<sources, checkpoint, cycle, baseline>> /\ pipe'["cycle"] = pipe["cycle"]
    BY <1>3 DEF Run, TypeOK, Pipelines
  <2>2. canonical # None => canonical' = canonical
    BY <1>3 DEF Run, Opened
  <2>3. canonical = None => canonical' = Zero
    BY <1>3 DEF Run, Opened
  <2>4. \A d \in AllDomains : sources[d] \in Nat
    BY VersionFact DEF TypeOK
  <2>5. Seen'
    BY <2>1, <2>2, <2>3, <2>4, IdleMark DEF Seen
  <2>6. cycle.pc = "pipeline" => canonical # None
    BY DEF Numbered, Pipelines
  <2>7. Claimed' /\ Caught'
    BY <2>1, <2>2 DEF Claimed, Caught
  <2>9. canonical' # None
    BY <2>2, <2>3, ZeroFact, DomainsFact
  <2>8. Passed'
    BY <2>1, <2>2, <2>6, <2>9 DEF Passed
  <2> QED BY <2>5, <2>7, <2>8
<1>4. ASSUME NEW job \in OtherJobs, SubmitOther(job) PROVE Seen' /\ Claimed' /\ Passed' /\ Caught'
  BY <1>4 DEF SubmitOther, Seen, Claimed, Passed, Caught
<1> QED BY <1>1, <1>2, <1>3, <1>4

LEMMA EvidenceLocals ==
  ASSUME EvidenceInv, TypeInv',
         \/ AppendEvent \/ Start \/ Invoke \/ Walk \/ Return
         \/ \E b \in BOOLEAN : Collect(b) \/ Dispatch(b)
         \/ JournalEvidence \/ JournalNeeds \/ JournalJobs
  PROVE  Seen' /\ Claimed' /\ Passed' /\ Caught'
<1> USE DEF EvidenceInv, TypeInv
<1>0. UNCHANGED <<sources, canonical, checkpoint, pipe, baseline>> /\ Claimed'
  BY DEF AppendEvent, Start, Invoke, Walk, Return, Collect, Dispatch, JournalEvidence, JournalNeeds,
         JournalJobs, stores, Claimed
<1>1. \A d \in AllDomains : sources[d] \in Nat
  BY VersionFact DEF TypeOK
<1>2. cycle \in Locals
  BY DEF TypeOK
<1>3. CASE AppendEvent
  <2>1. cycle'.pc = cycle.pc /\ cycle'.mark = cycle.mark /\ cycle'.action = cycle.action
    BY <1>2, <1>3 DEF AppendEvent, Locals
  <2> QED BY <1>0, <2>1 DEF Seen, Passed, Caught
<1>4. CASE Start \/ Return
  <2>1. cycle'.pc \in {"idle", "invoke"} /\ cycle'.mark = Zero
    BY <1>4 DEF Start, Return, Idle
  <2> QED BY <1>0, <1>1, <2>1, IdleMark DEF Seen, Passed, Caught
<1>5. CASE Invoke \/ Walk \/ \E b \in BOOLEAN : Collect(b)
  <2>1. cycle'.pc \in {"invoke", "walk"}
    BY <1>2, <1>5 DEF Invoke, Walk, Collect, At, Locals
  <2>2. \A d \in AllDomains : cycle'.mark[d] = cycle.mark[d] \/ cycle'.mark[d] = sources[d]
    <3> DEFINE e == Domains[cycle.i]
               m == [cycle.mark EXCEPT ![e] = sources[e]]
    <3>1. CASE Invoke \/ \E b \in BOOLEAN : Collect(b)
      <4>1. cycle'.mark = cycle.mark
        BY <1>2, <3>1 DEF Invoke, Collect, Locals
      <4> QED BY <4>1
    <3>2. CASE Walk
      <4>1. cycle' = [cycle EXCEPT !.i = cycle.i + 1, !.mark = m]
        BY <3>2 DEF Walk
      <4>2. \A d \in AllDomains : m[d] = cycle.mark[d] \/ m[d] = sources[d]
        BY <1>2 DEF Locals, Versions
      <4> HIDE DEF m
      <4>3. cycle'.mark = m
        BY <4>1, <1>2 DEF Locals
      <4> QED BY <4>2, <4>3
    <3> QED BY <1>5, <3>1, <3>2
  <2>3. Seen'
    BY <1>0, <1>1, <2>2 DEF Seen
  <2> QED BY <2>1, <2>3, <1>0 DEF Passed, Caught
<1>6. CASE JournalEvidence \/ JournalNeeds \/ JournalJobs
  <2>1. /\ cycle.pc \in {"evidence", "count"} /\ cycle'.pc \in {"evidence", "count", "dispatch"}
        /\ cycle'.mark = cycle.mark
    BY <1>2, <1>6 DEF JournalEvidence, JournalNeeds, JournalJobs, At, Locals
  <2> QED BY <1>0, <2>1 DEF Seen, Passed, Caught
<1>7. ASSUME NEW b \in BOOLEAN, Dispatch(b) PROVE Seen' /\ Passed' /\ Caught'
  <2>1. cycle.pc = "dispatch"
    BY <1>7 DEF Dispatch, At
  <2>2. cycle' = Idle \/ (cycle'.pc = "return" /\ cycle'.mark = cycle.mark)
    <3> DEFINE es == (IF b THEN InAllWorlds("COMPUTE_JOB_DISPATCHED") ELSE <<>>) \o
                     (IF cycle.collected THEN InAllWorlds("COMPUTE_JOB_RESULT_RECEIVED") ELSE <<>>) \o
                     InAllWorlds("WORLD_CYCLE_COMPLETED")
    <3>1. cycle' = Idle \/ cycle' = [cycle EXCEPT !.pc = "return", !.todo = es]
      BY <1>7 DEF Dispatch
    <3> HIDE DEF es
    <3> QED BY <1>2, <3>1 DEF Locals
  <2> QED BY <1>0, <1>1, <2>1, <2>2, IdleMark DEF Seen, Passed, Caught
<1> QED BY <1>0, <1>3, <1>4, <1>5, <1>6, <1>7

(* The decision: a skip rests on what the checkpoint claims.               *)
LEMMA EvidenceDecide ==
  ASSUME EvidenceInv, TypeInv', Decide
  PROVE  Seen' /\ Claimed' /\ Passed' /\ Caught'
<1> USE DEF EvidenceInv, TypeInv
<1>0. UNCHANGED <<sources, checkpoint, baseline>> /\ canonical' = Opened
  BY DEF Decide
<1>1. cycle \in Locals /\ \A d \in AllDomains : sources[d] \in Nat
  BY VersionFact DEF TypeOK
<1>2. canonical' # None /\ (canonical # None => canonical' = canonical) /\ (canonical = None => canonical' = Zero)
  BY <1>0, ZeroFact, DomainsFact DEF Opened
<1> DEFINE pc == CASE decide = "RUN_INGESTION" -> "pipeline"
                   [] decide = "BOOTSTRAP_CHECKPOINT" -> "save"
                   [] decide = "SKIP_INGESTION" -> "count"
           act == decide
<1>a. cycle' = [cycle EXCEPT !.action = act, !.pc = pc]
  BY DEF Decide
<1>b. decide \in {"BOOTSTRAP_CHECKPOINT", "RUN_INGESTION", "SKIP_INGESTION"}
  BY <1>1 DEF decide, Locals
<1>c. (pc = "pipeline" /\ act = "RUN_INGESTION") \/ (pc = "save" /\ act = "BOOTSTRAP_CHECKPOINT")
      \/ (pc = "count" /\ act = "SKIP_INGESTION")
  BY <1>b
<1>d. act = "SKIP_INGESTION" => checkpoint # None /\ checkpoint.mark = cycle.mark
  BY DEF decide
<1> HIDE DEF pc, act
<1>3. cycle'.mark = cycle.mark /\ cycle'.action = act /\ cycle'.pc = pc
  BY <1>a, <1>1 DEF Locals
<1>4. Seen'
  BY <1>0, <1>1, <1>2, <1>3, IdleMark DEF Seen
<1>5. Claimed'
  BY <1>0, <1>2 DEF Claimed
<1>6. act = "RUN_INGESTION" => pipe'["cycle"] = 1
  BY DEF Decide, act, TypeOK, Pipelines
<1>7. Passed'
  BY <1>2, <1>3, <1>6, <1>c DEF Passed
<1>8. Caught'
  BY <1>0, <1>2, <1>3, <1>c, <1>d DEF Caught, Claimed
<1> QED BY <1>4, <1>5, <1>7, <1>8

(* Saving: the checkpoint has the mark the pipeline went past.             *)
LEMMA EvidenceSave ==
  ASSUME EvidenceInv, TypeInv', Save
  PROVE  Seen' /\ Claimed' /\ Passed' /\ Caught'
<1> USE DEF EvidenceInv, TypeInv
<1>0. UNCHANGED <<sources, canonical, pipe>> /\ cycle.pc = "save" /\ canonical # None
  BY DEF Save, At, Passed
<1>1. cycle \in Locals /\ (\A d \in AllDomains : sources[d] \in Nat /\ cycle.mark[d] \in Nat)
      /\ baseline \in Versions /\ (\A d \in AllDomains : baseline[d] \in Nat)
  BY VersionFact DEF TypeOK, Locals
<1>2. (cycle'.pc \in {"count", "evidence"} /\ cycle'.mark = cycle.mark) \/ cycle' = Idle
  <2>1. cycle' = [cycle EXCEPT !.pc = "count"] \/ cycle' = [cycle EXCEPT !.pc = "evidence", !.i = 1] \/ cycle' = Idle
    BY DEF Save
  <2> QED BY <2>1, <1>1 DEF Locals
<1>3. Seen'
  BY <1>0, <1>1, <1>2, IdleMark DEF Seen
<1>4. cycle.action = "RUN_INGESTION" => baseline' = baseline
  BY DEF Save
<1>5. cycle.action # "RUN_INGESTION" => \A d \in AllDomains : cycle.mark[d] <= baseline'[d]
  BY <1>1 DEF Save
<1>6. checkpoint'.mark = cycle.mark
      /\ (checkpoint'.mode = "AFTER_INGESTION" <=> cycle.action = "RUN_INGESTION")
  BY DEF Save
<1>7. Claimed'
  BY <1>0, <1>5, <1>6 DEF Claimed, Passed
<1>8. Passed'
  BY <1>2, IdleMark DEF Passed
<1>9. Caught'
  BY <1>0, <1>2, <1>5, IdleMark DEF Caught, Passed
<1> QED BY <1>3, <1>7, <1>8, <1>9

(* The steps of a pipeline bring what is ingested forward.                 *)
LEMMA EvidencePipeline ==
  ASSUME EvidenceInv, TypeInv', NEW p \in Pipelines,
         Ingest(p) \/ (\E b \in BOOLEAN : Gate(p, b)) \/ GateRaises(p) \/ Crash(p)
  PROVE  Seen' /\ Claimed' /\ Passed' /\ Caught'
<1> USE DEF EvidenceInv, TypeInv
<1>1. cycle \in Locals /\ (\A d \in AllDomains : sources[d] \in Nat /\ cycle.mark[d] \in Nat)
      /\ pipe \in [Pipelines -> 0 .. 2 * N] /\ "cycle" \in Pipelines
  BY VersionFact DEF TypeOK, Locals, Pipelines
<1>2. CASE Ingest(p)
  <2> DEFINE e == Domains[pipe[p]]
  <2>0. pipe[p] \in 1 .. N /\ e \in AllDomains
    BY <1>1, <1>2, DomainsFact DEF Ingest
  <2>1. canonical # None /\ canonical \in Versions /\ e \in AllDomains /\ pipe[p] \in 1 .. N
    BY <1>2, <2>0 DEF Ingest, Numbered, TypeOK
  <2>2. UNCHANGED <<sources, checkpoint, baseline>> /\ canonical' = [canonical EXCEPT ![e] = sources[e]]
    BY <1>2 DEF Ingest
  <2>3. \A d \in AllDomains : canonical[d] \in Nat
    BY <2>1, VersionFact
  <2>4. canonical'[e] = sources[e] /\ (\A d \in AllDomains : d # e => canonical'[d] = canonical[d])
    BY <2>1, <2>2 DEF Versions
  <2>5. canonical' # None /\ \A d \in AllDomains : canonical[d] <= canonical'[d] /\ canonical'[d] <= sources[d]
                                                   /\ canonical'[d] \in Nat
    <3>1. canonical' # None
      <4>1. sources[e] \in 0 .. MaxVersion
        BY <2>1 DEF TypeOK, Versions
      <4>2. canonical' \in Versions
        BY <2>1, <2>2, <4>1 DEF Versions
      <4> QED BY <4>2, DomainsFact
    <3> QED BY <3>1, <2>1, <2>3, <2>4, <1>1 DEF Seen
  <2>6. cycle'.pc = cycle.pc /\ cycle'.mark = cycle.mark /\ cycle'.action = cycle.action
    <3>1. CASE p = "cycle"
      BY <1>1, <1>2, <3>1 DEF Ingest, Locals
    <3>2. CASE p # "cycle"
      BY <1>2, <3>2 DEF Ingest
    <3> QED BY <3>1, <3>2
  <2>7. Seen'
    BY <2>2, <2>5, <2>6 DEF Seen
  <2>8. Claimed'
    <3>1. checkpoint # None => \A d \in AllDomains : checkpoint.mark[d] \in Nat
      BY VersionFact DEF TypeOK, Checkpoints
    <3> QED BY <3>1, <2>1, <2>2, <2>3, <2>5 DEF Claimed
  <2>9. Passed'
    <3>1. cycle.pc = "save" => canonical' # None /\ (cycle.action = "RUN_INGESTION" =>
              \A d \in AllDomains : cycle.mark[d] <= canonical'[d])
      BY <1>1, <2>3, <2>5 DEF Passed
    <3>2. ASSUME cycle.pc = "pipeline", NEW k \in 1 .. N, k < pipe'["cycle"]
          PROVE  cycle.mark[Domains[k]] <= canonical'[Domains[k]]
      <4>1. Domains[k] \in AllDomains
        BY DomainsFact
      <4>2. CASE k < pipe["cycle"]
        BY <3>2, <4>1, <4>2, <1>1, <2>3, <2>5 DEF Passed
      <4>3. CASE ~(k < pipe["cycle"])
        <5>1. p = "cycle" /\ k = pipe["cycle"]
          BY <3>2, <4>3, <1>1, <1>2, DomainsFact DEF Ingest, Pipelines
        <5> QED BY <5>1, <2>4, <1>1, <4>1 DEF Seen
      <4> QED BY <4>2, <4>3
    <3> QED BY <3>1, <3>2, <2>6 DEF Passed
  <2>10. Caught'
    BY <1>1, <2>2, <2>3, <2>5, <2>6 DEF Caught
  <2> QED BY <2>7, <2>8, <2>9, <2>10
<1>3. ASSUME NEW b \in BOOLEAN, Gate(p, b) PROVE Seen' /\ Claimed' /\ Passed' /\ Caught'
  <2>1. UNCHANGED <<sources, canonical, checkpoint, baseline>> /\ pipe[p] \in N + 1 .. 2 * N
    BY <1>3 DEF Gate
  <2>2. canonical # None
    BY <2>1, DomainsFact, <1>1 DEF Numbered
  <2>3. CASE p = "cycle" /\ ~(pipe[p] < 2 * N)
    <3>1. cycle' = [cycle EXCEPT !.pc = "save"]
      BY <1>3, <2>3 DEF Gate
    <3>2. cycle'.pc = "save" /\ cycle'.mark = cycle.mark /\ cycle'.action = cycle.action
      BY <3>1, <1>1 DEF Locals
    <3>3. cycle.pc = "pipeline" /\ N < pipe["cycle"]
      BY <2>1, <2>3, DomainsFact, <1>1 DEF Numbered
    <3>4. \A d \in AllDomains : cycle.mark[d] <= canonical[d]
      <4>1. \A k \in 1 .. N : k < pipe["cycle"]
        BY <3>3, <1>1, DomainsFact
      <4> QED BY <4>1, <3>3 DEF Passed, AllDomains, N
    <3> QED BY <2>1, <2>2, <3>2, <3>4 DEF Seen, Claimed, Passed, Caught
  <2>4. CASE p = "cycle" /\ pipe[p] < 2 * N
    <3>1. cycle' = cycle /\ pipe'["cycle"] = pipe["cycle"] + 1
      BY <1>1, <1>3, <2>4 DEF Gate
    <3>2. cycle.pc = "pipeline" => \A k \in 1 .. N : k < pipe["cycle"]
      BY <2>1, <2>4, <1>1, DomainsFact
    <3>3. Passed'
      BY <2>1, <3>1, <3>2 DEF Passed
    <3> QED BY <2>1, <3>1, <3>3 DEF Seen, Claimed, Caught
  <2>5. CASE p # "cycle"
    <3>1. cycle' = cycle /\ pipe'["cycle"] = pipe["cycle"]
      BY <1>1, <1>3, <2>5 DEF Gate
    <3> QED BY <2>1, <3>1 DEF Seen, Claimed, Passed, Caught
  <2> QED BY <2>3, <2>4, <2>5
<1>4. CASE Crash(p) \/ GateRaises(p)
  <2>1. UNCHANGED <<sources, canonical, checkpoint, baseline>>
    BY <1>4 DEF Crash, GateRaises, stores
  <2>2. cycle' = Idle \/ (cycle' = cycle /\ pipe'["cycle"] = pipe["cycle"])
    <3>1. CASE p = "cycle"
      BY <1>4, <3>1 DEF Crash, GateRaises
    <3>2. CASE p # "cycle"
      BY <1>1, <1>4, <3>2 DEF Crash, GateRaises
    <3> QED BY <3>1, <3>2
  <2>3. CASE cycle' = Idle
    BY <2>1, <2>3, <1>1, IdleMark DEF Seen, Claimed, Passed, Caught
  <2>4. CASE cycle' = cycle /\ pipe'["cycle"] = pipe["cycle"]
    BY <2>1, <2>4 DEF Seen, Claimed, Passed, Caught
  <2> QED BY <2>2, <2>3, <2>4
<1> QED BY <1>2, <1>3, <1>4

LEMMA EvidenceStep == EvidenceInv /\ [Next]_vars => EvidenceInv'
<1> SUFFICES ASSUME EvidenceInv, [Next]_vars PROVE EvidenceInv'
  OBVIOUS
<1>1. TypeInv'
  BY TypeStep DEF EvidenceInv
<1>2. CASE Next
  <2>1. Seen' /\ Claimed' /\ Passed' /\ Caught'
    BY <1>1, <1>2, EvidenceOutside, EvidenceLocals, EvidenceDecide, EvidenceSave, EvidencePipeline DEF Next
  <2> QED BY <1>1, <2>1 DEF EvidenceInv
<1>3. CASE UNCHANGED vars
  BY <1>1, <1>3 DEF vars, stores, counters, EvidenceInv, Seen, Claimed, Passed, Caught
<1> QED BY <1>2, <1>3

LEMMA Evidence == Spec => []EvidenceInv
<1>1. Init => EvidenceInv
  BY EvidenceInit
<1>2. EvidenceInv /\ [Next]_vars => EvidenceInv'
  BY EvidenceStep
<1> QED BY <1>1, <1>2, PTL DEF Spec

(* A checkpoint that an ingestion left claims no more than is ingested,    *)
(* whatever changes, dies or is lost meanwhile.                            *)
THEOREM CheckpointAlwaysCovers == Spec => []CheckpointCovers
<1>1. EvidenceInv => CheckpointCovers
  BY DEF EvidenceInv, Claimed, CheckpointCovers
<1> QED BY <1>1, Evidence, PTL

(* A completed cycle has ingested, or taken for ingested by a bootstrap,   *)
(* all the evidence it has seen.                                           *)
THEOREM CompletedCurrent == Spec => []CompletedIsCurrent
<1>1. EvidenceInv => CompletedIsCurrent
  BY DEF EvidenceInv, Caught, CompletedIsCurrent
<1> QED BY <1>1, Evidence, PTL

-----------------------------------------------------------------------------
(* Without faults, raises and `run` commands there is a canonical state only where *)
(* there is a checkpoint, or a cycle on its way to save the first one.     *)
Caused ==
  faults = 0 /\ runs = 0 /\ ~raised =>
    /\ baseline = Zero
    /\ canonical # None => checkpoint # None \/ cycle.pc \in {"pipeline", "save"}
    /\ cycle.exists => checkpoint # None
    /\ cycle.pc \in {"pipeline", "save"} => cycle.action = "RUN_INGESTION"

CauseInv == TypeInv /\ Caused

LEMMA IdleCause == Idle.exists = FALSE /\ Idle.pc = "idle"
BY DEF Idle

LEMMA CauseInit == Init => CauseInv
<1> SUFFICES ASSUME Init PROVE CauseInv
  OBVIOUS
<1>1. Caused
  BY IdleCause DEF Init, Caused
<1> QED BY <1>1, TypeInit DEF CauseInv

(* The steps between the start of a cycle and its decision, or after it    *)
(* has saved its checkpoint.                                               *)
LEMMA CauseLocals ==
  ASSUME CauseInv,
         \/ AppendEvent \/ Start \/ Invoke \/ Walk \/ Return
         \/ \E b \in BOOLEAN : Collect(b) \/ Dispatch(b)
         \/ JournalEvidence \/ JournalNeeds \/ JournalJobs
  PROVE  Caused'
<1> USE DEF CauseInv, TypeInv
<1>1. UNCHANGED <<canonical, checkpoint, baseline, faults, runs, raised>>
  BY DEF AppendEvent, Start, Invoke, Walk, Return, Collect, Dispatch, JournalEvidence, JournalNeeds,
         JournalJobs, stores, counters
<1>2. cycle \in Locals
  BY DEF TypeOK
<1>3. CASE AppendEvent
  <2>1. cycle'.pc = cycle.pc /\ cycle'.exists = cycle.exists /\ cycle'.action = cycle.action
    BY <1>2, <1>3 DEF AppendEvent, Locals
  <2> QED BY <1>1, <2>1 DEF Caused
<1>4. CASE Start \/ Return
  <2>1. cycle.pc \in {"idle", "return"} /\ cycle'.pc \in {"idle", "invoke"} /\ cycle'.exists = FALSE
    BY <1>4 DEF Start, Return, Idle, At
  <2> QED BY <1>1, <2>1 DEF Caused
<1>5. CASE Invoke \/ Walk \/ JournalEvidence \/ JournalNeeds \/ JournalJobs
  <2>1. cycle.pc \in {"invoke", "walk", "evidence", "count"}
    BY <1>5 DEF Invoke, Walk, JournalEvidence, JournalNeeds, JournalJobs, At
  <2>2. cycle'.pc \in {"invoke", "walk", "evidence", "count", "dispatch"} /\ cycle'.exists = cycle.exists
    BY <1>2, <1>5, <2>1 DEF Invoke, Walk, JournalEvidence, JournalNeeds, JournalJobs, Locals
  <2> QED BY <1>1, <2>1, <2>2 DEF Caused
<1>6. ASSUME NEW b \in BOOLEAN, Collect(b) PROVE Caused'
  <2> DEFINE x == canonical # None
  <2>1. cycle.pc = "invoke" /\ cycle' = [cycle EXCEPT !.pc = "walk", !.i = 1, !.collected = b, !.before = jobs, !.exists = x]
    BY <1>6 DEF Collect, At
  <2> HIDE DEF x
  <2>2. cycle'.pc = "walk" /\ cycle'.exists = x
    BY <1>2, <2>1 DEF Locals
  <2> QED BY <1>1, <2>1, <2>2 DEF Caused, x
<1>7. ASSUME NEW b \in BOOLEAN, Dispatch(b) PROVE Caused'
  <2> DEFINE es == (IF b THEN InAllWorlds("COMPUTE_JOB_DISPATCHED") ELSE <<>>) \o
                   (IF cycle.collected THEN InAllWorlds("COMPUTE_JOB_RESULT_RECEIVED") ELSE <<>>) \o
                   InAllWorlds("WORLD_CYCLE_COMPLETED")
  <2>1. cycle.pc = "dispatch" /\ (cycle' = Idle \/ cycle' = [cycle EXCEPT !.pc = "return", !.todo = es])
    BY <1>7 DEF Dispatch, At
  <2> HIDE DEF es
  <2>2. cycle'.pc \in {"return", "idle"} /\ (cycle'.exists = cycle.exists \/ cycle'.exists = FALSE)
    BY <1>2, <2>1, IdleCause DEF Locals
  <2> QED BY <1>1, <2>1, <2>2 DEF Caused
<1> QED BY <1>3, <1>4, <1>5, <1>6, <1>7

(* The decision does not bootstrap, and saving gives the checkpoint.       *)
LEMMA CauseSteps ==
  ASSUME CauseInv, Decide \/ Save
  PROVE  Caused'
<1> USE DEF CauseInv, TypeInv
<1>1. cycle \in Locals
  BY DEF TypeOK
<1>2. CASE Decide
  <2>1. UNCHANGED <<checkpoint, baseline, faults, runs, raised>> /\ cycle.pc = "walk"
    BY <1>2 DEF Decide, counters, At
  <2> DEFINE act == decide
             pc == CASE decide = "RUN_INGESTION" -> "pipeline"
                     [] decide = "BOOTSTRAP_CHECKPOINT" -> "save"
                     [] decide = "SKIP_INGESTION" -> "count"
  <2>2. cycle' = [cycle EXCEPT !.action = act, !.pc = pc]
    BY <1>2 DEF Decide
  <2>3. faults = 0 /\ runs = 0 /\ ~raised =>
          \/ act = "RUN_INGESTION" /\ pc = "pipeline"
          \/ act = "SKIP_INGESTION" /\ pc = "count" /\ checkpoint # None
    BY <1>1 DEF Caused, decide, Locals
  <2> HIDE DEF act, pc
  <2>4. cycle'.action = act /\ cycle'.pc = pc /\ cycle'.exists = cycle.exists
    BY <1>1, <2>2 DEF Locals
  <2> QED BY <2>1, <2>3, <2>4 DEF Caused
<1>3. CASE Save
  <2>1. UNCHANGED <<canonical, faults, runs, raised>> /\ cycle.pc = "save" /\ checkpoint' # None
    <3>1. checkpoint' \in Checkpoints
      <4>1. cycle.pc = "save" /\ cycles \in 1 .. MaxCycles
        BY <1>3, DomainsFact DEF Save, At, TypeOK, Numbered
      <4> QED BY <1>1, <1>3, <4>1 DEF Save, Checkpoints, Locals
    <3> QED BY <1>3, <3>1, DomainsFact DEF Save, counters, At
  <2>2. faults = 0 /\ runs = 0 /\ ~raised => baseline' = baseline
    BY <1>3, <2>1 DEF Save, Caused
  <2>3. cycle'.pc \in {"count", "evidence", "idle"}
    BY <1>1, <1>3, IdleCause DEF Save, Locals
  <2> QED BY <2>1, <2>2, <2>3 DEF Caused
<1> QED BY <1>2, <1>3

(* The pipeline of a cycle; a `run`, a death and a raise end the premise.  *)
LEMMA CauseOthers ==
  ASSUME CauseInv,
         \/ \E d \in AllDomains : Arrive(d)
         \/ \E job \in OtherJobs : SubmitOther(job)
         \/ LoseCheckpoint \/ Run
         \/ \E p \in Pipelines : Ingest(p) \/ (\E b \in BOOLEAN : Gate(p, b)) \/ GateRaises(p) \/ Crash(p)
  PROVE  Caused'
<1> USE DEF CauseInv, TypeInv
<1>1. cycle \in Locals /\ faults \in Nat /\ runs \in Nat
  BY DomainsFact DEF TypeOK
<1>2. CASE (\E d \in AllDomains : Arrive(d)) \/ LoseCheckpoint \/ Run \/ \E p \in Pipelines : Crash(p)
  <2>1. CASE \E d \in AllDomains : Arrive(d)
    BY <2>1 DEF Arrive, counters, Caused
  <2>2. CASE LoseCheckpoint \/ Run \/ \E p \in Pipelines : Crash(p)
    <3>1. ~(faults' = 0 /\ runs' = 0 /\ ~raised')
      BY <1>1, <2>2 DEF LoseCheckpoint, Run, Crash
    <3> QED BY <3>1 DEF Caused
  <2> QED BY <1>2, <2>1, <2>2
<1>3. ASSUME NEW p \in Pipelines, Ingest(p) PROVE Caused'
  <2>1. UNCHANGED <<checkpoint, baseline, faults, runs, raised>> /\ canonical # None
    BY <1>3, DomainsFact DEF Ingest, counters, Numbered
  <2>2. cycle'.pc = cycle.pc /\ cycle'.exists = cycle.exists /\ cycle'.action = cycle.action
    <3>1. CASE p = "cycle"
      BY <1>1, <1>3, <3>1 DEF Ingest, Locals
    <3>2. CASE p # "cycle"
      BY <1>3, <3>2 DEF Ingest
    <3> QED BY <3>1, <3>2
  <2> QED BY <2>1, <2>2 DEF Caused
<1>4. ASSUME NEW p \in Pipelines, NEW b \in BOOLEAN, Gate(p, b) PROVE Caused'
  <2>1. UNCHANGED <<canonical, checkpoint, baseline, faults, runs, raised>>
    BY <1>4 DEF Gate, counters
  <2>2. cycle' = cycle \/ (p = "cycle" /\ cycle' = [cycle EXCEPT !.pc = "save"])
    BY <1>4 DEF Gate
  <2>3. p = "cycle" => cycle.pc = "pipeline"
    BY <1>4, DomainsFact DEF Gate, Numbered
  <2>4. CASE cycle' = cycle
    BY <2>1, <2>4 DEF Caused
  <2>5. CASE p = "cycle" /\ cycle' = [cycle EXCEPT !.pc = "save"]
    <3>1. cycle'.pc = "save" /\ cycle'.exists = cycle.exists /\ cycle'.action = cycle.action
      BY <1>1, <2>5 DEF Locals
    <3> QED BY <2>1, <2>3, <2>5, <3>1 DEF Caused
  <2> QED BY <2>2, <2>4, <2>5
<1>5. ASSUME NEW job \in OtherJobs, SubmitOther(job) PROVE Caused'
  BY <1>5 DEF SubmitOther, counters, Caused
<1>6. ASSUME NEW p \in Pipelines, GateRaises(p) PROVE Caused'
  <2>1. CASE p = "cycle"
    BY <1>6, <2>1 DEF GateRaises, Caused
  <2>2. CASE p # "cycle"
    BY <1>6, <2>2 DEF GateRaises, stores, Caused
  <2> QED BY <2>1, <2>2
<1> QED BY <1>2, <1>3, <1>4, <1>5, <1>6

LEMMA CauseStep == CauseInv /\ [Next]_vars => CauseInv'
<1> SUFFICES ASSUME CauseInv, [Next]_vars PROVE CauseInv'
  OBVIOUS
<1>1. TypeInv'
  BY TypeStep DEF CauseInv
<1>2. CASE Next
  BY <1>1, <1>2, CauseLocals, CauseSteps, CauseOthers DEF Next, CauseInv
<1>3. CASE UNCHANGED vars
  BY <1>1, <1>3 DEF vars, stores, counters, CauseInv, Caused
<1> QED BY <1>2, <1>3

(* No cycle takes evidence for ingested that is not, unless one was cut    *)
(* off or had its pipeline raise, the checkpoint was lost or a `run` went  *)
(* before it.                                                              *)
THEOREM BaselineCaused == Spec => []BaselineHasCause
<1>1. Init => CauseInv
  BY CauseInit
<1>2. CauseInv /\ [Next]_vars => CauseInv'
  BY CauseStep
<1>3. CauseInv => BaselineHasCause
  BY DEF CauseInv, Caused, BaselineHasCause
<1> QED BY <1>1, <1>2, <1>3, PTL DEF Spec

-----------------------------------------------------------------------------
(* The account of a completed cycle.  Whatever a cycle under way has done  *)
(* it still owes an event of, at a step that has yet to come, or has put   *)
(* before the journal or into it; and when it comes to its last events     *)
(* nothing is owed, and everything else stands before them.                *)
Telling(e, c, t, d, w) == e.cycle = c /\ e.type = t /\ e.domain = d /\ (d = None => e.world = w)

Queued(es, k, c, t, d, w) == \E j \in 1 .. k : Telling(es[j], c, t, d, w)

InJournal(c, t, d, w) == Journalled(Len(journal), c, t, d, w)

Told(c, t, d, w) == InJournal(c, t, d, w) \/ Queued(cycle.todo, Len(cycle.todo), c, t, d, w)

(* A domain of a pipeline's ingestion that is still to be journalled.      *)
Ahead(d) ==
  /\ d \in AllDomains /\ cycle.action = "RUN_INGESTION"
  /\ \/ cycle.pc \in {"pipeline", "save"}
     \/ cycle.pc = "evidence" /\ \E k \in 1 .. N : cycle.i <= k /\ Domains[k] = d

BeforeCount == {"pipeline", "save", "evidence"}

Owes(a) ==
  \/ a.type = "RAW_EVIDENCE_INGESTED" /\ Ahead(a.domain)
  \/ a.type = "EXPERIENCE_CREATED" /\ Ahead(a.domain) /\ a.domain \in Markets /\ a.domain \in cycle.inserted
  \/ /\ a.type = "TRAINING_NEED_CREATED" /\ a.domain \in AllDomains
     /\ cycle.action = "RUN_INGESTION" /\ cycle.pc \in BeforeCount
  \/ /\ a.type = "COMPUTE_JOB_CREATED" /\ a.domain = None
     /\ cycle.pc \in BeforeCount \union {"count"} /\ \E d \in jobs : d \notin cycle.before
  \/ /\ a.type = "COMPUTE_JOB_RESULT_RECEIVED" /\ a.domain = None
     /\ cycle.pc \in BeforeCount \union {"walk", "count", "dispatch"} /\ cycle.collected

Settled ==
  cycle.pc # "idle" => \A a \in account : a.cycle = cycles =>
    Owes(a) \/ \A w \in AllWorlds : Told(cycles, a.type, a.domain, w)

Opening ==
  cycle.pc # "idle" => \A k \in 1 .. Len(Worlds) : (cycle.pc = "invoke" => k < cycle.i) =>
    /\ <<cycles, Worlds[k]>> \in invocations
    /\ Told(cycles, "WORLD_CYCLE_STARTED", None, Worlds[k])
    /\ Told(cycles, "GOVERNANCE_VALIDATED", None, Worlds[k])

Completing ==
  \A j \in 1 .. Len(cycle.todo) :
    /\ cycle.todo[j].cycle = cycles
    /\ cycle.todo[j].type = "WORLD_CYCLE_COMPLETED" =>
         /\ cycle.pc = "return"
         /\ InJournal(cycles, "WORLD_CYCLE_STARTED", None, cycle.todo[j].world)
         /\ InJournal(cycles, "GOVERNANCE_VALIDATED", None, cycle.todo[j].world)
         /\ \A a \in account : a.cycle = cycles =>
              \/ InJournal(cycles, a.type, a.domain, cycle.todo[j].world)
              \/ Queued(cycle.todo, j - 1, cycles, a.type, a.domain, cycle.todo[j].world)

Ended ==
  /\ \A a \in account : a.cycle <= cycles
  /\ \A j \in 1 .. Len(journal) :
       /\ journal[j].cycle <= cycles
       /\ journal[j].type = "WORLD_CYCLE_COMPLETED" /\ journal[j].cycle = cycles
            => cycle.pc \in {"return", "idle"}

Framed ==
  /\ cycle.pc \in BeforeCount \union {"walk", "count"} => cycle.before \subseteq jobs
  /\ cycle.pc = "pipeline" => cycle.action = "RUN_INGESTION"
  /\ cycle.pc \in {"idle", "pipeline"} => cycle.todo = <<>>

AccountInv == Settled /\ Opening /\ Completing /\ Ended /\ Framed /\ CompletedIsAccounted

(* An element of a sequence is its head or in its tail.                    *)
LEMMA TailFact ==
  ASSUME NEW S, NEW s \in Seq(S), s # <<>>, NEW j \in 1 .. Len(s)
  PROVE  \/ j = 1 /\ s[j] = Head(s)
         \/ j - 1 \in 1 .. Len(Tail(s)) /\ Tail(s)[j - 1] = s[j]
<1>1. Len(Tail(s)) = Len(s) - 1 /\ \A k \in 1 .. Len(s) - 1 : Tail(s)[k] = s[k + 1]
  OBVIOUS
<1>2. j = 1 \/ (j - 1 \in 1 .. Len(s) - 1 /\ (j - 1) + 1 = j)
  OBVIOUS
<1>3. Head(s) = s[1]
  OBVIOUS
<1> QED BY <1>1, <1>2, <1>3

LEMMA EventTells == ASSUME NEW t, NEW w PROVE Telling(Event(t, w, None), cycles, t, None, w)
BY DEF Telling, Event

LEMMA InDomainTells ==
  ASSUME NEW t, NEW d \in AllDomains, NEW w
  PROVE  Telling(InDomain(t, d), cycles, t, d, w)
BY DomainsFact DEF Telling, InDomain, Event

LEMMA WorldsFact == ASSUME NEW w \in AllWorlds PROVE \E k \in 1 .. Len(Worlds) : Worlds[k] = w
BY DEF AllWorlds

(* With nothing left to append, what is told is in the journal.            *)
LEMMA ToldIsJournalled ==
  ASSUME cycle.todo = <<>>, NEW c, NEW t, NEW d, NEW w, Told(c, t, d, w)
  PROVE  InJournal(c, t, d, w)
<1>1. ~Queued(<<>>, 0, c, t, d, w)
  BY DEF Queued
<1> QED BY <1>1 DEF Told

LEMMA JournalSame ==
  ASSUME UNCHANGED journal
  PROVE  \A c, t, d, w : InJournal(c, t, d, w) <=> InJournal(c, t, d, w)'
BY DEF InJournal, Journalled

LEMMA AppendTells ==
  ASSUME TypeInv, AppendEvent, NEW c, NEW t, NEW d, NEW w
  PROVE  /\ InJournal(c, t, d, w) => InJournal(c, t, d, w)'
         /\ Telling(Head(cycle.todo), c, t, d, w) => InJournal(c, t, d, w)'
         /\ \A k \in 0 .. Len(cycle.todo) : Queued(cycle.todo, k, c, t, d, w) =>
              \/ Telling(Head(cycle.todo), c, t, d, w)
              \/ Queued(Tail(cycle.todo), k - 1, c, t, d, w)
<1>1. cycle.todo \in Seq(Events) /\ cycle.todo # <<>> /\ journal \in Seq(Events)
  BY DEF AppendEvent, TypeInv, TypeOK, Locals
<1>2. journal' = Append(journal, Head(cycle.todo))
  BY DEF AppendEvent
<1>3. Len(journal') = Len(journal) + 1 /\ journal'[Len(journal) + 1] = Head(cycle.todo)
      /\ \A j \in 1 .. Len(journal) : journal'[j] = journal[j]
  BY <1>1, <1>2
<1>4. InJournal(c, t, d, w) => InJournal(c, t, d, w)'
  BY <1>1, <1>3 DEF InJournal, Journalled
<1>5. Telling(Head(cycle.todo), c, t, d, w) => InJournal(c, t, d, w)'
  <2>1. Len(journal) + 1 \in 1 .. Len(journal')
    BY <1>1, <1>3
  <2> QED
    BY <1>3, <2>1 DEF Telling, InJournal, Journalled
<1>6. ASSUME NEW k \in 0 .. Len(cycle.todo), Queued(cycle.todo, k, c, t, d, w),
             ~Telling(Head(cycle.todo), c, t, d, w)
      PROVE  Queued(Tail(cycle.todo), k - 1, c, t, d, w)
  <2>1. PICK j \in 1 .. k : Telling(cycle.todo[j], c, t, d, w)
    BY <1>6 DEF Queued
  <2>2. j \in 1 .. Len(cycle.todo)
    BY <1>1
  <2>3. j - 1 \in 1 .. Len(Tail(cycle.todo)) /\ Tail(cycle.todo)[j - 1] = cycle.todo[j]
    BY <1>1, <1>6, <2>1, <2>2, TailFact
  <2>4. j - 1 \in 1 .. k - 1
    BY <1>1, <2>2, <2>3
  <2> QED
    BY <2>1, <2>3, <2>4 DEF Queued
<1> QED
  BY <1>4, <1>5, <1>6

(* What is in the account of a completed cycle stays there when only the   *)
(* account of a cycle that has not come to its end grows.                  *)
LEMMA AccountedKept ==
  ASSUME CompletedIsAccounted, Ended, UNCHANGED journal, invocations \subseteq invocations',
         \A a \in account' : a \in account \/ (a.cycle = cycles /\ cycle.pc \notin {"return", "idle"})
  PROVE  CompletedIsAccounted'
<1> SUFFICES ASSUME NEW k \in 1 .. Len(journal), journal[k].type = "WORLD_CYCLE_COMPLETED"
             PROVE  LET e == journal[k] IN
                    /\ <<e.cycle, e.world>> \in invocations'
                    /\ Journalled(k, e.cycle, "WORLD_CYCLE_STARTED", None, e.world)
                    /\ Journalled(k, e.cycle, "GOVERNANCE_VALIDATED", None, e.world)
                    /\ \A a \in account' : a.cycle = e.cycle => Journalled(k, e.cycle, a.type, a.domain, e.world)
  BY DEF CompletedIsAccounted, Journalled
<1>1. \A a \in account' : a.cycle = journal[k].cycle => a \in account
  BY DEF Ended
<1> QED
  BY <1>1 DEF CompletedIsAccounted

(* A step at which nothing is left to append, and after which the cycle is *)
(* still under way: what it does is owed, or is put before the journal.    *)
LEMMA AccountStep ==
  ASSUME cycles \in Nat, AccountInv, UNCHANGED <<journal, cycles>>, invocations \subseteq invocations', cycle.todo = <<>>,
         cycle.pc \notin {"idle", "return"}, cycle'.pc \notin {"idle", "return"},
         \A a \in account' : a \in account \/ a.cycle = cycles,
         \A j \in 1 .. Len(cycle'.todo) :
           cycle'.todo[j].cycle = cycles /\ cycle'.todo[j].type # "WORLD_CYCLE_COMPLETED",
         \A a \in account' : a.cycle = cycles /\ (a \in account => Owes(a)) =>
           \/ Owes(a)'
           \/ \A w \in AllWorlds : Queued(cycle'.todo, Len(cycle'.todo), cycles, a.type, a.domain, w),
         Opening', Framed'
  PROVE  AccountInv'
<1>1. Settled /\ Ended /\ CompletedIsAccounted
  BY DEF AccountInv
<1>2. Settled'
  <2> SUFFICES ASSUME NEW a \in account', a.cycle = cycles, ~Owes(a)', NEW w \in AllWorlds
               PROVE  Told(cycles, a.type, a.domain, w)'
    BY DEF Settled
  <2>1. CASE a \in account => Owes(a)
    <3>1. Queued(cycle'.todo, Len(cycle'.todo), cycles, a.type, a.domain, w)
      BY <2>1
    <3> QED
      BY <3>1 DEF Told
  <2>2. CASE a \in account /\ ~Owes(a)
    <3>1. Told(cycles, a.type, a.domain, w)
      BY <1>1, <2>2 DEF Settled
    <3>2. InJournal(cycles, a.type, a.domain, w)
      BY <3>1, ToldIsJournalled
    <3> QED
      BY <3>2 DEF Told, InJournal, Journalled
  <2> QED
    BY <2>1, <2>2
<1>3. Completing'
  BY DEF Completing
<1>4. Ended'
  <2>1. \A a \in account' : a.cycle <= cycles'
    <3> SUFFICES ASSUME NEW a \in account' PROVE a.cycle <= cycles
      OBVIOUS
    <3> QED
      BY <1>1 DEF Ended
  <2> QED
    BY <1>1, <2>1 DEF Ended
<1>5. CompletedIsAccounted'
  BY <1>1, AccountedKept
<1> QED
  BY <1>2, <1>3, <1>4, <1>5 DEF AccountInv

LEMMA OpeningKept ==
  ASSUME Opening, UNCHANGED <<journal, cycles>>, invocations \subseteq invocations', cycle.todo = <<>>,
         cycle.pc # "idle", cycle.pc = "invoke" => \A k \in 1 .. Len(Worlds) : k < cycle.i
  PROVE  Opening'
<1> SUFFICES ASSUME NEW k \in 1 .. Len(Worlds)
             PROVE  /\ <<cycles, Worlds[k]>> \in invocations'
                    /\ Told(cycles, "WORLD_CYCLE_STARTED", None, Worlds[k])'
                    /\ Told(cycles, "GOVERNANCE_VALIDATED", None, Worlds[k])'
  BY DEF Opening
<1>1. /\ <<cycles, Worlds[k]>> \in invocations
      /\ Told(cycles, "WORLD_CYCLE_STARTED", None, Worlds[k])
      /\ Told(cycles, "GOVERNANCE_VALIDATED", None, Worlds[k])
  BY DEF Opening
<1>2. /\ InJournal(cycles, "WORLD_CYCLE_STARTED", None, Worlds[k])
      /\ InJournal(cycles, "GOVERNANCE_VALIDATED", None, Worlds[k])
  BY <1>1, ToldIsJournalled
<1> QED
  BY <1>1, <1>2 DEF Told, InJournal, Journalled

(* A cycle that ends, at its last step or in the midst of any, also one    *)
(* that leaves a deed of its last step without an event.                   *)
LEMMA AccountEnds ==
  ASSUME cycles \in Nat, AccountInv, UNCHANGED <<journal, invocations, cycles, jobs>>, cycle' = Idle,
         \A a \in account' : a \in account \/ (a.cycle = cycles /\ cycle.pc \notin {"return", "idle"})
  PROVE  AccountInv'
<1>1. Ended /\ CompletedIsAccounted /\ Idle.pc = "idle" /\ Idle.todo = <<>>
  BY DEF AccountInv, Idle
<1>2. CompletedIsAccounted'
  BY <1>1, AccountedKept
<1>3. Settled' /\ Opening' /\ Completing'
  BY <1>1 DEF Settled, Opening, Completing
<1>4. Ended'
  <2>1. \A a \in account' : a.cycle <= cycles
    BY <1>1 DEF Ended
  <2> QED
    BY <1>1, <2>1 DEF Ended
<1>5. Framed'
  BY <1>1 DEF Framed, BeforeCount
<1> QED
  BY <1>2, <1>3, <1>4, <1>5 DEF AccountInv

(* A step of somebody else: jobs may be queued.                            *)
LEMMA AccountBeside ==
  ASSUME AccountInv, UNCHANGED <<journal, invocations, account, cycle, cycles>>, jobs \subseteq jobs'
  PROVE  AccountInv'
<1>1. \A a : Owes(a) => Owes(a)'
  BY DEF Owes, Ahead
<1>2. \A c, t, d, w : Told(c, t, d, w) <=> Told(c, t, d, w)'
  BY DEF Told, InJournal, Journalled
<1>3. \A c, t, d, w : InJournal(c, t, d, w) <=> InJournal(c, t, d, w)'
  BY JournalSame
<1>4. Settled'
  BY <1>1, <1>2 DEF Settled, AccountInv
<1>5. Opening'
  BY <1>2 DEF Opening, AccountInv
<1>6. Completing'
  BY <1>3 DEF Completing, AccountInv
<1>7. Ended' /\ Framed'
  BY DEF Ended, Framed, AccountInv
<1>8. CompletedIsAccounted'
  BY AccountedKept DEF AccountInv
<1> QED
  BY <1>4, <1>5, <1>6, <1>7, <1>8 DEF AccountInv

(* The steps at which nothing is done that is to be journalled: nothing    *)
(* owed before is forgotten.                                               *)
LEMMA AccountOpens ==
  ASSUME TypeInv, AccountInv, Start \/ Invoke \/ Walk \/ Decide
  PROVE  AccountInv'
<1>1. cycle \in Locals /\ cycle.i \in Nat /\ cycles \in Nat /\ cycles < cycles + 1
  BY IndexFact, DomainsFact DEF TypeInv, TypeOK
<1>2. Settled /\ Opening /\ Ended /\ Framed /\ CompletedIsAccounted
  BY DEF AccountInv
<1>3. CASE Start
  <2>1. /\ UNCHANGED <<journal, invocations, account>> /\ cycles' = cycles + 1
        /\ cycle' = [Idle EXCEPT !.pc = "invoke"]
    BY <1>3 DEF Start, stores
  <2>2. cycle'.pc = "invoke" /\ cycle'.todo = <<>> /\ cycle'.i = 1
    BY <2>1 DEF Idle
  <2>3. CompletedIsAccounted'
    BY <1>2, <2>1, AccountedKept
  <2>4. \A a \in account : a.cycle <= cycles /\ a.cycle \in Int
    BY <1>2 DEF Ended, TypeInv, TypeOK
  <2>5. Settled'
    BY <1>1, <2>1, <2>4 DEF Settled
  <2>6. Opening'
    BY <2>2, DomainsFact DEF Opening
  <2>7. Completing' /\ Framed'
    BY <2>2 DEF Completing, Framed, BeforeCount
  <2>8. \A j \in 1 .. Len(journal) : journal[j].cycle <= cycles /\ journal[j].cycle \in Int
    <3>1. journal \in Seq(Events)
      BY DEF TypeInv, TypeOK
    <3>2. \A j \in 1 .. Len(journal) : journal[j] \in Events
      BY <3>1
    <3>3. \A e \in Events : e.cycle \in Int
      BY DEF Events
    <3> QED
      BY <1>2, <3>2, <3>3 DEF Ended
  <2>9. Ended'
    BY <1>1, <2>1, <2>4, <2>8 DEF Ended
  <2> QED
    BY <2>3, <2>5, <2>6, <2>7, <2>9 DEF AccountInv
<1>4. CASE Invoke
  <2> DEFINE v == Worlds[cycle.i]
             e1 == Event("WORLD_CYCLE_STARTED", v, None)
             e2 == Event("GOVERNANCE_VALIDATED", v, None)
             es == <<e1, e2>>
  <2>1. /\ UNCHANGED <<journal, account, cycles>> /\ cycle.pc = "invoke" /\ cycle.todo = <<>>
        /\ cycle' = [cycle EXCEPT !.i = cycle.i + 1, !.todo = es]
        /\ invocations' = invocations \union {<<cycles, v>>}
    BY <1>4 DEF Invoke, At, counters
  <2>2. /\ e1.cycle = cycles /\ e1.type = "WORLD_CYCLE_STARTED"
        /\ e2.cycle = cycles /\ e2.type = "GOVERNANCE_VALIDATED"
    BY DEF Event
  <2>3. Telling(e1, cycles, "WORLD_CYCLE_STARTED", None, v) /\ Telling(e2, cycles, "GOVERNANCE_VALIDATED", None, v)
    BY EventTells
  <2> HIDE DEF v, e1, e2
  <2>4. Len(es) = 2 /\ es[1] = e1 /\ es[2] = e2 /\ 1 \in 1 .. 2 /\ 2 \in 1 .. 2
    OBVIOUS
  <2> HIDE DEF es
  <2>5. cycle'.pc = "invoke" /\ cycle'.i = cycle.i + 1 /\ cycle'.todo = es
    BY <1>1, <2>1 DEF Locals
  <2>6. \A j \in 1 .. Len(es) : es[j].cycle = cycles /\ es[j].type # "WORLD_CYCLE_COMPLETED"
    BY <2>2, <2>4
  <2>7. /\ Queued(es, Len(es), cycles, "WORLD_CYCLE_STARTED", None, v)
        /\ Queued(es, Len(es), cycles, "GOVERNANCE_VALIDATED", None, v)
    BY <2>3, <2>4 DEF Queued
  <2>8. \A a \in account : ~Owes(a)
    BY <2>1 DEF Owes, Ahead, BeforeCount
  <2>9. Framed'
    BY <2>5 DEF Framed, BeforeCount
  <2>10. ASSUME NEW k \in 1 .. Len(Worlds), k < cycle.i + 1
         PROVE  /\ <<cycles, Worlds[k]>> \in invocations'
                /\ Told(cycles, "WORLD_CYCLE_STARTED", None, Worlds[k])'
                /\ Told(cycles, "GOVERNANCE_VALIDATED", None, Worlds[k])'
    <3>1. CASE k = cycle.i
      <4>1. Worlds[k] = v
        BY <3>1 DEF v
      <4> QED
        BY <2>1, <2>5, <2>7, <4>1 DEF Told
    <3>2. CASE k # cycle.i
      <4>1. k < cycle.i
        BY <1>1, <2>10, <3>2
      <4>2. /\ <<cycles, Worlds[k]>> \in invocations
            /\ Told(cycles, "WORLD_CYCLE_STARTED", None, Worlds[k])
            /\ Told(cycles, "GOVERNANCE_VALIDATED", None, Worlds[k])
        BY <1>2, <2>1, <4>1 DEF Opening
      <4>3. /\ InJournal(cycles, "WORLD_CYCLE_STARTED", None, Worlds[k])
            /\ InJournal(cycles, "GOVERNANCE_VALIDATED", None, Worlds[k])
        BY <2>1, <4>2, ToldIsJournalled
      <4> QED
        BY <2>1, <4>2, <4>3 DEF Told, InJournal, Journalled
    <3> QED
      BY <3>1, <3>2
  <2>11. Opening'
    BY <2>1, <2>5, <2>10 DEF Opening
  <2> QED
    BY <1>1, <2>1, <2>5, <2>6, <2>8, <2>9, <2>11, AccountStep
<1>5. CASE Walk
  <2> DEFINE m == [cycle.mark EXCEPT ![Domains[cycle.i]] = sources[Domains[cycle.i]]]
  <2>1. /\ UNCHANGED <<journal, invocations, account, cycles, jobs>> /\ cycle.pc = "walk" /\ cycle.todo = <<>>
        /\ cycle' = [cycle EXCEPT !.i = cycle.i + 1, !.mark = m]
    BY <1>5 DEF Walk, At, counters, stores
  <2> HIDE DEF m
  <2>2. /\ cycle'.pc = "walk" /\ cycle'.todo = <<>> /\ cycle'.before = cycle.before
        /\ cycle'.collected = cycle.collected
    BY <1>1, <2>1 DEF Locals
  <2>3. \A a \in account : Owes(a) => Owes(a)'
    BY <2>1, <2>2 DEF Owes, Ahead, BeforeCount
  <2>4. Opening'
    BY <1>2, <2>1, OpeningKept
  <2>5. Framed'
    BY <1>2, <2>1, <2>2 DEF Framed, BeforeCount
  <2> QED
    BY <1>1, <2>1, <2>2, <2>3, <2>4, <2>5, AccountStep
<1>6. CASE Decide
  <2>1. decide \in {"BOOTSTRAP_CHECKPOINT", "RUN_INGESTION", "SKIP_INGESTION"}
    BY <1>1 DEF decide, Locals
  <2>2. /\ UNCHANGED <<journal, invocations, account, cycles, jobs>> /\ cycle.pc = "walk" /\ cycle.todo = <<>>
        /\ cycle' = [cycle EXCEPT !.action = decide,
             !.pc = CASE decide = "RUN_INGESTION" -> "pipeline"
                      [] decide = "BOOTSTRAP_CHECKPOINT" -> "save"
                      [] decide = "SKIP_INGESTION" -> "count"]
    BY <1>6 DEF Decide, At, counters
  <2>3. /\ cycle'.pc \in {"pipeline", "save", "count"} /\ (cycle'.pc = "pipeline" => cycle'.action = "RUN_INGESTION")
        /\ cycle'.todo = <<>> /\ cycle'.before = cycle.before /\ cycle'.collected = cycle.collected
    BY <1>1, <2>1, <2>2 DEF Locals
  <2>4. \A a \in account : Owes(a) => Owes(a)'
    BY <2>2, <2>3 DEF Owes, Ahead, BeforeCount
  <2>5. Opening'
    BY <1>2, <2>2, <2>3, OpeningKept
  <2>6. Framed'
    BY <1>2, <2>2, <2>3 DEF Framed, BeforeCount
  <2>7. /\ cycle.pc \notin {"idle", "return"} /\ cycle'.pc \notin {"idle", "return"}
        /\ invocations \subseteq invocations' /\ account' = account
    BY <2>2, <2>3
  <2>8. \A j \in 1 .. Len(cycle'.todo) :
           cycle'.todo[j].cycle = cycles /\ cycle'.todo[j].type # "WORLD_CYCLE_COMPLETED"
    BY <2>2, <2>3
  <2> QED
    BY <1>1, <2>2, <2>4, <2>5, <2>6, <2>7, <2>8, AccountStep
<1> QED
  BY <1>3, <1>4, <1>5, <1>6

(* The steps that do what is to be journalled later.                       *)
LEMMA AccountDoes ==
  ASSUME TypeInv, AccountInv, NEW b \in BOOLEAN, Collect(b) \/ Ingest("cycle") \/ Gate("cycle", b)
  PROVE  AccountInv'
<1>1. cycle \in Locals /\ cycle.i \in Nat /\ cycles \in Nat /\ "cycle" \in Pipelines
  BY IndexFact, DomainsFact DEF TypeInv, TypeOK, Pipelines
<1>2. Settled /\ Opening /\ Framed
  BY DEF AccountInv
<1>3. CASE Collect(b)
  <2> DEFINE x == canonical # None
  <2>1. /\ UNCHANGED <<journal, invocations, cycles, jobs>> /\ cycle.pc = "invoke" /\ cycle.todo = <<>>
        /\ cycle.i > Len(Worlds)
        /\ account' = account \union IF b THEN Deeds("COMPUTE_JOB_RESULT_RECEIVED", {None}) ELSE {}
        /\ cycle' = [cycle EXCEPT !.pc = "walk", !.i = 1, !.collected = b, !.before = jobs, !.exists = x]
    BY <1>3 DEF Collect, At, stores, counters
  <2> HIDE DEF x
  <2>2. cycle'.pc = "walk" /\ cycle'.todo = <<>> /\ cycle'.before = jobs /\ cycle'.collected = b
    BY <1>1, <2>1 DEF Locals
  <2>3. \A a \in account : ~Owes(a)
    BY <2>1 DEF Owes, Ahead, BeforeCount
  <2>4. \A a \in account' : a \in account \/
          (b /\ a.cycle = cycles /\ a.type = "COMPUTE_JOB_RESULT_RECEIVED" /\ a.domain = None)
    BY <2>1 DEF Deeds
  <2>5. \A a \in account' : (a \in account => Owes(a)) => Owes(a)'
    BY <2>2, <2>3, <2>4 DEF Owes
  <2>6. Opening'
    BY <1>1, <1>2, <2>1, DomainsFact, OpeningKept
  <2>7. Framed'
    BY <2>1, <2>2 DEF Framed, BeforeCount
  <2>8. /\ cycle.pc \notin {"idle", "return"} /\ cycle'.pc \notin {"idle", "return"}
        /\ invocations \subseteq invocations'
        /\ \A a \in account' : a \in account \/ a.cycle = cycles
    BY <2>1, <2>2, <2>4
  <2>9. \A j \in 1 .. Len(cycle'.todo) :
           cycle'.todo[j].cycle = cycles /\ cycle'.todo[j].type # "WORLD_CYCLE_COMPLETED"
    BY <2>1, <2>2, <2>4
  <2> QED
    BY <1>1, <2>1, <2>5, <2>6, <2>7, <2>8, <2>9, AccountStep
<1>4. CASE Ingest("cycle")
  <2> DEFINE d == Domains[pipe["cycle"]]
             x == IF sources[d] > canonical[d] THEN cycle.inserted \union {d} ELSE cycle.inserted
             new == d \in Markets /\ sources[d] > canonical[d]
  <2>1. /\ UNCHANGED <<journal, invocations, cycles, jobs>> /\ pipe["cycle"] \in 1 .. N
        /\ cycle' = [cycle EXCEPT !.inserted = x]
        /\ account' = account \union Deeds("RAW_EVIDENCE_INGESTED", {d}) \union
                        IF new THEN Deeds("EXPERIENCE_CREATED", {d}) ELSE {}
    BY <1>4 DEF Ingest, counters
  <2>2. cycle.pc = "pipeline" /\ cycle.action = "RUN_INGESTION" /\ cycle.todo = <<>>
    BY <1>2, <2>1, DomainsFact DEF TypeInv, Numbered, Framed
  <2>3. d \in AllDomains /\ cycle.inserted \subseteq x /\ (new => d \in x /\ d \in Markets)
    BY <2>1, DomainsFact
  <2>4. \A a \in account' : a \in account \/
          (a.cycle = cycles /\ a.domain = d /\ (a.type = "RAW_EVIDENCE_INGESTED" \/ (new /\ a.type = "EXPERIENCE_CREATED")))
    BY <2>1 DEF Deeds
  <2> HIDE DEF d, x, new
  <2>5. /\ cycle'.pc = "pipeline" /\ cycle'.action = "RUN_INGESTION" /\ cycle'.todo = <<>>
        /\ cycle'.before = cycle.before /\ cycle'.collected = cycle.collected /\ cycle'.inserted = x
    BY <1>1, <2>1, <2>2 DEF Locals
  <2>6. \A a \in account : Owes(a) => Owes(a)'
    BY <2>1, <2>2, <2>3, <2>5 DEF Owes, Ahead, BeforeCount
  <2>7. \A a \in account' : a \notin account => Owes(a)'
    BY <2>3, <2>4, <2>5 DEF Owes, Ahead
  <2>8. Opening'
    BY <1>2, <2>1, <2>2, OpeningKept
  <2>9. Framed'
    BY <1>2, <2>1, <2>2, <2>5 DEF Framed, BeforeCount
  <2>10. /\ cycle.pc \notin {"idle", "return"} /\ cycle'.pc \notin {"idle", "return"}
         /\ invocations \subseteq invocations'
         /\ \A a \in account' : a \in account \/ a.cycle = cycles
    BY <2>1, <2>2, <2>4, <2>5
  <2>11. \A j \in 1 .. Len(cycle'.todo) :
           cycle'.todo[j].cycle = cycles /\ cycle'.todo[j].type # "WORLD_CYCLE_COMPLETED"
    BY <2>1, <2>2, <2>4, <2>5
  <2> QED
    BY <1>1, <2>1, <2>2, <2>6, <2>7, <2>8, <2>9, <2>10, <2>11, AccountStep
<1>5. CASE Gate("cycle", b)
  <2> DEFINE d == Domains[pipe["cycle"] - N]
             new == b /\ d \notin jobs
  <2>1. /\ UNCHANGED <<journal, invocations, cycles>> /\ pipe["cycle"] \in N + 1 .. 2 * N
        /\ jobs' = IF b THEN jobs \union {d} ELSE jobs
        /\ account' = account \union Deeds("TRAINING_NEED_CREATED", {d}) \union
                        IF new THEN Deeds("COMPUTE_JOB_CREATED", {None}) ELSE {}
        /\ cycle' = cycle \/ cycle' = [cycle EXCEPT !.pc = "save"]
    BY <1>5 DEF Gate, counters
  <2>2. cycle.pc = "pipeline" /\ cycle.action = "RUN_INGESTION" /\ cycle.todo = <<>> /\ cycle.before \subseteq jobs
    BY <1>2, <2>1, DomainsFact DEF TypeInv, Numbered, Framed, BeforeCount
  <2>3. d \in AllDomains
    <3>1. pipe["cycle"] - N \in 1 .. N
      BY <2>1, DomainsFact
    <3> QED
      BY <3>1, DomainsFact
  <2>4. \A a \in account' : a \in account \/
          (a.cycle = cycles /\ (\/ a.type = "TRAINING_NEED_CREATED" /\ a.domain = d
                                \/ new /\ a.type = "COMPUTE_JOB_CREATED" /\ a.domain = None))
    BY <2>1 DEF Deeds
  <2>5. jobs \subseteq jobs' /\ (new => d \in jobs' /\ d \notin cycle.before)
    BY <2>1, <2>2
  <2> HIDE DEF d, new
  <2>6. /\ cycle'.pc \in {"pipeline", "save"} /\ cycle'.action = "RUN_INGESTION" /\ cycle'.todo = <<>>
        /\ cycle'.before = cycle.before /\ cycle'.collected = cycle.collected /\ cycle'.inserted = cycle.inserted
    BY <1>1, <2>1, <2>2 DEF Locals
  <2>7. \A a \in account : Owes(a) => Owes(a)'
    BY <2>2, <2>5, <2>6 DEF Owes, Ahead, BeforeCount
  <2>8. \A a \in account' : a \notin account => Owes(a)'
    BY <2>3, <2>4, <2>5, <2>6 DEF Owes, BeforeCount
  <2>9. Opening'
    BY <1>2, <2>1, <2>2, OpeningKept
  <2>10. Framed'
    BY <2>2, <2>5, <2>6 DEF Framed, BeforeCount
  <2>11. /\ cycle.pc \notin {"idle", "return"} /\ cycle'.pc \notin {"idle", "return"}
         /\ invocations \subseteq invocations'
         /\ \A a \in account' : a \in account \/ a.cycle = cycles
    BY <2>1, <2>2, <2>4, <2>6
  <2>12. \A j \in 1 .. Len(cycle'.todo) :
           cycle'.todo[j].cycle = cycles /\ cycle'.todo[j].type # "WORLD_CYCLE_COMPLETED"
    BY <2>1, <2>2, <2>4, <2>6
  <2> QED
    BY <1>1, <2>1, <2>2, <2>7, <2>8, <2>9, <2>10, <2>11, <2>12, AccountStep
<1> QED
  BY <1>3, <1>4, <1>5

(* A job that was not there before makes them more.                        *)
LEMMA MoreJobs ==
  ASSUME TypeOK, cycle.before \subseteq jobs, NEW d \in jobs, d \notin cycle.before
  PROVE  Cardinality(jobs) > Cardinality(cycle.before)
<1>0. IsFiniteSet(AllDomains)
  <2>1. IsFiniteSet(1 .. N)
    BY FS_Interval, DomainsFact
  <2>2. Domains \in Seq(STRING) /\ N = Len(Domains)
    BY CycleAssumption DEF N
  <2>3. Domains \in [1 .. N -> AllDomains]
    BY <2>2, DomainsFact
  <2>4. Domains \in Surjection(1 .. N, AllDomains)
    BY <2>3 DEF Surjection, AllDomains, N
  <2> QED
    BY <2>1, <2>4, FS_Surjection
<1>1. IsFiniteSet(AllDomains \union OtherJobs)
  BY <1>0, FS_Union, CycleAssumption
<1>2. IsFiniteSet(jobs)
  BY <1>1, FS_Subset DEF TypeOK
<1>3. /\ IsFiniteSet(cycle.before) /\ Cardinality(cycle.before) <= Cardinality(jobs)
      /\ Cardinality(jobs) # Cardinality(cycle.before)
  BY <1>2, FS_Subset
<1>4. Cardinality(jobs) \in Nat /\ Cardinality(cycle.before) \in Nat
  BY <1>2, <1>3, FS_CardinalityType
<1> QED
  BY <1>3, <1>4

LEMMA InAllWorldsTells ==
  ASSUME NEW t, NEW w \in AllWorlds
  PROVE  /\ Len(InAllWorlds(t)) = Len(Worlds)
         /\ \A k \in 1 .. Len(Worlds) : InAllWorlds(t)[k].cycle = cycles /\ InAllWorlds(t)[k].type = t
         /\ Queued(InAllWorlds(t), Len(Worlds), cycles, t, None, w)
<1>1. Len(InAllWorlds(t)) = Len(Worlds)
  BY DomainsFact DEF InAllWorlds
<1>2. \A k \in 1 .. Len(Worlds) : InAllWorlds(t)[k] = Event(t, Worlds[k], None)
  BY DEF InAllWorlds
<1>3. PICK k \in 1 .. Len(Worlds) : Worlds[k] = w
  BY WorldsFact
<1>4. Telling(InAllWorlds(t)[k], cycles, t, None, w)
  BY <1>2, <1>3, EventTells
<1>5. \A i \in 1 .. Len(Worlds) : InAllWorlds(t)[i].cycle = cycles /\ InAllWorlds(t)[i].type = t
  <2>1. \A v : Event(t, v, None).cycle = cycles /\ Event(t, v, None).type = t
    BY DEF Event
  <2> QED
    BY <1>2, <2>1
<1>6. Queued(InAllWorlds(t), Len(Worlds), cycles, t, None, w)
  BY <1>4 DEF Queued
<1> QED
  BY <1>1, <1>5, <1>6

(* The steps that put what is owed before the journal.                     *)
LEMMA AccountJournals ==
  ASSUME TypeInv, AccountInv, JournalEvidence \/ JournalNeeds \/ JournalJobs
  PROVE  AccountInv'
<1>1. cycle \in Locals /\ cycle.i \in Nat /\ cycles \in Nat /\ cycle.todo = <<>>
  BY IndexFact, DomainsFact DEF TypeInv, TypeOK, JournalEvidence, JournalNeeds, JournalJobs, At
<1>2. Settled /\ Opening /\ Framed
  BY DEF AccountInv
<1>3. UNCHANGED <<journal, invocations, account, cycles, jobs>>
  BY DEF JournalEvidence, JournalNeeds, JournalJobs, stores, counters
<1>4. CASE JournalEvidence
  <2> DEFINE d == Domains[cycle.i]
             raw == InDomain("RAW_EVIDENCE_INGESTED", d)
             made == InDomain("EXPERIENCE_CREATED", d)
             es == IF d \in Markets /\ d \in cycle.inserted THEN <<raw, made>> ELSE <<raw>>
  <2>1. cycle' = [cycle EXCEPT !.i = cycle.i + 1, !.todo = es] /\ cycle.pc = "evidence" /\ cycle.i <= N
    BY <1>4 DEF JournalEvidence, At
  <2>2. d \in AllDomains
    BY <1>1, <2>1, IndexFact, DomainsFact
  <2>3. /\ raw.cycle = cycles /\ raw.type = "RAW_EVIDENCE_INGESTED"
        /\ made.cycle = cycles /\ made.type = "EXPERIENCE_CREATED"
    BY DEF InDomain, Event
  <2>4. \A w : /\ Telling(raw, cycles, "RAW_EVIDENCE_INGESTED", d, w)
               /\ Telling(made, cycles, "EXPERIENCE_CREATED", d, w)
    BY <2>2, InDomainTells
  <2> HIDE DEF raw, made
  <2>5. /\ 1 \in 1 .. Len(es) /\ es[1] = raw
        /\ d \in Markets /\ d \in cycle.inserted => 2 \in 1 .. Len(es) /\ es[2] = made
        /\ \A j \in 1 .. Len(es) : es[j] \in {raw, made}
    OBVIOUS
  <2> HIDE DEF es
  <2>6. /\ cycle'.pc = "evidence" /\ cycle'.i = cycle.i + 1 /\ cycle'.todo = es /\ cycle'.action = cycle.action
        /\ cycle'.before = cycle.before /\ cycle'.collected = cycle.collected /\ cycle'.inserted = cycle.inserted
    BY <1>1, <2>1 DEF Locals
  <2>7. \A j \in 1 .. Len(es) : es[j].cycle = cycles /\ es[j].type # "WORLD_CYCLE_COMPLETED"
    BY <2>3, <2>5
  <2>8. \A e : Ahead(e) => e = d \/ Ahead(e)'
    <3> SUFFICES ASSUME NEW e, Ahead(e), e # d PROVE Ahead(e)'
      OBVIOUS
    <3>1. PICK k \in 1 .. N : cycle.i <= k /\ Domains[k] = e
      BY <2>1 DEF Ahead
    <3>2. cycle.i + 1 <= k
      BY <1>1, <3>1, DomainsFact
    <3> QED
      BY <2>6, <3>1, <3>2 DEF Ahead
  <2>9. ASSUME NEW a \in account, Owes(a), ~Owes(a)', NEW w \in AllWorlds
        PROVE  Queued(es, Len(es), cycles, a.type, a.domain, w)
    <3>1. \/ a.type = "RAW_EVIDENCE_INGESTED" /\ a.domain = d
          \/ a.type = "EXPERIENCE_CREATED" /\ a.domain = d /\ d \in Markets /\ d \in cycle.inserted
      BY <1>3, <2>1, <2>6, <2>8, <2>9 DEF Owes, BeforeCount
    <3> QED
      BY <2>4, <2>5, <3>1 DEF Queued
  <2>10. Opening'
    BY <1>1, <1>2, <1>3, <2>1, OpeningKept
  <2>11. Framed'
    BY <1>2, <1>3, <2>1, <2>6 DEF Framed, BeforeCount
  <2>12. cycle.pc \notin {"idle", "return"} /\ cycle'.pc \notin {"idle", "return"}
    BY <2>1, <2>6
  <2> QED
    BY <1>1, <1>3, <2>6, <2>7, <2>9, <2>10, <2>11, <2>12, AccountStep
<1>5. CASE JournalNeeds
  <2> DEFINE es == [k \in 1 .. N |-> InDomain("TRAINING_NEED_CREATED", Domains[k])]
  <2>1. cycle' = [cycle EXCEPT !.pc = "count", !.todo = es] /\ cycle.pc = "evidence" /\ cycle.i > N
    BY <1>5 DEF JournalNeeds, At
  <2>2. Len(es) = N /\ \A k \in 1 .. N : es[k] = InDomain("TRAINING_NEED_CREATED", Domains[k])
    BY DomainsFact
  <2> HIDE DEF es
  <2>3. /\ cycle'.pc = "count" /\ cycle'.todo = es
        /\ cycle'.before = cycle.before /\ cycle'.collected = cycle.collected
    BY <1>1, <2>1 DEF Locals
  <2>4. \A j \in 1 .. Len(es) : es[j].cycle = cycles /\ es[j].type # "WORLD_CYCLE_COMPLETED"
    BY <2>2 DEF InDomain, Event
  <2>5. \A d : ~Ahead(d)
    BY <1>1, <2>1, DomainsFact DEF Ahead
  <2>6. ASSUME NEW a \in account, Owes(a), ~Owes(a)', NEW w \in AllWorlds
        PROVE  Queued(es, Len(es), cycles, a.type, a.domain, w)
    <3>1. a.type = "TRAINING_NEED_CREATED" /\ a.domain \in AllDomains
      BY <1>3, <2>1, <2>3, <2>5, <2>6 DEF Owes, BeforeCount
    <3>2. PICK k \in 1 .. N : Domains[k] = a.domain
      BY <3>1 DEF AllDomains, N
    <3>3. Telling(es[k], cycles, a.type, a.domain, w)
      BY <2>2, <3>1, <3>2, InDomainTells
    <3> QED
      BY <2>2, <3>3 DEF Queued
  <2>7. Opening'
    BY <1>1, <1>2, <1>3, <2>1, OpeningKept
  <2>8. Framed'
    BY <1>2, <1>3, <2>1, <2>3 DEF Framed, BeforeCount
  <2>9. cycle.pc \notin {"idle", "return"} /\ cycle'.pc \notin {"idle", "return"}
    BY <2>1, <2>3
  <2> QED
    BY <1>1, <1>3, <2>3, <2>4, <2>6, <2>7, <2>8, <2>9, AccountStep
<1>6. CASE JournalJobs
  <2> DEFINE es == IF Cardinality(jobs) > Cardinality(cycle.before) THEN InAllWorlds("COMPUTE_JOB_CREATED") ELSE <<>>
  <2>1. cycle' = [cycle EXCEPT !.pc = "dispatch", !.todo = es] /\ cycle.pc = "count"
    BY <1>6 DEF JournalJobs, At
  <2>2. \A j \in 1 .. Len(es) : es[j].cycle = cycles /\ es[j].type # "WORLD_CYCLE_COMPLETED"
    <3>1. CASE es = <<>>
      BY <3>1
    <3>2. CASE es = InAllWorlds("COMPUTE_JOB_CREATED")
      BY <3>2, DomainsFact DEF InAllWorlds, Event
    <3> QED
      BY <3>1, <3>2
  <2>3. ASSUME NEW d \in jobs, d \notin cycle.before
        PROVE  es = InAllWorlds("COMPUTE_JOB_CREATED")
    BY <1>2, <2>1, <2>3, MoreJobs DEF Framed, TypeInv
  <2> HIDE DEF es
  <2>4. cycle'.pc = "dispatch" /\ cycle'.todo = es /\ cycle'.collected = cycle.collected
    BY <1>1, <2>1 DEF Locals
  <2>5. ASSUME NEW a \in account, Owes(a), ~Owes(a)', NEW w \in AllWorlds
        PROVE  Queued(es, Len(es), cycles, a.type, a.domain, w)
    <3>1. a.type = "COMPUTE_JOB_CREATED" /\ a.domain = None /\ \E d \in jobs : d \notin cycle.before
      BY <1>3, <2>1, <2>4, <2>5 DEF Owes, Ahead, BeforeCount
    <3>2. es = InAllWorlds("COMPUTE_JOB_CREATED")
      BY <2>3, <3>1
    <3>3. Queued(InAllWorlds("COMPUTE_JOB_CREATED"), Len(Worlds), cycles, "COMPUTE_JOB_CREATED", None, w)
          /\ Len(InAllWorlds("COMPUTE_JOB_CREATED")) = Len(Worlds)
      BY InAllWorldsTells
    <3> QED
      BY <3>1, <3>2, <3>3
  <2>6. Opening'
    BY <1>1, <1>2, <1>3, <2>1, OpeningKept
  <2>7. Framed'
    BY <2>4 DEF Framed, BeforeCount
  <2>8. cycle.pc \notin {"idle", "return"} /\ cycle'.pc \notin {"idle", "return"}
    BY <2>1, <2>4
  <2> QED
    BY <1>1, <1>3, <2>2, <2>4, <2>5, <2>6, <2>7, <2>8, AccountStep
<1> QED
  BY <1>4, <1>5, <1>6

LEMMA TwoParts ==
  ASSUME NEW S, NEW e1 \in Seq(S), NEW e2 \in Seq(S)
  PROVE  /\ e1 \o e2 \in Seq(S) /\ Len(e1 \o e2) = Len(e1) + Len(e2)
         /\ \A j \in 1 .. Len(e1) : (e1 \o e2)[j] = e1[j]
         /\ \A j \in 1 .. Len(e2) : (e1 \o e2)[Len(e1) + j] = e2[j]
<1>1. e1 \o e2 \in Seq(S) /\ Len(e1 \o e2) = Len(e1) + Len(e2)
  OBVIOUS
<1>2. \A j \in 1 .. Len(e1) : (e1 \o e2)[j] = e1[j]
  OBVIOUS
<1>3. \A j \in 1 .. Len(e2) : (e1 \o e2)[Len(e1) + j] = e2[j]
  OBVIOUS
<1> QED
  BY <1>1, <1>2, <1>3

LEMMA ThreeParts ==
  ASSUME NEW S, NEW e1 \in Seq(S), NEW e2 \in Seq(S), NEW e3 \in Seq(S)
  PROVE  /\ e1 \o e2 \o e3 \in Seq(S) /\ Len(e1 \o e2 \o e3) = Len(e1) + Len(e2) + Len(e3)
         /\ \A j \in 1 .. Len(e1) : (e1 \o e2 \o e3)[j] = e1[j]
         /\ \A j \in 1 .. Len(e2) : (e1 \o e2 \o e3)[Len(e1) + j] = e2[j]
         /\ \A j \in 1 .. Len(e3) : (e1 \o e2 \o e3)[Len(e1) + Len(e2) + j] = e3[j]
<1> DEFINE e == e1 \o e2
<1>1. e \in Seq(S) /\ Len(e) = Len(e1) + Len(e2) /\ Len(e1) \in Nat /\ Len(e2) \in Nat /\ Len(e3) \in Nat
  OBVIOUS
<1>2. /\ \A j \in 1 .. Len(e1) : e[j] = e1[j]
      /\ \A j \in 1 .. Len(e2) : e[Len(e1) + j] = e2[j]
  BY TwoParts
<1> HIDE DEF e
<1>3. /\ e \o e3 \in Seq(S) /\ Len(e \o e3) = Len(e) + Len(e3)
      /\ \A j \in 1 .. Len(e) : (e \o e3)[j] = e[j]
      /\ \A j \in 1 .. Len(e3) : (e \o e3)[Len(e) + j] = e3[j]
  <2>1. e \in Seq(S)
    BY <1>1
  <2>2. e \o e3 \in Seq(S) /\ Len(e \o e3) = Len(e) + Len(e3)
    BY <2>1
  <2>3. \A j \in 1 .. Len(e) : (e \o e3)[j] = e[j]
    BY <2>1
  <2>4. \A j \in 1 .. Len(e3) : (e \o e3)[Len(e) + j] = e3[j]
    BY <2>1
  <2> QED
    BY <2>2, <2>3, <2>4
<1>4. \A j \in 1 .. Len(e1) : (e \o e3)[j] = e1[j]
  BY <1>1, <1>2, <1>3
<1>5. \A j \in 1 .. Len(e2) : (e \o e3)[Len(e1) + j] = e2[j]
  <2> SUFFICES ASSUME NEW j \in 1 .. Len(e2) PROVE (e \o e3)[Len(e1) + j] = e2[j]
    OBVIOUS
  <2>1. Len(e1) + j \in 1 .. Len(e)
    BY <1>1
  <2> QED
    BY <1>2, <1>3, <2>1
<1> QED
  BY <1>1, <1>3, <1>4, <1>5 DEF e

(* The last events: a dispatch, results and, after them in every world,    *)
(* the completion.                                                         *)
LEMMA AccountDispatches ==
  ASSUME TypeInv, AccountInv, NEW b \in BOOLEAN, Dispatch(b),
         ~(deps = "shipped" /\ (b \/ cycle.collected))
  PROVE  AccountInv'
<1> DEFINE e1 == IF b THEN InAllWorlds("COMPUTE_JOB_DISPATCHED") ELSE <<>>
           e2 == IF cycle.collected THEN InAllWorlds("COMPUTE_JOB_RESULT_RECEIVED") ELSE <<>>
           e3 == InAllWorlds("WORLD_CYCLE_COMPLETED")
           es == e1 \o e2 \o e3
           before == Len(e1) + Len(e2)
<1>1. cycle \in Locals /\ cycles \in Nat
  BY DomainsFact DEF TypeInv, TypeOK
<1>2. Settled /\ Opening /\ Ended /\ CompletedIsAccounted
  BY DEF AccountInv
<1>3. /\ UNCHANGED <<journal, invocations, cycles>> /\ cycle.pc = "dispatch" /\ cycle.todo = <<>>
      /\ account' = account \union IF b THEN Deeds("COMPUTE_JOB_DISPATCHED", {None}) ELSE {}
      /\ cycle' = [cycle EXCEPT !.pc = "return", !.todo = es]
  BY DEF Dispatch, At, stores, counters
<1>4. e1 \in Seq(Events) /\ e2 \in Seq(Events) /\ e3 \in Seq(Events)
  BY InAllWorldsFact DEF Types, TypeInv
<1>5. /\ Len(e3) = Len(Worlds)
      /\ \A j \in 1 .. Len(e1) : e1[j].cycle = cycles /\ e1[j].type # "WORLD_CYCLE_COMPLETED"
      /\ \A j \in 1 .. Len(e2) : e2[j].cycle = cycles /\ e2[j].type # "WORLD_CYCLE_COMPLETED"
      /\ \A j \in 1 .. Len(e3) : e3[j].cycle = cycles /\ e3[j].world \in AllWorlds
  <2>1. \A t : /\ Len(InAllWorlds(t)) = Len(Worlds)
               /\ \A k \in 1 .. Len(Worlds) : InAllWorlds(t)[k] = Event(t, Worlds[k], None)
    BY DomainsFact DEF InAllWorlds
  <2>2. \A t, w : Event(t, w, None).cycle = cycles /\ Event(t, w, None).type = t /\ Event(t, w, None).world = w
    BY DEF Event
  <2>3. Len(<<>>) = 0
    OBVIOUS
  <2> QED
    BY <2>1, <2>2, <2>3, DomainsFact
<1>6. b => \A w \in AllWorlds : Queued(e1, Len(e1), cycles, "COMPUTE_JOB_DISPATCHED", None, w)
  BY InAllWorldsTells
<1>7. cycle.collected => \A w \in AllWorlds : Queued(e2, Len(e2), cycles, "COMPUTE_JOB_RESULT_RECEIVED", None, w)
  BY InAllWorldsTells
<1> HIDE DEF e1, e2, e3
<1>8. /\ es \in Seq(Events) /\ Len(es) = Len(e1) + Len(e2) + Len(e3)
      /\ \A j \in 1 .. Len(e1) : es[j] = e1[j]
      /\ \A j \in 1 .. Len(e2) : es[Len(e1) + j] = e2[j]
      /\ \A j \in 1 .. Len(e3) : es[Len(e1) + Len(e2) + j] = e3[j]
  BY <1>4, ThreeParts
<1> HIDE DEF es
<1>9. Len(e1) \in Nat /\ Len(e2) \in Nat /\ Len(e3) \in Nat
  BY <1>4
<1>10. cycle'.pc = "return" /\ cycle'.todo = es
  BY <1>1, <1>3 DEF Locals
<1>11. ASSUME NEW j \in 1 .. Len(es)
       PROVE  /\ es[j].cycle = cycles
              /\ es[j].type = "WORLD_CYCLE_COMPLETED" => j > before /\ es[j].world \in AllWorlds
  <2>1. CASE j <= Len(e1)
    <3>1. j \in 1 .. Len(e1)
      BY <1>8, <1>9, <2>1
    <3> QED
      BY <1>5, <1>8, <3>1
  <2>2. CASE j > Len(e1) /\ j <= before
    <3>1. j - Len(e1) \in 1 .. Len(e2) /\ Len(e1) + (j - Len(e1)) = j
      BY <1>8, <1>9, <2>2
    <3>2. es[j] = e2[j - Len(e1)]
      BY <1>8, <3>1
    <3> QED
      BY <1>5, <2>2, <3>1, <3>2
  <2>3. CASE j > before
    <3>1. j - before \in 1 .. Len(e3) /\ Len(e1) + Len(e2) + (j - before) = j
      BY <1>8, <1>9, <2>3
    <3>2. es[j] = e3[j - before]
      BY <1>8, <3>1
    <3> QED
      BY <1>5, <2>3, <3>1, <3>2
  <2> QED
    BY <1>8, <1>9, <2>1, <2>2, <2>3
<1>12. ASSUME NEW k \in Nat, before <= k, NEW c, NEW t, NEW d, NEW w,
              Queued(e1, Len(e1), c, t, d, w) \/ Queued(e2, Len(e2), c, t, d, w)
       PROVE  Queued(es, k, c, t, d, w)
  <2>1. CASE Queued(e1, Len(e1), c, t, d, w)
    <3>1. PICK j \in 1 .. Len(e1) : Telling(e1[j], c, t, d, w)
      BY <2>1 DEF Queued
    <3>2. j \in 1 .. k
      BY <1>9, <1>12
    <3> QED
      BY <1>8, <3>1, <3>2 DEF Queued
  <2>2. CASE Queued(e2, Len(e2), c, t, d, w)
    <3>1. PICK j \in 1 .. Len(e2) : Telling(e2[j], c, t, d, w)
      BY <2>2 DEF Queued
    <3>2. Len(e1) + j \in 1 .. k
      BY <1>9, <1>12
    <3> QED
      BY <1>8, <3>1, <3>2 DEF Queued
  <2> QED
    BY <1>12, <2>1, <2>2
<1>13. \A a \in account' : a \in account \/
         (b /\ a.cycle = cycles /\ a.type = "COMPUTE_JOB_DISPATCHED" /\ a.domain = None)
  BY <1>3 DEF Deeds
<1>14. ASSUME NEW a \in account', a.cycle = cycles, NEW w \in AllWorlds, NEW k \in Nat, before <= k
       PROVE  InJournal(cycles, a.type, a.domain, w) \/ Queued(es, k, cycles, a.type, a.domain, w)
  <2>1. CASE a \notin account
    BY <1>6, <1>12, <1>13, <1>14, <2>1
  <2>2. CASE a \in account /\ Owes(a)
    <3>1. a.type = "COMPUTE_JOB_RESULT_RECEIVED" /\ a.domain = None /\ cycle.collected
      BY <1>3, <2>2 DEF Owes, Ahead, BeforeCount
    <3> QED
      BY <1>7, <1>12, <1>14, <3>1
  <2>3. CASE a \in account /\ ~Owes(a)
    <3>1. Told(cycles, a.type, a.domain, w)
      BY <1>2, <1>3, <1>14, <2>3 DEF Settled
    <3> QED
      BY <1>3, <3>1, ToldIsJournalled
  <2> QED
    BY <2>1, <2>2, <2>3
<1>15. \A c, t, d, w : InJournal(c, t, d, w) <=> InJournal(c, t, d, w)'
  BY <1>3, JournalSame
<1>16. Settled'
  <2>1. Len(es) \in Nat /\ before <= Len(es)
    BY <1>8, <1>9
  <2> SUFFICES ASSUME NEW a \in account', a.cycle = cycles, NEW w \in AllWorlds
               PROVE  Told(cycles, a.type, a.domain, w)'
    BY <1>3 DEF Settled
  <2>2. InJournal(cycles, a.type, a.domain, w) \/ Queued(es, Len(es), cycles, a.type, a.domain, w)
    BY <1>14, <2>1
  <2> QED
    BY <1>3, <1>10, <2>2 DEF Told, InJournal, Journalled
<1>17. Opening'
  BY <1>2, <1>3, OpeningKept
<1>18. ASSUME NEW w \in AllWorlds
       PROVE  /\ InJournal(cycles, "WORLD_CYCLE_STARTED", None, w)
              /\ InJournal(cycles, "GOVERNANCE_VALIDATED", None, w)
  <2>1. PICK k \in 1 .. Len(Worlds) : Worlds[k] = w
    BY WorldsFact
  <2>2. Told(cycles, "WORLD_CYCLE_STARTED", None, w) /\ Told(cycles, "GOVERNANCE_VALIDATED", None, w)
    BY <1>2, <1>3, <2>1 DEF Opening
  <2> QED
    BY <1>3, <2>2, ToldIsJournalled
<1>19. Completing'
  <2>1. ASSUME NEW j \in 1 .. Len(es), es[j].type = "WORLD_CYCLE_COMPLETED"
        PROVE  /\ InJournal(cycles, "WORLD_CYCLE_STARTED", None, es[j].world)
               /\ InJournal(cycles, "GOVERNANCE_VALIDATED", None, es[j].world)
               /\ \A a \in account' : a.cycle = cycles =>
                    \/ InJournal(cycles, a.type, a.domain, es[j].world)
                    \/ Queued(es, j - 1, cycles, a.type, a.domain, es[j].world)
    <3>1. es[j].world \in AllWorlds /\ j - 1 \in Nat /\ before <= j - 1
      BY <1>8, <1>9, <1>11, <2>1
    <3> QED
      BY <1>14, <1>18, <3>1
  <2>2. PICK x, c : x = es /\ c = cycles
    OBVIOUS
  <2>3. cycle'.todo = x /\ cycles' = c /\ cycle'.pc = "return"
    BY <1>3, <1>10, <2>2
  <2>4. \A j \in 1 .. Len(x) :
          /\ x[j].cycle = c
          /\ x[j].type = "WORLD_CYCLE_COMPLETED" =>
               /\ InJournal(c, "WORLD_CYCLE_STARTED", None, x[j].world)'
               /\ InJournal(c, "GOVERNANCE_VALIDATED", None, x[j].world)'
               /\ \A a \in account' : a.cycle = c =>
                    \/ InJournal(c, a.type, a.domain, x[j].world)'
                    \/ Queued(x, j - 1, c, a.type, a.domain, x[j].world)
    BY <1>11, <1>15, <2>1, <2>2
  <2> QED
    BY <2>3, <2>4 DEF Completing, InJournal, Journalled
<1>20. Ended'
  <2>1. \A a \in account' : a.cycle <= cycles
    BY <1>1, <1>2, <1>13 DEF Ended
  <2> QED
    BY <1>2, <1>3, <1>10, <2>1 DEF Ended
<1>21. CompletedIsAccounted'
  BY <1>2, <1>3, <1>13, AccountedKept
<1>22. Framed'
  BY <1>10 DEF Framed, BeforeCount
<1> QED
  BY <1>16, <1>17, <1>19, <1>20, <1>21, <1>22 DEF AccountInv

(* Or there is a list to be counted, and the cycle ends.                   *)
LEMMA AccountBreaksOff ==
  ASSUME TypeInv, AccountInv, NEW b \in BOOLEAN, Dispatch(b),
         deps = "shipped" /\ (b \/ cycle.collected)
  PROVE  AccountInv'
<1>1. /\ UNCHANGED <<journal, invocations, cycles, jobs>> /\ cycle.pc = "dispatch" /\ cycle' = Idle
      /\ account' = account \union IF b THEN Deeds("COMPUTE_JOB_DISPATCHED", {None}) ELSE {}
  BY DEF Dispatch, At, stores, counters
<1>2. \A a \in account' : a \in account \/ a.cycle = cycles
  BY <1>1 DEF Deeds
<1>3. cycles \in Nat
  BY DomainsFact DEF TypeInv, TypeOK
<1> QED
  BY <1>1, <1>2, <1>3, AccountEnds

(* An event goes from the events to append into the journal: what stood    *)
(* before it there stands before it here.                                  *)
LEMMA AccountAppends ==
  ASSUME TypeInv, AccountInv, AppendEvent
  PROVE  AccountInv'
<1>1. cycle \in Locals /\ cycle.todo \in Seq(Events) /\ cycle.todo # <<>> /\ journal \in Seq(Events) /\ cycles \in Nat
  BY DomainsFact DEF AppendEvent, TypeInv, TypeOK, Locals
<1>2. Settled /\ Opening /\ Completing /\ Ended /\ Framed /\ CompletedIsAccounted
  BY DEF AccountInv
<1>3. PICK c, h, l : c = cycles /\ h = Head(cycle.todo) /\ l = Tail(cycle.todo)
  OBVIOUS
<1>4. /\ UNCHANGED <<invocations, account, cycles, jobs>> /\ journal' = Append(journal, h)
      /\ cycle' = [cycle EXCEPT !.todo = l]
  BY <1>3 DEF AppendEvent, counters
<1>5. /\ cycle'.pc = cycle.pc /\ cycle'.i = cycle.i /\ cycle'.todo = l /\ cycle'.action = cycle.action
      /\ cycle'.before = cycle.before /\ cycle'.collected = cycle.collected /\ cycle'.inserted = cycle.inserted
  BY <1>1, <1>4 DEF Locals
<1>6. /\ 1 \in 1 .. Len(cycle.todo) /\ h = cycle.todo[1] /\ h \in Events
      /\ Len(l) = Len(cycle.todo) - 1 /\ Len(l) \in Nat
      /\ \A j \in 1 .. Len(l) : j + 1 \in 1 .. Len(cycle.todo) /\ l[j] = cycle.todo[j + 1]
  BY <1>1, <1>3
<1>7. \A t, d, w : InJournal(c, t, d, w) => InJournal(c, t, d, w)'
  BY AppendTells
<1>8. \A t, d, w : \A k \in 0 .. Len(cycle.todo) : Queued(cycle.todo, k, c, t, d, w) =>
        InJournal(c, t, d, w)' \/ Queued(l, k - 1, c, t, d, w)
  <2> SUFFICES ASSUME NEW t, NEW d, NEW w, NEW k \in 0 .. Len(cycle.todo), Queued(cycle.todo, k, c, t, d, w)
               PROVE  InJournal(c, t, d, w)' \/ Queued(l, k - 1, c, t, d, w)
    OBVIOUS
  <2>1. \/ Telling(Head(cycle.todo), c, t, d, w)
        \/ Queued(Tail(cycle.todo), k - 1, c, t, d, w)
    BY AppendTells
  <2>2. CASE Telling(Head(cycle.todo), c, t, d, w)
    BY <2>2, AppendTells
  <2>3. CASE Queued(Tail(cycle.todo), k - 1, c, t, d, w)
    BY <1>3, <2>3
  <2> QED
    BY <2>1, <2>2, <2>3
<1>9. ASSUME NEW t, NEW d, NEW w, Told(c, t, d, w)
      PROVE  Told(c, t, d, w)'
  <2>1. CASE InJournal(c, t, d, w)
    BY <1>7, <2>1 DEF Told
  <2>2. CASE Queued(cycle.todo, Len(cycle.todo), c, t, d, w)
    <3>1. Len(cycle.todo) \in 0 .. Len(cycle.todo)
      BY <1>1
    <3>2. InJournal(c, t, d, w)' \/ Queued(l, Len(l), c, t, d, w)
      BY <1>6, <1>8, <2>2, <3>1
    <3> QED
      BY <1>5, <3>2 DEF Told
  <2> QED
    BY <1>9, <2>1, <2>2 DEF Told
<1>10. \A a \in account : Owes(a) => Owes(a)'
  BY <1>4, <1>5 DEF Owes, Ahead
<1>11. Settled'
  <2>1. cycle.pc # "idle" => \A a \in account : a.cycle = c =>
          Owes(a) \/ \A w \in AllWorlds : Told(c, a.type, a.domain, w)
    BY <1>2, <1>3 DEF Settled
  <2>2. cycle.pc # "idle" => \A a \in account : a.cycle = c =>
          Owes(a)' \/ \A w \in AllWorlds : Told(c, a.type, a.domain, w)'
    BY <1>9, <1>10, <2>1
  <2>3. cycles' = c /\ account' = account
    BY <1>3, <1>4
  <2> QED
    BY <1>5, <2>2, <2>3 DEF Settled, Told
<1>12. Opening'
  <2>1. cycle.pc # "idle" => \A k \in 1 .. Len(Worlds) : (cycle.pc = "invoke" => k < cycle.i) =>
          /\ <<c, Worlds[k]>> \in invocations
          /\ Told(c, "WORLD_CYCLE_STARTED", None, Worlds[k])
          /\ Told(c, "GOVERNANCE_VALIDATED", None, Worlds[k])
    BY <1>2, <1>3 DEF Opening
  <2>2. cycle.pc # "idle" => \A k \in 1 .. Len(Worlds) : (cycle.pc = "invoke" => k < cycle.i) =>
          /\ <<c, Worlds[k]>> \in invocations
          /\ Told(c, "WORLD_CYCLE_STARTED", None, Worlds[k])'
          /\ Told(c, "GOVERNANCE_VALIDATED", None, Worlds[k])'
    BY <1>9, <2>1
  <2>3. cycles' = c /\ invocations' = invocations
    BY <1>3, <1>4
  <2> QED
    BY <1>5, <2>2, <2>3 DEF Opening, Told
<1>13. Completing'
  <2>1. ASSUME NEW j \in 1 .. Len(l)
        PROVE  /\ l[j].cycle = c
               /\ l[j].type = "WORLD_CYCLE_COMPLETED" =>
                    /\ cycle.pc = "return"
                    /\ InJournal(c, "WORLD_CYCLE_STARTED", None, l[j].world)'
                    /\ InJournal(c, "GOVERNANCE_VALIDATED", None, l[j].world)'
                    /\ \A a \in account : a.cycle = c =>
                         \/ InJournal(c, a.type, a.domain, l[j].world)'
                         \/ Queued(l, j - 1, c, a.type, a.domain, l[j].world)
    <3>1. j + 1 \in 1 .. Len(cycle.todo) /\ l[j] = cycle.todo[j + 1] /\ (j + 1) - 1 = j /\ j \in 0 .. Len(cycle.todo)
      BY <1>6
    <3>2. /\ l[j].cycle = c
          /\ l[j].type = "WORLD_CYCLE_COMPLETED" =>
               /\ cycle.pc = "return"
               /\ InJournal(c, "WORLD_CYCLE_STARTED", None, l[j].world)
               /\ InJournal(c, "GOVERNANCE_VALIDATED", None, l[j].world)
               /\ \A a \in account : a.cycle = c =>
                    \/ InJournal(c, a.type, a.domain, l[j].world)
                    \/ Queued(cycle.todo, j, c, a.type, a.domain, l[j].world)
      BY <1>2, <1>3, <3>1 DEF Completing
    <3> QED
      BY <1>7, <1>8, <3>1, <3>2
  <2>2. cycles' = c /\ account' = account
    BY <1>3, <1>4
  <2> QED
    BY <1>5, <2>1, <2>2 DEF Completing, InJournal, Journalled
<1>14. /\ Len(journal) \in Nat /\ Len(journal') = Len(journal) + 1 /\ journal'[Len(journal) + 1] = h
       /\ \A j \in 1 .. Len(journal) : journal'[j] = journal[j]
  BY <1>1, <1>4, <1>6
<1>15. /\ h.cycle = c
       /\ h.type = "WORLD_CYCLE_COMPLETED" =>
            /\ cycle.pc = "return"
            /\ InJournal(c, "WORLD_CYCLE_STARTED", None, h.world)
            /\ InJournal(c, "GOVERNANCE_VALIDATED", None, h.world)
            /\ \A a \in account : a.cycle = c => InJournal(c, a.type, a.domain, h.world)
  <2>1. /\ h.cycle = c
        /\ h.type = "WORLD_CYCLE_COMPLETED" =>
             /\ cycle.pc = "return"
             /\ InJournal(c, "WORLD_CYCLE_STARTED", None, h.world)
             /\ InJournal(c, "GOVERNANCE_VALIDATED", None, h.world)
             /\ \A a \in account : a.cycle = c =>
                  \/ InJournal(c, a.type, a.domain, h.world)
                  \/ Queued(cycle.todo, 0, c, a.type, a.domain, h.world)
    BY <1>2, <1>3, <1>6 DEF Completing
  <2>2. \A t, d, w : ~Queued(cycle.todo, 0, c, t, d, w)
    BY DEF Queued
  <2> QED
    BY <2>1, <2>2
<1>16. Ended'
  <2>1. \A j \in 1 .. Len(journal) :
          /\ journal[j].cycle <= cycles
          /\ journal[j].type = "WORLD_CYCLE_COMPLETED" /\ journal[j].cycle = cycles => cycle.pc \in {"return", "idle"}
    BY <1>2 DEF Ended
  <2>2. \A j \in 1 .. Len(journal') : j \in 1 .. Len(journal) \/ j = Len(journal) + 1
    BY <1>14
  <2>3. h.cycle <= cycles
    BY <1>1, <1>3, <1>15
  <2>4. \A j \in 1 .. Len(journal') :
          /\ journal'[j].cycle <= cycles
          /\ journal'[j].type = "WORLD_CYCLE_COMPLETED" /\ journal'[j].cycle = cycles => cycle.pc \in {"return", "idle"}
    BY <1>14, <1>15, <2>1, <2>2, <2>3
  <2>5. \A a \in account : a.cycle <= cycles
    BY <1>2 DEF Ended
  <2> QED
    BY <1>4, <1>5, <2>4, <2>5 DEF Ended
<1>17. CompletedIsAccounted'
  <2>1. ASSUME NEW k \in 1 .. Len(journal'), NEW e, e = journal'[k], e.type = "WORLD_CYCLE_COMPLETED"
        PROVE  /\ <<e.cycle, e.world>> \in invocations
               /\ Queued(journal', k, e.cycle, "WORLD_CYCLE_STARTED", None, e.world)
               /\ Queued(journal', k, e.cycle, "GOVERNANCE_VALIDATED", None, e.world)
               /\ \A a \in account : a.cycle = e.cycle => Queued(journal', k, e.cycle, a.type, a.domain, e.world)
    <3>1. CASE k \in 1 .. Len(journal)
      <4>1. e = journal[k]
        BY <1>14, <2>1, <3>1
      <4>2. /\ <<e.cycle, e.world>> \in invocations
            /\ Journalled(k, e.cycle, "WORLD_CYCLE_STARTED", None, e.world)
            /\ Journalled(k, e.cycle, "GOVERNANCE_VALIDATED", None, e.world)
            /\ \A a \in account : a.cycle = e.cycle => Journalled(k, e.cycle, a.type, a.domain, e.world)
        BY <1>2, <2>1, <3>1, <4>1 DEF CompletedIsAccounted
      <4>3. \A t, d, w : Journalled(k, e.cycle, t, d, w) => Queued(journal', k, e.cycle, t, d, w)
        BY <1>14, <3>1 DEF Journalled, Queued, Telling
      <4> QED
        BY <4>2, <4>3
    <3>2. CASE k = Len(journal) + 1
      <4>1. e = h
        BY <1>14, <2>1, <3>2
      <4>2. \A t, d, w : InJournal(c, t, d, w) => Queued(journal', k, c, t, d, w)
        BY <1>14, <3>2 DEF InJournal, Journalled, Queued, Telling
      <4>3. <<c, e.world>> \in invocations
        <5>1. e.world \in AllWorlds
          BY <1>6, <4>1 DEF Events
        <5>2. PICK j \in 1 .. Len(Worlds) : Worlds[j] = e.world
          BY <5>1, WorldsFact
        <5> QED
          BY <1>2, <1>3, <1>15, <2>1, <4>1, <5>2 DEF Opening
      <4> QED
        BY <1>15, <2>1, <4>1, <4>2, <4>3
    <3> QED
      BY <1>14, <3>1, <3>2
  <2>2. \A k \in 1 .. Len(journal') : journal'[k].type = "WORLD_CYCLE_COMPLETED" =>
          /\ <<journal'[k].cycle, journal'[k].world>> \in invocations
          /\ Queued(journal', k, journal'[k].cycle, "WORLD_CYCLE_STARTED", None, journal'[k].world)
          /\ Queued(journal', k, journal'[k].cycle, "GOVERNANCE_VALIDATED", None, journal'[k].world)
          /\ \A a \in account : a.cycle = journal'[k].cycle =>
               Queued(journal', k, journal'[k].cycle, a.type, a.domain, journal'[k].world)
    BY <2>1
  <2>3. invocations' = invocations /\ account' = account
    BY <1>4
  <2> QED
    BY <2>2, <2>3 DEF CompletedIsAccounted, Journalled, Queued, Telling
<1>18. Framed'
  BY <1>1, <1>2, <1>4, <1>5 DEF Framed, BeforeCount
<1> QED
  BY <1>11, <1>12, <1>13, <1>16, <1>17, <1>18 DEF AccountInv

(* The checkpoint is saved, and the cycle goes on to journal what it did,  *)
(* or ends.                                                                *)
LEMMA AccountSaves ==
  ASSUME TypeInv, AccountInv, Save
  PROVE  AccountInv'
<1>1. cycle \in Locals /\ cycles \in Nat
  BY DomainsFact DEF TypeInv, TypeOK
<1>2. Opening /\ Framed
  BY DEF AccountInv
<1>3. /\ UNCHANGED <<journal, invocations, account, cycles, jobs>> /\ cycle.pc = "save" /\ cycle.todo = <<>>
      /\ cycle' = IF cycle.action # "RUN_INGESTION" THEN [cycle EXCEPT !.pc = "count"]
                  ELSE IF deps = "tested" THEN [cycle EXCEPT !.pc = "evidence", !.i = 1] ELSE Idle
  BY DEF Save, At, counters
<1>4. CASE cycle.action = "RUN_INGESTION" /\ deps # "tested"
  BY <1>1, <1>3, <1>4, AccountEnds
<1>5. CASE cycle.action # "RUN_INGESTION" \/ deps = "tested"
  <2>1. /\ cycle'.pc \in {"count", "evidence"} /\ cycle'.todo = <<>> /\ cycle'.action = cycle.action
        /\ cycle'.before = cycle.before /\ cycle'.collected = cycle.collected /\ cycle'.inserted = cycle.inserted
        /\ cycle.action = "RUN_INGESTION" => cycle'.pc = "evidence" /\ cycle'.i = 1
    BY <1>1, <1>3, <1>5 DEF Locals
  <2>2. \A d : Ahead(d) => Ahead(d)'
    <3> SUFFICES ASSUME NEW d, Ahead(d) PROVE Ahead(d)'
      OBVIOUS
    <3>1. d \in AllDomains /\ cycle.action = "RUN_INGESTION"
      BY DEF Ahead
    <3>2. PICK k \in 1 .. N : Domains[k] = d
      BY <3>1 DEF AllDomains, N
    <3>3. 1 <= k
      BY <3>2, DomainsFact
    <3> QED
      BY <2>1, <3>1, <3>2, <3>3 DEF Ahead
  <2>3. \A a \in account : Owes(a) => Owes(a)'
    BY <1>3, <2>1, <2>2 DEF Owes, Ahead, BeforeCount
  <2>4. Opening'
    BY <1>2, <1>3, OpeningKept
  <2>5. Framed'
    BY <1>2, <1>3, <2>1 DEF Framed, BeforeCount
  <2>6. /\ cycle.pc \notin {"idle", "return"} /\ cycle'.pc \notin {"idle", "return"}
        /\ invocations \subseteq invocations' /\ account' = account
    BY <1>3, <2>1
  <2>7. \A j \in 1 .. Len(cycle'.todo) :
          cycle'.todo[j].cycle = cycles /\ cycle'.todo[j].type # "WORLD_CYCLE_COMPLETED"
    BY <2>1
  <2> QED
    BY <1>1, <1>3, <2>3, <2>4, <2>5, <2>6, <2>7, AccountStep
<1> QED
  BY <1>4, <1>5

(* The steps of anybody but the cycle under way, and ends.                 *)
LEMMA AccountOthers ==
  ASSUME TypeInv, AccountInv, NEW b \in BOOLEAN,
         \/ \E d \in AllDomains : Arrive(d)
         \/ \E job \in OtherJobs : SubmitOther(job)
         \/ LoseCheckpoint \/ Run \/ Return
         \/ Ingest("run") \/ Gate("run", b) \/ \E p \in Pipelines : GateRaises(p) \/ Crash(p)
  PROVE  AccountInv'
<1>1. CASE (\E d \in AllDomains : Arrive(d)) \/ (\E job \in OtherJobs : SubmitOther(job)) \/ LoseCheckpoint \/ Run
  <2>1. UNCHANGED <<journal, invocations, account, cycle, cycles>> /\ jobs \subseteq jobs'
    BY <1>1 DEF Arrive, SubmitOther, LoseCheckpoint, Run, counters
  <2> QED
    BY <2>1, AccountBeside
<1>2. CASE Ingest("run") \/ Gate("run", b)
  <2>1. UNCHANGED <<journal, invocations, account, cycle, cycles>> /\ jobs \subseteq jobs'
    BY <1>2 DEF Ingest, Gate, counters
  <2> QED
    BY <2>1, AccountBeside
<1>3. CASE Return \/ \E p \in Pipelines : GateRaises(p) \/ Crash(p)
  <2>1. UNCHANGED <<journal, invocations, account, cycles, jobs>> /\ cycle' \in {cycle, Idle}
    BY <1>3 DEF Return, GateRaises, Crash, stores, counters
  <2>2. cycles \in Nat
    BY DomainsFact DEF TypeInv, TypeOK
  <2> QED
    BY <2>1, <2>2, AccountEnds, AccountBeside
<1> QED
  BY <1>1, <1>2, <1>3

(* Whatever the cycles are given, wherever they die or raise, and however  *)
(* they interleave with `run`: a cycle that is journalled as completed has *)
(* its start, its invocation, and everything it did before that in the     *)
(* journal.                                                                *)
THEOREM CompletedAccounted == Spec => []CompletedIsAccounted
<1>1. Init => TypeInv /\ AccountInv
  <2> SUFFICES ASSUME Init PROVE AccountInv
    BY TypeInit
  <2>1. cycle.pc = "idle" /\ cycle.todo = <<>> /\ journal = <<>> /\ account = {}
    BY DEF Init, Idle
  <2>2. Settled /\ Opening /\ Completing /\ CompletedIsAccounted
    BY <2>1 DEF Settled, Opening, Completing, CompletedIsAccounted
  <2>3. Ended /\ Framed
    BY <2>1 DEF Ended, Framed, BeforeCount
  <2> QED
    BY <2>2, <2>3 DEF AccountInv
<1>2. TypeInv /\ AccountInv /\ [Next]_vars => TypeInv' /\ AccountInv'
  <2> SUFFICES ASSUME TypeInv, AccountInv, [Next]_vars PROVE AccountInv'
    BY TypeStep
  <2>1. CASE Next
    <3>1. CASE AppendEvent \/ Save
      BY <3>1, AccountAppends, AccountSaves
    <3>2. CASE Start \/ Invoke \/ Walk \/ Decide \/ JournalEvidence \/ JournalNeeds \/ JournalJobs
      BY <3>2, AccountOpens, AccountJournals
    <3>3. CASE \E b \in BOOLEAN : Collect(b) \/ Dispatch(b)
      BY <3>3, AccountDoes, AccountDispatches, AccountBreaksOff
    <3>4. CASE \E p \in Pipelines : Ingest(p) \/ \E b \in BOOLEAN : Gate(p, b)
      BY <3>4, AccountDoes, AccountOthers DEF Pipelines
    <3>5. CASE (\E d \in AllDomains : Arrive(d)) \/ (\E job \in OtherJobs : SubmitOther(job))
               \/ LoseCheckpoint \/ Run \/ Return
               \/ \E p \in Pipelines : GateRaises(p) \/ Crash(p)
      BY <3>5, AccountOthers
    <3> QED
      BY <2>1, <3>1, <3>2, <3>3, <3>4, <3>5 DEF Next
  <2>2. CASE UNCHANGED vars
    <3>1. UNCHANGED <<journal, invocations, account, cycle, cycles>> /\ jobs' = jobs
      BY <2>2 DEF vars, stores, counters
    <3> QED
      BY <3>1, AccountBeside
  <2> QED
    BY <2>1, <2>2
<1>3. AccountInv => CompletedIsAccounted
  BY DEF AccountInv
<1> QED
  BY <1>1, <1>2, <1>3, PTL DEF Spec
=============================================================================
