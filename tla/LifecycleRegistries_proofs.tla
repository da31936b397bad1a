---------------------- MODULE LifecycleRegistries_proofs ----------------------
(* Proofs about the registries of the lifecycle: GenerationLifecycle, for  *)
(* any number of generations, networks and processes, and after it         *)
(* OutcomeEvaluation, for any number of predictions, outcomes and          *)
(* evaluations.                                                            *)
EXTENDS GenerationLifecycle, OutcomeEvaluation, TLAPS

-----------------------------------------------------------------------------
(* Histories.                                                              *)
LEMMA AppendFacts ==
  ASSUME NEW s \in Seq(Transitions), NEW t \in Transitions
  PROVE  /\ Append(s, t) \in Seq(Transitions)
         /\ Len(Append(s, t)) = Len(s) + 1
         /\ Append(s, t)[Len(s) + 1] = t
         /\ \A i \in 1 .. Len(s) : Append(s, t)[i] = s[i]
         /\ 1 .. Len(Append(s, t)) = (1 .. Len(s)) \union {Len(s) + 1}
  OBVIOUS

LEMMA AllowedTo ==
  ASSUME NEW r \in LIFECYCLE_STATES, NEW s \in ALLOWED_TRANSITIONS[r]
  PROVE  /\ s \in LIFECYCLE_STATES
         /\ s \in Qualified => r \in Qualified \/ (r = "HISTORICALLY_EVALUATED" /\ s = "SHADOW")
<1>1. CASE r \in {"PLANNED", "QUEUED", "TRAINING", "HISTORICALLY_EVALUATED"}
  BY <1>1 DEF LIFECYCLE_STATES, ALLOWED_TRANSITIONS, Qualified
<1>2. CASE r \in Qualified
  BY <1>2 DEF LIFECYCLE_STATES, ALLOWED_TRANSITIONS, Qualified
<1>3. CASE r \in {"RETIRED", "FAILED", "QUARANTINED"}
  BY <1>3 DEF LIFECYCLE_STATES, ALLOWED_TRANSITIONS, Qualified
<1> QED
  BY <1>1, <1>2, <1>3 DEF LIFECYCLE_STATES, Qualified

-----------------------------------------------------------------------------
(* Types.                                                                  *)
LEMMA TypeInit == LifecycleInit => LifecycleTypeOK
  BY DEF LifecycleInit, LifecycleTypeOK

(* The entries that the two writing actions append.                        *)
NewEntry(g) == [gen |-> g, from |-> Absent, to |-> "PLANNED", grounds |-> Planned]

LEMMA NewEntryTyped ==
  ASSUME NEW g \in GenerationIds
  PROVE  NewEntry(g) \in Transitions
  BY DEF NewEntry, Transitions, LIFECYCLE_STATES

LEMMA CallTyped ==
  ASSUME LifecycleTypeOK, NEW p \in Writers, entry[p] # Absent
  PROVE  /\ entry[p] \in Transitions /\ entry[p].gen \in GenerationIds
         /\ entry[p].to \in LIFECYCLE_STATES
  BY DEF LifecycleTypeOK, Transitions

(* What a entry that has been checked may rely on: not on the state the     *)
(* generation is in, but on one that it has been in.                       *)
InHistory(g, s) ==
  \E j \in 1 .. Len(transitions) : transitions[j].gen = g /\ transitions[j].to = s

CallsInv == \A p \in Writers : entry[p] # Absent =>
  /\ Created(entry[p].gen) /\ InHistory(entry[p].gen, entry[p].from)
  /\ entry[p].from \in LIFECYCLE_STATES /\ entry[p].to \in ALLOWED_TRANSITIONS[entry[p].from]
  /\ Justified(entry[p].from, entry[p].to, entry[p].grounds)

(* The entries belong to generations that exist.                           *)
EntriesInv == \A i \in 1 .. Len(transitions) : Created(transitions[i].gen)

LEMMA TypeStep ==
  ASSUME LifecycleTypeOK, CallsInv, [LifecycleNext]_lifecycleVars
  PROVE  LifecycleTypeOK'
<1>1. ASSUME NEW g \in GenerationIds, NEW n \in Networks, NEW i \in 1 .. MaxGeneration,
             NEW parent \in GenerationIds \union {Absent}, create_generation(g, n, i, parent)
      PROVE  LifecycleTypeOK'
  <2>1. [network_id |-> n, generation |-> i, parent |-> parent, state |-> "PLANNED"] \in Generations
    BY DEF Generations, LIFECYCLE_STATES
  <2>2. generations' \in [GenerationIds -> Generations \union {Absent}]
    BY <1>1, <2>1 DEF create_generation, LifecycleTypeOK
  <2>3. transitions' \in Seq(Transitions)
    BY <1>1, NewEntryTyped, AppendFacts DEF create_generation, NewEntry, LifecycleTypeOK
  <2> QED
    BY <1>1, <2>2, <2>3 DEF create_generation, LifecycleTypeOK
<1>2. ASSUME NEW p \in Writers, NEW g \in GenerationIds, NEW to \in Targets, NEW x \in Grounds,
             BeginTransition(p, g, to, x)
      PROVE  LifecycleTypeOK'
  <2>1. generations[g].state \in LIFECYCLE_STATES
    BY <1>2 DEF BeginTransition, Created, LifecycleTypeOK, Generations
  <2>2. [gen |-> g, from |-> generations[g].state, to |-> to, grounds |-> x] \in Transitions
    BY <2>1, LifecycleAssumption DEF Transitions
  <2>3. entry' \in [Writers -> Transitions \union {Absent}]
    BY <1>2, <2>2 DEF BeginTransition, LifecycleTypeOK
  <2> QED
    BY <1>2, <2>3 DEF BeginTransition, LifecycleTypeOK
<1>3. ASSUME NEW p \in Writers, WriteTransition(p)
      PROVE  LifecycleTypeOK'
  <2>1. entry[p] \in Transitions /\ entry[p].gen \in GenerationIds /\ entry[p].to \in LIFECYCLE_STATES
    BY <1>3, CallTyped DEF WriteTransition
  <2>2. [generations[entry[p].gen] EXCEPT !.state = entry[p].to] \in Generations
    BY <1>3, <2>1 DEF WriteTransition, CallsInv, Created, LifecycleTypeOK, Generations
  <2>3. generations' \in [GenerationIds -> Generations \union {Absent}]
    BY <1>3, <2>2 DEF WriteTransition, LifecycleTypeOK
  <2>4. transitions' \in Seq(Transitions)
    BY <1>3, <2>1, AppendFacts DEF WriteTransition, LifecycleTypeOK
  <2> QED
    BY <1>3, <2>3, <2>4 DEF WriteTransition, LifecycleTypeOK
<1>4. ASSUME NEW p \in Writers, DropTransition(p) PROVE LifecycleTypeOK'
  BY <1>4 DEF DropTransition, LifecycleTypeOK
<1>5. CASE UNCHANGED lifecycleVars
  BY <1>5 DEF lifecycleVars, LifecycleTypeOK
<1> QED
  BY <1>1, <1>2, <1>3, <1>4, <1>5 DEF LifecycleNext

-----------------------------------------------------------------------------
(* What the two writing actions do to the history and the generations.     *)
LEMMA CreateEffect ==
  ASSUME LifecycleTypeOK, NEW g \in GenerationIds, NEW n \in Networks, NEW i \in 1 .. MaxGeneration,
         NEW parent \in GenerationIds \union {Absent}, create_generation(g, n, i, parent)
  PROVE  /\ ~Created(g) /\ Created(g)' /\ generations'[g].state = "PLANNED"
         /\ \A h \in GenerationIds \ {g} : generations'[h] = generations[h]
         /\ NewEntry(g) \in Transitions
         /\ transitions' = Append(transitions, NewEntry(g)) /\ UNCHANGED entry
<1> DEFINE row == [network_id |-> n, generation |-> i, parent |-> parent, state |-> "PLANNED"]
<1>1. row \in Generations
  BY DEF Generations, LIFECYCLE_STATES
<1>2. row # Absent /\ row.state = "PLANNED"
  BY <1>1, LifecycleAssumption
<1>3. generations'[g] = row
  BY DEF create_generation, LifecycleTypeOK
<1> QED
  BY <1>2, <1>3, NewEntryTyped DEF create_generation, NewEntry, Created, LifecycleTypeOK

LEMMA WriteEffect ==
  ASSUME LifecycleTypeOK, CallsInv, NEW p \in Writers, WriteTransition(p)
  PROVE  LET g == entry[p].gen IN
         /\ entry[p] # Absent /\ entry[p] \in Transitions /\ g \in GenerationIds /\ entry[p].to \in LIFECYCLE_STATES
         /\ Created(g) /\ generations'[g] # Absent /\ generations'[g].state = entry[p].to
         /\ \A h \in GenerationIds \ {g} : generations'[h] = generations[h]
         /\ transitions' = Append(transitions, entry[p])
         /\ entry'[p] = Absent /\ \A q \in Writers \ {p} : entry'[q] = entry[q]
<1> DEFINE g == entry[p].gen
<1>1. entry[p] # Absent /\ entry[p] \in Transitions /\ g \in GenerationIds /\ entry[p].to \in LIFECYCLE_STATES
  BY CallTyped DEF WriteTransition
<1>2. Created(g) /\ generations[g] \in Generations
  BY <1>1 DEF CallsInv, Created, LifecycleTypeOK
<1>3. [generations[g] EXCEPT !.state = entry[p].to] \in Generations
  BY <1>1, <1>2 DEF Generations
<1>4. generations'[g] = [generations[g] EXCEPT !.state = entry[p].to]
  BY <1>1 DEF WriteTransition, LifecycleTypeOK
<1>5. generations'[g] # Absent /\ generations'[g].state = entry[p].to
  BY <1>2, <1>3, <1>4, LifecycleAssumption DEF Generations
<1>6. \A h \in GenerationIds \ {g} : generations'[h] = generations[h]
  BY <1>1 DEF WriteTransition, LifecycleTypeOK
<1>7. entry'[p] = Absent /\ \A q \in Writers \ {p} : entry'[q] = entry[q]
  BY DEF WriteTransition, LifecycleTypeOK
<1>8. transitions' = Append(transitions, entry[p])
  BY DEF WriteTransition
<1> QED
  BY <1>1, <1>2, <1>5, <1>6, <1>7, <1>8

(* A longer history holds what a shorter one held.                         *)
LEMMA HistoryGrows ==
  ASSUME LifecycleTypeOK, NEW t \in Transitions, transitions' = Append(transitions, t)
  PROVE  /\ Len(transitions) \in Nat /\ Len(transitions') = Len(transitions) + 1
         /\ transitions'[Len(transitions) + 1] = t
         /\ \A i \in 1 .. Len(transitions) : i \in 1 .. Len(transitions') /\ transitions'[i] = transitions[i]
         /\ \A i \in 1 .. Len(transitions') : i \in 1 .. Len(transitions) \/ i = Len(transitions) + 1
  BY AppendFacts DEF LifecycleTypeOK

LEMMA InHistoryKept ==
  ASSUME LifecycleTypeOK, NEW t \in Transitions, transitions' = Append(transitions, t), NEW g, NEW s,
         InHistory(g, s)
  PROVE  \E j \in 1 .. Len(transitions') : transitions'[j].gen = g /\ transitions'[j].to = s
  BY HistoryGrows DEF InHistory

-----------------------------------------------------------------------------
(* Calls and entries.                                                      *)
LEMMA CallsInit == LifecycleInit => CallsInv /\ EntriesInv
  BY DEF LifecycleInit, CallsInv, EntriesInv

LEMMA CallsStep ==
  ASSUME LifecycleTypeOK, CallsInv, EntriesInv, StateIsOnRecord, [LifecycleNext]_lifecycleVars
  PROVE  CallsInv' /\ EntriesInv'
<1>1. ASSUME NEW g \in GenerationIds, NEW n \in Networks, NEW i \in 1 .. MaxGeneration,
             NEW parent \in GenerationIds \union {Absent}, create_generation(g, n, i, parent)
      PROVE  CallsInv' /\ EntriesInv'
  <2>1. \A h \in GenerationIds : Created(h) => Created(h)'
    BY <1>1, CreateEffect DEF Created
  <2>2. CallsInv'
    <3> SUFFICES ASSUME NEW p \in Writers, entry[p] # Absent
                 PROVE  /\ Created(entry[p].gen)'
                        /\ \E j \in 1 .. Len(transitions') :
                             transitions'[j].gen = entry[p].gen /\ transitions'[j].to = entry[p].from
      BY <1>1, CreateEffect DEF CallsInv, InHistory
    <3>1. entry[p].gen \in GenerationIds /\ Created(entry[p].gen) /\ InHistory(entry[p].gen, entry[p].from)
      BY CallTyped DEF CallsInv
    <3>2. entry' = entry
      BY <1>1, CreateEffect
    <3> QED
      BY <1>1, <2>1, <3>1, <3>2, CreateEffect, InHistoryKept
  <2>3. EntriesInv'
    <3> SUFFICES ASSUME NEW k \in 1 .. Len(transitions') PROVE generations'[transitions'[k].gen] # Absent
      BY DEF EntriesInv, Created
    <3>1. CASE k \in 1 .. Len(transitions)
      <4>1. transitions'[k] = transitions[k] /\ transitions[k] \in Transitions
        BY <1>1, <3>1, CreateEffect, HistoryGrows DEF LifecycleTypeOK
      <4> QED
        BY <2>1, <3>1, <4>1 DEF EntriesInv, Created, Transitions
    <3>2. CASE k = Len(transitions) + 1
      <4>1. transitions'[k] = NewEntry(g)
        BY <1>1, <3>2, CreateEffect, HistoryGrows
      <4>2. transitions'[k].gen = g
        BY <4>1 DEF NewEntry
      <4> QED
        BY <1>1, <4>2, CreateEffect DEF Created
    <3> QED
      BY <1>1, <3>1, <3>2, CreateEffect, HistoryGrows
  <2> QED
    BY <2>2, <2>3
<1>2. ASSUME NEW p \in Writers, NEW g \in GenerationIds, NEW to \in Targets, NEW x \in Grounds,
             BeginTransition(p, g, to, x)
      PROVE  CallsInv' /\ EntriesInv'
  <2> DEFINE c == [gen |-> g, from |-> generations[g].state, to |-> to, grounds |-> x]
  <2>1. /\ entry'[p] = c /\ \A q \in Writers \ {p} : entry'[q] = entry[q]
        /\ UNCHANGED <<generations, transitions>> /\ Created(g)
        /\ to \in ALLOWED_TRANSITIONS[generations[g].state]
        /\ Justified(generations[g].state, to, x)
    BY <1>2 DEF BeginTransition, LifecycleTypeOK
  <2>2. c.gen = g /\ c.from = generations[g].state /\ c.to = to /\ c.grounds = x
    OBVIOUS
  <2>3. InHistory(g, generations[g].state)
    BY <2>1 DEF StateIsOnRecord, Latest, InHistory
  <2>4. generations[g].state \in LIFECYCLE_STATES
    BY <2>1 DEF Created, LifecycleTypeOK, Generations
  <2>5. CallsInv'
    BY <2>1, <2>2, <2>3, <2>4 DEF CallsInv, Created, InHistory
  <2>6. EntriesInv'
    BY <2>1 DEF EntriesInv, Created
  <2> QED
    BY <2>5, <2>6
<1>3. ASSUME NEW p \in Writers, WriteTransition(p) PROVE CallsInv' /\ EntriesInv'
  <2>1. \A h \in GenerationIds : generations[h] # Absent => generations'[h] # Absent
    BY <1>3, WriteEffect
  <2>2. CallsInv'
    <3> SUFFICES ASSUME NEW q \in Writers, entry'[q] # Absent
                 PROVE  /\ entry'[q] = entry[q] /\ entry[q] # Absent
                        /\ generations'[entry[q].gen] # Absent
                        /\ \E j \in 1 .. Len(transitions') :
                             transitions'[j].gen = entry[q].gen /\ transitions'[j].to = entry[q].from
      BY DEF CallsInv, InHistory, Created
    <3>1. entry'[q] = entry[q] /\ entry[q] # Absent
      BY <1>3, WriteEffect
    <3>2. entry[q].gen \in GenerationIds /\ generations[entry[q].gen] # Absent
          /\ InHistory(entry[q].gen, entry[q].from)
      BY <3>1, CallTyped DEF CallsInv, Created
    <3> QED
      BY <1>3, <2>1, <3>1, <3>2, WriteEffect, InHistoryKept
  <2>3. EntriesInv'
    <3> SUFFICES ASSUME NEW k \in 1 .. Len(transitions') PROVE generations'[transitions'[k].gen] # Absent
      BY DEF EntriesInv, Created
    <3>1. CASE k \in 1 .. Len(transitions)
      <4>1. transitions'[k] = transitions[k] /\ transitions[k] \in Transitions
        BY <1>3, <3>1, WriteEffect, HistoryGrows DEF LifecycleTypeOK
      <4> QED
        BY <2>1, <3>1, <4>1 DEF EntriesInv, Created, Transitions
    <3>2. CASE k = Len(transitions) + 1
      BY <1>3, <3>2, WriteEffect, HistoryGrows
    <3> QED
      BY <1>3, <3>1, <3>2, WriteEffect, HistoryGrows
  <2> QED
    BY <2>2, <2>3
<1>4. ASSUME NEW p \in Writers, DropTransition(p) PROVE CallsInv' /\ EntriesInv'
  <2>1. /\ UNCHANGED <<generations, transitions>>
        /\ \A q \in Writers : entry'[q] # Absent => entry'[q] = entry[q]
    BY <1>4 DEF DropTransition, LifecycleTypeOK
  <2> QED
    BY <2>1 DEF CallsInv, EntriesInv, Created, InHistory
<1>5. CASE UNCHANGED lifecycleVars
  BY <1>5 DEF lifecycleVars, CallsInv, EntriesInv, Created, InHistory
<1> QED
  BY <1>1, <1>2, <1>3, <1>4, <1>5 DEF LifecycleNext

-----------------------------------------------------------------------------
(* The state on record.                                                    *)
Promoted(j) ==
  /\ transitions[j].grounds.authority_type \in PROMOTION_AUTHORITIES
  /\ transitions[j].grounds.evidence_kind = "PROSPECTIVE" /\ transitions[j].grounds.evidence_ref

OnRecord(g) == \E j \in 1 .. Len(transitions) :
  /\ Latest(j, g, Len(transitions)) /\ transitions[j].to = generations[g].state
  /\ generations[g].state = "ACTIVE" => Promoted(j)

LEMMA OnRecordIsIt == StateIsOnRecord <=> \A g \in GenerationIds : Created(g) => OnRecord(g)
  BY DEF StateIsOnRecord, OnRecord, Promoted

(* The other generations' entries say what they said.                      *)
LEMMA OnRecordKept ==
  ASSUME LifecycleTypeOK, NEW t \in Transitions, transitions' = Append(transitions, t),
         NEW g \in GenerationIds, g # t.gen, generations'[g] = generations[g], OnRecord(g)
  PROVE  OnRecord(g)'
<1>1. PICK j \in 1 .. Len(transitions) :
        /\ Latest(j, g, Len(transitions)) /\ transitions[j].to = generations[g].state
        /\ generations[g].state = "ACTIVE" => Promoted(j)
  BY DEF OnRecord
<1>2. j \in 1 .. Len(transitions') /\ transitions'[j] = transitions[j] /\ transitions[j].gen = g
  BY <1>1, HistoryGrows DEF Latest
<1>3. ASSUME NEW m \in j + 1 .. Len(transitions') PROVE transitions'[m].gen # g
  <2>1. m \in 1 .. Len(transitions') /\ m \in Int /\ m > j
    BY HistoryGrows
  <2>2. CASE m \in 1 .. Len(transitions)
    BY <1>1, <2>1, <2>2, HistoryGrows DEF Latest
  <2>3. CASE m = Len(transitions) + 1
    BY <2>3, HistoryGrows
  <2> QED
    BY <2>1, <2>2, <2>3, HistoryGrows
<1> QED
  BY <1>1, <1>2, <1>3 DEF OnRecord, Latest, Promoted

(* The new entry is the last one of its generation.                        *)
LEMMA OnRecordNew ==
  ASSUME LifecycleTypeOK, NEW t \in Transitions, transitions' = Append(transitions, t),
         generations'[t.gen].state = t.to,
         t.to = "ACTIVE" => /\ t.grounds.authority_type \in PROMOTION_AUTHORITIES
                            /\ t.grounds.evidence_kind = "PROSPECTIVE" /\ t.grounds.evidence_ref
  PROVE  OnRecord(t.gen)'
<1> DEFINE k == Len(transitions) + 1
<1>1. k \in 1 .. Len(transitions') /\ transitions'[k] = t /\ Len(transitions') = k /\ k \in Nat
  BY HistoryGrows
<1>2. k + 1 .. Len(transitions') = {}
  BY <1>1
<1> QED
  BY <1>1, <1>2 DEF OnRecord, Latest, Promoted

LEMMA RecordInit == LifecycleInit => StateIsOnRecord
  BY DEF LifecycleInit, StateIsOnRecord, Created

LEMMA RecordStep ==
  ASSUME LifecycleTypeOK, CallsInv, StateIsOnRecord, [LifecycleNext]_lifecycleVars
  PROVE  StateIsOnRecord'
<1>a. CASE UNCHANGED <<generations, transitions>>
  BY <1>a DEF StateIsOnRecord, Created, Latest
<1>1. ASSUME NEW g \in GenerationIds, NEW n \in Networks, NEW i \in 1 .. MaxGeneration,
             NEW parent \in GenerationIds \union {Absent}, create_generation(g, n, i, parent)
      PROVE  StateIsOnRecord'
  <2>1. NewEntry(g).gen = g /\ NewEntry(g).to = "PLANNED"
    BY DEF NewEntry
  <2>2. OnRecord(g)'
    <3>1. OnRecord(NewEntry(g).gen)'
      BY <1>1, <2>1, CreateEffect, OnRecordNew
    <3> QED
      BY <2>1, <3>1
  <2>3. \A h \in GenerationIds \ {g} : Created(h)' => OnRecord(h)'
    BY <1>1, <2>1, CreateEffect, OnRecordKept, OnRecordIsIt DEF Created
  <2> QED
    BY <2>2, <2>3 DEF StateIsOnRecord, OnRecord, Promoted
<1>2. ASSUME NEW p \in Writers, NEW g \in GenerationIds, NEW to \in Targets, NEW x \in Grounds,
             BeginTransition(p, g, to, x)
      PROVE  StateIsOnRecord'
  BY <1>2, <1>a DEF BeginTransition
<1>3. ASSUME NEW p \in Writers, WriteTransition(p) PROVE StateIsOnRecord'
  <2> DEFINE t == entry[p]
  <2>1. t.to = "ACTIVE" => /\ t.grounds.authority_type \in PROMOTION_AUTHORITIES
                           /\ t.grounds.evidence_kind = "PROSPECTIVE" /\ t.grounds.evidence_ref
    BY <1>3, WriteEffect DEF CallsInv, Justified
  <2>2. PICK c \in Transitions : c = entry[p]
    BY <1>3, WriteEffect
  <2>3. OnRecord(c.gen)'
    BY <1>3, <2>1, <2>2, WriteEffect, OnRecordNew
  <2>4. \A h \in GenerationIds \ {c.gen} : Created(h)' => OnRecord(h)'
    BY <1>3, <2>2, WriteEffect, OnRecordKept, OnRecordIsIt DEF Created
  <2> QED
    BY <2>3, <2>4 DEF StateIsOnRecord, OnRecord, Promoted
<1>4. ASSUME NEW p \in Writers, DropTransition(p) PROVE StateIsOnRecord'
  BY <1>4, <1>a DEF DropTransition
<1>5. CASE UNCHANGED lifecycleVars
  BY <1>5, <1>a DEF lifecycleVars
<1> QED
  BY <1>1, <1>2, <1>3, <1>4, <1>5 DEF LifecycleNext

-----------------------------------------------------------------------------
(* Qualification.                                                          *)
QualifiedBy(i, j) ==
  /\ transitions[j].gen = transitions[i].gen
  /\ transitions[j].from = "HISTORICALLY_EVALUATED" /\ transitions[j].to = "SHADOW"
  /\ transitions[j].grounds.evidence_kind = "HISTORICAL" /\ transitions[j].grounds.evidence_ref

LEMMA QualifiedInit == LifecycleInit => QualifiedOnEvidence
  BY DEF LifecycleInit, QualifiedOnEvidence

(* Appending an entry that is not Qualified, or whose generation has one   *)
(* that is, or that qualifies it.                                          *)
LEMMA QualifiedKept ==
  ASSUME LifecycleTypeOK, QualifiedOnEvidence, NEW t \in Transitions, transitions' = Append(transitions, t),
         t.to \in Qualified =>
           \/ \E j \in 1 .. Len(transitions) :
                transitions[j].gen = t.gen /\ transitions[j].to \in Qualified
           \/ /\ t.from = "HISTORICALLY_EVALUATED" /\ t.to = "SHADOW"
              /\ t.grounds.evidence_kind = "HISTORICAL" /\ t.grounds.evidence_ref
  PROVE  QualifiedOnEvidence'
<1> SUFFICES ASSUME NEW i \in 1 .. Len(transitions'), transitions'[i].to \in Qualified
             PROVE  \E j \in 1 .. i : QualifiedBy(i, j)'
  BY DEF QualifiedOnEvidence, QualifiedBy
<1>1. ASSUME NEW m \in 1 .. Len(transitions), transitions[m].to \in Qualified,
             transitions[m].gen = transitions'[i].gen, m <= i
      PROVE  \E j \in 1 .. i : QualifiedBy(i, j)'
  <2>1. PICK j \in 1 .. m : QualifiedBy(m, j)
    BY <1>1 DEF QualifiedOnEvidence, QualifiedBy
  <2>2. j \in 1 .. Len(transitions) /\ j \in 1 .. i
    BY <1>1, <2>1, HistoryGrows
  <2>3. transitions'[j] = transitions[j]
    BY <2>2, HistoryGrows
  <2> QED
    BY <1>1, <2>1, <2>2, <2>3 DEF QualifiedBy
<1>2. CASE i \in 1 .. Len(transitions)
  BY <1>1, <1>2, HistoryGrows
<1>3. CASE i = Len(transitions) + 1
  <2>1. transitions'[i] = t /\ i \in 1 .. i /\ i \in Nat
    BY <1>3, HistoryGrows
  <2>2. CASE \E j \in 1 .. Len(transitions) :
               transitions[j].gen = t.gen /\ transitions[j].to \in Qualified
    <3>1. PICK j \in 1 .. Len(transitions) :
            transitions[j].gen = t.gen /\ transitions[j].to \in Qualified
      BY <2>2
    <3>2. j <= i
      BY <1>3, <3>1, HistoryGrows
    <3> QED
      BY <1>1, <2>1, <3>1, <3>2
  <2>3. CASE /\ t.from = "HISTORICALLY_EVALUATED" /\ t.to = "SHADOW"
             /\ t.grounds.evidence_kind = "HISTORICAL" /\ t.grounds.evidence_ref
    BY <2>1, <2>3 DEF QualifiedBy
  <2> QED
    BY <2>1, <2>2, <2>3
<1> QED
  BY <1>2, <1>3, HistoryGrows

LEMMA QualifiedStep ==
  ASSUME LifecycleTypeOK, CallsInv, QualifiedOnEvidence, [LifecycleNext]_lifecycleVars
  PROVE  QualifiedOnEvidence'
<1>a. CASE UNCHANGED transitions
  BY <1>a DEF QualifiedOnEvidence
<1>1. ASSUME NEW g \in GenerationIds, NEW n \in Networks, NEW i \in 1 .. MaxGeneration,
             NEW parent \in GenerationIds \union {Absent}, create_generation(g, n, i, parent)
      PROVE  QualifiedOnEvidence'
  <2>1. NewEntry(g).to \notin Qualified
    BY DEF NewEntry, Qualified
  <2> QED
    BY <1>1, <2>1, CreateEffect, QualifiedKept
<1>2. ASSUME NEW p \in Writers, NEW g \in GenerationIds, NEW to \in Targets, NEW x \in Grounds,
             BeginTransition(p, g, to, x)
      PROVE  QualifiedOnEvidence'
  BY <1>2, <1>a DEF BeginTransition
<1>3. ASSUME NEW p \in Writers, WriteTransition(p) PROVE QualifiedOnEvidence'
  <2>1. PICK c \in Transitions : c = entry[p]
    BY <1>3, WriteEffect
  <2>2. /\ InHistory(c.gen, c.from) /\ c.from \in LIFECYCLE_STATES
        /\ c.to \in ALLOWED_TRANSITIONS[c.from] /\ Justified(c.from, c.to, c.grounds)
    BY <1>3, <2>1, WriteEffect DEF CallsInv
  <2>3. CASE c.to \in Qualified /\ c.from \in Qualified
    BY <1>3, <2>1, <2>2, <2>3, WriteEffect, QualifiedKept DEF InHistory
  <2>4. CASE c.to = "SHADOW" /\ c.from = "HISTORICALLY_EVALUATED"
    BY <1>3, <2>1, <2>2, <2>4, WriteEffect, QualifiedKept DEF Justified
  <2>5. CASE c.to \notin Qualified
    BY <1>3, <2>1, <2>5, WriteEffect, QualifiedKept
  <2> QED
    BY <2>2, <2>3, <2>4, <2>5, AllowedTo
<1>4. ASSUME NEW p \in Writers, DropTransition(p) PROVE QualifiedOnEvidence'
  BY <1>4, <1>a DEF DropTransition
<1>5. CASE UNCHANGED lifecycleVars
  BY <1>5, <1>a DEF lifecycleVars
<1> QED
  BY <1>1, <1>2, <1>3, <1>4, <1>5 DEF LifecycleNext

-----------------------------------------------------------------------------
(* The inductive invariant.                                                *)
Inv == LifecycleTypeOK /\ CallsInv /\ EntriesInv /\ StateIsOnRecord /\ QualifiedOnEvidence

LEMMA Invariance == LifecycleSpec => []Inv
<1>1. LifecycleInit => Inv
  BY TypeInit, CallsInit, RecordInit, QualifiedInit DEF Inv
<1>2. Inv /\ [LifecycleNext]_lifecycleVars => Inv'
  BY TypeStep, CallsStep, RecordStep, QualifiedStep DEF Inv
<1> QED
  BY <1>1, <1>2, PTL DEF LifecycleSpec

(* Both tables and the calls of every process stay well-formed.            *)
THEOREM LifecycleTyped == LifecycleSpec => []LifecycleTypeOK
<1>1. Inv => LifecycleTypeOK
  BY DEF Inv
<1> QED
  BY <1>1, Invariance, PTL

(* Whatever the processes read before, the state of a generation is the    *)
(* one its last transition leads to (transition() writes both in one       *)
(* transaction), and an ACTIVE one was promoted on prospective evidence.   *)
THEOREM StatesAreOnRecord == LifecycleSpec => []StateIsOnRecord
<1>1. Inv => StateIsOnRecord
  BY DEF Inv
<1> QED
  BY <1>1, Invariance, PTL

(* No generation is in the shadow phase or beyond that was not qualified   *)
(* for it: a check made on a stale state still implies it.                 *)
THEOREM Qualification == LifecycleSpec => []QualifiedOnEvidence
<1>1. Inv => QualifiedOnEvidence
  BY DEF Inv
<1> QED
  BY <1>1, Invariance, PTL

-----------------------------------------------------------------------------
(* The registry implements LifecycleOutline.                               *)
OutlineState == [g \in GenerationIds |-> IF Created(g) THEN generations[g].state ELSE Absent]
OutlineSeen == [g \in GenerationIds |-> Seen(g)]

LEMMA SeenGrows ==
  ASSUME LifecycleTypeOK, NEW t \in Transitions, transitions' = Append(transitions, t), NEW g \in GenerationIds
  PROVE  Seen(g)' = IF g = t.gen THEN Seen(g) \union {t.to} ELSE Seen(g)
<1>1. ASSUME NEW s \in Seen(g) PROVE s \in Seen(g)'
  BY <1>1, HistoryGrows DEF Seen
<1>2. ASSUME g = t.gen PROVE t.to \in Seen(g)'
  <2>1. Len(transitions) + 1 \in 1 .. Len(transitions')
    BY HistoryGrows
  <2> QED
    BY <1>2, <2>1, HistoryGrows DEF Seen
<1>3. ASSUME NEW s \in Seen(g)', s \notin Seen(g) PROVE g = t.gen /\ s = t.to
  <2>1. PICK i \in 1 .. Len(transitions') : transitions'[i].gen = g /\ s = transitions'[i].to
    BY <1>3 DEF Seen
  <2>2. i \notin 1 .. Len(transitions)
    BY <1>3, <2>1, HistoryGrows DEF Seen
  <2> QED
    BY <2>1, <2>2, HistoryGrows
<1> QED
  BY <1>1, <1>2, <1>3

(* A step that gives generation g the state s and appends that to the      *)
(* history is a move of the outline.                                       *)
LEMMA Moves ==
  ASSUME LifecycleTypeOK, NEW t \in Transitions, transitions' = Append(transitions, t), t.gen \in GenerationIds,
         generations'[t.gen] # Absent, generations'[t.gen].state = t.to,
         \A h \in GenerationIds \ {t.gen} : generations'[h] = generations[h]
  PROVE  Outline!Move(t.gen, t.to)
<1>1. OutlineState' = [OutlineState EXCEPT ![t.gen] = t.to]
  BY DEF OutlineState, Created
<1>2. OutlineSeen' = [OutlineSeen EXCEPT ![t.gen] = @ \union {t.to}]
  BY SeenGrows DEF OutlineSeen
<1> QED
  BY <1>1, <1>2 DEF Outline!Move, OutlineState, OutlineSeen

(* Every step of the registry is one of the outline's or changes nothing   *)
(* the outline knows of, and so the registry keeps its promise.            *)
THEOREM Refinement == LifecycleSpec => ImplementsOutline
<1>1. LifecycleInit => Outline!Init
  BY DEF LifecycleInit, Outline!Init, Created, Seen
<1>2. Inv /\ [LifecycleNext]_lifecycleVars => [Outline!Next]_<<OutlineState, OutlineSeen>>
  <2> SUFFICES ASSUME Inv, [LifecycleNext]_lifecycleVars
               PROVE  [Outline!Next]_<<OutlineState, OutlineSeen>>
    OBVIOUS
  <2> USE DEF Inv
  <2>a. CASE UNCHANGED <<generations, transitions>>
    BY <2>a DEF OutlineState, OutlineSeen, Created, Seen
  <2>1. ASSUME NEW g \in GenerationIds, NEW n \in Networks, NEW i \in 1 .. MaxGeneration,
               NEW parent \in GenerationIds \union {Absent}, create_generation(g, n, i, parent)
        PROVE  Outline!Create(g)
    <3>1. NewEntry(g).gen = g /\ NewEntry(g).to = "PLANNED"
      BY DEF NewEntry
    <3>2. PICK t \in Transitions : t = NewEntry(g)
      BY NewEntryTyped
    <3>3. Outline!Move(t.gen, t.to)
      BY <2>1, <3>1, <3>2, CreateEffect, Moves DEF Created
    <3>4. OutlineState[g] = Absent
      BY <2>1, CreateEffect DEF OutlineState
    <3> QED
      BY <3>1, <3>2, <3>3, <3>4 DEF Outline!Create, OutlineState
  <2>2. ASSUME NEW p \in Writers, WriteTransition(p)
        PROVE  \E g \in GenerationIds : Outline!Transition(g)
    <3>1. PICK c \in Transitions : c = entry[p]
      BY <2>2, WriteEffect
    <3>2. Outline!Move(c.gen, c.to)
      BY <2>2, <3>1, WriteEffect, Moves
    <3>3. c.gen \in GenerationIds /\ InHistory(c.gen, c.from) /\ c.to \in ALLOWED_TRANSITIONS[c.from]
      BY <2>2, <3>1, WriteEffect DEF CallsInv
    <3>4. c.from \in OutlineSeen[c.gen]
      BY <3>3 DEF InHistory, OutlineSeen, Seen
    <3>5. c.to \in Outline!ALLOWED_TRANSITIONS[c.from]
      BY <3>3 DEF ALLOWED_TRANSITIONS, Outline!ALLOWED_TRANSITIONS, LIFECYCLE_STATES, Outline!LIFECYCLE_STATES
    <3> QED
      BY <3>2, <3>3, <3>4, <3>5 DEF Outline!Transition, OutlineSeen
  <2>3. ASSUME NEW p \in Writers, NEW g \in GenerationIds, NEW to \in Targets, NEW x \in Grounds,
               BeginTransition(p, g, to, x)
        PROVE  UNCHANGED <<generations, transitions>>
    BY <2>3 DEF BeginTransition
  <2>4. ASSUME NEW p \in Writers, DropTransition(p) PROVE UNCHANGED <<generations, transitions>>
    BY <2>4 DEF DropTransition
  <2>5. CASE UNCHANGED lifecycleVars
    BY <2>5, <2>a DEF lifecycleVars
  <2> QED
    BY <2>a, <2>1, <2>2, <2>3, <2>4, <2>5 DEF LifecycleNext, Outline!Next
<1> QED
  BY <1>1, <1>2, Invariance, PTL DEF LifecycleSpec, ImplementsOutline, Outline!Spec, OutlineState, OutlineSeen

----------------------------------------------------------------------------
(* OutcomeEvaluation.                                                      *)

(* What is about to be inserted, and what was, belongs to a prediction on  *)
(* record, and what is verified has content.                               *)
Grounded(row) ==
  row.prediction \in predicted /\ (row.status = "VERIFIED" => row.outcome # Empty)

OutcomesGrounded ==
  /\ \A p \in Observers : pending[p] # NoRow => Grounded(pending[p])
  /\ \A o \in OutcomeIds : outcomes[o] # NoRow => Grounded(outcomes[o])

(* Of a prediction that was not raced, one process at most is about to     *)
(* verify an outcome, and it agrees with what is verified.                 *)
Agreement ==
  \A x \in Predicted \ raced :
    /\ \A p, q \in Observers : AboutToVerify(p, x) /\ AboutToVerify(q, x) => p = q
    /\ \A p \in Observers, o \in RowsWith(x, "VERIFIED") :
         AboutToVerify(p, x) => outcomes[o].outcome = pending[p].outcome
    /\ \A o1, o2 \in RowsWith(x, "VERIFIED") : outcomes[o1].outcome = outcomes[o2].outcome

OutcomeInv == OutcomeTypeOK /\ OutcomesGrounded /\ Agreement /\ EvaluationRests

(* NoRow is not a row.                                                     *)
LEMMA RowFields ==
  ASSUME NEW r \in Outcomes
  PROVE  /\ r.prediction \in Predicted /\ r.status \in OUTCOME_STATES
         /\ r.outcome \in Contents \union {Empty}
  BY DEF Outcomes

LEMMA PredictStep ==
  ASSUME OutcomeInv, NEW x \in Predicted, Predict(x)
  PROVE  OutcomeInv'
<1>1. predicted' = predicted \union {x} /\ UNCHANGED <<outcomes, evaluations, pending, raced>>
  BY DEF Predict
<1>2. OutcomeTypeOK'
  BY <1>1 DEF OutcomeInv, OutcomeTypeOK
<1>3. OutcomesGrounded' /\ EvaluationRests'
  BY <1>1 DEF OutcomeInv, OutcomesGrounded, Grounded, EvaluationRests
<1>4. Agreement'
  BY <1>1 DEF OutcomeInv, Agreement, AboutToVerify, RowsWith
<1> QED
  BY <1>2, <1>3, <1>4 DEF OutcomeInv

LEMMA ReadStep ==
  ASSUME OutcomeInv, NEW p \in Observers, NEW x \in Predicted, NEW s \in OUTCOME_STATES,
         NEW c \in Contents \union {Empty}, ReadVerified(p, x, s, c)
  PROVE  OutcomeInv'
<1> DEFINE row == [prediction |-> x, status |-> EffectiveStatus(x, s, c), outcome |-> c]
<1>1. /\ pending[p] = NoRow /\ x \in predicted /\ (s = "VERIFIED" => c # Empty)
      /\ pending' = [pending EXCEPT ![p] = row]
      /\ UNCHANGED <<predicted, outcomes, evaluations>>
  BY DEF ReadVerified
<1>2. /\ EffectiveStatus(x, s, c) \in OUTCOME_STATES
      /\ EffectiveStatus(x, s, c) = "VERIFIED" =>
           s = "VERIFIED" /\ \A o \in RowsWith(x, "VERIFIED") : outcomes[o].outcome = c
  BY DEF EffectiveStatus, OUTCOME_STATES
<1>3. row \in Outcomes
  BY <1>2 DEF Outcomes
<1>4. /\ row.prediction = x /\ row.outcome = c /\ row.status = EffectiveStatus(x, s, c)
      /\ Grounded(row)
  BY <1>1, <1>2 DEF Grounded
<1> HIDE DEF row
<1>5. raced \subseteq raced' /\ raced' \subseteq raced \union {x}
  BY DEF ReadVerified
<1>6. OutcomeTypeOK'
  BY <1>1, <1>3, <1>5 DEF OutcomeInv, OutcomeTypeOK
<1>7. OutcomesGrounded'
  BY <1>1, <1>4 DEF OutcomeInv, OutcomeTypeOK, OutcomesGrounded, Grounded
<1>8. EvaluationRests'
  BY <1>1 DEF OutcomeInv, EvaluationRests
<1>9. Agreement'
  <2> SUFFICES ASSUME NEW y \in Predicted, y \notin raced'
               PROVE  /\ \A q, r \in Observers : AboutToVerify(q, y)' /\ AboutToVerify(r, y)' => q = r
                      /\ \A q \in Observers, o \in RowsWith(y, "VERIFIED") :
                           AboutToVerify(q, y)' => outcomes[o].outcome = pending'[q].outcome
                      /\ \A o1, o2 \in RowsWith(y, "VERIFIED") : outcomes[o1].outcome = outcomes[o2].outcome
    BY <1>1 DEF Agreement, RowsWith
  <2>1. y \notin raced
    BY <1>5
  <2>2. \A q \in Observers \ {p} : pending'[q] = pending[q] /\ (AboutToVerify(q, y)' <=> AboutToVerify(q, y))
    BY <1>1 DEF OutcomeInv, OutcomeTypeOK, AboutToVerify
  <2>3. pending'[p] = row
    BY <1>1 DEF OutcomeInv, OutcomeTypeOK
  <2>4. AboutToVerify(p, y)' => y = x /\ EffectiveStatus(x, s, c) = "VERIFIED"
    BY <1>4, <2>3 DEF AboutToVerify
  <2>5. AboutToVerify(p, y)' => \A q \in Observers \ {p} : ~AboutToVerify(q, y)
    <3> SUFFICES ASSUME AboutToVerify(p, y)', NEW q \in Observers \ {p}, AboutToVerify(q, y) PROVE FALSE
      OBVIOUS
    <3>1. y = x
      BY <2>4
    <3>2. \E r \in Observers \ {p} : AboutToVerify(r, x) /\ AboutToVerify(p, x)'
      BY <3>1
    <3>3. x \in raced'
      BY <3>2 DEF ReadVerified
    <3> QED
      BY <3>1, <3>3
  <2>6. \A q, r \in Observers : AboutToVerify(q, y)' /\ AboutToVerify(r, y)' => q = r
    BY <2>1, <2>2, <2>5 DEF OutcomeInv, Agreement
  <2>7. \A o \in RowsWith(y, "VERIFIED") :
          AboutToVerify(p, y)' => outcomes[o].outcome = pending'[p].outcome
    BY <1>2, <1>4, <2>3, <2>4
  <2>8. \A q \in Observers \ {p}, o \in RowsWith(y, "VERIFIED") :
          AboutToVerify(q, y)' => outcomes[o].outcome = pending'[q].outcome
    BY <2>1, <2>2 DEF OutcomeInv, Agreement
  <2>9. \A o1, o2 \in RowsWith(y, "VERIFIED") : outcomes[o1].outcome = outcomes[o2].outcome
    BY <2>1 DEF OutcomeInv, Agreement
  <2> QED
    BY <2>6, <2>7, <2>8, <2>9
<1> QED
  BY <1>6, <1>7, <1>8, <1>9 DEF OutcomeInv

LEMMA InsertStep ==
  ASSUME OutcomeInv, NEW p \in Observers, NEW o \in OutcomeIds, InsertOutcome(p, o)
  PROVE  OutcomeInv'
<1>1. /\ pending[p] # NoRow /\ pending' = [pending EXCEPT ![p] = NoRow]
      /\ outcomes' = IF outcomes[o] = NoRow THEN [outcomes EXCEPT ![o] = pending[p]] ELSE outcomes
      /\ UNCHANGED <<predicted, evaluations, raced>>
  BY DEF InsertOutcome
<1>2. OutcomeTypeOK'
  BY <1>1 DEF OutcomeInv, OutcomeTypeOK
<1>3. \A i \in OutcomeIds : outcomes[i] # NoRow => outcomes'[i] = outcomes[i]
  BY <1>1 DEF OutcomeInv, OutcomeTypeOK
<1>4. \A i \in OutcomeIds : outcomes'[i] # outcomes[i] => i = o /\ outcomes[o] = NoRow /\ outcomes'[i] = pending[p]
  BY <1>1 DEF OutcomeInv, OutcomeTypeOK
<1>5. \A q \in Observers : pending'[q] # NoRow => q # p /\ pending'[q] = pending[q]
  BY <1>1 DEF OutcomeInv, OutcomeTypeOK
<1>6. OutcomesGrounded'
  BY <1>1, <1>4, <1>5 DEF OutcomeInv, OutcomesGrounded, Grounded
<1>7. EvaluationRests'
  BY <1>1, <1>3 DEF OutcomeInv, OutcomeTypeOK, EvaluationRests
<1>8. Agreement'
  <2> SUFFICES ASSUME NEW y \in Predicted, y \notin raced
               PROVE  /\ \A q, r \in Observers : AboutToVerify(q, y)' /\ AboutToVerify(r, y)' => q = r
                      /\ \A q \in Observers, i \in RowsWith(y, "VERIFIED")' :
                           AboutToVerify(q, y)' => outcomes'[i].outcome = pending'[q].outcome
                      /\ \A o1, o2 \in RowsWith(y, "VERIFIED")' : outcomes'[o1].outcome = outcomes'[o2].outcome
    BY <1>1 DEF Agreement
  <2>1. \A q \in Observers : AboutToVerify(q, y)' => q # p /\ AboutToVerify(q, y) /\ pending'[q] = pending[q]
    BY <1>5 DEF AboutToVerify
  <2>2. \A i \in RowsWith(y, "VERIFIED")' :
          \/ i \in RowsWith(y, "VERIFIED") /\ outcomes'[i] = outcomes[i]
          \/ AboutToVerify(p, y) /\ outcomes'[i] = pending[p]
    BY <1>1, <1>4 DEF RowsWith, AboutToVerify
  <2>3. /\ \A q, r \in Observers : AboutToVerify(q, y) /\ AboutToVerify(r, y) => q = r
        /\ \A q \in Observers, i \in RowsWith(y, "VERIFIED") :
             AboutToVerify(q, y) => outcomes[i].outcome = pending[q].outcome
        /\ \A o1, o2 \in RowsWith(y, "VERIFIED") : outcomes[o1].outcome = outcomes[o2].outcome
    BY DEF OutcomeInv, Agreement
  <2> QED
    BY <2>1, <2>2, <2>3
<1> QED
  BY <1>2, <1>6, <1>7, <1>8 DEF OutcomeInv

LEMMA AbandonStep ==
  ASSUME OutcomeInv, NEW p \in Observers, Abandon(p)
  PROVE  OutcomeInv'
<1>1. /\ pending' = [pending EXCEPT ![p] = NoRow]
      /\ UNCHANGED <<predicted, outcomes, evaluations, raced>>
  BY DEF Abandon
<1>2. \A q \in Observers : pending'[q] # NoRow => pending'[q] = pending[q]
  BY <1>1 DEF OutcomeInv, OutcomeTypeOK
<1>3. OutcomeTypeOK'
  BY <1>1 DEF OutcomeInv, OutcomeTypeOK
<1>4. OutcomesGrounded' /\ EvaluationRests'
  BY <1>1, <1>2 DEF OutcomeInv, OutcomesGrounded, Grounded, EvaluationRests
<1>5. \A q \in Observers, y \in Predicted : AboutToVerify(q, y)' => AboutToVerify(q, y)
  BY <1>2 DEF AboutToVerify
<1>6. Agreement'
  BY <1>1, <1>2, <1>5 DEF OutcomeInv, Agreement, RowsWith, AboutToVerify
<1> QED
  BY <1>3, <1>4, <1>6 DEF OutcomeInv

LEMMA EvaluateStep ==
  ASSUME OutcomeInv, NEW e \in EvaluationIds, NEW o \in OutcomeIds, evaluate(e, o)
  PROVE  OutcomeInv'
<1>1. /\ outcomes[o] # NoRow /\ outcomes[o].status = "VERIFIED"
      /\ evaluations' = [evaluations EXCEPT ![e] = o]
      /\ UNCHANGED <<predicted, outcomes, pending, raced>>
  BY DEF evaluate
<1>2. OutcomeTypeOK'
  BY <1>1 DEF OutcomeInv, OutcomeTypeOK
<1>3. OutcomesGrounded' /\ Agreement'
  BY <1>1 DEF OutcomeInv, OutcomesGrounded, Grounded, Agreement, RowsWith, AboutToVerify
<1>4. EvaluationRests'
  BY <1>1 DEF OutcomeInv, OutcomeTypeOK, OutcomesGrounded, Grounded, EvaluationRests
<1> QED
  BY <1>2, <1>3, <1>4 DEF OutcomeInv

LEMMA OutcomeInvHolds == OutcomeSpec => []OutcomeInv
<1>1. OutcomeInit => OutcomeInv
  BY DEF OutcomeInit, OutcomeInv, OutcomeTypeOK, OutcomesGrounded, Agreement, AboutToVerify, RowsWith,
     EvaluationRests
<1>2. OutcomeInv /\ UNCHANGED outcomeVars => OutcomeInv'
  BY DEF outcomeVars, OutcomeInv, OutcomeTypeOK, OutcomesGrounded, Grounded, Agreement, AboutToVerify,
     RowsWith, EvaluationRests
<1>3. OutcomeInv /\ [OutcomeNext]_outcomeVars => OutcomeInv'
  BY <1>2, PredictStep, ReadStep, InsertStep, AbandonStep, EvaluateStep DEF OutcomeNext
<1> QED
  BY <1>1, <1>3, PTL DEF OutcomeSpec

(* Every variable of the outcome registry keeps its type.                  *)
THEOREM OutcomesTyped == OutcomeSpec => []OutcomeTypeOK
<1>1. OutcomeInv => OutcomeTypeOK
  BY DEF OutcomeInv
<1> QED
  BY <1>1, OutcomeInvHolds, PTL

(* Evaluations rest on verified outcomes of predictions on record.         *)
THEOREM EvaluationsRest == OutcomeSpec => []EvaluationRests
<1>1. OutcomeInv => EvaluationRests
  BY DEF OutcomeInv
<1> QED
  BY <1>1, OutcomeInvHolds, PTL

(* Verified outcomes of one prediction agree unless two processes raced.   *)
THEOREM OneContentVerified == OutcomeSpec => []OneVerifiedContent
<1>1. OutcomeInv => OneVerifiedContent
  BY DEF OutcomeInv, Agreement, OneVerifiedContent
<1> QED
  BY <1>1, OutcomeInvHolds, PTL
=============================================================================
