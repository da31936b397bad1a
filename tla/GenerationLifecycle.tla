------------------------ MODULE GenerationLifecycle ------------------------
(* The generation lifecycle registry (ssi_v5/lifecycle/                    *)
(* generation_registry.py): a table of generations and an append-only      *)
(* table of transitions in one SQLite file.  Each process has a connection *)
(* of its own.  transition() reads the generation and checks the request   *)
(* (BeginTransition), then updates the row, without another look at its    *)
(* state, and appends to the history in one transaction (WriteTransition). *)
(* Governance references, reasons and hashes are left out.                 *)
EXTENDS LifecycleStates, Integers, Sequences

CONSTANTS
  GenerationIds,           \* generation ids
  Networks,       \* network ids
  MaxGeneration,  \* bound: generation numbers
  MaxTransitions, \* bound: length of the history
  Writers,          \* connections
  Targets,        \* the states callers ask for
  Grounds,        \* what callers put forward for a transition
  Absent

Planned == [authority_type |-> "WORLD_POLICY", evidence_kind |-> "GOVERNANCE", evidence_ref |-> TRUE]

Generations ==
  [network_id : Networks, generation : 1 .. MaxGeneration, parent : GenerationIds \union {Absent},
   state : LIFECYCLE_STATES]
Transitions ==
  [gen : GenerationIds, from : LIFECYCLE_STATES \union {Absent}, to : LIFECYCLE_STATES,
   grounds : Grounds \union {Planned}]

ASSUME LifecycleAssumption ==
  /\ MaxGeneration \in Nat /\ MaxTransitions \in Nat
  /\ Targets \subseteq LIFECYCLE_STATES
  /\ Grounds \subseteq [authority_type : STRING, evidence_kind : STRING, evidence_ref : BOOLEAN]
  /\ Absent \notin LIFECYCLE_STATES \union GenerationIds \union Generations \union Transitions

VARIABLES
  generations,  \* table generations, or Absent
  transitions,  \* table generation_transitions
  entry         \* the transition() that each process is in, or Absent

lifecycleVars == <<generations, transitions, entry>>

LifecycleInit ==
  /\ generations = [g \in GenerationIds |-> Absent]
  /\ transitions = <<>>
  /\ entry = [p \in Writers |-> Absent]

Created(g) == generations[g] # Absent

(* UNIQUE(network_id, generation).                                         *)
Unique(n, i) == \A h \in GenerationIds :
  Created(h) => generations[h].network_id # n \/ generations[h].generation # i

(* A parent never changes its network or number: reading it in a           *)
(* transaction of its own makes no difference.  The other answers of       *)
(* create_generation are errors that write nothing.                        *)
create_generation(g, n, i, parent) ==
  /\ ~Created(g) /\ Len(transitions) < MaxTransitions
  /\ parent # Absent =>
       Created(parent) /\ generations[parent].network_id = n /\ generations[parent].generation < i
  /\ Unique(n, i)
  /\ generations' = [generations EXCEPT ![g] =
       [network_id |-> n, generation |-> i, parent |-> parent, state |-> "PLANNED"]]
  /\ transitions' = Append(transitions,
       [gen |-> g, from |-> Absent, to |-> "PLANNED", grounds |-> Planned])
  /\ UNCHANGED entry

(* Mutant: any authority may promote to ACTIVE.                            *)
Mut_Promotion(from, to, x) ==
  /\ to = "SHADOW" /\ from = "HISTORICALLY_EVALUATED" =>
       x.evidence_kind = "HISTORICAL" /\ x.evidence_ref
  /\ to = "ACTIVE" => x.evidence_kind = "PROSPECTIVE" /\ x.evidence_ref

(* What qualification and promotion must be based on.                      *)
Justified(from, to, x) ==
  /\ to = "SHADOW" /\ from = "HISTORICALLY_EVALUATED" =>
       x.evidence_kind = "HISTORICAL" /\ x.evidence_ref
  /\ to = "ACTIVE" =>
       x.authority_type \in PROMOTION_AUTHORITIES /\ x.evidence_kind = "PROSPECTIVE" /\ x.evidence_ref

(* Mutant: ALLOWED_TRANSITIONS is not looked at.                           *)
Mut_BeginTransition(p, g, to, x) ==
  /\ entry[p] = Absent /\ Created(g)
  /\ Justified(generations[g].state, to, x)
  /\ entry' = [entry EXCEPT ![p] =
       [gen |-> g, from |-> generations[g].state, to |-> to, grounds |-> x]]
  /\ UNCHANGED <<generations, transitions>>

BeginTransition(p, g, to, x) ==
  /\ entry[p] = Absent /\ Created(g)
  /\ to \in ALLOWED_TRANSITIONS[generations[g].state]
  /\ Justified(generations[g].state, to, x)
  /\ entry' = [entry EXCEPT ![p] =
       [gen |-> g, from |-> generations[g].state, to |-> to, grounds |-> x]]
  /\ UNCHANGED <<generations, transitions>>

WriteTransition(p) ==
  /\ entry[p] # Absent /\ Len(transitions) < MaxTransitions
  /\ generations' = [generations EXCEPT ![entry[p].gen].state = entry[p].to]
  /\ transitions' = Append(transitions, entry[p])
  /\ entry' = [entry EXCEPT ![p] = Absent]

(* The process dies, or the database stays locked: nothing is written.     *)
DropTransition(p) ==
  /\ entry[p] # Absent
  /\ entry' = [entry EXCEPT ![p] = Absent]
  /\ UNCHANGED <<generations, transitions>>

LifecycleNext ==
  \/ \E g \in GenerationIds : \E n \in Networks : \E i \in 1 .. MaxGeneration :
       \E parent \in GenerationIds \union {Absent} : create_generation(g, n, i, parent)
  \/ \E p \in Writers :
       \/ \E g \in GenerationIds : \E to \in Targets : \E x \in Grounds : BeginTransition(p, g, to, x)
       \/ WriteTransition(p)
       \/ DropTransition(p)

LifecycleSpec == LifecycleInit /\ [][LifecycleNext]_lifecycleVars

-----------------------------------------------------------------------------
LifecycleTypeOK ==
  /\ generations \in [GenerationIds -> Generations \union {Absent}]
  /\ transitions \in Seq(Transitions)
  /\ entry \in [Writers -> Transitions \union {Absent}]

(* Entry j is the last of generation g among the first k.                  *)
Latest(j, g, k) ==
  /\ j \in 1 .. k /\ transitions[j].gen = g
  /\ \A m \in j + 1 .. k : transitions[m].gen # g

(* Whatever the processes read before: a generation's state is the one its *)
(* last transition leads to, and if it is ACTIVE then a recognized         *)
(* authority put it there on prospective evidence.                         *)
StateIsOnRecord ==
  \A g \in GenerationIds : Created(g) =>
    \E j \in 1 .. Len(transitions) :
      /\ Latest(j, g, Len(transitions)) /\ transitions[j].to = generations[g].state
      /\ generations[g].state = "ACTIVE" =>
           /\ transitions[j].grounds.authority_type \in PROMOTION_AUTHORITIES
           /\ transitions[j].grounds.evidence_kind = "PROSPECTIVE"
           /\ transitions[j].grounds.evidence_ref

(* A generation that is or was in the shadow phase or beyond was qualified *)
(* for it on historical evidence before, though others wrote in between.   *)
QualifiedOnEvidence ==
  \A i \in 1 .. Len(transitions) : transitions[i].to \in Qualified =>
    \E j \in 1 .. i :
      /\ transitions[j].gen = transitions[i].gen
      /\ transitions[j].from = "HISTORICALLY_EVALUATED" /\ transitions[j].to = "SHADOW"
      /\ transitions[j].grounds.evidence_kind = "HISTORICAL" /\ transitions[j].grounds.evidence_ref

(* test_terminal_quarantine_cannot_return: a quarantined generation is     *)
(* never taken out of quarantine but to be retired.                        *)
QuarantineStands ==
  [][\A g \in GenerationIds : Created(g) /\ generations[g].state = "QUARANTINED" =>
       generations'[g].state \in {"QUARANTINED", "RETIRED"}]_lifecycleVars

(* The registry keeps LifecycleOutline's promise, where the states seen    *)
(* are those in the history.                                               *)
Seen(g) == {transitions[i].to : i \in {k \in 1 .. Len(transitions) : transitions[k].gen = g}}

Outline == INSTANCE LifecycleOutline WITH
  Gens <- GenerationIds, NoState <- Absent,
  state <- [g \in GenerationIds |-> IF Created(g) THEN generations[g].state ELSE Absent],
  seen <- [g \in GenerationIds |-> Seen(g)]

ImplementsOutline == Outline!Spec
=============================================================================
