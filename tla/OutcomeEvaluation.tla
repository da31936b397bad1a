------------------------- MODULE OutcomeEvaluation -------------------------
(* The outcome and evaluation registry (ssi_v5/outcomes/registry.py): two  *)
(* append-only tables beside the predictions, which never change.  Each    *)
(* process has a connection of its own.  register_outcome reads what is    *)
(* VERIFIED already (ReadVerified) and inserts its row, with the status    *)
(* that follows, in another transaction (InsertOutcome).                   *)
EXTENDS FiniteSets, Integers

CONSTANTS
  Predicted,     \* prediction ids
  OutcomeIds,    \* outcome ids: callers may name one that exists
  EvaluationIds, \* evaluation ids, likewise
  Contents,      \* what may be observed
  Observers,     \* processes
  Empty,         \* no observation
  NoRow          \* no row

ASSUME OutcomeAssumption ==
  Empty \notin Contents /\ NoRow \notin OutcomeIds

OUTCOME_STATES == {"UNKNOWN", "WAITING_RESULT", "VERIFIED", "CONFLICT", "QUARANTINED"}

Outcomes ==
  [prediction : Predicted, status : OUTCOME_STATES, outcome : Contents \union {Empty}]

VARIABLES
  predicted,    \* the predictions registered so far (PredictionChain)
  outcomes,     \* table outcomes, or NoRow
  evaluations,  \* table evaluations: the outcome evaluated, or NoRow
  pending,      \* the outcome each process is about to insert, or NoRow
  raced         \* history: predictions for which two processes at once were
                \* about to insert an outcome as VERIFIED

outcomeVars == <<predicted, outcomes, evaluations, pending, raced>>

OutcomeInit ==
  /\ predicted = {}
  /\ outcomes = [o \in OutcomeIds |-> NoRow]
  /\ evaluations = [e \in EvaluationIds |-> NoRow]
  /\ pending = [p \in Observers |-> NoRow]
  /\ raced = {}

Predict(x) ==
  /\ predicted' = predicted \union {x}
  /\ UNCHANGED <<outcomes, evaluations, pending, raced>>

RowsWith(x, status) ==
  {o \in OutcomeIds : outcomes[o] # NoRow /\ outcomes[o].prediction = x /\ outcomes[o].status = status}

(* Mutant: only the same content is a conflict.                            *)
Mut_EffectiveStatus(x, status, c) ==
  IF status = "VERIFIED" /\ \E o \in RowsWith(x, "VERIFIED") : outcomes[o].outcome = c
  THEN "CONFLICT" ELSE status

(* A verified outcome other than one that is verified already.             *)
EffectiveStatus(x, status, c) ==
  IF status = "VERIFIED" /\ \E o \in RowsWith(x, "VERIFIED") : outcomes[o].outcome # c
  THEN "CONFLICT" ELSE status

AboutToVerify(p, x) ==
  /\ pending[p] # NoRow
  /\ pending[p].prediction = x /\ pending[p].status = "VERIFIED"

ReadVerified(p, x, status, c) ==
  /\ pending[p] = NoRow /\ x \in predicted
  /\ status = "VERIFIED" => c # Empty
  /\ pending' = [pending EXCEPT ![p] =
       [prediction |-> x, status |-> EffectiveStatus(x, status, c), outcome |-> c]]
  /\ raced' = raced \union
       (IF \E q \in Observers \ {p} : AboutToVerify(q, x) /\ AboutToVerify(p, x)'
        THEN {x} ELSE {})
  /\ UNCHANGED <<predicted, outcomes, evaluations>>

(* The content hash is unique as its payload has the id.                   *)
InsertOutcome(p, o) ==
  /\ pending[p] # NoRow
  /\ outcomes' = IF outcomes[o] = NoRow THEN [outcomes EXCEPT ![o] = pending[p]] ELSE outcomes
  /\ pending' = [pending EXCEPT ![p] = NoRow]
  /\ UNCHANGED <<predicted, evaluations, raced>>

(* The process dies before the insert.                                     *)
Abandon(p) ==
  /\ pending[p] # NoRow
  /\ pending' = [pending EXCEPT ![p] = NoRow]
  /\ UNCHANGED <<predicted, outcomes, evaluations, raced>>

(* An outcome, once inserted, never changes: reading it in a transaction   *)
(* of its own makes no difference.                                         *)
evaluate(e, o) ==
  /\ outcomes[o] # NoRow /\ outcomes[o].status = "VERIFIED"
  /\ evaluations[e] = NoRow
  /\ evaluations' = [evaluations EXCEPT ![e] = o]
  /\ UNCHANGED <<predicted, outcomes, pending, raced>>

OutcomeNext ==
  \/ \E x \in Predicted : Predict(x)
  \/ \E p \in Observers :
       \/ \E x \in Predicted : \E s \in OUTCOME_STATES : \E c \in Contents \union {Empty} :
            ReadVerified(p, x, s, c)
       \/ \E o \in OutcomeIds : InsertOutcome(p, o)
       \/ Abandon(p)
  \/ \E e \in EvaluationIds : \E o \in OutcomeIds : evaluate(e, o)

OutcomeSpec == OutcomeInit /\ [][OutcomeNext]_outcomeVars

-----------------------------------------------------------------------------
OutcomeTypeOK ==
  /\ predicted \subseteq Predicted
  /\ outcomes \in [OutcomeIds -> Outcomes \union {NoRow}]
  /\ evaluations \in [EvaluationIds -> OutcomeIds \union {NoRow}]
  /\ raced \subseteq Predicted
  /\ pending \in [Observers -> Outcomes \union {NoRow}]

(* An evaluation rests on an outcome that is VERIFIED, has content and     *)
(* belongs to a registered prediction, now and for good.                   *)
EvaluationRests ==
  \A e \in EvaluationIds : evaluations[e] # NoRow =>
    LET row == outcomes[evaluations[e]] IN
    row # NoRow /\ row.status = "VERIFIED" /\ row.outcome # Empty /\ row.prediction \in predicted

(* "Conflicting verified evidence is preserved: the later conflicting      *)
(* record is stored as CONFLICT instead of replacing history."  Verified   *)
(* outcomes of a prediction agree, unless two processes at once had read   *)
(* that there was none.                                                    *)
OneVerifiedContent ==
  \A x \in Predicted \ raced : \A o1, o2 \in RowsWith(x, "VERIFIED") :
    outcomes[o1].outcome = outcomes[o2].outcome
=============================================================================
