------------------------- MODULE LifecycleOutline --------------------------
(* What the lifecycle registry promises of a generation's state, however   *)
(* many processes write to it: a step goes where ALLOWED_TRANSITIONS leads *)
(* from SOME state the generation has been in.  It need not be the one the *)
(* generation is in, because transition() reads the state in one           *)
(* transaction and writes the next one in another.                         *)
EXTENDS LifecycleStates

CONSTANTS
  Gens,   \* generation ids
  NoState \* not created

ASSUME NoStateAssumption == NoState \notin LIFECYCLE_STATES

VARIABLES
  state,  \* the state of each generation
  seen    \* history: the states it has been in

Init ==
  /\ state = [g \in Gens |-> NoState]
  /\ seen = [g \in Gens |-> {}]

Move(g, s) ==
  /\ state' = [state EXCEPT ![g] = s]
  /\ seen' = [seen EXCEPT ![g] = @ \union {s}]

Create(g) == state[g] = NoState /\ Move(g, "PLANNED")

Transition(g) == \E r \in seen[g] : \E s \in ALLOWED_TRANSITIONS[r] : Move(g, s)

Next == \E g \in Gens : Create(g) \/ Transition(g)

Spec == Init /\ [][Next]_<<state, seen>>

(* No generation skips its schooling: whoever is or was in the shadow      *)
(* phase or beyond went through training, evaluation and the shadow phase. *)
Schooled ==
  \A g \in Gens : seen[g] \intersect Qualified # {} => Schooling \union {"SHADOW"} \subseteq seen[g]
=============================================================================
