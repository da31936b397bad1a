----------------------- MODULE PredictionChain_proofs -----------------------
(* Proofs about LifecycleOutline and PredictionChain, for any number of    *)
(* generations, artifacts, predictions, processes and faults.              *)
EXTENDS PredictionChain, TLAPS

-----------------------------------------------------------------------------
(* The lifecycle.                                                          *)

(* Where a step may have come from.                                        *)
LEMMA AllowedFrom ==
  ASSUME NEW r \in LIFECYCLE_STATES, NEW s \in ALLOWED_TRANSITIONS[r]
  PROVE  /\ s \in LIFECYCLE_STATES
         /\ s = "QUEUED" => r = "PLANNED"
         /\ s = "TRAINING" => r = "QUEUED"
         /\ s = "HISTORICALLY_EVALUATED" => r = "TRAINING"
         /\ s = "SHADOW" => r \in {"HISTORICALLY_EVALUATED", "SUSPENDED"}
         /\ s \in {"ACTIVE", "DEGRADED", "SUSPENDED"} => r \in Qualified
<1>1. CASE r \in {"PLANNED", "QUEUED", "TRAINING", "HISTORICALLY_EVALUATED"}
  BY <1>1 DEF LIFECYCLE_STATES, ALLOWED_TRANSITIONS, Qualified
<1>2. CASE r \in Qualified
  BY <1>2 DEF LIFECYCLE_STATES, ALLOWED_TRANSITIONS, Qualified
<1>3. CASE r \in {"RETIRED", "FAILED", "QUARANTINED"}
  BY <1>3 DEF LIFECYCLE_STATES, ALLOWED_TRANSITIONS
<1> QED
  BY <1>1, <1>2, <1>3 DEF LIFECYCLE_STATES, Qualified

LifecycleTypeInv ==
  /\ state \in [Gens -> LIFECYCLE_STATES \union {NoState}]
  /\ seen \in [Gens -> SUBSET LIFECYCLE_STATES]

(* A set of states that is closed under what must come before.             *)
InOrder(S) ==
  /\ "QUEUED" \in S => "PLANNED" \in S
  /\ "TRAINING" \in S => "QUEUED" \in S
  /\ "HISTORICALLY_EVALUATED" \in S => "TRAINING" \in S
  /\ S \intersect Qualified # {} => {"HISTORICALLY_EVALUATED", "SHADOW"} \subseteq S

LifecycleInv ==
  /\ LifecycleTypeInv
  /\ \A g \in Gens : InOrder(seen[g])
  /\ \A g \in Gens : state[g] # NoState => state[g] \in seen[g]

LEMMA LifecycleInit == Init => LifecycleInv
  BY DEF Init, LifecycleInv, LifecycleTypeInv, InOrder

LEMMA InOrderSchooled ==
  ASSUME NEW S, InOrder(S), S \intersect Qualified # {}
  PROVE  Schooling \union {"SHADOW"} \subseteq S
  BY DEF InOrder, Schooling

LEMMA LifecycleStep ==
  ASSUME LifecycleInv, [Next]_lifecycle
  PROVE  LifecycleInv'
<1>1. ASSUME NEW g \in Gens, NEW s \in LIFECYCLE_STATES, Move(g, s), InOrder(seen[g] \union {s})
      PROVE  LifecycleInv'
  BY <1>1 DEF LifecycleInv, LifecycleTypeInv, Move
<1>2. ASSUME NEW g \in Gens, Create(g)
      PROVE  LifecycleInv'
  <2>1. InOrder(seen[g] \union {"PLANNED"})
    BY <1>2 DEF LifecycleInv, InOrder, Qualified
  <2> QED
    BY <1>1, <1>2, <2>1 DEF Create, LIFECYCLE_STATES
<1>3. ASSUME NEW g \in Gens, Transition(g)
      PROVE  LifecycleInv'
  <2> PICK r \in seen[g] : \E s \in ALLOWED_TRANSITIONS[r] : Move(g, s)
    BY <1>3 DEF Transition
  <2> PICK s \in ALLOWED_TRANSITIONS[r] : Move(g, s)
    OBVIOUS
  <2>1. r \in LIFECYCLE_STATES
    BY DEF LifecycleInv, LifecycleTypeInv
  <2>2. s \in LIFECYCLE_STATES
    BY <2>1, AllowedFrom
  <2>3. InOrder(seen[g] \union {s})
    BY <2>1, AllowedFrom DEF LifecycleInv, InOrder, Qualified
  <2> QED
    BY <1>1, <2>2, <2>3
<1>4. CASE UNCHANGED lifecycle
  BY <1>4 DEF LifecycleInv, LifecycleTypeInv, lifecycle
<1> QED
  BY <1>2, <1>3, <1>4 DEF Next, lifecycle

(* No generation skips its schooling, whatever stale states transitions    *)
(* start from.                                                             *)
THEOREM OutlineSchooled == Spec => []Schooled
<1>1. LifecycleInv /\ [Next]_<<state, seen>> => LifecycleInv'
  BY LifecycleStep DEF lifecycle
<1>2. LifecycleInv => Schooled
  BY InOrderSchooled DEF LifecycleInv, Schooled
<1> QED
  BY LifecycleInit, <1>1, <1>2, PTL DEF Spec

-----------------------------------------------------------------------------
(* The registration of artifacts and predictions.                          *)
Registering(p) == ~Idle(p) /\ call[p].step \in {"place", "insert_artifact"}
Predicting(p) == ~Idle(p) /\ call[p].step \in {"read_generation", "insert_prediction"}

LEMMA CallTyped ==
  ASSUME TypeOK, NEW p \in Procs
  PROVE  /\ ~Idle(p) => Registering(p) \/ Predicting(p)
         /\ Registering(p) =>
              call[p] \in [step : {"place", "insert_artifact"}, gen : Gens, artifact : Artifacts]
         /\ Predicting(p) =>
              call[p] \in [step : {"read_generation", "insert_prediction"}, artifact : Artifacts]
<1>1. call[p] \in Calls \union {None}
  BY DEF TypeOK
<1> QED
  BY <1>1 DEF Calls, Registering, Predicting, Idle

(* What the steps of a call do to it.                                      *)
LEMMA GotoStep ==
  ASSUME TypeOK, NEW p \in Procs, NEW c \in Calls \union {None}, Goto(p, c)
  PROVE  /\ call' \in [Procs -> Calls \union {None}]
         /\ call'[p] = c
         /\ \A q \in Procs \ {p} : call'[q] = call[q]
  BY DEF TypeOK, Goto

LEMMA LifecycleOfStep ==
  ASSUME ChainNext
  PROVE  [Next]_lifecycle
  BY DEF ChainNext, MoveGeneration, Damage, LoadGeneration, Place, InsertArtifact, VerifyArtifact,
         ReadGeneration, InsertPrediction, Crash

LEMMA SeenGrows ==
  ASSUME LifecycleInv, [Next]_lifecycle, NEW g \in Gens
  PROVE  seen[g] \subseteq seen'[g]
  BY DEF Next, Create, Transition, Move, lifecycle, LifecycleInv, LifecycleTypeInv

LEMMA TypeInit == ChainInit => TypeOK
  BY ChainAssumption DEF ChainInit, Init, TypeOK

LEMMA TypeStep ==
  ASSUME TypeOK, LifecycleInv, [ChainNext]_vars
  PROVE  TypeOK'
<1>0. LifecycleTypeInv'
  BY LifecycleStep, LifecycleOfStep DEF vars, lifecycle, LifecycleInv
<1>1. CASE MoveGeneration
  BY <1>0, <1>1 DEF MoveGeneration, TypeOK, LifecycleTypeInv
<1>2. ASSUME NEW g \in Gens, Damage(g) PROVE TypeOK'
  <2>1. material' \in [Gens -> Artifacts \union {"altered", None}]
    BY <1>2 DEF Damage, TypeOK
  <2>2. faults' \in 0 .. MaxFaults
    BY <1>2, ChainAssumption DEF Damage, TypeOK
  <2> QED
    BY <1>2, <2>1, <2>2 DEF Damage, TypeOK, lifecycle
<1>3. ASSUME NEW p \in Procs, NEW g \in Gens, NEW a \in Artifacts, LoadGeneration(p, g, a)
      PROVE  TypeOK'
  <2>1. call' \in [Procs -> Calls \union {None}]
    BY <1>3, GotoStep DEF LoadGeneration, Calls
  <2> QED
    BY <1>3, <2>1 DEF LoadGeneration, TypeOK, lifecycle
<1>4. ASSUME NEW p \in Procs, Place(p) PROVE TypeOK'
  <2>1. call[p] \in [step : {"place", "insert_artifact"}, gen : Gens, artifact : Artifacts]
    BY <1>4, CallTyped DEF Place, Registering
  <2>2. [step |-> "insert_artifact", gen |-> call[p].gen, artifact |-> call[p].artifact] \in Calls
    BY <2>1 DEF Calls
  <2>3. call' \in [Procs -> Calls \union {None}]
    BY <1>4, <2>2, GotoStep DEF Place
  <2>4. material' \in [Gens -> Artifacts \union {"altered", None}]
    BY <1>4, <2>1 DEF Place, TypeOK
  <2> QED
    BY <1>4, <2>3, <2>4 DEF Place, TypeOK, lifecycle
<1>5. ASSUME NEW p \in Procs, InsertArtifact(p) PROVE TypeOK'
  <2>1. call[p] \in [step : {"place", "insert_artifact"}, gen : Gens, artifact : Artifacts]
    BY <1>5, CallTyped DEF InsertArtifact, Registering
  <2>2. call' \in [Procs -> Calls \union {None}]
    BY <1>5, GotoStep DEF InsertArtifact
  <2>3. /\ material' \in [Gens -> Artifacts \union {"altered", None}]
        /\ artifacts' \in [Artifacts -> Gens \union {None}]
    BY <1>5, <2>1 DEF InsertArtifact, TypeOK
  <2> QED
    BY <1>5, <2>2, <2>3 DEF InsertArtifact, TypeOK, lifecycle
<1>6. ASSUME NEW p \in Procs, NEW a \in Artifacts, VerifyArtifact(p, a) PROVE TypeOK'
  <2>1. call' \in [Procs -> Calls \union {None}]
    BY <1>6, GotoStep DEF VerifyArtifact, Calls
  <2> QED
    BY <1>6, <2>1 DEF VerifyArtifact, TypeOK, lifecycle
<1>7. ASSUME NEW p \in Procs, ReadGeneration(p) PROVE TypeOK'
  <2>1. call[p] \in [step : {"read_generation", "insert_prediction"}, artifact : Artifacts]
    BY <1>7, CallTyped DEF ReadGeneration, Predicting
  <2>2. [step |-> "insert_prediction", artifact |-> call[p].artifact] \in Calls
    BY <2>1 DEF Calls
  <2>3. call' \in [Procs -> Calls \union {None}]
    BY <1>7, <2>2, GotoStep DEF ReadGeneration
  <2> QED
    BY <1>7, <2>3 DEF ReadGeneration, TypeOK, lifecycle
<1>8. ASSUME NEW p \in Procs, NEW x \in Predictions, InsertPrediction(p, x) PROVE TypeOK'
  <2>1. call[p] \in [step : {"read_generation", "insert_prediction"}, artifact : Artifacts]
    BY <1>8, CallTyped DEF InsertPrediction, Predicting
  <2>2. call' \in [Procs -> Calls \union {None}]
    BY <1>8, GotoStep DEF InsertPrediction
  <2>3. predictions' \in [Predictions -> Artifacts \union {None}]
    BY <1>8, <2>1 DEF InsertPrediction, TypeOK
  <2> QED
    BY <1>8, <2>2, <2>3 DEF InsertPrediction, TypeOK, lifecycle
<1>9. ASSUME NEW p \in Procs, Crash(p) PROVE TypeOK'
  <2>1. call' \in [Procs -> Calls \union {None}]
    BY <1>9, GotoStep DEF Crash
  <2>2. cut' \subseteq Artifacts
    BY <1>9, CallTyped DEF Crash, TypeOK, Registering, Idle
  <2> QED
    BY <1>9, <2>1, <2>2 DEF Crash, TypeOK, lifecycle
<1>10. CASE UNCHANGED vars
  BY <1>10 DEF vars, lifecycle, TypeOK
<1> QED
  BY <1>1, <1>2, <1>3, <1>4, <1>5, <1>6, <1>7, <1>8, <1>9, <1>10 DEF ChainNext

-----------------------------------------------------------------------------
(* What each action does, in terms of the calls.  Every other process is   *)
(* where it was.                                                           *)
Others(p) == \A q \in Procs \ {p} : call'[q] = call[q]

(* No registration or prediction begins.                                   *)
SameRegistrations ==
  \A q \in Procs : Registering(q)' =>
    Registering(q) /\ call'[q].artifact = call[q].artifact /\ call'[q].gen = call[q].gen
SamePredictions ==
  \A q \in Procs : Predicting(q)' => Predicting(q) /\ call'[q].artifact = call[q].artifact

LEMMA EndedCall ==
  ASSUME NEW p \in Procs, Others(p), call'[p] = None
  PROVE  SameRegistrations /\ SamePredictions
  BY DEF Others, SameRegistrations, SamePredictions, Registering, Predicting, Idle

LEMMA OtherRegistrations ==
  ASSUME NEW p \in Procs, Others(p), NEW q \in Procs \ {p}
  PROVE  /\ Registering(q)' = Registering(q) /\ Predicting(q)' = Predicting(q)
         /\ call'[q] = call[q]
  BY DEF Others, Registering, Predicting, Idle

LEMMA ContinuedRegistration ==
  ASSUME NEW p \in Procs, Others(p), Registering(p),
         call'[p].artifact = call[p].artifact, call'[p].gen = call[p].gen
  PROVE  SameRegistrations
  BY OtherRegistrations DEF SameRegistrations

LEMMA PredictionStep ==
  ASSUME NEW p \in Procs, Others(p),
         call'[p].step \in {"read_generation", "insert_prediction"}
  PROVE  SameRegistrations
<1>1. ~Registering(p)'
  BY DEF Registering
<1> QED
  BY <1>1, OtherRegistrations DEF SameRegistrations

LEMMA LoadGenerationEffect ==
  ASSUME TypeOK, NEW p \in Procs, NEW g \in Gens, NEW a \in Artifacts, LoadGeneration(p, g, a)
  PROVE  /\ Others(p) /\ a \notin issued /\ issued' = issued \union {a}
         /\ call'[p] = [step |-> "place", gen |-> g, artifact |-> a]
         /\ UNCHANGED <<material, artifacts, predictions, cut, faults>>
         /\ state[g] \in LIFECYCLE_STATES \ FORBIDDEN_GENERATION_STATES
  BY GotoStep DEF LoadGeneration, Others, Calls, TypeOK

LEMMA PlaceEffect ==
  ASSUME TypeOK, NEW p \in Procs, Place(p)
  PROVE  /\ Others(p) /\ UNCHANGED <<artifacts, predictions, issued, cut, faults>>
         /\ Registering(p) /\ call[p].step = "place"
         /\ call[p].gen \in Gens /\ call[p].artifact \in Artifacts
         /\ \/ /\ material[call[p].gen] = None
               /\ material' = [material EXCEPT ![call[p].gen] = call[p].artifact]
               /\ call'[p] = [step |-> "insert_artifact", gen |-> call[p].gen,
                              artifact |-> call[p].artifact]
            \/ call'[p] = None /\ UNCHANGED material
<1>1. Registering(p) /\ call[p].step = "place"
      /\ call[p] \in [step : {"place", "insert_artifact"}, gen : Gens, artifact : Artifacts]
  BY CallTyped DEF Place, Registering
<1>2. [step |-> "insert_artifact", gen |-> call[p].gen, artifact |-> call[p].artifact] \in Calls
  BY <1>1 DEF Calls
<1> QED
  BY <1>1, <1>2, GotoStep DEF Place, Others

LEMMA InsertArtifactEffect ==
  ASSUME TypeOK, NEW p \in Procs, InsertArtifact(p)
  PROVE  /\ Others(p) /\ UNCHANGED <<predictions, issued, cut, faults>>
         /\ Registering(p) /\ call[p].step = "insert_artifact"
         /\ call[p].gen \in Gens /\ call[p].artifact \in Artifacts
         /\ call'[p] = None
         /\ \/ /\ ~HasRow(call[p].gen) /\ UNCHANGED material
               /\ artifacts' = [artifacts EXCEPT ![call[p].artifact] = call[p].gen]
            \/ /\ HasRow(call[p].gen) /\ UNCHANGED artifacts
               /\ material' = [material EXCEPT ![call[p].gen] = None]
<1>1. Registering(p) /\ call[p].step = "insert_artifact"
      /\ call[p] \in [step : {"place", "insert_artifact"}, gen : Gens, artifact : Artifacts]
  BY CallTyped DEF InsertArtifact, Registering
<1> QED
  BY <1>1, GotoStep DEF InsertArtifact, Others

LEMMA VerifyArtifactEffect ==
  ASSUME TypeOK, NEW p \in Procs, NEW a \in Artifacts, VerifyArtifact(p, a)
  PROVE  /\ Others(p) /\ UNCHANGED <<material, artifacts, predictions, issued, cut, faults>>
         /\ Registered(a) /\ call[p] = None
         /\ call'[p] = [step |-> "read_generation", artifact |-> a]
  BY GotoStep DEF VerifyArtifact, Others, Calls, Idle, verify

LEMMA ReadGenerationEffect ==
  ASSUME TypeOK, NEW p \in Procs, ReadGeneration(p)
  PROVE  /\ Others(p) /\ UNCHANGED <<material, artifacts, predictions, issued, cut, faults>>
         /\ Predicting(p) /\ call[p].artifact \in Artifacts
         /\ \/ /\ state[artifacts[call[p].artifact]] \in ALLOWED_PREDICTION_STATES
               /\ call'[p] = [step |-> "insert_prediction", artifact |-> call[p].artifact]
            \/ call'[p] = None
<1>1. Predicting(p)
      /\ call[p] \in [step : {"read_generation", "insert_prediction"}, artifact : Artifacts]
  BY CallTyped DEF ReadGeneration, Predicting
<1>2. [step |-> "insert_prediction", artifact |-> call[p].artifact] \in Calls
  BY <1>1 DEF Calls
<1> QED
  BY <1>1, <1>2, GotoStep DEF ReadGeneration, Others

LEMMA InsertPredictionEffect ==
  ASSUME TypeOK, NEW p \in Procs, NEW x \in Predictions, InsertPrediction(p, x)
  PROVE  /\ Others(p) /\ UNCHANGED <<material, artifacts, issued, cut, faults>>
         /\ Predicting(p) /\ call[p].step = "insert_prediction" /\ call[p].artifact \in Artifacts
         /\ call'[p] = None
         /\ predictions' \in {predictions, [predictions EXCEPT ![x] = call[p].artifact]}
<1>1. Predicting(p)
      /\ call[p] \in [step : {"read_generation", "insert_prediction"}, artifact : Artifacts]
  BY CallTyped DEF InsertPrediction, Predicting
<1> QED
  BY <1>1, GotoStep DEF InsertPrediction, Others

LEMMA CrashEffect ==
  ASSUME TypeOK, NEW p \in Procs, Crash(p)
  PROVE  /\ Others(p) /\ UNCHANGED <<material, artifacts, predictions, issued, faults>>
         /\ call'[p] = None /\ cut \subseteq cut'
         /\ Registering(p) => call[p].artifact \in cut'
  BY GotoStep DEF Crash, Others, Registering

-----------------------------------------------------------------------------
(* Ids: each registration has an artifact id of its own, that has no row   *)
(* before it ends.                                                         *)
IdsInv ==
  /\ \A p \in Procs : Registering(p) =>
       call[p].artifact \in issued /\ ~Registered(call[p].artifact)
  /\ \A p, q \in Procs :
       Registering(p) /\ Registering(q) /\ call[p].artifact = call[q].artifact => p = q
  /\ \A a \in Artifacts : Registered(a) => a \in issued

LEMMA IdsInit == ChainInit => IdsInv
  BY DEF ChainInit, IdsInv, Registering, Registered, Idle

LEMMA IdsKept ==
  ASSUME IdsInv, SameRegistrations, UNCHANGED <<artifacts, issued>>
  PROVE  IdsInv'
  BY DEF IdsInv, SameRegistrations, Registered

LEMMA IdsStep ==
  ASSUME TypeOK, IdsInv, [ChainNext]_vars
  PROVE  IdsInv'
<1>1. CASE MoveGeneration \/ UNCHANGED vars
  BY <1>1, IdsKept DEF MoveGeneration, vars, SameRegistrations, Registering, Idle
<1>2. ASSUME NEW g \in Gens, Damage(g) PROVE IdsInv'
  BY <1>2, IdsKept DEF Damage, SameRegistrations, Registering, Idle
<1>3. ASSUME NEW p \in Procs, NEW g \in Gens, NEW a \in Artifacts, LoadGeneration(p, g, a)
      PROVE  IdsInv'
  <2>1. /\ \A q \in Procs \ {p} : Registering(q)' => Registering(q) /\ call'[q] = call[q]
        /\ call'[p].artifact = a /\ a \notin issued /\ issued' = issued \union {a}
        /\ UNCHANGED artifacts
    <3>1. Others(p) /\ call'[p] = [step |-> "place", gen |-> g, artifact |-> a]
      BY <1>3, LoadGenerationEffect
    <3>2. call'[p].artifact = a
      BY <3>1
    <3> QED
      BY <1>3, <3>1, <3>2, LoadGenerationEffect, OtherRegistrations
  <2> QED
    BY <2>1 DEF IdsInv, Registered
<1>4. ASSUME NEW p \in Procs, Place(p) PROVE IdsInv'
  <2>1. SameRegistrations
    <3>1. CASE call'[p] = None
      BY <1>4, <3>1, PlaceEffect, EndedCall
    <3>2. CASE call'[p] = [step |-> "insert_artifact", gen |-> call[p].gen,
                           artifact |-> call[p].artifact]
      <4>1. call'[p].artifact = call[p].artifact /\ call'[p].gen = call[p].gen
        BY <3>2
      <4> QED
        BY <1>4, <4>1, PlaceEffect, ContinuedRegistration
    <3> QED
      BY <1>4, <3>1, <3>2, PlaceEffect
  <2> QED
    BY <1>4, <2>1, PlaceEffect, IdsKept
<1>5. ASSUME NEW p \in Procs, InsertArtifact(p) PROVE IdsInv'
  <2>1. CASE HasRow(call[p].gen)
    BY <1>5, <2>1, InsertArtifactEffect, EndedCall, IdsKept
  <2>2. CASE ~HasRow(call[p].gen)
    <3>1. /\ SameRegistrations /\ ~Registering(p)' /\ Registering(p) /\ call[p].artifact \in Artifacts
          /\ issued' = issued
          /\ artifacts' = [artifacts EXCEPT ![call[p].artifact] = call[p].gen]
      BY <1>5, <2>2, InsertArtifactEffect, EndedCall DEF Registering, Idle
    <3>2. \A b \in Artifacts : b # call[p].artifact => artifacts'[b] = artifacts[b]
      BY <3>1 DEF TypeOK
    <3>3. \A q \in Procs : Registering(q) => call[q].artifact \in Artifacts
      BY CallTyped
    <3> QED
      BY <3>1, <3>2, <3>3 DEF IdsInv, SameRegistrations, Registered
  <2> QED
    BY <2>1, <2>2
<1>6. ASSUME NEW p \in Procs, NEW a \in Artifacts, VerifyArtifact(p, a) PROVE IdsInv'
  <2>1. SameRegistrations
    <3>1. Others(p) /\ call'[p] = [step |-> "read_generation", artifact |-> a]
      BY <1>6, VerifyArtifactEffect
    <3>2. call'[p].step = "read_generation"
      BY <3>1
    <3> QED
      BY <3>1, <3>2, PredictionStep
  <2> QED
    BY <1>6, <2>1, VerifyArtifactEffect, IdsKept
<1>7. ASSUME NEW p \in Procs, ReadGeneration(p) PROVE IdsInv'
  <2>1. SameRegistrations
    <3>1. CASE call'[p] = None
      BY <1>7, <3>1, ReadGenerationEffect, EndedCall
    <3>2. CASE call'[p] = [step |-> "insert_prediction", artifact |-> call[p].artifact]
      <4>1. call'[p].step = "insert_prediction"
        BY <3>2
      <4> QED
        BY <1>7, <4>1, ReadGenerationEffect, PredictionStep
    <3> QED
      BY <1>7, <3>1, <3>2, ReadGenerationEffect
  <2> QED
    BY <1>7, <2>1, ReadGenerationEffect, IdsKept
<1>8. ASSUME NEW p \in Procs, NEW x \in Predictions, InsertPrediction(p, x) PROVE IdsInv'
  BY <1>8, InsertPredictionEffect, EndedCall, IdsKept
<1>9. ASSUME NEW p \in Procs, Crash(p) PROVE IdsInv'
  BY <1>9, CrashEffect, EndedCall, IdsKept
<1> QED
  BY <1>1, <1>2, <1>3, <1>4, <1>5, <1>6, <1>7, <1>8, <1>9 DEF ChainNext

-----------------------------------------------------------------------------
(* What rows and calls rest on.                                            *)
Trained(g) == {"PLANNED", "QUEUED", "TRAINING"} \subseteq seen[g]
Graduated(g) == Schooling \union {"SHADOW"} \subseteq seen[g]

RestsInv ==
  /\ \A p \in Procs : Registering(p) => Trained(call[p].gen)
  /\ ArtifactRests
  /\ \A p \in Procs : Predicting(p) => Registered(call[p].artifact)
  /\ \A p \in Procs : Predicting(p) /\ call[p].step = "insert_prediction" =>
       Graduated(artifacts[call[p].artifact])
  /\ PredictionRests

LEMMA RestsInit == ChainInit => RestsInv
  BY DEF ChainInit, RestsInv, ArtifactRests, PredictionRests, Registering, Predicting, Registered, Idle

(* The states that calls accept imply the generation's past.               *)
LEMMA TrainedByState ==
  ASSUME LifecycleInv, NEW g \in Gens, state[g] \in LIFECYCLE_STATES \ FORBIDDEN_GENERATION_STATES
  PROVE  Trained(g)
<1>1. state[g] \in seen[g] /\ InOrder(seen[g])
  BY NoStateAssumption DEF LifecycleInv
<1>2. state[g] \in {"TRAINING", "HISTORICALLY_EVALUATED"} \union Qualified
  BY DEF LIFECYCLE_STATES, FORBIDDEN_GENERATION_STATES, Qualified
<1> QED
  BY <1>1, <1>2 DEF InOrder, Trained

LEMMA GraduatedByState ==
  ASSUME LifecycleInv, NEW g \in Gens, state[g] \in ALLOWED_PREDICTION_STATES
  PROVE  Graduated(g)
<1>1. state[g] \in LIFECYCLE_STATES /\ state[g] \in Qualified
  BY DEF LIFECYCLE_STATES, ALLOWED_PREDICTION_STATES, Qualified
<1>2. state[g] \in seen[g] /\ InOrder(seen[g])
  BY <1>1, NoStateAssumption DEF LifecycleInv
<1> QED
  BY <1>1, <1>2, InOrderSchooled DEF Graduated

(* Nothing a row or call rests on is lost as the generations move on.      *)
LEMMA RestsKept ==
  ASSUME TypeOK, RestsInv, LifecycleInv, [Next]_lifecycle,
         SameRegistrations, SamePredictions,
         \A q \in Procs : Predicting(q)' /\ call'[q].step = "insert_prediction" =>
           call'[q].step = call[q].step,
         UNCHANGED <<artifacts, predictions>>
  PROVE  RestsInv'
<1>1. \A g \in Gens : seen[g] \subseteq seen'[g]
  BY SeenGrows
<1>2. \A a \in Artifacts : Registered(a) => artifacts[a] \in Gens
  BY DEF TypeOK, Registered
<1>3. \A q \in Procs : /\ Registering(q) => call[q].gen \in Gens
                       /\ Predicting(q) => call[q].artifact \in Artifacts
  BY CallTyped
<1>4. \A x \in Predictions : predictions[x] # None => predictions[x] \in Artifacts
  BY DEF TypeOK
<1>5. (\A p \in Procs : Registering(p) => Trained(call[p].gen))'
  BY <1>1, <1>3 DEF RestsInv, SameRegistrations, Trained
<1>6. ArtifactRests'
  BY <1>1, <1>2 DEF RestsInv, ArtifactRests, Registered
<1>7. (\A p \in Procs : Predicting(p) => Registered(call[p].artifact))'
  BY DEF RestsInv, SamePredictions, Registered
<1>8. (\A p \in Procs : Predicting(p) /\ call[p].step = "insert_prediction" =>
         Graduated(artifacts[call[p].artifact]))'
  BY <1>1, <1>2, <1>3 DEF RestsInv, SamePredictions, Graduated
<1>9. PredictionRests'
  BY <1>1, <1>2, <1>4 DEF RestsInv, PredictionRests, Registered
<1> QED
  BY <1>5, <1>6, <1>7, <1>8, <1>9 DEF RestsInv

LEMMA EndedSteps ==
  ASSUME NEW p \in Procs, Others(p), call'[p] = None
  PROVE  \A q \in Procs : Predicting(q)' /\ call'[q].step = "insert_prediction" =>
           call'[q].step = call[q].step
  BY OtherRegistrations DEF Predicting, Idle

LEMMA RestsStep ==
  ASSUME TypeOK, LifecycleInv, IdsInv, RestsInv, [ChainNext]_vars
  PROVE  RestsInv'
<1>0. [Next]_lifecycle
  BY LifecycleOfStep DEF vars
<1>a. CASE UNCHANGED <<call, artifacts, predictions>>
  <2>1. SameRegistrations /\ SamePredictions
    BY <1>a DEF SameRegistrations, SamePredictions, Registering, Predicting, Idle
  <2> QED
    BY <1>a, <1>0, <2>1, RestsKept
<1>1. CASE MoveGeneration \/ UNCHANGED vars
  BY <1>1, <1>a DEF MoveGeneration, vars
<1>2. ASSUME NEW g \in Gens, Damage(g) PROVE RestsInv'
  BY <1>2, <1>a DEF Damage
<1>3. ASSUME NEW p \in Procs, NEW g \in Gens, NEW a \in Artifacts, LoadGeneration(p, g, a)
      PROVE  RestsInv'
  <2>1. Others(p) /\ call'[p] = [step |-> "place", gen |-> g, artifact |-> a]
        /\ UNCHANGED <<artifacts, predictions, seen>> /\ Trained(g)
    BY <1>3, LoadGenerationEffect, TrainedByState DEF LoadGeneration, lifecycle
  <2>2. call'[p].gen = g /\ call'[p].step = "place" /\ ~Predicting(p)'
    BY <2>1 DEF Predicting
  <2>3. (\A q \in Procs : Registering(q) => Trained(call[q].gen))'
    BY <2>1, <2>2, OtherRegistrations DEF RestsInv, Trained
  <2>4. (\A q \in Procs : Predicting(q) => Registered(call[q].artifact))'
    BY <2>1, <2>2, OtherRegistrations DEF RestsInv, Registered
  <2>5. (\A q \in Procs : Predicting(q) /\ call[q].step = "insert_prediction" =>
           Graduated(artifacts[call[q].artifact]))'
    BY <2>1, <2>2, OtherRegistrations DEF RestsInv, Graduated
  <2>6. ArtifactRests' /\ PredictionRests'
    BY <2>1 DEF RestsInv, ArtifactRests, PredictionRests, Registered
  <2> QED
    BY <2>3, <2>4, <2>5, <2>6 DEF RestsInv
<1>4. ASSUME NEW p \in Procs, Place(p) PROVE RestsInv'
  <2>1. CASE call'[p] = None
    BY <1>0, <1>4, <2>1, PlaceEffect, EndedCall, EndedSteps, RestsKept
  <2>2. CASE call'[p] = [step |-> "insert_artifact", gen |-> call[p].gen,
                         artifact |-> call[p].artifact]
    <3>1. /\ call'[p].artifact = call[p].artifact /\ call'[p].gen = call[p].gen
          /\ ~Predicting(p)'
      BY <2>2 DEF Predicting
    <3>2. Others(p) /\ SameRegistrations /\ UNCHANGED <<artifacts, predictions>>
      BY <1>4, <3>1, PlaceEffect, ContinuedRegistration
    <3>3. SamePredictions
      BY <3>1, <3>2, OtherRegistrations DEF SamePredictions
    <3>4. \A q \in Procs : Predicting(q)' /\ call'[q].step = "insert_prediction" =>
            call'[q].step = call[q].step
      BY <3>1, <3>2, OtherRegistrations
    <3> QED
      BY <1>0, <3>2, <3>3, <3>4, RestsKept
  <2> QED
    BY <1>4, <2>1, <2>2, PlaceEffect
<1>5. ASSUME NEW p \in Procs, InsertArtifact(p) PROVE RestsInv'
  <2>1. CASE HasRow(call[p].gen)
    BY <1>0, <1>5, <2>1, InsertArtifactEffect, EndedCall, EndedSteps, RestsKept
  <2>2. CASE ~HasRow(call[p].gen)
    <3>1. /\ Others(p) /\ SameRegistrations /\ SamePredictions /\ Registering(p)
          /\ call[p].artifact \in Artifacts /\ call[p].gen \in Gens
          /\ UNCHANGED <<predictions, seen>>
          /\ artifacts' = [artifacts EXCEPT ![call[p].artifact] = call[p].gen]
      BY <1>5, <2>2, InsertArtifactEffect, EndedCall DEF InsertArtifact, lifecycle
    <3>2. \A b \in Artifacts : Registered(b) => Registered(b)' /\ artifacts'[b] = artifacts[b]
      BY <3>1 DEF TypeOK, IdsInv, Registered
    <3>3. \A b \in Artifacts : Registered(b)' /\ ~Registered(b) =>
            b = call[p].artifact /\ artifacts'[b] = call[p].gen
      BY <3>1 DEF TypeOK, Registered
    <3>4. \A q \in Procs : Predicting(q) => call[q].artifact \in Artifacts
      BY CallTyped
    <3>5. (\A q \in Procs : Registering(q) => Trained(call[q].gen))'
      BY <3>1 DEF RestsInv, SameRegistrations, Trained
    <3>6. ArtifactRests'
      BY <3>1, <3>2, <3>3 DEF RestsInv, ArtifactRests, Trained
    <3>7. (\A q \in Procs : Predicting(q) => Registered(call[q].artifact))'
      BY <3>1, <3>2, <3>4 DEF RestsInv, SamePredictions
    <3>8. (\A q \in Procs : Predicting(q) /\ call[q].step = "insert_prediction" =>
             Graduated(artifacts[call[q].artifact]))'
      <4>1. ASSUME NEW q \in Procs, Predicting(q)', call'[q].step = "insert_prediction"
            PROVE  Predicting(q) /\ call[q].step = "insert_prediction"
                   /\ call'[q].artifact = call[q].artifact
        BY <1>5, <4>1, <3>1, InsertArtifactEffect, EndedSteps DEF SamePredictions
      <4> QED
        BY <3>1, <3>2, <3>4, <4>1 DEF RestsInv, Graduated
    <3>9. PredictionRests'
      BY <3>1, <3>2 DEF RestsInv, PredictionRests, TypeOK
    <3> QED
      BY <3>5, <3>6, <3>7, <3>8, <3>9 DEF RestsInv
  <2> QED
    BY <2>1, <2>2
<1>6. ASSUME NEW p \in Procs, NEW a \in Artifacts, VerifyArtifact(p, a) PROVE RestsInv'
  <2>1. /\ Others(p) /\ call'[p] = [step |-> "read_generation", artifact |-> a]
        /\ UNCHANGED <<artifacts, predictions, seen>> /\ Registered(a)
    BY <1>6, VerifyArtifactEffect DEF VerifyArtifact, lifecycle
  <2>2. call'[p].artifact = a /\ call'[p].step = "read_generation" /\ ~Registering(p)'
    BY <2>1 DEF Registering
  <2>3. (\A q \in Procs : Registering(q) => Trained(call[q].gen))'
    BY <2>1, <2>2, OtherRegistrations DEF RestsInv, Trained
  <2>4. (\A q \in Procs : Predicting(q) => Registered(call[q].artifact))'
    BY <2>1, <2>2, OtherRegistrations DEF RestsInv, Registered
  <2>5. (\A q \in Procs : Predicting(q) /\ call[q].step = "insert_prediction" =>
           Graduated(artifacts[call[q].artifact]))'
    BY <2>1, <2>2, OtherRegistrations DEF RestsInv, Graduated
  <2>6. ArtifactRests' /\ PredictionRests'
    BY <2>1 DEF RestsInv, ArtifactRests, PredictionRests, Registered
  <2> QED
    BY <2>3, <2>4, <2>5, <2>6 DEF RestsInv
<1>7. ASSUME NEW p \in Procs, ReadGeneration(p) PROVE RestsInv'
  <2>1. CASE call'[p] = None
    BY <1>0, <1>7, <2>1, ReadGenerationEffect, EndedCall, EndedSteps, RestsKept
  <2>2. CASE call'[p] = [step |-> "insert_prediction", artifact |-> call[p].artifact]
    <3>1. call'[p].artifact = call[p].artifact /\ call'[p].step = "insert_prediction"
          /\ ~Registering(p)'
      BY <2>2 DEF Registering
    <3>2. /\ Others(p) /\ Predicting(p) /\ UNCHANGED <<artifacts, predictions, seen>>
          /\ call[p].artifact \in Artifacts /\ call'[p] # None
      BY <1>7, <3>1, <2>2, ReadGenerationEffect, CallTyped, ChainAssumption
      DEF ReadGeneration, lifecycle, Calls
    <3>3. Graduated(artifacts[call[p].artifact])
      <4>1. Registered(call[p].artifact)
        BY <3>2 DEF RestsInv
      <4>2. artifacts[call[p].artifact] \in Gens
        BY <3>2, <4>1 DEF TypeOK, Registered
      <4> QED
        BY <1>7, <3>2, <4>2, ReadGenerationEffect, GraduatedByState
    <3>4. (\A q \in Procs : Registering(q) => Trained(call[q].gen))'
      BY <3>1, <3>2, OtherRegistrations DEF RestsInv, Trained
    <3>5. (\A q \in Procs : Predicting(q) => Registered(call[q].artifact))'
      BY <3>1, <3>2, OtherRegistrations DEF RestsInv, Registered
    <3>6. (\A q \in Procs : Predicting(q) /\ call[q].step = "insert_prediction" =>
             Graduated(artifacts[call[q].artifact]))'
      BY <3>1, <3>2, <3>3, OtherRegistrations DEF RestsInv, Graduated
    <3>7. ArtifactRests' /\ PredictionRests'
      BY <3>2 DEF RestsInv, ArtifactRests, PredictionRests, Registered
    <3> QED
      BY <3>4, <3>5, <3>6, <3>7 DEF RestsInv
  <2> QED
    BY <1>7, <2>1, <2>2, ReadGenerationEffect
<1>8. ASSUME NEW p \in Procs, NEW x \in Predictions, InsertPrediction(p, x) PROVE RestsInv'
  <2>1. /\ Others(p) /\ call'[p] = None /\ Predicting(p) /\ call[p].step = "insert_prediction"
        /\ UNCHANGED <<artifacts, seen>>
        /\ predictions' \in {predictions, [predictions EXCEPT ![x] = call[p].artifact]}
    BY <1>8, InsertPredictionEffect DEF InsertPrediction, lifecycle
  <2>2. SameRegistrations /\ SamePredictions
    BY <2>1, EndedCall
  <2>3. Registered(call[p].artifact) /\ Graduated(artifacts[call[p].artifact])
    BY <2>1 DEF RestsInv
  <2>4. PredictionRests'
    BY <2>1, <2>3 DEF RestsInv, PredictionRests, Registered, Graduated, TypeOK
  <2>5. (\A q \in Procs : Registering(q) => Trained(call[q].gen))'
    BY <2>1, <2>2 DEF RestsInv, SameRegistrations, Trained
  <2>6. (\A q \in Procs : Predicting(q) => Registered(call[q].artifact))'
    BY <2>1, <2>2 DEF RestsInv, SamePredictions, Registered
  <2>7. (\A q \in Procs : Predicting(q) /\ call[q].step = "insert_prediction" =>
           Graduated(artifacts[call[q].artifact]))'
    BY <2>1, <2>2, EndedSteps DEF RestsInv, SamePredictions, Graduated
  <2>8. ArtifactRests'
    BY <2>1 DEF RestsInv, ArtifactRests, Registered
  <2> QED
    BY <2>4, <2>5, <2>6, <2>7, <2>8 DEF RestsInv
<1>9. ASSUME NEW p \in Procs, Crash(p) PROVE RestsInv'
  BY <1>0, <1>9, CrashEffect, EndedCall, EndedSteps, RestsKept
<1> QED
  BY <1>1, <1>2, <1>3, <1>4, <1>5, <1>6, <1>7, <1>8, <1>9 DEF ChainNext

-----------------------------------------------------------------------------
(* The material.  What was placed and has no row yet is still in place, so *)
(* that a row never finds other files: with it MaterialStands is inductive. *)
Inserting(p) == Registering(p) /\ call[p].step = "insert_artifact"
Placed == \A p \in Procs : Inserting(p) => material[call[p].gen] = call[p].artifact

MaterialInv == faults = 0 => MaterialStands /\ Placed
StorageInv == MaterialInv /\ OrphanIsCutOff

LEMMA StorageInit == ChainInit => StorageInv
  BY ChainAssumption DEF ChainInit, StorageInv, MaterialInv, MaterialStands, Placed, Inserting,
     OrphanIsCutOff, Registering, Registered, Idle

LEMMA OtherInsertions ==
  ASSUME NEW p \in Procs, Others(p), NEW q \in Procs \ {p}
  PROVE  (Inserting(q)' <=> Inserting(q)) /\ call'[q] = call[q]
  BY OtherRegistrations DEF Inserting

LEMMA MaterialKept ==
  ASSUME UNCHANGED <<material, artifacts, faults>>, MaterialInv,
         \A q \in Procs : Inserting(q)' => Inserting(q) /\ call'[q] = call[q]
  PROVE  MaterialInv'
  BY DEF MaterialInv, MaterialStands, Placed, Registered, verify

LEMMA MaterialStep ==
  ASSUME TypeOK, IdsInv, MaterialInv, [ChainNext]_vars
  PROVE  MaterialInv'
<1>1. CASE MoveGeneration \/ UNCHANGED vars
  BY <1>1, MaterialKept DEF MoveGeneration, vars, Inserting, Registering, Idle
<1>2. ASSUME NEW g \in Gens, Damage(g) PROVE MaterialInv'
  <2>1. faults' # 0
    BY <1>2 DEF Damage, TypeOK
  <2> QED
    BY <2>1 DEF MaterialInv
<1>3. ASSUME NEW p \in Procs, NEW g \in Gens, NEW a \in Artifacts, LoadGeneration(p, g, a)
      PROVE  MaterialInv'
  <2>1. Others(p) /\ call'[p] = [step |-> "place", gen |-> g, artifact |-> a]
    BY <1>3, LoadGenerationEffect
  <2>2. ~Inserting(p)'
    BY <2>1 DEF Inserting
  <2> QED
    BY <1>3, <2>1, <2>2, LoadGenerationEffect, OtherInsertions, MaterialKept
<1>4. ASSUME NEW p \in Procs, Place(p) PROVE MaterialInv'
  <2>1. CASE call'[p] = None /\ UNCHANGED material
    <3>1. ~Inserting(p)'
      BY <2>1 DEF Inserting, Registering, Idle
    <3> QED
      BY <1>4, <2>1, <3>1, PlaceEffect, OtherInsertions, MaterialKept
  <2>2. CASE /\ material[call[p].gen] = None
             /\ material' = [material EXCEPT ![call[p].gen] = call[p].artifact]
             /\ call'[p] = [step |-> "insert_artifact", gen |-> call[p].gen,
                            artifact |-> call[p].artifact]
    <3> SUFFICES ASSUME faults = 0 PROVE MaterialStands' /\ Placed'
      BY <1>4, PlaceEffect DEF MaterialInv
    <3>1. /\ call'[p].gen = call[p].gen /\ call'[p].artifact = call[p].artifact
      BY <2>2
    <3>2. /\ Others(p) /\ UNCHANGED artifacts /\ call[p].gen \in Gens
          /\ call[p].artifact \in Artifacts
      BY <1>4, PlaceEffect
    <3>3. MaterialStands'
      <4> SUFFICES ASSUME NEW a \in Artifacts, Registered(a) PROVE material'[artifacts[a]] = a
        BY <3>2 DEF MaterialStands, Registered, verify
      <4>1. material[artifacts[a]] = a /\ artifacts[a] \in Gens
        BY DEF MaterialInv, MaterialStands, verify, Registered, TypeOK
      <4>2. artifacts[a] # call[p].gen
        BY <2>2, <4>1, ChainAssumption
      <4> QED
        BY <2>2, <4>1, <4>2, <3>2 DEF TypeOK
    <3>4. Placed'
      <4> SUFFICES ASSUME NEW q \in Procs, Inserting(q)'
                   PROVE  material'[call'[q].gen] = call'[q].artifact
        BY DEF Placed
      <4>1. CASE q = p
        BY <4>1, <2>2, <3>1, <3>2 DEF TypeOK
      <4>2. CASE q # p
        <5>1. Inserting(q) /\ call'[q] = call[q]
          BY <4>2, <3>2, OtherInsertions
        <5>2. material[call[q].gen] = call[q].artifact /\ call[q].artifact \in Artifacts
              /\ call[q].gen \in Gens
          BY <5>1, CallTyped DEF MaterialInv, Placed, Inserting
        <5>3. call[q].gen # call[p].gen
          BY <2>2, <5>2, ChainAssumption
        <5> QED
          BY <2>2, <5>1, <5>2, <5>3 DEF TypeOK
      <4> QED
        BY <4>1, <4>2
    <3> QED
      BY <3>3, <3>4
  <2> QED
    BY <1>4, <2>1, <2>2, PlaceEffect
<1>5. ASSUME NEW p \in Procs, InsertArtifact(p) PROVE MaterialInv'
  <2> SUFFICES ASSUME faults = 0 PROVE MaterialStands' /\ Placed'
    BY <1>5, InsertArtifactEffect DEF MaterialInv
  <2>1. /\ Others(p) /\ call'[p] = None /\ Inserting(p)
        /\ call[p].gen \in Gens /\ call[p].artifact \in Artifacts
        /\ ~Registered(call[p].artifact)
        /\ material[call[p].gen] = call[p].artifact
    BY <1>5, InsertArtifactEffect DEF Inserting, IdsInv, MaterialInv, Placed
  <2>2. ~HasRow(call[p].gen)
    BY <2>1, ChainAssumption DEF HasRow, MaterialInv, MaterialStands, verify, Registered
  <2>3. UNCHANGED material /\ artifacts' = [artifacts EXCEPT ![call[p].artifact] = call[p].gen]
    BY <1>5, <2>2, InsertArtifactEffect
  <2>4. MaterialStands'
    BY <2>1, <2>3 DEF MaterialInv, MaterialStands, verify, Registered, TypeOK
  <2>5. Placed'
    <3>1. ~Inserting(p)'
      BY <2>1 DEF Inserting, Registering, Idle
    <3> QED
      BY <2>1, <2>3, <3>1, OtherInsertions DEF MaterialInv, Placed
  <2> QED
    BY <2>4, <2>5
<1>6. ASSUME NEW p \in Procs, NEW a \in Artifacts, VerifyArtifact(p, a) PROVE MaterialInv'
  <2>1. Others(p) /\ call'[p] = [step |-> "read_generation", artifact |-> a]
    BY <1>6, VerifyArtifactEffect
  <2>2. ~Inserting(p)'
    BY <2>1 DEF Inserting
  <2> QED
    BY <1>6, <2>1, <2>2, VerifyArtifactEffect, OtherInsertions, MaterialKept
<1>7. ASSUME NEW p \in Procs, ReadGeneration(p) PROVE MaterialInv'
  <2>1. ~Inserting(p)'
    <3>1. CASE call'[p] = None
      BY <3>1 DEF Inserting, Registering, Idle
    <3>2. CASE call'[p] = [step |-> "insert_prediction", artifact |-> call[p].artifact]
      BY <3>2 DEF Inserting
    <3> QED
      BY <1>7, <3>1, <3>2, ReadGenerationEffect
  <2> QED
    BY <1>7, <2>1, ReadGenerationEffect, OtherInsertions, MaterialKept
<1>8. ASSUME NEW p \in Procs, NEW x \in Predictions, InsertPrediction(p, x) PROVE MaterialInv'
  <2>1. ~Inserting(p)'
    BY <1>8, InsertPredictionEffect DEF Inserting, Registering, Idle
  <2> QED
    BY <1>8, <2>1, InsertPredictionEffect, OtherInsertions, MaterialKept
<1>9. ASSUME NEW p \in Procs, Crash(p) PROVE MaterialInv'
  <2>1. ~Inserting(p)'
    BY <1>9, CrashEffect DEF Inserting, Registering, Idle
  <2> QED
    BY <1>9, <2>1, CrashEffect, OtherInsertions, MaterialKept
<1> QED
  BY <1>1, <1>2, <1>3, <1>4, <1>5, <1>6, <1>7, <1>8, <1>9 DEF ChainNext

-----------------------------------------------------------------------------
(* Orphans.  A step leaves none if nothing is placed, no row goes, and an  *)
(* insertion that ends has its row, or its crash on record.                *)
LEMMA OrphansKept ==
  ASSUME OrphanIsCutOff, cut \subseteq cut',
         \A a \in Artifacts : Registered(a) => Registered(a)',
         \A g \in Gens : material'[g] \in Artifacts => material'[g] = material[g],
         \A q \in Procs : Inserting(q) =>
           \/ call'[q] = call[q]
           \/ call[q].artifact \in cut'
           \/ artifacts'[call[q].artifact] # None
           \/ material'[call[q].gen] \notin Artifacts
  PROVE  OrphanIsCutOff'
<1> SUFFICES ASSUME NEW g \in Gens, material'[g] \in Artifacts \ cut', artifacts'[material'[g]] = None
             PROVE  \E q \in Procs :
                      call'[q] = [step |-> "insert_artifact", gen |-> g, artifact |-> material'[g]]
  BY DEF OrphanIsCutOff, Registered
<1>1. material'[g] = material[g] /\ material[g] \in Artifacts \ cut /\ ~Registered(material[g])
  BY DEF Registered
<1>2. PICK q \in Procs :
        call[q] = [step |-> "insert_artifact", gen |-> g, artifact |-> material[g]]
  BY <1>1 DEF OrphanIsCutOff
<1>3. call[q].step = "insert_artifact" /\ call[q].gen = g /\ call[q].artifact = material[g]
  BY <1>2
<1>4. CASE ~Idle(q)
  <2>1. Inserting(q)
    BY <1>3, <1>4 DEF Inserting, Registering
  <2> QED
    BY <1>1, <1>2, <1>3, <2>1
<1>5. CASE Idle(q)
  <2>1. [step |-> "insert_artifact", gen |-> g, artifact |-> material[g]] \in Calls
    BY <1>1 DEF Calls
  <2> QED
    BY <1>2, <1>5, <2>1, ChainAssumption DEF Idle
<1> QED
  BY <1>4, <1>5

LEMMA OrphanStep ==
  ASSUME TypeOK, IdsInv, OrphanIsCutOff, [ChainNext]_vars
  PROVE  OrphanIsCutOff'
<1>1. CASE MoveGeneration \/ UNCHANGED vars
  BY <1>1, OrphansKept DEF MoveGeneration, vars, Registered
<1>2. ASSUME NEW g \in Gens, Damage(g) PROVE OrphanIsCutOff'
  <2>1. \A h \in Gens : material'[h] \in Artifacts => material'[h] = material[h]
    BY <1>2, ChainAssumption DEF Damage, TypeOK
  <2> QED
    BY <1>2, <2>1, OrphansKept DEF Damage, Registered
<1>3. ASSUME NEW p \in Procs, NEW g \in Gens, NEW a \in Artifacts, LoadGeneration(p, g, a)
      PROVE  OrphanIsCutOff'
  <2>1. \A q \in Procs : Inserting(q) => call'[q] = call[q]
    BY <1>3, LoadGenerationEffect DEF Others, Inserting, Registering, LoadGeneration, Idle
  <2> QED
    BY <1>3, <2>1, LoadGenerationEffect, OrphansKept DEF Registered
<1>4. ASSUME NEW p \in Procs, Place(p) PROVE OrphanIsCutOff'
  <2>1. \A q \in Procs : Inserting(q) => q # p /\ call'[q] = call[q]
    BY <1>4, PlaceEffect DEF Others, Inserting
  <2>2. CASE UNCHANGED material
    BY <1>4, <2>1, <2>2, PlaceEffect, OrphansKept DEF Registered
  <2>3. CASE /\ material[call[p].gen] = None
             /\ material' = [material EXCEPT ![call[p].gen] = call[p].artifact]
             /\ call'[p] = [step |-> "insert_artifact", gen |-> call[p].gen,
                            artifact |-> call[p].artifact]
    <3> SUFFICES ASSUME NEW g \in Gens, material'[g] \in Artifacts \ cut', artifacts'[material'[g]] = None
                 PROVE  \E q \in Procs :
                          call'[q] = [step |-> "insert_artifact", gen |-> g,
                                      artifact |-> material'[g]]
      BY DEF OrphanIsCutOff, Registered
    <3>1. CASE g = call[p].gen
      BY <1>4, <2>3, <3>1, PlaceEffect DEF TypeOK
    <3>2. CASE g # call[p].gen
      <4>1. material'[g] = material[g] /\ material[g] \in Artifacts \ cut /\ ~Registered(material[g])
        BY <1>4, <2>3, <3>2, PlaceEffect DEF TypeOK, Registered
      <4>2. PICK q \in Procs :
              call[q] = [step |-> "insert_artifact", gen |-> g, artifact |-> material[g]]
        BY <4>1 DEF OrphanIsCutOff
      <4>3. call[q].step = "insert_artifact"
        BY <4>2
      <4>4. q # p
        BY <1>4, <4>3, PlaceEffect
      <4>5. call'[q] = call[q]
        BY <1>4, <4>4, PlaceEffect DEF Others
      <4> QED
        BY <4>1, <4>2, <4>5
    <3> QED
      BY <3>1, <3>2
  <2> QED
    BY <1>4, <2>2, <2>3, PlaceEffect
<1>5. ASSUME NEW p \in Procs, InsertArtifact(p) PROVE OrphanIsCutOff'
  <2>1. \A q \in Procs \ {p} : call'[q] = call[q]
    BY <1>5, InsertArtifactEffect DEF Others
  <2>2. CASE HasRow(call[p].gen)
    <3>1. UNCHANGED <<artifacts, cut>> /\ material' = [material EXCEPT ![call[p].gen] = None]
          /\ call[p].gen \in Gens
      BY <1>5, <2>2, InsertArtifactEffect
    <3>2. material'[call[p].gen] \notin Artifacts
      BY <3>1, ChainAssumption DEF TypeOK
    <3>3. \A g \in Gens : material'[g] \in Artifacts => material'[g] = material[g]
      BY <3>1, <3>2 DEF TypeOK
    <3> QED
      BY <2>1, <3>1, <3>2, <3>3, OrphansKept DEF Registered
  <2>3. CASE ~HasRow(call[p].gen)
    <3>1. UNCHANGED <<material, cut>> /\ call[p].gen \in Gens /\ call[p].artifact \in Artifacts
          /\ artifacts' = [artifacts EXCEPT ![call[p].artifact] = call[p].gen]
      BY <1>5, <2>3, InsertArtifactEffect
    <3>2. artifacts'[call[p].artifact] # None
      BY <3>1, ChainAssumption DEF TypeOK
    <3>3. \A a \in Artifacts : Registered(a) => Registered(a)'
      BY <3>1, <3>2 DEF TypeOK, Registered
    <3> QED
      BY <2>1, <3>1, <3>2, <3>3, OrphansKept
  <2> QED
    BY <2>2, <2>3
<1>6. ASSUME NEW p \in Procs, NEW a \in Artifacts, VerifyArtifact(p, a) PROVE OrphanIsCutOff'
  <2>1. \A q \in Procs : Inserting(q) => call'[q] = call[q]
    BY <1>6, VerifyArtifactEffect DEF Others, Inserting, Registering, Idle
  <2> QED
    BY <1>6, <2>1, VerifyArtifactEffect, OrphansKept DEF Registered
<1>7. ASSUME NEW p \in Procs, ReadGeneration(p) PROVE OrphanIsCutOff'
  <2>1. \A q \in Procs : Inserting(q) => call'[q] = call[q]
    BY <1>7, ReadGenerationEffect DEF Others, Inserting, Registering, Predicting
  <2> QED
    BY <1>7, <2>1, ReadGenerationEffect, OrphansKept DEF Registered
<1>8. ASSUME NEW p \in Procs, NEW x \in Predictions, InsertPrediction(p, x) PROVE OrphanIsCutOff'
  <2>1. \A q \in Procs : Inserting(q) => call'[q] = call[q]
    BY <1>8, InsertPredictionEffect DEF Others, Inserting, Registering, Predicting
  <2>2. cut' = cut /\ artifacts' = artifacts /\ material' = material
    BY <1>8, InsertPredictionEffect
  <2> QED
    BY <2>1, <2>2, OrphansKept DEF Registered
<1>9. ASSUME NEW p \in Procs, Crash(p) PROVE OrphanIsCutOff'
  <2>1. \A q \in Procs : Inserting(q) => call'[q] = call[q] \/ call[q].artifact \in cut'
    BY <1>9, CrashEffect DEF Others, Inserting
  <2> QED
    BY <1>9, <2>1, CrashEffect, OrphansKept DEF Registered
<1> QED
  BY <1>1, <1>2, <1>3, <1>4, <1>5, <1>6, <1>7, <1>8, <1>9 DEF ChainNext

-----------------------------------------------------------------------------
(* All of it together is inductive.                                        *)
ChainInv == TypeOK /\ LifecycleInv /\ IdsInv /\ RestsInv /\ StorageInv

LEMMA ChainInvariant == ChainSpec => []ChainInv
<1>1. ChainInit => ChainInv
  BY TypeInit, LifecycleInit, IdsInit, RestsInit, StorageInit DEF ChainInit, ChainInv
<1>2. ChainInv /\ [ChainNext]_vars => ChainInv'
  <2> SUFFICES ASSUME ChainInv, [ChainNext]_vars PROVE ChainInv'
    OBVIOUS
  <2>1. LifecycleInv'
    BY LifecycleStep, LifecycleOfStep DEF ChainInv, vars
  <2>2. TypeOK' /\ IdsInv' /\ RestsInv'
    BY TypeStep, IdsStep, RestsStep DEF ChainInv
  <2>3. StorageInv'
    BY MaterialStep, OrphanStep DEF ChainInv, StorageInv
  <2> QED
    BY <2>1, <2>2, <2>3 DEF ChainInv
<1> QED
  BY <1>1, <1>2, PTL DEF ChainSpec

(* The types.                                                              *)
THEOREM ChainTyped == ChainSpec => []TypeOK
<1>1. ChainInv => TypeOK
  BY DEF ChainInv
<1> QED
  BY <1>1, ChainInvariant, PTL

(* Every prediction rests on a registered artifact of a generation that    *)
(* was schooled and qualified, though four stores are read at four times.  *)
THEOREM PredictionsRest == ChainSpec => []PredictionRests
<1>1. ChainInv => PredictionRests
  BY DEF ChainInv, RestsInv
<1> QED
  BY <1>1, ChainInvariant, PTL

(* Every registered artifact was made of a generation being trained.       *)
THEOREM ArtifactsRest == ChainSpec => []ArtifactRests
<1>1. ChainInv => ArtifactRests
  BY DEF ChainInv, RestsInv
<1> QED
  BY <1>1, ChainInvariant, PTL

(* As long as the disk keeps its files, registered material stays what it  *)
(* was, with any number of registrations under way or cut off.             *)
THEOREM MaterialAlwaysStands == ChainSpec => []MaterialStands
<1>1. ChainInv => MaterialStands
  BY DEF ChainInv, StorageInv, MaterialInv, MaterialStands
<1> QED
  BY <1>1, ChainInvariant, PTL

(* Only a registration that was cut off leaves material without a row.     *)
THEOREM OrphansAreCutOff == ChainSpec => []OrphanIsCutOff
<1>1. ChainInv => OrphanIsCutOff
  BY DEF ChainInv, StorageInv
<1> QED
  BY <1>1, ChainInvariant, PTL
=============================================================================
