-------------------------- MODULE PredictionChain --------------------------
(* From a generation to its predictions: the predictor artifact registry   *)
(* (ssi_v5/predictors/artifact.py) with its directory of material and its  *)
(* table, and the prediction registry (ssi_v5/predictions/registry.py)     *)
(* with its table, beside the lifecycle registry, of which only what       *)
(* LifecycleOutline promises is used.  Four stores, no transaction over    *)
(* two of them: a call reads one after the other and writes the last.      *)
(* The lineage that a caller's manifest brings is left out: a manifest     *)
(* that does not match the generation's world, domain, network, number     *)
(* and governance is refused before anything is written, and one that      *)
(* matches may be brought at any moment.  Only the governance reference    *)
(* may change afterwards, with a transition; an artifact keeps the one it  *)
(* was registered under, and register compares the other four, which are   *)
(* fixed with the generation.                                              *)
EXTENDS LifecycleOutline, Integers

CONSTANTS
  Artifacts,    \* predictor artifact ids: a fresh one for each registration
  Predictions,  \* prediction ids: callers may name one that exists
  Procs,        \* processes
  MaxFaults,    \* bound: how often material on disk is lost or altered
  None

Calls ==
  [step : {"place", "insert_artifact"}, gen : Gens, artifact : Artifacts] \union
  [step : {"read_generation", "insert_prediction"}, artifact : Artifacts]

ASSUME ChainAssumption ==
  /\ MaxFaults \in Nat
  /\ None \notin Artifacts \union Gens \union Calls \union {"altered"}
  /\ "altered" \notin Artifacts

FORBIDDEN_GENERATION_STATES == {"PLANNED", "QUEUED", "FAILED", "QUARANTINED", "RETIRED"}
ALLOWED_PREDICTION_STATES == {"SHADOW", "ACTIVE", "DEGRADED"}

VARIABLES
  material,     \* the storage directory of each generation: whose files it has
  artifacts,    \* table predictor_artifacts: the generation of each artifact
  predictions,  \* table predictions: the artifact of each prediction
  call,         \* what each process is doing
  issued,       \* the artifact ids drawn (uuid4: no id twice)
  cut,          \* history: the artifacts whose registration a crash cut off
  faults        \* faults so far

lifecycle == <<state, seen>>
vars == <<lifecycle, material, artifacts, predictions, call, issued, cut, faults>>

Idle(p) == call[p] = None
Goto(p, c) == call' = [call EXCEPT ![p] = c]
Registered(a) == artifacts[a] # None

ChainInit ==
  /\ Init
  /\ material = [g \in Gens |-> None]
  /\ artifacts = [a \in Artifacts |-> None]
  /\ predictions = [x \in Predictions |-> None]
  /\ call = [p \in Procs |-> None]
  /\ issued = {}
  /\ cut = {}
  /\ faults = 0

-----------------------------------------------------------------------------
(* register_from_directory: the generation is read, compared with the      *)
(* caller's manifest, and the files are copied to a directory of their     *)
(* own.                                                                    *)
LoadGeneration(p, g, a) ==
  /\ Idle(p) /\ a \notin issued
  /\ state[g] \notin FORBIDDEN_GENERATION_STATES \union {NoState}
  /\ issued' = issued \union {a}
  /\ Goto(p, [step |-> "place", gen |-> g, artifact |-> a])
  /\ UNCHANGED <<lifecycle, material, artifacts, predictions, cut, faults>>

(* Mutant: what is in the way is replaced.                                 *)
Mut_Place(p) ==
  /\ ~Idle(p) /\ call[p].step = "place"
  /\ material' = [material EXCEPT ![call[p].gen] = call[p].artifact]
  /\ Goto(p, [step |-> "insert_artifact", gen |-> call[p].gen, artifact |-> call[p].artifact])
  /\ UNCHANGED <<lifecycle, artifacts, predictions, issued, cut, faults>>

(* The destination must not exist: the code looks for it before the copy,  *)
(* and os.replace does not replace a directory that has files.             *)
Place(p) ==
  /\ ~Idle(p) /\ call[p].step = "place"
  /\ \/ /\ material[call[p].gen] = None
        /\ material' = [material EXCEPT ![call[p].gen] = call[p].artifact]
        /\ Goto(p, [step |-> "insert_artifact", gen |-> call[p].gen, artifact |-> call[p].artifact])
     \/ /\ material[call[p].gen] # None
        /\ Goto(p, None)
        /\ UNCHANGED material
  /\ UNCHANGED <<lifecycle, artifacts, predictions, issued, cut, faults>>

HasRow(g) == \E a \in Artifacts : artifacts[a] = g

(* Mutant: the refused material is left in place.                          *)
Mut_InsertArtifact(p) ==
  /\ ~Idle(p) /\ call[p].step = "insert_artifact"
  /\ artifacts' = IF HasRow(call[p].gen) THEN artifacts
                  ELSE [artifacts EXCEPT ![call[p].artifact] = call[p].gen]
  /\ Goto(p, None)
  /\ UNCHANGED <<lifecycle, material, predictions, issued, cut, faults>>

(* UNIQUE(generation_id): the second registration takes away what it       *)
(* placed.                                                                 *)
InsertArtifact(p) ==
  /\ ~Idle(p) /\ call[p].step = "insert_artifact"
  /\ \/ /\ ~HasRow(call[p].gen)
        /\ artifacts' = [artifacts EXCEPT ![call[p].artifact] = call[p].gen]
        /\ UNCHANGED material
     \/ /\ HasRow(call[p].gen)
        /\ material' = [material EXCEPT ![call[p].gen] = None]
        /\ UNCHANGED artifacts
  /\ Goto(p, None)
  /\ UNCHANGED <<lifecycle, predictions, issued, cut, faults>>

(* Every file is there, and the hashes are those of the row.               *)
verify(a) == Registered(a) /\ material[artifacts[a]] = a

-----------------------------------------------------------------------------
(* register: first the artifact is verified, ...                           *)
VerifyArtifact(p, a) ==
  /\ Idle(p) /\ verify(a)
  /\ Goto(p, [step |-> "read_generation", artifact |-> a])
  /\ UNCHANGED <<lifecycle, material, artifacts, predictions, issued, cut, faults>>

(* Mutant: any generation may predict.                                     *)
Mut_ReadGeneration(p) ==
  /\ ~Idle(p) /\ call[p].step = "read_generation"
  /\ Goto(p, [step |-> "insert_prediction", artifact |-> call[p].artifact])
  /\ UNCHANGED <<lifecycle, material, artifacts, predictions, issued, cut, faults>>

(* ... then its generation's state is read, ...                            *)
ReadGeneration(p) ==
  /\ ~Idle(p) /\ call[p].step = "read_generation"
  /\ IF state[artifacts[call[p].artifact]] \in ALLOWED_PREDICTION_STATES
     THEN Goto(p, [step |-> "insert_prediction", artifact |-> call[p].artifact])
     ELSE Goto(p, None)
  /\ UNCHANGED <<lifecycle, material, artifacts, predictions, issued, cut, faults>>

(* ... and last the row is inserted, unless its id has one.                *)
InsertPrediction(p, x) ==
  /\ ~Idle(p) /\ call[p].step = "insert_prediction"
  /\ predictions' = IF predictions[x] = None
                    THEN [predictions EXCEPT ![x] = call[p].artifact] ELSE predictions
  /\ Goto(p, None)
  /\ UNCHANGED <<lifecycle, material, artifacts, issued, cut, faults>>

-----------------------------------------------------------------------------
(* The process dies, or an error that the call does not handle ends it     *)
(* (the database stays locked): nothing that is in place is taken back.    *)
Crash(p) ==
  /\ ~Idle(p)
  /\ cut' = IF call[p].step \in {"place", "insert_artifact"}
            THEN cut \union {call[p].artifact} ELSE cut
  /\ Goto(p, None)
  /\ UNCHANGED <<lifecycle, material, artifacts, predictions, issued, faults>>

(* The disk: a generation's files are lost, or other than they were.       *)
Damage(g) ==
  /\ faults < MaxFaults /\ material[g] # None
  /\ \E m \in {None, "altered"} : material' = [material EXCEPT ![g] = m]
  /\ faults' = faults + 1
  /\ UNCHANGED <<lifecycle, artifacts, predictions, call, issued, cut>>

MoveGeneration ==
  /\ Next
  /\ UNCHANGED <<material, artifacts, predictions, call, issued, cut, faults>>

ChainNext ==
  \/ MoveGeneration
  \/ \E g \in Gens : Damage(g)
  \/ \E p \in Procs :
       \/ \E g \in Gens, a \in Artifacts : LoadGeneration(p, g, a)
       \/ Place(p) \/ InsertArtifact(p)
       \/ \E a \in Artifacts : VerifyArtifact(p, a)
       \/ ReadGeneration(p)
       \/ \E x \in Predictions : InsertPrediction(p, x)
       \/ Crash(p)

ChainSpec == ChainInit /\ [][ChainNext]_vars

-----------------------------------------------------------------------------
TypeOK ==
  /\ state \in [Gens -> LIFECYCLE_STATES \union {NoState}]
  /\ seen \in [Gens -> SUBSET LIFECYCLE_STATES]
  /\ material \in [Gens -> Artifacts \union {"altered", None}]
  /\ artifacts \in [Artifacts -> Gens \union {None}]
  /\ predictions \in [Predictions -> Artifacts \union {None}]
  /\ call \in [Procs -> Calls \union {None}]
  /\ issued \subseteq Artifacts /\ cut \subseteq Artifacts
  /\ faults \in 0 .. MaxFaults

(* A prediction rests on an artifact in the registry, and that on a        *)
(* generation which went through its schooling and qualified for the       *)
(* shadow phase, though state and artifact were read at different times    *)
(* and the generation moved on in between.                                 *)
PredictionRests ==
  \A x \in Predictions : predictions[x] # None =>
    /\ Registered(predictions[x])
    /\ Schooling \union {"SHADOW"} \subseteq seen[artifacts[predictions[x]]]

(* An artifact was made of a generation that was being trained or more.    *)
ArtifactRests ==
  \A a \in Artifacts : Registered(a) => {"PLANNED", "QUEUED", "TRAINING"} \subseteq seen[artifacts[a]]

(* "Immutable predictor artifacts": while the disk keeps its files, a      *)
(* registered artifact stays as it was registered, whoever tries to        *)
(* register another one and wherever a registration is cut off.            *)
MaterialStands ==
  faults = 0 => \A a \in Artifacts : Registered(a) => verify(a)

(* Material in storage without a row blocks its generation for good.  Only *)
(* a crash between the two leaves it there.                                *)
OrphanIsCutOff ==
  \A g \in Gens : material[g] \in Artifacts \ cut /\ ~Registered(material[g]) =>
    \E p \in Procs : call[p] = [step |-> "insert_artifact", gen |-> g, artifact |-> material[g]]
=============================================================================
