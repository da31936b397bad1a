----------------------------- MODULE MCRegistries ------------------------------
(* One instance for the registries of the lifecycle: the generations, the      *)
(* predictor artifacts with the predictions, and the outcomes with the         *)
(* evaluations.  They share no table, so a behaviour runs one of the three.    *)
EXTENDS MCGenerationLifecycle, PredictionChain, OutcomeEvaluation

CONSTANTS a, b, p, q, o1, o2

VARIABLE part

(* The processes are alike, and so are the ids; only artifacts and processes   *)
(* occur together.                                                             *)
Swap == (a :> b) @@ (b :> a) @@ (o1 :> o2) @@ (o2 :> o1)

Symmetry == {Swap} \union Permutations(Procs)

PartsInit ==
  /\ LifecycleInit /\ ChainInit /\ OutcomeInit
  /\ part \in {"generations", "chain", "outcomes"}

PartsNext ==
  \/ /\ part = "generations" /\ LifecycleNext
     /\ UNCHANGED <<vars, outcomeVars, part>>
  \/ /\ part = "chain" /\ ChainNext
     /\ UNCHANGED <<lifecycleVars, outcomeVars, part>>
  \/ /\ part = "outcomes" /\ OutcomeNext
     /\ UNCHANGED <<lifecycleVars, vars, part>>

PartsSpec ==
  PartsInit /\ [][PartsNext]_<<lifecycleVars, vars, outcomeVars, part>>
=============================================================================
