--------------------------- MODULE MCComputeFabric ---------------------------
(* Instances of ComputeFabric for TLC: jobs ja and jb share an idempotency *)
(* key; jc has a job type the worker refuses, and jd asks for more cores   *)
(* than the node has.                                                      *)
EXTENDS ComputeFabric, TLC

CONSTANTS ja, jb, jc, jd, p1, p2

SharedKey == [j \in Jobs |-> IF j \in {jc, jd} THEN NoKey ELSE "k"]

Workable == Jobs \ {jc}

SmallEnough == Jobs \ {jd}

(* Where the jobs have one key, they are alike, as are the processes.      *)
Symmetry == Permutations(Procs) \union Permutations(Jobs)
=============================================================================
