------------------------------ MODULE JobLedger ------------------------------
(***************************************************************************)
(* What the compute fabric promises whoever submits a job and reads its    *)
(* result in the queue, with no processes, transport or directories:       *)
(* a job is accepted at most once per idempotency key, only accepted jobs  *)
(* run on Node-01, a recorded result is the result of one of the runs, and *)
(* a result bundle is retired only after a result of its job is recorded.  *)
(***************************************************************************)
EXTENDS Naturals, Sequences

CONSTANTS
  Jobs, KeyOf, NoKey,  \* jobs and their idempotency keys
  Outcomes,            \* what a run can return
  Bundles,             \* result bundles: pairs of a job and a suffix
  NoResult             \* nothing recorded

VARIABLES
  rows,      \* accepted jobs
  runs,      \* runs[j]: what each run of j returned, in order
  recorded,  \* recorded[j]: the result the queue shows
  retired    \* bundles moved out of the results directory

ledger == <<rows, runs, recorded, retired>>

Init ==
  /\ rows = {}
  /\ runs = [j \in Jobs |-> <<>>]
  /\ recorded = [j \in Jobs |-> NoResult]
  /\ retired = {}

Accept(j) ==
  /\ j \notin rows
  /\ \A k \in rows : KeyOf[j] # NoKey => KeyOf[k] # KeyOf[j]
  /\ rows' = rows \union {j}
  /\ UNCHANGED <<runs, recorded, retired>>

Run(j, s) ==
  /\ j \in rows
  /\ runs' = [runs EXCEPT ![j] = Append(@, s)]
  /\ UNCHANGED <<rows, recorded, retired>>

RecordRun(j) ==
  /\ j \in rows
  /\ \E i \in DOMAIN runs[j] : recorded' = [recorded EXCEPT ![j] = [run |-> i, status |-> runs[j][i]]]
  /\ UNCHANGED <<rows, runs, retired>>

(* The archive keeps the last bundle of a name, or none after a failed mv. *)
Retire(b) ==
  /\ recorded[b[1]] # NoResult
  /\ retired' \in {retired \union {b}, retired \ {b}}
  /\ UNCHANGED <<rows, runs, recorded>>

Next ==
  \/ \E j \in Jobs : Accept(j) \/ RecordRun(j)
  \/ \E j \in Jobs, s \in Outcomes : Run(j, s)
  \/ \E b \in Bundles : Retire(b)

Spec == Init /\ [][Next]_ledger
=============================================================================
