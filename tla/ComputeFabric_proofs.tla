------------------------ MODULE ComputeFabric_proofs ------------------------
(***************************************************************************)
(* Proofs about ComputeFabric, for any number of control processes, jobs,  *)
(* keys, executions and faults.                                            *)
(***************************************************************************)
EXTENDS ComputeFabric, TLAPS

-----------------------------------------------------------------------------
(* Typing of the records and the pairs that the state is built from.       *)

LEMMA EmptyDirTyped == EmptyDir \in Dirs
  BY FabricAssumption DEF EmptyDir, Dirs

LEMMA DirFields ==
  ASSUME NEW d \in Dirs
  PROVE  d.body \in Results \union {NoResult} /\ d.inputs \in BOOLEAN /\ d.manifest \in 0 .. MaxRuns
  BY DEF Dirs

LEMMA DirUpdate ==
  ASSUME NEW d \in Dirs
  PROVE  /\ \A r \in Results \union {NoResult} : [d EXCEPT !.body = r] \in Dirs
         /\ \A i \in BOOLEAN : [d EXCEPT !.inputs = i] \in Dirs
         /\ \A m \in 0 .. MaxRuns : [d EXCEPT !.manifest = m] \in Dirs
  BY DEF Dirs

LEMMA CopyTyped ==
  ASSUME NEW d \in Dirs, NEW e \in Dirs, NEW f \in Files
  PROVE  CopiedOver(d, e, f) \in Dirs /\ CopiedOver(d, e, f).body \in {d.body, e.body}
<1>1. CopiedOver(d, e, f) \in {d, [d EXCEPT !.body = e.body], [d EXCEPT !.inputs = TRUE],
                               [d EXCEPT !.manifest = e.manifest]}
  BY DEF CopiedOver, Files
<1>2. /\ [d EXCEPT !.body = e.body].body = e.body
      /\ [d EXCEPT !.inputs = TRUE].body = d.body
      /\ [d EXCEPT !.manifest = e.manifest].body = d.body
  BY DEF Dirs
<1> QED
  BY <1>1, <1>2, DirFields, DirUpdate

LEMMA NameOfTyped ==
  ASSUME NEW j \in Jobs, NEW s
  PROVE  NameOf(j, s) \in Names /\ NameOf(j, s)[1] = j
  BY DEF NameOf, Names, ResultSuffixes

LEMMA NamesJob == ASSUME NEW n \in Names PROVE n[1] \in Jobs
  BY DEF Names

LEMMA ResultFields ==
  ASSUME NEW r \in Results PROVE r.run \in 1 .. MaxRuns /\ r.status \in Outcomes
  BY DEF Results

(* The parts of the invariant that a step does not touch.                  *)

LEMMA QueueSame == QueueTypeOK /\ UNCHANGED queue => QueueTypeOK'
  BY DEF QueueTypeOK, queue

LEMMA FilesSame == FilesTypeOK /\ UNCHANGED <<outbox, collected, node>> => FilesTypeOK'
  BY DEF FilesTypeOK, node

LEMMA ControlSame ==
  ControlTypeOK /\ ControlHolds /\ UNCHANGED ctl => ControlTypeOK' /\ ControlHolds'
  BY DEF ControlTypeOK, ControlHolds, ctl

LEMMA WorkerSame ==
  WorkerTypeOK /\ WorkerHolds /\ UNCHANGED <<wrk, hist, faults>> => WorkerTypeOK' /\ WorkerHolds'
  BY DEF WorkerTypeOK, WorkerHolds, wrk, hist

(* Steps of others that may be a fault, and the worker going idle.         *)

LEMMA WorkerFault ==
  WorkerTypeOK /\ WorkerHolds /\ UNCHANGED <<wrk, hist>> /\ (Fault \/ UNCHANGED faults)
    => WorkerTypeOK' /\ WorkerHolds'
  BY FabricAssumption DEF WorkerTypeOK, WorkerHolds, wrk, hist, Fault

LEMMA WorkerRests ==
  WorkerTypeOK /\ WorkerIdle /\ UNCHANGED hist /\ (Fault \/ UNCHANGED faults)
    => WorkerTypeOK' /\ WorkerHolds'
  BY FabricAssumption DEF WorkerTypeOK, WorkerHolds, WorkerStates, WorkerIdle, hist, Fault

-----------------------------------------------------------------------------
LEMMA TypeInvInit == Init => TypeInv
  <1> SUFFICES ASSUME Init PROVE TypeInv
    OBVIOUS
  <1>1. QueueTypeOK
    BY DEF Init, QueueTypeOK
  <1>2. FilesTypeOK
    BY EmptyDirTyped DEF Init, FilesTypeOK
  <1>3. ControlTypeOK /\ ControlHolds
    BY DEF Init, ControlTypeOK, ControlHolds, ControlStates
  <1>4. WorkerTypeOK /\ WorkerHolds
    BY FabricAssumption DEF Init, WorkerTypeOK, WorkerHolds, WorkerStates
  <1> QED
    BY <1>1, <1>2, <1>3, <1>4 DEF TypeInv, TypeOK

LEMMA TypeInvStep == TypeInv /\ [Next]_vars => TypeInv'
<1> SUFFICES ASSUME TypeInv, [Next]_vars
             PROVE  TypeInv'
  OBVIOUS
<1> USE DEF TypeInv, TypeOK
<1>1. ASSUME NEW p \in Procs, NEW j \in Jobs, SubmitQueueOnly(p, j)
      PROVE TypeInv'
  <2>1. QueueTypeOK'
    BY <1>1 DEF SubmitQueueOnly, QueueTypeOK, InsertRow
  <2>2. FilesTypeOK'
    BY <1>1, FilesSame DEF SubmitQueueOnly, node
  <2>3. ControlTypeOK' /\ ControlHolds'
    BY <1>1, ControlSame DEF SubmitQueueOnly, ctl
  <2>4. WorkerTypeOK' /\ WorkerHolds'
    BY <1>1, WorkerSame DEF SubmitQueueOnly, wrk, hist
  <2> QED BY <2>1, <2>2, <2>3, <2>4
<1>2. ASSUME NEW p \in Procs, NEW j \in Jobs, Build(p, j)
      PROVE TypeInv'
  <2>1. QueueTypeOK'
    BY <1>2, QueueSame DEF Build
  <2>2. FilesTypeOK'
    BY <1>2 DEF Build, FilesTypeOK, node
  <2>3. ControlTypeOK' /\ ControlHolds'
    BY <1>2 DEF Build, ControlTypeOK, ControlHolds, GoTo, ControlStates
  <2>4. WorkerTypeOK' /\ WorkerHolds'
    BY <1>2, WorkerSame DEF Build, wrk, hist
  <2> QED BY <2>1, <2>2, <2>3, <2>4
<1>3. ASSUME NEW p \in Procs, Enqueue(p)
      PROVE TypeInv'
  <2>1. QueueTypeOK'
    BY <1>3 DEF Enqueue, QueueTypeOK, InsertRow, ControlHolds, GoTo
  <2>2. FilesTypeOK'
    BY <1>3, FilesSame DEF Enqueue, node
  <2>3. ControlTypeOK' /\ ControlHolds'
    BY <1>3 DEF Enqueue, ControlTypeOK, ControlHolds, GoTo, ControlStates
  <2>4. WorkerTypeOK' /\ WorkerHolds'
    BY <1>3, WorkerSame DEF Enqueue, wrk, hist
  <2> QED BY <2>1, <2>2, <2>3, <2>4
<1>4. ASSUME NEW p \in Procs, EnqueueDuplicate(p)
      PROVE TypeInv'
  <2>1. QueueTypeOK'
    BY <1>4, QueueSame DEF EnqueueDuplicate
  <2>2. FilesTypeOK'
    BY <1>4, FilesSame DEF EnqueueDuplicate, node
  <2>3. ControlTypeOK' /\ ControlHolds'
    BY <1>4 DEF EnqueueDuplicate, ControlTypeOK, ControlHolds, GoTo, ControlStates
  <2>4. WorkerTypeOK' /\ WorkerHolds'
    BY <1>4, WorkerSame DEF EnqueueDuplicate, wrk, hist
  <2> QED BY <2>1, <2>2, <2>3, <2>4
<1>5. ASSUME NEW p \in Procs, BeginDispatch(p)
      PROVE TypeInv'
  <2>1. QueueTypeOK'
    BY <1>5, QueueSame DEF BeginDispatch
  <2>2. FilesTypeOK'
    BY <1>5, FilesSame DEF BeginDispatch, node
  <2>3. ControlTypeOK' /\ ControlHolds'
    BY <1>5 DEF BeginDispatch, ControlTypeOK, ControlHolds, GoTo, ControlStates, rows_for_dispatch
  <2>4. WorkerTypeOK' /\ WorkerHolds'
    BY <1>5, WorkerSame DEF BeginDispatch, wrk, hist
  <2> QED BY <2>1, <2>2, <2>3, <2>4
<1>6. ASSUME NEW p \in Procs, NEW j \in Jobs, NextRow(p, j)
      PROVE TypeInv'
  <2>1. QueueTypeOK'
    BY <1>6, QueueSame DEF NextRow
  <2>2. FilesTypeOK'
    BY <1>6, FilesSame DEF NextRow, node
  <2>3. ControlTypeOK' /\ ControlHolds'
    BY <1>6 DEF NextRow, ControlTypeOK, ControlHolds, GoTo, ControlStates
  <2>4. WorkerTypeOK' /\ WorkerHolds'
    BY <1>6, WorkerSame DEF NextRow, wrk, hist
  <2> QED BY <2>1, <2>2, <2>3, <2>4
<1>7. ASSUME NEW p \in Procs, Unpack(p)
      PROVE TypeInv'
  <2>1. QueueTypeOK'
    BY <1>7, QueueSame DEF Unpack
  <2>2. FilesTypeOK'
    BY <1>7 DEF Unpack, FilesTypeOK, ControlHolds, GoTo
  <2>3. ControlTypeOK' /\ ControlHolds'
    BY <1>7 DEF Unpack, ControlTypeOK, ControlHolds, GoTo, ControlStates
  <2>4. WorkerTypeOK' /\ WorkerHolds'
    BY <1>7, WorkerSame DEF Unpack, wrk, hist
  <2> QED BY <2>1, <2>2, <2>3, <2>4
<1>8. ASSUME NEW p \in Procs, UnpackFails(p)
      PROVE TypeInv'
  <2>1. QueueTypeOK'
    BY <1>8, QueueSame DEF UnpackFails
  <2>2. FilesTypeOK'
    BY <1>8 DEF UnpackFails, FilesTypeOK, ControlHolds, GoTo
  <2>3. ControlTypeOK' /\ ControlHolds'
    BY <1>8 DEF UnpackFails, ControlTypeOK, ControlHolds, GoTo, ControlStates
  <2>4. WorkerTypeOK' /\ WorkerHolds'
    BY <1>8, WorkerFault DEF UnpackFails, wrk, hist
  <2> QED BY <2>1, <2>2, <2>3, <2>4
<1>9. ASSUME NEW p \in Procs, Publish(p)
      PROVE TypeInv'
  <2>1. QueueTypeOK'
    BY <1>9, QueueSame DEF Publish
  <2>2. FilesTypeOK'
    BY <1>9 DEF Publish, FilesTypeOK, ControlHolds, GoTo, MoveToInbox
  <2>3. ControlTypeOK' /\ ControlHolds'
    BY <1>9 DEF Publish, ControlTypeOK, ControlHolds, GoTo, ControlStates
  <2>4. WorkerTypeOK' /\ WorkerHolds'
    BY <1>9, WorkerSame DEF Publish, wrk, hist
  <2> QED BY <2>1, <2>2, <2>3, <2>4
<1>10. ASSUME NEW p \in Procs, PublishFails(p)
       PROVE TypeInv'
  <2>1. QueueTypeOK'
    BY <1>10, QueueSame DEF PublishFails
  <2>2. FilesTypeOK'
    BY <1>10 DEF PublishFails, FilesTypeOK, ControlHolds, GoTo, MoveToInbox, node
  <2>3. ControlTypeOK' /\ ControlHolds'
    BY <1>10 DEF PublishFails, ControlTypeOK, ControlHolds, GoTo, ControlStates
  <2>4. WorkerTypeOK' /\ WorkerHolds'
    BY <1>10, WorkerFault DEF PublishFails, wrk, hist
  <2> QED BY <2>1, <2>2, <2>3, <2>4
<1>11. ASSUME NEW p \in Procs, MarkDispatched(p)
       PROVE TypeInv'
  <2>1. QueueTypeOK'
    BY <1>11 DEF MarkDispatched, QueueTypeOK, ControlHolds, GoTo, AfterMark, mark_dispatched
  <2>2. FilesTypeOK'
    BY <1>11, FilesSame DEF MarkDispatched, AfterMark, node
  <2>3. ControlTypeOK' /\ ControlHolds'
    BY <1>11 DEF MarkDispatched, ControlTypeOK, ControlHolds, AfterMark, GoTo, ControlStates
  <2>4. WorkerTypeOK' /\ WorkerHolds'
    BY <1>11, WorkerSame DEF MarkDispatched, AfterMark, wrk, hist
  <2> QED BY <2>1, <2>2, <2>3, <2>4
<1>12. ASSUME NEW p \in Procs, MarkDispatchFailed(p)
       PROVE TypeInv'
  <2>1. QueueTypeOK'
    BY <1>12 DEF MarkDispatchFailed, QueueTypeOK, ControlHolds, GoTo, AfterMark, mark_dispatch_failed
  <2>2. FilesTypeOK'
    BY <1>12, FilesSame DEF MarkDispatchFailed, AfterMark, node
  <2>3. ControlTypeOK' /\ ControlHolds'
    BY <1>12 DEF MarkDispatchFailed, ControlTypeOK, ControlHolds, AfterMark, GoTo, ControlStates
  <2>4. WorkerTypeOK' /\ WorkerHolds'
    BY <1>12, WorkerSame DEF MarkDispatchFailed, AfterMark, wrk, hist
  <2> QED BY <2>1, <2>2, <2>3, <2>4
<1>13. ASSUME NEW p \in Procs, BeginCollect(p)
       PROVE TypeInv'
  <2>1. QueueTypeOK'
    BY <1>13, QueueSame DEF BeginCollect
  <2>2. FilesTypeOK'
    BY <1>13, FilesSame DEF BeginCollect, node
  <2>3. ControlTypeOK' /\ ControlHolds'
    BY <1>13 DEF BeginCollect, ControlTypeOK, ControlHolds, GoTo, ControlStates, FilesTypeOK
  <2>4. WorkerTypeOK' /\ WorkerHolds'
    BY <1>13, WorkerSame DEF BeginCollect, wrk, hist
  <2> QED BY <2>1, <2>2, <2>3, <2>4
<1>14. ASSUME NEW p \in Procs, NEW n \in Names, FetchStart(p, n)
       PROVE TypeInv'
  <2>1. QueueTypeOK'
    BY <1>14, QueueSame DEF FetchStart
  <2>2. FilesTypeOK'
    BY <1>14, EmptyDirTyped DEF FetchStart, FilesTypeOK, node
  <2>3. ControlTypeOK' /\ ControlHolds'
    BY <1>14 DEF FetchStart, ControlTypeOK, ControlHolds, GoTo, ControlStates
  <2>4. WorkerTypeOK' /\ WorkerHolds'
    BY <1>14, WorkerSame DEF FetchStart, wrk, hist
  <2> QED BY <2>1, <2>2, <2>3, <2>4
<1>15. ASSUME NEW p \in Procs, NEW f \in Files, CopyFile(p, f)
       PROVE TypeInv'
  <2>1. QueueTypeOK'
    BY <1>15, QueueSame DEF CopyFile
  <2>2. FilesTypeOK'
    <3> name[p] \in Names
      BY <1>15 DEF CopyFile, ControlHolds
    <3> results[name[p]] \in Dirs /\ collected[name[p]] \in Dirs
      BY DEF FilesTypeOK
    <3> collected' \in [Names -> Dirs]
      BY <1>15, CopyTyped DEF CopyFile, FilesTypeOK
    <3> QED
      BY <1>15 DEF CopyFile, FilesTypeOK, node
  <2>3. ControlTypeOK' /\ ControlHolds'
    BY <1>15 DEF CopyFile, ControlTypeOK, ControlHolds, GoTo, ControlStates
  <2>4. WorkerTypeOK' /\ WorkerHolds'
    BY <1>15, WorkerSame DEF CopyFile, wrk, hist
  <2> QED BY <2>1, <2>2, <2>3, <2>4
<1>16. ASSUME NEW p \in Procs, FetchFails(p)
       PROVE TypeInv'
  <2>1. QueueTypeOK'
    BY <1>16, QueueSame DEF FetchFails, Continue
  <2>2. FilesTypeOK'
    BY <1>16 DEF FetchFails, FilesTypeOK, Continue, node
  <2>3. ControlTypeOK' /\ ControlHolds'
    BY <1>16 DEF FetchFails, ControlTypeOK, ControlHolds, Continue, GoTo, ControlStates
  <2>4. WorkerTypeOK' /\ WorkerHolds'
    BY <1>16, WorkerFault DEF FetchFails, Continue, wrk, hist
  <2> QED BY <2>1, <2>2, <2>3, <2>4
<1>17. ASSUME NEW p \in Procs, Verify(p)
       PROVE TypeInv'
  <2>1. QueueTypeOK'
    BY <1>17, QueueSame DEF Verify
  <2>2. FilesTypeOK'
    BY <1>17, FilesSame DEF Verify, node
  <2>3. ControlTypeOK' /\ ControlHolds'
    BY <1>17 DEF Verify, ControlTypeOK, ControlHolds, GoTo, ControlStates
  <2>4. WorkerTypeOK' /\ WorkerHolds'
    BY <1>17, WorkerSame DEF Verify, wrk, hist
  <2> QED BY <2>1, <2>2, <2>3, <2>4
<1>18. ASSUME NEW p \in Procs, Reject(p)
       PROVE TypeInv'
  <2>1. QueueTypeOK'
    BY <1>18, QueueSame DEF Reject, Continue
  <2>2. FilesTypeOK'
    BY <1>18 DEF Reject, FilesTypeOK, Continue, node
  <2>3. ControlTypeOK' /\ ControlHolds'
    BY <1>18 DEF Reject, ControlTypeOK, ControlHolds, Continue, GoTo, ControlStates
  <2>4. WorkerTypeOK' /\ WorkerHolds'
    BY <1>18, WorkerFault DEF Reject, Continue, wrk, hist
  <2> QED BY <2>1, <2>2, <2>3, <2>4
<1>19. ASSUME NEW p \in Procs, Record(p)
       PROVE TypeInv'
  <2>1. QueueTypeOK'
    <3> name[p] \in Names
      BY <1>19 DEF Record, GoTo, ControlHolds
    <3> collected[name[p]].body \in Results
      BY <1>19, DirFields DEF Record, FilesTypeOK
    <3> QED
      BY <1>19, NamesJob, ResultFields DEF Record, mark_result, QueueTypeOK
  <2>2. FilesTypeOK'
    BY <1>19, FilesSame DEF Record, node
  <2>3. ControlTypeOK' /\ ControlHolds'
    BY <1>19 DEF Record, ControlTypeOK, ControlHolds, GoTo, ControlStates
  <2>4. WorkerTypeOK' /\ WorkerHolds'
    BY <1>19, WorkerSame DEF Record, wrk, hist
  <2> QED BY <2>1, <2>2, <2>3, <2>4
<1>20. ASSUME NEW p \in Procs, RecordFails(p)
       PROVE TypeInv'
  <2>1. QueueTypeOK'
    BY <1>20, QueueSame DEF RecordFails, Continue
  <2>2. FilesTypeOK'
    BY <1>20 DEF RecordFails, FilesTypeOK, Continue, node
  <2>3. ControlTypeOK' /\ ControlHolds'
    BY <1>20 DEF RecordFails, ControlTypeOK, ControlHolds, Continue, GoTo, ControlStates
  <2>4. WorkerTypeOK' /\ WorkerHolds'
    BY <1>20, WorkerFault DEF RecordFails, Continue, wrk, hist
  <2> QED BY <2>1, <2>2, <2>3, <2>4
<1>21. ASSUME NEW p \in Procs, Acknowledge(p)
       PROVE TypeInv'
  <2>1. QueueTypeOK'
    BY <1>21, QueueSame DEF Acknowledge, Continue
  <2>2. FilesTypeOK'
    <3> name[p] \in Names
      BY <1>21 DEF Acknowledge, Continue, GoTo, ControlHolds
    <3> QED
      BY <1>21, EmptyDirTyped DEF Acknowledge, Continue, MoveToArchive, FilesTypeOK
  <2>3. ControlTypeOK' /\ ControlHolds'
    BY <1>21 DEF Acknowledge, ControlTypeOK, ControlHolds, Continue, GoTo, ControlStates
  <2>4. WorkerTypeOK' /\ WorkerHolds'
    BY <1>21, WorkerFault DEF Acknowledge, Continue, wrk, hist
  <2> QED BY <2>1, <2>2, <2>3, <2>4
<1>22. ASSUME NEW p \in Procs, AcknowledgeFails(p)
       PROVE TypeInv'
  <2>1. QueueTypeOK'
    BY <1>22, QueueSame DEF AcknowledgeFails, Continue
  <2>2. FilesTypeOK'
    <3> name[p] \in Names
      BY <1>22 DEF AcknowledgeFails, Continue, GoTo, ControlHolds
    <3> QED
      BY <1>22, EmptyDirTyped DEF AcknowledgeFails, Continue, MoveToArchive, FilesTypeOK, node
  <2>3. ControlTypeOK' /\ ControlHolds'
    BY <1>22 DEF AcknowledgeFails, ControlTypeOK, ControlHolds, Continue, GoTo, ControlStates
  <2>4. WorkerTypeOK' /\ WorkerHolds'
    BY <1>22, WorkerFault DEF AcknowledgeFails, Continue, wrk, hist
  <2> QED BY <2>1, <2>2, <2>3, <2>4
<1>23. ASSUME NEW p \in Procs, ControlCrash(p)
       PROVE TypeInv'
  <2>1. QueueTypeOK'
    BY <1>23, QueueSame DEF ControlCrash
  <2>2. FilesTypeOK'
    BY <1>23, FilesSame DEF ControlCrash, node
  <2>3. ControlTypeOK' /\ ControlHolds'
    BY <1>23 DEF ControlCrash, ControlTypeOK, ControlHolds, ControlStates
  <2>4. WorkerTypeOK' /\ WorkerHolds'
    BY <1>23, WorkerFault DEF ControlCrash, wrk, hist
  <2> QED BY <2>1, <2>2, <2>3, <2>4
<1>24. ASSUME NEW j \in Jobs, Quarantine(j)
       PROVE TypeInv'
  <2>1. QueueTypeOK'
    BY <1>24, QueueSame DEF Quarantine
  <2>2. FilesTypeOK'
    BY <1>24 DEF Quarantine, FilesTypeOK
  <2>3. ControlTypeOK' /\ ControlHolds'
    BY <1>24, ControlSame DEF Quarantine, ctl
  <2>4. WorkerTypeOK' /\ WorkerHolds'
    BY <1>24, WorkerSame DEF Quarantine, wrk, hist
  <2> QED BY <2>1, <2>2, <2>3, <2>4
<1>25. ASSUME NEW j \in Jobs, Claim(j)
       PROVE TypeInv'
  <2>1. QueueTypeOK'
    BY <1>25, QueueSame DEF Claim
  <2>2. FilesTypeOK'
    BY <1>25 DEF Claim, FilesTypeOK
  <2>3. ControlTypeOK' /\ ControlHolds'
    BY <1>25, ControlSame DEF Claim, ctl
  <2>4. WorkerTypeOK' /\ WorkerHolds'
    BY <1>25 DEF Claim, WorkerTypeOK, WorkerHolds, WGoTo, WorkerStates, hist
  <2> QED BY <2>1, <2>2, <2>3, <2>4
<1>26. ASSUME NEW s \in Outcomes, Execute(s)
       PROVE TypeInv'
  <2>1. QueueTypeOK'
    BY <1>26, QueueSame DEF Execute
  <2>2. FilesTypeOK'
    BY <1>26, EmptyDirTyped, NameOfTyped DEF Execute, WGoTo, FilesTypeOK, WorkerHolds
  <2>3. ControlTypeOK' /\ ControlHolds'
    BY <1>26, ControlSame DEF Execute, ctl
  <2>4. WorkerTypeOK' /\ WorkerHolds'
    <3> wjob \in Jobs /\ Len(outcome[wjob]) < MaxRuns /\ outcome[wjob] \in Seq(Outcomes)
      BY <1>26 DEF Execute, WGoTo, WorkerHolds, WorkerTypeOK
    <3> DEFINE o == Append(outcome[wjob], s)
    <3>1. o \in Seq(Outcomes) /\ Len(o) = Len(outcome[wjob]) + 1 /\ o[Len(o)] = s /\ Len(o) <= MaxRuns
      BY FabricAssumption
    <3>2. outcome' = [outcome EXCEPT ![wjob] = o] /\ wrun' = [run |-> Len(o), status |-> s]
      BY <1>26, <3>1 DEF Execute
    <3>3. wrun' \in Results
      BY <3>1, <3>2, FabricAssumption DEF Results
    <3> HIDE DEF o
    <3>4. WorkerTypeOK'
      BY <1>26, <3>1, <3>2, <3>3 DEF Execute, WGoTo, WorkerTypeOK, WorkerStates
    <3>5. WorkerHolds'
      BY <1>26, <3>1, <3>2, <3>3 DEF Execute, WGoTo, WorkerTypeOK, WorkerHolds
    <3> QED
      BY <3>4, <3>5
  <2> QED BY <2>1, <2>2, <2>3, <2>4
<1>27. ASSUME WriteBody
       PROVE TypeInv'
  <2>1. QueueTypeOK'
    BY <1>27, QueueSame DEF WriteBody
  <2>2. FilesTypeOK'
    <3> wjob \in Jobs /\ wrun \in Results
      BY <1>27 DEF WriteBody, WGoTo, WorkerHolds
    <3> wname \in Names /\ results[wname] \in Dirs
      BY NameOfTyped DEF wname, FilesTypeOK
    <3> [results[wname] EXCEPT !.body = wrun] \in Dirs
      BY ResultFields, DirUpdate
    <3> QED
      BY <1>27 DEF WriteBody, FilesTypeOK
  <2>3. ControlTypeOK' /\ ControlHolds'
    BY <1>27, ControlSame DEF WriteBody, ctl
  <2>4. WorkerTypeOK' /\ WorkerHolds'
    BY <1>27 DEF WriteBody, WorkerTypeOK, WorkerHolds, WGoTo, WorkerStates, hist
  <2> QED BY <2>1, <2>2, <2>3, <2>4
<1>28. ASSUME WriteInputs
       PROVE TypeInv'
  <2>1. QueueTypeOK'
    BY <1>28, QueueSame DEF WriteInputs
  <2>2. FilesTypeOK'
    <3> wjob \in Jobs /\ wrun \in Results
      BY <1>28 DEF WriteInputs, WGoTo, WorkerHolds
    <3> wname \in Names /\ results[wname] \in Dirs
      BY NameOfTyped DEF wname, FilesTypeOK
    <3> [results[wname] EXCEPT !.inputs = TRUE] \in Dirs
      BY ResultFields, DirUpdate
    <3> QED
      BY <1>28 DEF WriteInputs, FilesTypeOK
  <2>3. ControlTypeOK' /\ ControlHolds'
    BY <1>28, ControlSame DEF WriteInputs, ctl
  <2>4. WorkerTypeOK' /\ WorkerHolds'
    BY <1>28 DEF WriteInputs, WorkerTypeOK, WorkerHolds, WGoTo, WorkerStates, hist
  <2> QED BY <2>1, <2>2, <2>3, <2>4
<1>29. ASSUME WriteManifest
       PROVE TypeInv'
  <2>1. QueueTypeOK'
    BY <1>29, QueueSame DEF WriteManifest
  <2>2. FilesTypeOK'
    <3> wjob \in Jobs /\ wrun \in Results
      BY <1>29 DEF WriteManifest, WGoTo, WorkerHolds
    <3> wname \in Names /\ results[wname] \in Dirs
      BY NameOfTyped DEF wname, FilesTypeOK
    <3> [results[wname] EXCEPT !.manifest = wrun.run] \in Dirs
      BY ResultFields, DirUpdate
    <3> QED
      BY <1>29 DEF WriteManifest, FilesTypeOK
  <2>3. ControlTypeOK' /\ ControlHolds'
    BY <1>29, ControlSame DEF WriteManifest, ctl
  <2>4. WorkerTypeOK' /\ WorkerHolds'
    <3> wjob \in Jobs /\ wrun \in Results /\ wrun.run \in 1 .. MaxRuns
      BY <1>29, ResultFields DEF WriteManifest, WGoTo, WorkerHolds
    <3> QED
      BY <1>29 DEF WriteManifest, WGoTo, WorkerTypeOK, WorkerHolds, WorkerStates
  <2> QED BY <2>1, <2>2, <2>3, <2>4
<1>30. ASSUME Archive
       PROVE TypeInv'
  <2>1. QueueTypeOK'
    BY <1>30, QueueSame DEF Archive
  <2>2. FilesTypeOK'
    BY <1>30 DEF Archive, FilesTypeOK
  <2>3. ControlTypeOK' /\ ControlHolds'
    BY <1>30, ControlSame DEF Archive, ctl
  <2>4. WorkerTypeOK' /\ WorkerHolds'
    BY <1>30, WorkerRests DEF Archive, hist
  <2> QED BY <2>1, <2>2, <2>3, <2>4
<1>31. ASSUME WorkerError
       PROVE TypeInv'
  <2>1. QueueTypeOK'
    BY <1>31, QueueSame DEF WorkerError
  <2>2. FilesTypeOK'
    BY <1>31, FilesSame DEF WorkerError, node
  <2>3. ControlTypeOK' /\ ControlHolds'
    BY <1>31, ControlSame DEF WorkerError, ctl
  <2>4. WorkerTypeOK' /\ WorkerHolds'
    BY <1>31, WorkerRests DEF WorkerError, hist
  <2> QED BY <2>1, <2>2, <2>3, <2>4
<1>32. ASSUME WorkerCrash
       PROVE TypeInv'
  <2>1. QueueTypeOK'
    BY <1>32, QueueSame DEF WorkerCrash
  <2>2. FilesTypeOK'
    BY <1>32, FilesSame DEF WorkerCrash, node
  <2>3. ControlTypeOK' /\ ControlHolds'
    BY <1>32, ControlSame DEF WorkerCrash, ctl
  <2>4. WorkerTypeOK' /\ WorkerHolds'
    BY <1>32, WorkerRests DEF WorkerCrash, hist
  <2> QED BY <2>1, <2>2, <2>3, <2>4
<1>33. CASE UNCHANGED vars
  BY <1>33, QueueSame, FilesSame, ControlSame, WorkerSame DEF vars
<1> QED
  BY <1>1, <1>2, <1>3, <1>4, <1>5, <1>6, <1>7, <1>8, <1>9, <1>10, <1>11,
     <1>12, <1>13, <1>14, <1>15, <1>16, <1>17, <1>18, <1>19, <1>20, <1>21, <1>22,
     <1>23, <1>24, <1>25, <1>26, <1>27, <1>28, <1>29, <1>30, <1>31, <1>32, <1>33
  DEF Next, ControlStep, WorkerStep

(* Every variable keeps its type, for any number of processes and jobs.    *)
THEOREM TypeCorrect == Spec => []TypeOK
<1>1. TypeInv => TypeOK
  BY DEF TypeInv
<1> QED
  BY <1>1, TypeInvInit, TypeInvStep, PTL DEF Spec

LEMMA TypeInvAlways == Spec => []TypeInv
  BY TypeInvInit, TypeInvStep, PTL DEF Spec

-----------------------------------------------------------------------------
(***************************************************************************)
(* One job per idempotency key.  Two rows never share a key, because the   *)
(* index refuses the second; whatever is on Node-01, or about to be sent   *)
(* there, or held by the worker, has a row; and a row is never deleted.    *)
(***************************************************************************)
HasRow(j) == status[j] # "ABSENT"

UniqueRows ==
  \A j, k \in Jobs : HasRow(j) /\ HasRow(k) /\ j # k /\ KeyOf[j] # NoKey => KeyOf[j] # KeyOf[k]

(* The directories of Node-01, one by one.                                 *)
NodeHasRow ==
  /\ \A j \in Jobs : j \in incoming \union inbox \union running \union failed => HasRow(j)
  /\ \A n \in Names : n \in present \union archive => HasRow(n[1])

HeldHasRow ==
  /\ \A p \in Procs : pc[p] \in {"unpack", "publish", "mark_ok", "mark_failed"} => HasRow(cur[p])
  /\ \A p \in Procs : \A j \in pend[p] : HasRow(j)
  /\ \A p \in Procs : pc[p] = "record" => HasRow(name[p][1])
  /\ wpc # "idle" => HasRow(wjob)

KeyInv == UniqueRows /\ NodeHasRow /\ HeldHasRow

(* A step that leaves the rows alone, or only adds one.                    *)
RowsKept == \A j \in Jobs : HasRow(j) => HasRow(j)'

LEMMA InsertedRow ==
  ASSUME TypeInv, UniqueRows, NEW j \in Jobs, ~KeyTaken(j), NEW b, InsertRow(j, b)
  PROVE  UniqueRows' /\ RowsKept /\ HasRow(j)'
<1>1. status' = [status EXCEPT ![j] = "QUEUED"] /\ status \in [Jobs -> {"ABSENT", "QUEUED", "REMOTE_QUEUED"} \union Outcomes]
  BY DEF InsertRow, TypeInv, TypeOK, QueueTypeOK
<1>2. \A k \in Jobs : HasRow(k)' <=> HasRow(k) \/ k = j
  BY <1>1 DEF HasRow
<1>3. KeyOf[j] = NoKey \/ \A k \in Jobs : HasRow(k) => KeyOf[k] # KeyOf[j]
  BY DEF KeyTaken, HasRow
<1> QED
  BY <1>2, <1>3 DEF UniqueRows, RowsKept

(* The rows are the same when the status column is.                        *)
LEMMA RowsSame ==
  ASSUME UNCHANGED status
  PROVE  /\ UniqueRows => UniqueRows'
         /\ RowsKept
  BY DEF UniqueRows, RowsKept, HasRow

(* The rows are the same when a row that exists gets another status.       *)
LEMMA RowsMarked ==
  ASSUME TypeInv, NEW j \in Jobs, HasRow(j), NEW s, s # "ABSENT", status' = [status EXCEPT ![j] = s]
  PROVE  /\ UniqueRows => UniqueRows'
         /\ RowsKept
<1>1. status \in [Jobs -> {"ABSENT", "QUEUED", "REMOTE_QUEUED"} \union Outcomes]
  BY DEF TypeInv, TypeOK, QueueTypeOK
<1>2. \A k \in Jobs : HasRow(k)' <=> HasRow(k)
  BY <1>1 DEF HasRow
<1> QED
  BY <1>2 DEF UniqueRows, RowsKept

(* The actions that change the status column, the directories of Node-01   *)
(* and what a process or the worker holds.                                 *)
LEMMA StatusSteps ==
  ASSUME [Next]_vars
  PROVE  \/ UNCHANGED status
         \/ \E p \in Procs : \/ \E j \in Jobs : SubmitQueueOnly(p, j)
                             \/ Enqueue(p) \/ MarkDispatched(p) \/ Record(p)
  BY DEF Next, ControlStep, WorkerStep, Build, EnqueueDuplicate, BeginDispatch, NextRow, Unpack,
         UnpackFails, Publish, PublishFails, MarkDispatchFailed, mark_dispatch_failed, BeginCollect,
         FetchStart, CopyFile, FetchFails, Verify, Reject, RecordFails, Acknowledge,
         AcknowledgeFails, ControlCrash, Continue, Quarantine, Claim, Execute, WriteBody,
         WriteInputs, WriteManifest, Archive, WorkerError, WorkerCrash, queue, vars

LEMMA RowsStep ==
  ASSUME TypeInv, KeyInv, [Next]_vars
  PROVE  UniqueRows' /\ RowsKept
<1>1. CASE UNCHANGED status
  BY <1>1, RowsSame DEF KeyInv
<1>2. ASSUME NEW p \in Procs, NEW j \in Jobs, SubmitQueueOnly(p, j)
      PROVE  UniqueRows' /\ RowsKept
  BY <1>2, InsertedRow DEF SubmitQueueOnly, KeyInv
<1>3. ASSUME NEW p \in Procs, Enqueue(p)
      PROVE  UniqueRows' /\ RowsKept
  <2>1. cur[p] \in Jobs
    BY <1>3 DEF Enqueue, GoTo, TypeInv, ControlHolds
  <2> QED
    BY <1>3, <2>1, InsertedRow DEF Enqueue, KeyInv
<1>4. ASSUME NEW p \in Procs, MarkDispatched(p)
      PROVE  UniqueRows' /\ RowsKept
  <2>1. cur[p] \in Jobs /\ HasRow(cur[p])
    BY <1>4 DEF MarkDispatched, AfterMark, GoTo, TypeInv, ControlHolds, KeyInv, HeldHasRow
  <2> QED
    BY <1>4, <2>1, RowsMarked DEF MarkDispatched, mark_dispatched, KeyInv
<1>5. ASSUME NEW p \in Procs, Record(p)
      PROVE  UniqueRows' /\ RowsKept
  <2> DEFINE j == name[p][1]
             r == collected[name[p]].body
  <2>1. pc[p] = "record" /\ name[p] \in Names /\ j \in Jobs /\ r \in Results
    BY <1>5, NamesJob, DirFields DEF Record, GoTo, TypeInv, ControlHolds, TypeOK, FilesTypeOK
  <2>2. r.status # "ABSENT"
    BY <2>1, ResultFields, FabricAssumption
  <2>3. HasRow(j)
    BY <2>1 DEF KeyInv, HeldHasRow
  <2> QED
    BY <1>5, <2>1, <2>2, <2>3, RowsMarked DEF Record, mark_result, KeyInv
<1> QED
  BY <1>1, <1>2, <1>3, <1>4, <1>5, StatusSteps

LEMMA NodeRowsStep ==
  ASSUME TypeInv, KeyInv, [Next]_vars, RowsKept
  PROVE  NodeHasRow'
<1> USE DEF KeyInv, TypeInv
<1>1. CASE UNCHANGED node
  BY <1>1, NamesJob DEF node, NodeHasRow, RowsKept
<1>2. ASSUME NEW p \in Procs, Unpack(p) \/ UnpackFails(p) \/ Publish(p) \/ PublishFails(p)
      PROVE  NodeHasRow'
  <2>1. cur[p] \in Jobs /\ HasRow(cur[p])
    BY <1>2 DEF Unpack, UnpackFails, Publish, PublishFails, GoTo, ControlHolds, HeldHasRow
  <2>2. /\ incoming' \subseteq incoming \union {cur[p]}
        /\ inbox' \subseteq inbox \union {cur[p]}
        /\ UNCHANGED <<running, failed, present, archive>>
    BY <1>2 DEF Unpack, UnpackFails, Publish, PublishFails, MoveToInbox, node
  <2> QED
    BY <2>1, <2>2, NamesJob DEF NodeHasRow, RowsKept
<1>3. ASSUME NEW p \in Procs, Acknowledge(p) \/ AcknowledgeFails(p)
      PROVE  NodeHasRow'
  <2>1. /\ present' \subseteq present
        /\ archive' \subseteq archive \union present
        /\ UNCHANGED <<incoming, inbox, running, failed>>
    BY <1>3 DEF Acknowledge, AcknowledgeFails, MoveToArchive, node
  <2> QED
    BY <2>1, NamesJob DEF NodeHasRow, RowsKept, TypeOK, FilesTypeOK
<1>4. ASSUME NEW j \in Jobs, Quarantine(j) \/ Claim(j)
      PROVE  NodeHasRow'
  BY <1>4, NamesJob DEF Quarantine, Claim, NodeHasRow, RowsKept
<1>5. ASSUME NEW s \in Outcomes, Execute(s)
      PROVE  NodeHasRow'
  BY <1>5, NamesJob, NameOfTyped DEF Execute, WGoTo, WorkerHolds, NodeHasRow, HeldHasRow, RowsKept
<1>6. ASSUME WriteBody \/ WriteInputs \/ WriteManifest
      PROVE  NodeHasRow'
  <2>1. wjob \in Jobs /\ HasRow(wjob) /\ wname \in Names /\ wname[1] = wjob
    BY <1>6, NameOfTyped DEF WriteBody, WriteInputs, WriteManifest, WGoTo, WorkerHolds, HeldHasRow, wname
  <2>2. /\ present' \subseteq present \union {wname}
        /\ UNCHANGED <<incoming, inbox, running, failed, archive>>
    BY <1>6 DEF WriteBody, WriteInputs, WriteManifest
  <2> QED
    BY <2>1, <2>2, NamesJob DEF NodeHasRow, RowsKept
<1>7. ASSUME Archive
      PROVE  NodeHasRow'
  BY <1>7, NamesJob DEF Archive, NodeHasRow, RowsKept
<1> QED
  BY <1>1, <1>2, <1>3, <1>4, <1>5, <1>6, <1>7
  DEF Next, ControlStep, WorkerStep, SubmitQueueOnly, Build, Enqueue, EnqueueDuplicate, BeginDispatch,
      NextRow, MarkDispatched, MarkDispatchFailed, AfterMark, BeginCollect, FetchStart, CopyFile,
      FetchFails, Verify, Reject, Record, RecordFails, ControlCrash, WorkerError, WorkerCrash, vars

LEMMA HeldRowsStep ==
  ASSUME TypeInv, KeyInv, [Next]_vars, RowsKept
  PROVE  HeldHasRow'
<1> USE NamesJob DEF KeyInv, TypeInv, TypeOK, ControlTypeOK, ControlHolds, WorkerHolds, GoTo
<1>1. CASE UNCHANGED <<ctl, wrk>>
  BY <1>1 DEF HeldHasRow, RowsKept, ctl, wrk
<1>2. ASSUME NEW p \in Procs, NEW j \in Jobs, Build(p, j)
      PROVE  HeldHasRow'
  BY <1>2 DEF HeldHasRow, RowsKept, wrk, Build
<1>3. ASSUME NEW p \in Procs, Enqueue(p)
      PROVE  HeldHasRow'
  <2>1. cur[p] \in Jobs /\ HasRow(cur[p])'
    BY <1>3, InsertedRow DEF Enqueue
  <2> QED
    BY <1>3, <2>1 DEF HeldHasRow, RowsKept, Enqueue, HasRow, wrk
<1>4. ASSUME NEW p \in Procs, EnqueueDuplicate(p)
      PROVE  HeldHasRow'
  BY <1>4 DEF HeldHasRow, RowsKept, wrk, EnqueueDuplicate
<1>5. ASSUME NEW p \in Procs, BeginDispatch(p)
      PROVE  HeldHasRow'
  BY <1>5 DEF HeldHasRow, RowsKept, wrk, BeginDispatch, rows_for_dispatch, HasRow
<1>6. ASSUME NEW p \in Procs, NEW j \in Jobs, NextRow(p, j)
      PROVE  HeldHasRow'
  BY <1>6 DEF HeldHasRow, RowsKept, wrk, NextRow
<1>7. ASSUME NEW p \in Procs, Unpack(p) \/ UnpackFails(p)
      PROVE  HeldHasRow'
  BY <1>7 DEF HeldHasRow, RowsKept, wrk, Unpack, UnpackFails
<1>8. ASSUME NEW p \in Procs, Publish(p) \/ PublishFails(p)
      PROVE  HeldHasRow'
  BY <1>8 DEF HeldHasRow, RowsKept, wrk, Publish, PublishFails
<1>9. ASSUME NEW p \in Procs, MarkDispatched(p) \/ MarkDispatchFailed(p)
      PROVE  HeldHasRow'
  BY <1>9 DEF HeldHasRow, RowsKept, wrk, MarkDispatched, MarkDispatchFailed, AfterMark
<1>10. ASSUME NEW p \in Procs, BeginCollect(p)
      PROVE  HeldHasRow'
  BY <1>10 DEF HeldHasRow, RowsKept, wrk, BeginCollect
<1>11. ASSUME NEW p \in Procs, NEW n \in Names, FetchStart(p, n)
      PROVE  HeldHasRow'
  BY <1>11 DEF HeldHasRow, RowsKept, wrk, FetchStart
<1>12. ASSUME NEW p \in Procs, NEW f \in Files, CopyFile(p, f)
      PROVE  HeldHasRow'
  BY <1>12 DEF HeldHasRow, RowsKept, wrk, CopyFile
<1>13. ASSUME NEW p \in Procs, Verify(p)
      PROVE  HeldHasRow'
  BY <1>13 DEF HeldHasRow, RowsKept, wrk, Verify, Verifies, HasRow
<1>14. ASSUME NEW p \in Procs, FetchFails(p) \/ Reject(p) \/ RecordFails(p)
      PROVE  HeldHasRow'
  BY <1>14 DEF HeldHasRow, RowsKept, wrk, FetchFails, Reject, RecordFails, Continue
<1>15. ASSUME NEW p \in Procs, Acknowledge(p) \/ AcknowledgeFails(p)
      PROVE  HeldHasRow'
  BY <1>15 DEF HeldHasRow, RowsKept, wrk, Acknowledge, AcknowledgeFails, Continue
<1>16. ASSUME NEW p \in Procs, Record(p)
      PROVE  HeldHasRow'
  BY <1>16 DEF HeldHasRow, RowsKept, wrk, Record
<1>17. ASSUME NEW p \in Procs, ControlCrash(p)
      PROVE  HeldHasRow'
  BY <1>17 DEF HeldHasRow, RowsKept, wrk, ControlCrash
<1>18. ASSUME NEW j \in Jobs, Claim(j)
      PROVE  HeldHasRow'
  BY <1>18 DEF HeldHasRow, RowsKept, wrk, Claim, WGoTo, NodeHasRow, ctl
<1>19. ASSUME NEW s \in Outcomes, Execute(s)
      PROVE  HeldHasRow'
  BY <1>19 DEF HeldHasRow, RowsKept, wrk, Execute, WGoTo, ctl
<1>20. ASSUME WriteBody \/ WriteInputs \/ WriteManifest
      PROVE  HeldHasRow'
  BY <1>20 DEF HeldHasRow, RowsKept, wrk, WriteBody, WriteInputs, WriteManifest, WGoTo, ctl
<1>21. ASSUME Archive \/ WorkerError \/ WorkerCrash
      PROVE  HeldHasRow'
  BY <1>21 DEF HeldHasRow, RowsKept, wrk, Archive, WorkerError, WorkerCrash, WorkerIdle, ctl
<1> QED
  BY <1>1, <1>2, <1>3, <1>4, <1>5, <1>6, <1>7, <1>8, <1>9, <1>10, <1>11, <1>12, <1>13, <1>14,
     <1>15, <1>16, <1>17, <1>18, <1>19, <1>20, <1>21
  DEF Next, ControlStep, WorkerStep, SubmitQueueOnly, Quarantine, vars

LEMMA KeyInvAlways == Spec => []KeyInv
<1>1. Init => KeyInv
  BY DEF Init, KeyInv, UniqueRows, NodeHasRow, HeldHasRow, HasRow
<1>2. TypeInv /\ KeyInv /\ [Next]_vars => KeyInv'
  BY RowsStep, NodeRowsStep, HeldRowsStep DEF KeyInv
<1> QED
  BY <1>1, <1>2, TypeInvAlways, PTL DEF Spec

(* Two jobs with the same idempotency key never both reach Node-01,        *)
(* however many processes submit, dispatch and collect at once and however *)
(* often they, the connection or the worker fail.                          *)
THEOREM KeyOnNodeOnce == Spec => []OneJobPerKey
<1>1. TypeInv /\ KeyInv => OneJobPerKey
  <2> SUFFICES ASSUME TypeInv, KeyInv, NEW j \in OnNode
               PROVE  j \in Jobs /\ HasRow(j)
    BY DEF OneJobPerKey, KeyInv, UniqueRows
  <2>1. CASE j \in incoming \union inbox \union running \union failed
    BY <2>1 DEF KeyInv, NodeHasRow, TypeInv, TypeOK, FilesTypeOK
  <2>2. ASSUME NEW n \in present \union archive, j = n[1]
        PROVE  j \in Jobs /\ HasRow(j)
    BY <2>2, NamesJob DEF KeyInv, NodeHasRow, TypeInv, TypeOK, FilesTypeOK
  <2> QED
    BY <2>1, <2>2 DEF OnNode
<1> QED
  BY <1>1, TypeInvAlways, KeyInvAlways, PTL

-----------------------------------------------------------------------------
(***************************************************************************)
(* Acknowledged only after it is recorded.  A process reaches the          *)
(* acknowledgement of a name only by recording a result of its job, and no *)
(* step takes a recorded result away again.                                *)
(***************************************************************************)
HasResult(j) == result_json[j] # NoResult

AckInv ==
  /\ AcknowledgedIsRecorded
  /\ \A p \in Procs : pc[p] = "ack" => HasResult(name[p][1])

ResultsKept == \A j \in Jobs : HasResult(j) => HasResult(j)'

LEMMA NoResultIsNone == NoResult \notin Results
  BY DEF Results, NoResult

LEMMA Recorded ==
  ASSUME TypeInv, NEW p \in Procs, Record(p)
  PROVE  /\ name[p] \in Names /\ name[p][1] \in Jobs
         /\ collected[name[p]].body \in Results
         /\ result_json' = [result_json EXCEPT ![name[p][1]] = collected[name[p]].body]
  BY NamesJob, DirFields
  DEF Record, mark_result, GoTo, TypeInv, ControlHolds, TypeOK, FilesTypeOK

LEMMA ResultSteps ==
  ASSUME [Next]_vars
  PROVE  UNCHANGED result_json \/ \E p \in Procs : Record(p)
  BY DEF Next, ControlStep, WorkerStep, SubmitQueueOnly, Build, Enqueue, InsertRow, EnqueueDuplicate,
         BeginDispatch, NextRow, Unpack, UnpackFails, Publish, PublishFails, MarkDispatched,
         mark_dispatched, MarkDispatchFailed, mark_dispatch_failed, BeginCollect, FetchStart,
         CopyFile, FetchFails, Verify, Reject, RecordFails, Acknowledge, AcknowledgeFails,
         ControlCrash, Continue, Quarantine, Claim, Execute, WriteBody, WriteInputs,
         WriteManifest, Archive, WorkerError, WorkerCrash, queue, vars

LEMMA ResultsStep ==
  ASSUME TypeInv, [Next]_vars
  PROVE  ResultsKept
<1>1. CASE UNCHANGED result_json
  BY <1>1 DEF ResultsKept, HasResult
<1>2. ASSUME NEW p \in Procs, Record(p)
      PROVE  ResultsKept
  BY <1>2, Recorded, NoResultIsNone DEF ResultsKept, HasResult, TypeInv, TypeOK, QueueTypeOK
<1> QED
  BY <1>1, <1>2, ResultSteps

LEMMA AckInvStep ==
  ASSUME TypeInv, AckInv, [Next]_vars, ResultsKept
  PROVE  AckInv'
<1> USE NamesJob DEF AckInv, AcknowledgedIsRecorded, HasResult, ResultsKept, TypeInv, TypeOK,
        FilesTypeOK, ControlTypeOK, ControlHolds, GoTo
<1>1. ASSUME NEW p \in Procs, Record(p)
      PROVE  AckInv'
  <2>1. result_json'[name[p][1]] # NoResult
    BY <1>1, Recorded, NoResultIsNone DEF QueueTypeOK
  <2> QED
    BY <1>1, <2>1 DEF Record, node
<1>2. ASSUME NEW p \in Procs, Acknowledge(p) \/ AcknowledgeFails(p)
      PROVE  AckInv'
  <2>1. pc[p] = "ack" /\ archive' \subseteq archive \union {name[p]}
    BY <1>2 DEF Acknowledge, AcknowledgeFails, Continue, MoveToArchive, node
  <2>2. /\ \A q \in Procs : pc'[q] = "ack" => pc[q] = "ack" /\ name'[q] = name[q]
    BY <1>2 DEF Acknowledge, AcknowledgeFails, Continue
  <2> QED
    BY <2>1, <2>2
<1>3. ASSUME UNCHANGED archive,
             \A q \in Procs : pc'[q] = "ack" => pc[q] = "ack" /\ name'[q] = name[q]
      PROVE  AckInv'
  BY <1>3
<1>4. ASSUME NEW p \in Procs,
             \/ \E j \in Jobs : Build(p, j) \/ NextRow(p, j)
             \/ Enqueue(p) \/ EnqueueDuplicate(p) \/ BeginDispatch(p) \/ BeginCollect(p)
             \/ Unpack(p) \/ UnpackFails(p) \/ MarkDispatched(p) \/ MarkDispatchFailed(p)
      PROVE  AckInv'
  <2>1. UNCHANGED <<archive, name>>
    BY <1>4 DEF Build, NextRow, Enqueue, EnqueueDuplicate, BeginDispatch, Unpack, UnpackFails,
        MarkDispatched, MarkDispatchFailed, AfterMark, BeginCollect, node
  <2>2. \E s \in ControlStates \ {"ack"} : pc' = [pc EXCEPT ![p] = s]
    BY <1>4 DEF Build, NextRow, Enqueue, EnqueueDuplicate, BeginDispatch, Unpack, UnpackFails,
        MarkDispatched, MarkDispatchFailed, AfterMark, BeginCollect, ControlStates
  <2> QED
    BY <1>3, <2>1, <2>2
<1>5. ASSUME NEW p \in Procs, Publish(p) \/ PublishFails(p)
      PROVE  AckInv'
  <2>1. UNCHANGED archive
    BY <1>5 DEF Publish, PublishFails, MoveToInbox, node
  <2> QED
    BY <1>3, <1>5, <2>1 DEF Publish, PublishFails
<1>6. ASSUME NEW p \in Procs,
             \/ \E n \in Names : FetchStart(p, n)
             \/ \E f \in Files : CopyFile(p, f)
             \/ Verify(p) \/ FetchFails(p) \/ Reject(p) \/ RecordFails(p) \/ ControlCrash(p)
      PROVE  AckInv'
  BY <1>3, <1>6 DEF FetchStart, CopyFile, Verify, FetchFails, Reject, RecordFails, ControlCrash,
      Continue, node
<1>7. ASSUME UNCHANGED <<pc, name, archive>>
      PROVE  AckInv'
  BY <1>3, <1>7
<1> QED
  BY <1>1, <1>2, <1>4, <1>5, <1>6, <1>7
  DEF Next, ControlStep, WorkerStep, SubmitQueueOnly, Quarantine, Claim, Execute, WriteBody,
      WriteInputs, WriteManifest, Archive, WorkerError, WorkerCrash, ctl, node, vars

(* A name moves out of results/ only when the queue holds a result of its  *)
(* job, for any number of collectors, and keeps holding one.               *)
THEOREM AcknowledgedRecorded == Spec => []AcknowledgedIsRecorded
<1>1. Init => AckInv
  BY DEF Init, AckInv, AcknowledgedIsRecorded
<1>2. TypeInv /\ AckInv /\ [Next]_vars => AckInv'
  BY ResultsStep, AckInvStep
<1>3. AckInv => AcknowledgedIsRecorded
  BY DEF AckInv
<1> QED
  BY <1>1, <1>2, <1>3, TypeInvAlways, PTL DEF Spec

-----------------------------------------------------------------------------
(***************************************************************************)
(* What is recorded was executed.  Every result in results/, in            *)
(* results_collected and in the queue is the one some execution of that    *)
(* job returned: a result is written by the worker that has just executed, *)
(* copied or removed, and the executions of a job are never forgotten.     *)
(***************************************************************************)
WasExecuted(j, r) == r # NoResult => r.run \in DOMAIN outcome[j] /\ outcome[j][r.run] = r.status

ResultsExecuted == \A n \in Names : WasExecuted(n[1], results[n].body)
CollectedExecuted == \A n \in Names : WasExecuted(n[1], collected[n].body)

ExecInv == ResultsExecuted /\ CollectedExecuted /\ RecordedWasExecuted

LEMMA OutcomesStep ==
  ASSUME TypeInv, [Next]_vars
  PROVE  \A j \in Jobs : \A i \in DOMAIN outcome[j] : i \in DOMAIN outcome'[j] /\ outcome'[j][i] = outcome[j][i]
<1>1. CASE UNCHANGED outcome
  BY <1>1
<1>2. ASSUME NEW s \in Outcomes, Execute(s)
      PROVE  \A j \in Jobs : \A i \in DOMAIN outcome[j] : i \in DOMAIN outcome'[j] /\ outcome'[j][i] = outcome[j][i]
  <2>1. wjob \in Jobs /\ outcome \in [Jobs -> Seq(Outcomes)]
    BY <1>2 DEF Execute, WGoTo, TypeInv, WorkerHolds, TypeOK, WorkerTypeOK
  <2>2. outcome' = [outcome EXCEPT ![wjob] = Append(@, s)]
    BY <1>2 DEF Execute
  <2> QED
    BY <2>1, <2>2
<1>3. ASSUME NEW p \in Procs,
             \/ \E j \in Jobs : SubmitQueueOnly(p, j) \/ Build(p, j)
             \/ BeginDispatch(p) \/ BeginCollect(p)
             \/ ControlStep(p)
             \/ UnpackFails(p) \/ PublishFails(p) \/ AcknowledgeFails(p) \/ ControlCrash(p)
      PROVE  UNCHANGED outcome
  BY <1>3
  DEF ControlStep, SubmitQueueOnly, Build, Enqueue, EnqueueDuplicate,
      BeginDispatch, NextRow, Unpack, UnpackFails, Publish, PublishFails, MarkDispatched,
      MarkDispatchFailed, AfterMark, BeginCollect, FetchStart, CopyFile, FetchFails, Verify, Reject,
      Record, RecordFails, Acknowledge, AcknowledgeFails, ControlCrash, Continue, hist
<1>4. ASSUME WorkerStep \/ WorkerCrash
      PROVE  UNCHANGED outcome \/ \E s \in Outcomes : Execute(s)
  BY <1>4
  DEF WorkerStep, Quarantine, Claim, WriteBody, WriteInputs, WriteManifest, Archive, WorkerError,
      WorkerCrash, hist
<1>5. ASSUME UNCHANGED vars
      PROVE  UNCHANGED outcome
  BY <1>5 DEF vars, hist
<1> QED
  BY <1>1, <1>2, <1>3, <1>4, <1>5 DEF Next

(* The directories of Node-01 change by the worker and the acknowledgement.*)
LEMMA ResultsDirStep ==
  ASSUME TypeInv, [Next]_vars, NEW n \in Names
  PROVE  \/ results'[n].body \in {results[n].body, NoResult}
         \/ /\ wpc = "body" /\ UNCHANGED outcome
            /\ n = wname /\ results'[n].body = wrun
<1> USE DEF TypeInv, TypeOK, FilesTypeOK
<1>1. CASE UNCHANGED results
  BY <1>1
<1>2. ASSUME NEW p \in Procs, Acknowledge(p) \/ AcknowledgeFails(p)
      PROVE  results'[n].body \in {results[n].body, NoResult}
  BY <1>2 DEF Acknowledge, AcknowledgeFails, MoveToArchive, EmptyDir, node
<1>3. ASSUME NEW s \in Outcomes, Execute(s)
      PROVE  results'[n].body \in {results[n].body, NoResult}
  BY <1>3 DEF Execute, EmptyDir
<1>4. ASSUME WriteBody
      PROVE  \/ results'[n].body = results[n].body
             \/ wpc = "body" /\ UNCHANGED outcome /\ n = wname /\ results'[n].body = wrun
  <2>1. results[n] \in Dirs /\ results' = [results EXCEPT ![wname] = [results[wname] EXCEPT !.body = wrun]]
    BY <1>4 DEF WriteBody
  <2>2. CASE n = wname
    BY <1>4, <2>1, <2>2 DEF WriteBody, WGoTo, Dirs, hist
  <2>3. CASE n # wname
    BY <2>1, <2>3
  <2> QED
    BY <2>2, <2>3
<1>5. ASSUME WriteInputs \/ WriteManifest
      PROVE  results'[n].body = results[n].body
  <2>1. results[n] \in Dirs
    OBVIOUS
  <2> QED
    BY <1>5, <2>1 DEF WriteInputs, WriteManifest, Dirs
<1>6. ASSUME WorkerStep \/ WorkerCrash
      PROVE  \/ UNCHANGED results
             \/ \E s \in Outcomes : Execute(s)
             \/ WriteBody \/ WriteInputs \/ WriteManifest
  BY <1>6 DEF WorkerStep, Quarantine, Claim, Archive, WorkerError, WorkerCrash, node
<1>7. ASSUME NEW p \in Procs,
             \/ \E j \in Jobs : SubmitQueueOnly(p, j) \/ Build(p, j)
             \/ BeginDispatch(p) \/ BeginCollect(p)
             \/ ControlStep(p)
             \/ UnpackFails(p) \/ PublishFails(p) \/ AcknowledgeFails(p) \/ ControlCrash(p)
      PROVE  \/ UNCHANGED results
             \/ Acknowledge(p) \/ AcknowledgeFails(p)
  BY <1>7
  DEF ControlStep, SubmitQueueOnly, Build, Enqueue, EnqueueDuplicate,
      BeginDispatch, NextRow, Unpack, UnpackFails, Publish, PublishFails, MoveToInbox, MarkDispatched,
      MarkDispatchFailed, AfterMark, BeginCollect, FetchStart, CopyFile, FetchFails, Verify, Reject,
      Record, RecordFails, ControlCrash, Continue, node
<1>8. ASSUME UNCHANGED vars
      PROVE  UNCHANGED results
  BY <1>8 DEF vars, node
<1>9. \/ UNCHANGED results
      \/ \E p \in Procs : Acknowledge(p) \/ AcknowledgeFails(p)
      \/ \E s \in Outcomes : Execute(s)
      \/ WriteBody \/ WriteInputs \/ WriteManifest
  BY <1>6, <1>7, <1>8 DEF Next
<1> QED
  BY <1>1, <1>2, <1>3, <1>4, <1>5, <1>9

(* The local copies change by the fetch, from the directories of Node-01.  *)
LEMMA CollectedDirStep ==
  ASSUME TypeInv, [Next]_vars, NEW n \in Names
  PROVE  collected'[n].body \in {collected[n].body, NoResult, results[n].body}
<1> USE DEF TypeInv, TypeOK, FilesTypeOK
<1>1. CASE UNCHANGED collected
  BY <1>1
<1>2. ASSUME NEW p \in Procs, NEW m \in Names, FetchStart(p, m)
      PROVE  collected'[n].body \in {collected[n].body, NoResult}
  BY <1>2 DEF FetchStart, EmptyDir
<1>3. ASSUME NEW p \in Procs, NEW f \in Files, CopyFile(p, f)
      PROVE  collected'[n].body \in {collected[n].body, results[n].body}
  <2>1. collected[n] \in Dirs /\ results[n] \in Dirs
    OBVIOUS
  <2>2. CASE n = name[p]
    BY <1>3, <2>1, <2>2, CopyTyped DEF CopyFile
  <2>3. CASE n # name[p]
    BY <1>3, <2>3 DEF CopyFile
  <2> QED
    BY <2>2, <2>3
<1>4. ASSUME NEW p \in Procs,
             \/ \E j \in Jobs : SubmitQueueOnly(p, j) \/ Build(p, j)
             \/ BeginDispatch(p) \/ BeginCollect(p)
             \/ ControlStep(p)
             \/ UnpackFails(p) \/ PublishFails(p) \/ AcknowledgeFails(p) \/ ControlCrash(p)
      PROVE  \/ UNCHANGED collected
             \/ \E m \in Names : FetchStart(p, m)
             \/ \E f \in Files : CopyFile(p, f)
  BY <1>4
  DEF ControlStep, SubmitQueueOnly, Build, Enqueue, EnqueueDuplicate,
      BeginDispatch, NextRow, Unpack, UnpackFails, Publish, PublishFails, MarkDispatched,
      MarkDispatchFailed, AfterMark, BeginCollect, FetchFails, Verify, Reject, Record, RecordFails,
      Acknowledge, AcknowledgeFails, ControlCrash, Continue
<1>5. ASSUME WorkerStep \/ WorkerCrash
      PROVE  UNCHANGED collected
  BY <1>5
  DEF WorkerStep, Quarantine, Claim, Execute, WriteBody, WriteInputs, WriteManifest, Archive,
      WorkerError, WorkerCrash
<1>6. ASSUME UNCHANGED vars
      PROVE  UNCHANGED collected
  BY <1>6 DEF vars
<1> QED
  BY <1>1, <1>2, <1>3, <1>4, <1>5, <1>6 DEF Next

LEMMA ExecInvStep ==
  ASSUME TypeInv, ExecInv, [Next]_vars
  PROVE  ExecInv'
<1>1. \A j \in Jobs : \A r : WasExecuted(j, r) => WasExecuted(j, r)'
  BY OutcomesStep DEF WasExecuted
<1>2. ResultsExecuted'
  <2> SUFFICES ASSUME NEW n \in Names PROVE WasExecuted(n[1], results[n].body)'
    BY DEF ResultsExecuted
  <2>1. CASE results'[n].body \in {results[n].body, NoResult}
    BY <1>1, <2>1, NamesJob DEF ExecInv, ResultsExecuted, WasExecuted
  <2>2. CASE wpc = "body" /\ UNCHANGED outcome /\ n = wname /\ results'[n].body = wrun
    <3>1. n[1] = wjob /\ wjob \in Jobs /\ wrun \in Results /\ wrun.run = Len(outcome[wjob])
          /\ outcome[wjob][wrun.run] = wrun.status /\ outcome[wjob] \in Seq(Outcomes)
      BY <2>2, NameOfTyped DEF TypeInv, TypeOK, WorkerTypeOK, WorkerHolds, wname
    <3>2. wrun.run \in DOMAIN outcome[wjob]
      BY <3>1, ResultFields
    <3> QED
      BY <2>2, <3>1, <3>2 DEF WasExecuted
  <2> QED
    BY <2>1, <2>2, ResultsDirStep
<1>3. CollectedExecuted'
  <2> SUFFICES ASSUME NEW n \in Names PROVE WasExecuted(n[1], collected[n].body)'
    BY DEF CollectedExecuted
  <2>1. PICK r \in {collected[n].body, NoResult, results[n].body} : collected'[n].body = r
    BY CollectedDirStep
  <2>2. WasExecuted(n[1], r)
    BY DEF ExecInv, CollectedExecuted, ResultsExecuted, WasExecuted
  <2> QED
    BY <1>1, <2>1, <2>2, NamesJob DEF WasExecuted
<1>4. RecordedWasExecuted'
  <2>1. CASE UNCHANGED result_json
    BY <1>1, <2>1 DEF ExecInv, RecordedWasExecuted, WasExecuted
  <2>2. ASSUME NEW p \in Procs, Record(p) PROVE RecordedWasExecuted'
    <3>1. result_json \in [Jobs -> Results \union {NoResult}]
      BY DEF TypeInv, TypeOK, QueueTypeOK
    <3>2. PICK n \in Names : n[1] \in Jobs /\ result_json' = [result_json EXCEPT ![n[1]] = collected[n].body]
      BY <2>2, Recorded
    <3>3. collected' = collected /\ outcome' = outcome
      BY <2>2 DEF Record, hist
    <3>4. \A j \in Jobs : result_json'[j] = result_json[j] \/ (j = n[1] /\ result_json'[j] = collected[n].body)
      BY <3>1, <3>2
    <3> QED
      BY <3>2, <3>3, <3>4 DEF ExecInv, CollectedExecuted, RecordedWasExecuted, WasExecuted
  <2> QED
    BY <2>1, <2>2, ResultSteps
<1> QED
  BY <1>2, <1>3, <1>4 DEF ExecInv

(* A result the queue holds is what an execution of that very job on       *)
(* Node-01 returned, for any number of collectors, crashes and retries.    *)
THEOREM RecordedExecuted == Spec => []RecordedWasExecuted
<1>1. Init => ExecInv
  BY NamesJob DEF Init, ExecInv, ResultsExecuted, CollectedExecuted, RecordedWasExecuted, WasExecuted, EmptyDir
<1>2. TypeInv /\ ExecInv /\ [Next]_vars => ExecInv'
  BY ExecInvStep
<1>3. ExecInv => RecordedWasExecuted
  BY DEF ExecInv
<1> QED
  BY <1>1, <1>2, <1>3, TypeInvAlways, PTL DEF Spec

-----------------------------------------------------------------------------
(***************************************************************************)
(* A collected result is final when there is one control process.  The     *)
(* process then holds rows to dispatch only while it dispatches, took them *)
(* when they had no result, and collects nothing until it has marked the   *)
(* last one.                                                               *)
(***************************************************************************)
NotCollected(j) == dispatch_status[j] # "RESULT_COLLECTED"

Dispatching == {"unpack", "publish", "mark_ok", "mark_failed"}

FinalInv ==
  /\ \A j \in Jobs : ~HasRow(j) => dispatch_status[j] = "ABSENT"
  /\ \A p \in Procs : pc[p] \notin Dispatching \union {"dispatch"} => pend[p] = {}
  /\ \A p \in Procs : \A j \in pend[p] : NotCollected(j)
  /\ \A p \in Procs : pc[p] \in Dispatching => NotCollected(cur[p])
  /\ \A p \in Procs : pc[p] = "enqueue" => ~HasRow(cur[p])

(* No step of a single process takes RESULT_COLLECTED away.                *)
FinalStep == \A j \in Jobs : dispatch_status[j] = "RESULT_COLLECTED" =>
                                dispatch_status'[j] = "RESULT_COLLECTED"

LEMMA FinalInvStep ==
  ASSUME NEW p, Procs = {p}, TypeInv, KeyInv, FinalInv, [Next]_vars
  PROVE  FinalInv' /\ FinalStep
<1> USE DEF FinalInv, FinalStep, NotCollected, Dispatching, HasRow, GoTo, TypeInv, TypeOK,
        QueueTypeOK, ControlTypeOK, ControlHolds
<1>1. CASE UNCHANGED <<queue, ctl>>
  BY <1>1 DEF queue, ctl
<1>2. ASSUME NEW j \in Jobs, SubmitQueueOnly(p, j)
      PROVE  FinalInv' /\ FinalStep
  BY <1>2 DEF SubmitQueueOnly, InsertRow, ctl
<1>3. ASSUME NEW j \in Jobs, Build(p, j)
      PROVE  FinalInv' /\ FinalStep
  BY <1>3 DEF Build, queue
<1>4. ASSUME Enqueue(p)
      PROVE  FinalInv' /\ FinalStep
  BY <1>4 DEF Enqueue, InsertRow
<1>5. ASSUME EnqueueDuplicate(p)
      PROVE  FinalInv' /\ FinalStep
  BY <1>5 DEF EnqueueDuplicate, queue
<1>6. ASSUME BeginDispatch(p)
      PROVE  FinalInv' /\ FinalStep
  BY <1>6 DEF BeginDispatch, rows_for_dispatch, queue
<1>7. ASSUME NEW j \in Jobs, NextRow(p, j)
      PROVE  FinalInv' /\ FinalStep
  BY <1>7 DEF NextRow, queue
<1>8. ASSUME Unpack(p) \/ UnpackFails(p)
      PROVE  FinalInv' /\ FinalStep
  BY <1>8 DEF Unpack, UnpackFails, queue
<1>9. ASSUME Publish(p) \/ PublishFails(p)
      PROVE  FinalInv' /\ FinalStep
  BY <1>9 DEF Publish, PublishFails, queue
<1>10. ASSUME MarkDispatched(p)
       PROVE  FinalInv' /\ FinalStep
  BY <1>10 DEF MarkDispatched, AfterMark, mark_dispatched
<1>11. ASSUME MarkDispatchFailed(p)
       PROVE  FinalInv' /\ FinalStep
  BY <1>11 DEF MarkDispatchFailed, AfterMark, mark_dispatch_failed, KeyInv, HeldHasRow
<1>12. ASSUME BeginCollect(p)
       PROVE  FinalInv' /\ FinalStep
  BY <1>12 DEF BeginCollect, queue
<1>13. ASSUME NEW n \in Names, FetchStart(p, n)
       PROVE  FinalInv' /\ FinalStep
  BY <1>13 DEF FetchStart, queue
<1>14. ASSUME NEW f \in Files, CopyFile(p, f)
       PROVE  FinalInv' /\ FinalStep
  BY <1>14 DEF CopyFile, queue
<1>15. ASSUME Verify(p)
       PROVE  FinalInv' /\ FinalStep
  BY <1>15 DEF Verify, queue
<1>16. ASSUME FetchFails(p) \/ Reject(p) \/ RecordFails(p)
       PROVE  FinalInv' /\ FinalStep
  BY <1>16 DEF FetchFails, Reject, RecordFails, Continue, queue
<1>17. ASSUME Acknowledge(p) \/ AcknowledgeFails(p)
       PROVE  FinalInv' /\ FinalStep
  BY <1>17 DEF Acknowledge, AcknowledgeFails, Continue, queue
<1>18. ASSUME ControlCrash(p)
       PROVE  FinalInv' /\ FinalStep
  BY <1>18 DEF ControlCrash, queue
<1>19. ASSUME Record(p)
       PROVE  FinalInv' /\ FinalStep
  <2> DEFINE j == name[p][1]
             r == collected[name[p]].body
  <2>1. j \in Jobs /\ r \in Results /\ r.status # "ABSENT"
    BY <1>19, Recorded, ResultFields, FabricAssumption
  <2>2. /\ status' = [status EXCEPT ![j] = r.status]
        /\ dispatch_status' = [dispatch_status EXCEPT ![j] = "RESULT_COLLECTED"]
        /\ pc[p] = "record" /\ pc' = [pc EXCEPT ![p] = "ack"] /\ UNCHANGED <<pend, cur>>
    BY <1>19 DEF Record, mark_result
  <2> HIDE DEF j, r
  <2> QED
    BY <2>1, <2>2
<1> QED
  BY <1>1, <1>2, <1>3, <1>4, <1>5, <1>6, <1>7, <1>8, <1>9, <1>10, <1>11, <1>12, <1>13, <1>14,
     <1>15, <1>16, <1>17, <1>18, <1>19
  DEF Next, ControlStep, WorkerStep, Quarantine, Claim, Execute, WriteBody, WriteInputs,
      WriteManifest, Archive, WorkerError, WorkerCrash, vars

(* With one control process, a row whose result was collected is never     *)
(* marked as dispatched or failed again.                                   *)
THEOREM CollectedFinal == ASSUME NEW p, Procs = {p} PROVE Spec => CollectedIsFinal
<1>1. Init => FinalInv
  BY DEF Init, FinalInv, NotCollected, Dispatching, HasRow
<1>2. TypeInv /\ KeyInv /\ FinalInv /\ [Next]_vars => FinalInv' /\ [FinalStep]_vars
  BY FinalInvStep
<1>3. [FinalStep]_vars <=>
      [\A j \in Jobs : dispatch_status[j] = "RESULT_COLLECTED" =>
                         dispatch_status'[j] = "RESULT_COLLECTED"]_vars
  BY DEF FinalStep
<1> QED
  BY <1>1, <1>2, <1>3, TypeInvAlways, KeyInvAlways, PTL DEF Spec, CollectedIsFinal

-----------------------------------------------------------------------------
(***************************************************************************)
(* The fabric implements the ledger: each step inserts one row, appends    *)
(* one execution, records one executed result or retires one bundle, or    *)
(* leaves all four alone.  The invariants above supply what the ledger's   *)
(* guards ask for.                                                         *)
(***************************************************************************)
(* A job whose row is about to be inserted has none: its bundle is in the  *)
(* outbox, and no other process is inserting it.                           *)
FreshInv ==
  \A p \in Procs : pc[p] = "enqueue" =>
    /\ cur[p] \in outbox /\ ~HasRow(cur[p])
    /\ \A q \in Procs : pc[q] = "enqueue" /\ q # p => cur[q] # cur[p]

LEMMA FreshInvStep ==
  ASSUME TypeInv, KeyInv, FreshInv, [Next]_vars
  PROVE  FreshInv'
<1> USE DEF FreshInv, GoTo, TypeInv, TypeOK, ControlTypeOK, ControlHolds, QueueTypeOK
<1>1. ASSUME UNCHANGED status, outbox \subseteq outbox',
             \A q \in Procs : pc'[q] = "enqueue" => pc[q] = "enqueue" /\ cur'[q] = cur[q]
      PROVE  FreshInv'
  BY <1>1 DEF HasRow
<1>2. ASSUME NEW p \in Procs, NEW j \in Jobs, SubmitQueueOnly(p, j)
      PROVE  FreshInv'
  BY <1>2 DEF SubmitQueueOnly, InsertRow, HasRow, ctl
<1>3. ASSUME NEW p \in Procs, NEW j \in Jobs, Build(p, j)
      PROVE  FreshInv'
  BY <1>3 DEF Build, HasRow, queue
<1>4. ASSUME NEW p \in Procs, Enqueue(p)
      PROVE  FreshInv'
  BY <1>4 DEF Enqueue, InsertRow, HasRow
<1>5. ASSUME NEW p \in Procs, EnqueueDuplicate(p)
      PROVE  FreshInv'
  BY <1>1, <1>5 DEF EnqueueDuplicate, queue
<1>6. ASSUME NEW p \in Procs, MarkDispatched(p)
      PROVE  FreshInv'
  BY <1>6 DEF MarkDispatched, AfterMark, mark_dispatched, HasRow, KeyInv, HeldHasRow
<1>7. ASSUME NEW p \in Procs, MarkDispatchFailed(p)
      PROVE  FreshInv'
  BY <1>7 DEF MarkDispatchFailed, AfterMark, mark_dispatch_failed, HasRow
<1>8. ASSUME NEW p \in Procs, Record(p)
      PROVE  FreshInv'
  <2>1. name[p][1] \in Jobs /\ HasRow(name[p][1])
    BY <1>8, NamesJob DEF Record, KeyInv, HeldHasRow
  <2> QED
    BY <1>8, <2>1 DEF Record, mark_result, HasRow
<1>9. ASSUME NEW p \in Procs,
             \/ \E j \in Jobs : NextRow(p, j)
             \/ BeginDispatch(p) \/ Unpack(p) \/ UnpackFails(p) \/ Publish(p) \/ PublishFails(p)
      PROVE  FreshInv'
  <2>1. UNCHANGED <<status, outbox>>
    BY <1>9 DEF NextRow, BeginDispatch, Unpack, UnpackFails, Publish, PublishFails, queue
  <2>2. \A q \in Procs : pc'[q] = "enqueue" => pc[q] = "enqueue" /\ cur'[q] = cur[q]
    BY <1>9 DEF NextRow, BeginDispatch, Unpack, UnpackFails, Publish, PublishFails
  <2> QED
    BY <1>1, <2>1, <2>2
<1>10. ASSUME NEW p \in Procs,
              \/ \E n \in Names : FetchStart(p, n)
              \/ \E f \in Files : CopyFile(p, f)
              \/ BeginCollect(p) \/ Verify(p) \/ FetchFails(p) \/ Reject(p) \/ RecordFails(p)
              \/ Acknowledge(p) \/ AcknowledgeFails(p) \/ ControlCrash(p)
       PROVE  FreshInv'
  <2>1. UNCHANGED <<status, outbox>>
    BY <1>10 DEF FetchStart, CopyFile, BeginCollect, Verify, FetchFails, Reject, RecordFails,
        Acknowledge, AcknowledgeFails, ControlCrash, Continue, queue
  <2>2. \A q \in Procs : pc'[q] = "enqueue" => pc[q] = "enqueue" /\ cur'[q] = cur[q]
    BY <1>10 DEF FetchStart, CopyFile, BeginCollect, Verify, FetchFails, Reject, RecordFails,
        Acknowledge, AcknowledgeFails, ControlCrash, Continue
  <2> QED
    BY <1>1, <2>1, <2>2
<1>11. CASE UNCHANGED <<queue, outbox, ctl>>
  BY <1>1, <1>11 DEF queue, ctl
<1> QED
  BY <1>2, <1>3, <1>4, <1>5, <1>6, <1>7, <1>8, <1>9, <1>10, <1>11
  DEF Next, ControlStep, WorkerStep, Quarantine, Claim, Execute, WriteBody, WriteInputs,
      WriteManifest, Archive, WorkerError, WorkerCrash, vars

LEMMA LedgerStep ==
  ASSUME TypeInv, KeyInv, ExecInv, AckInv, FreshInv, [Next]_vars
  PROVE  [Ledger!Next]_(Ledger!ledger)
<1> USE DEF TypeInv, TypeOK, QueueTypeOK, GoTo, Ledger!ledger
<1>1. ASSUME NEW j \in Jobs, NEW b, ~HasRow(j), ~KeyTaken(j), InsertRow(j, b),
             UNCHANGED <<outcome, archive>>
      PROVE  Ledger!Accept(j)
  <2>1. status' = [status EXCEPT ![j] = "QUEUED"] /\ UNCHANGED result_json
    BY <1>1 DEF InsertRow
  <2>2. {k \in Jobs : status'[k] # "ABSENT"} = {k \in Jobs : status[k] # "ABSENT"} \union {j}
    BY <2>1
  <2> QED
    BY <1>1, <2>1, <2>2 DEF Ledger!Accept, KeyTaken, HasRow
<1>2. ASSUME NEW p \in Procs, Record(p)
      PROVE  \E k \in Jobs : Ledger!RecordRun(k)
  <2> DEFINE j == name[p][1]
             r == collected[name[p]].body
  <2>1. j \in Jobs /\ r \in Results /\ r # NoResult /\ HasRow(j) /\ WasExecuted(j, r)
    BY <1>2, Recorded, NoResultIsNone
    DEF Record, KeyInv, HeldHasRow, ExecInv, CollectedExecuted
  <2>2. /\ result_json' = [result_json EXCEPT ![j] = r]
        /\ status' = [status EXCEPT ![j] = r.status]
        /\ UNCHANGED <<outcome, archive>>
    BY <1>2 DEF Record, mark_result, hist, node
  <2>3. r = [run |-> r.run, status |-> outcome[j][r.run]] /\ r.run \in DOMAIN outcome[j]
    BY <2>1 DEF WasExecuted, Results
  <2>4. {k \in Jobs : status'[k] # "ABSENT"} = {k \in Jobs : status[k] # "ABSENT"}
    BY <2>1, <2>2, ResultFields, FabricAssumption DEF HasRow
  <2>5. Ledger!RecordRun(j)
    <3> HIDE DEF j, r
    <3> QED
      BY <2>1, <2>2, <2>3, <2>4 DEF Ledger!RecordRun, HasRow
  <2> QED
    BY <2>1, <2>5
<1>3. ASSUME NEW p \in Procs, NEW j \in Jobs, SubmitQueueOnly(p, j)
      PROVE  \E k \in Jobs : Ledger!Accept(k)
  BY <1>1, <1>3 DEF SubmitQueueOnly, HasRow, hist, node
<1>4. ASSUME NEW p \in Procs, Enqueue(p)
      PROVE  \E k \in Jobs : Ledger!Accept(k)
  <2>1. PICK j \in Jobs : j = cur[p]
    BY <1>4 DEF Enqueue, TypeInv, ControlHolds
  <2>2. ~HasRow(j) /\ ~KeyTaken(j) /\ InsertRow(j, TRUE) /\ UNCHANGED <<outcome, archive>>
    BY <1>4, <2>1 DEF Enqueue, FreshInv, hist, node
  <2> QED
    BY <1>1, <2>2
<1>5. ASSUME NEW p \in Procs, MarkDispatched(p) \/ MarkDispatchFailed(p)
      PROVE  UNCHANGED Ledger!ledger
  <2>1. cur[p] \in Jobs /\ HasRow(cur[p])
    BY <1>5 DEF MarkDispatched, MarkDispatchFailed, AfterMark, TypeInv, ControlHolds, KeyInv, HeldHasRow
  <2>2. /\ status' \in {status, [status EXCEPT ![cur[p]] = "REMOTE_QUEUED"]}
        /\ UNCHANGED <<outcome, result_json, archive>>
    BY <1>5 DEF MarkDispatched, MarkDispatchFailed, AfterMark, mark_dispatched, mark_dispatch_failed,
        hist, node
  <2>3. {k \in Jobs : status'[k] # "ABSENT"} = {k \in Jobs : status[k] # "ABSENT"}
    BY <2>1, <2>2 DEF HasRow
  <2> QED
    BY <2>2, <2>3
<1>6. ASSUME NEW p \in Procs, Acknowledge(p) \/ AcknowledgeFails(p)
      PROVE  (\E n \in Names : Ledger!Retire(n)) \/ UNCHANGED Ledger!ledger
  <2>1. name[p] \in Names /\ result_json[name[p][1]] # NoResult
    BY <1>6 DEF Acknowledge, AcknowledgeFails, Continue, AckInv, HasResult, TypeInv, ControlHolds
  <2>2. archive' \in {archive, archive \union {name[p]}, archive \ {name[p]}}
        /\ UNCHANGED <<status, outcome, result_json>>
    BY <1>6 DEF Acknowledge, AcknowledgeFails, Continue, MoveToArchive, queue, hist, node
  <2> QED
    BY <2>1, <2>2 DEF Ledger!Retire
<1>7. ASSUME NEW s \in Outcomes, Execute(s)
      PROVE  \E j \in Jobs : Ledger!Run(j, s)
  <2>1. wjob \in Jobs /\ HasRow(wjob)
    BY <1>7 DEF Execute, WGoTo, TypeInv, WorkerHolds, KeyInv, HeldHasRow
  <2> QED
    BY <1>7, <2>1 DEF Execute, Ledger!Run, HasRow, queue
<1>8. CASE UNCHANGED <<queue, outcome, archive>>
  BY <1>8 DEF queue
<1>9. ASSUME NEW p \in Procs,
             \/ \E j \in Jobs : Build(p, j) \/ NextRow(p, j)
             \/ \E n \in Names : FetchStart(p, n)
             \/ \E f \in Files : CopyFile(p, f)
             \/ EnqueueDuplicate(p) \/ BeginDispatch(p) \/ Unpack(p) \/ UnpackFails(p)
             \/ Publish(p) \/ PublishFails(p) \/ BeginCollect(p) \/ FetchFails(p) \/ Verify(p)
             \/ Reject(p) \/ RecordFails(p) \/ ControlCrash(p)
      PROVE  UNCHANGED <<queue, outcome, archive>>
  BY <1>9 DEF Build, NextRow, FetchStart, CopyFile, EnqueueDuplicate, BeginDispatch, Unpack,
      UnpackFails, Publish, PublishFails, MoveToInbox, BeginCollect, FetchFails, Verify, Reject,
      RecordFails, ControlCrash, Continue, node, hist
<1>10. ASSUME \/ \E j \in Jobs : Quarantine(j) \/ Claim(j)
              \/ WriteBody \/ WriteInputs \/ WriteManifest \/ Archive \/ WorkerError \/ WorkerCrash
              \/ UNCHANGED vars
       PROVE  UNCHANGED <<queue, outcome, archive>>
  BY <1>10 DEF Quarantine, Claim, WriteBody, WriteInputs, WriteManifest, Archive, WorkerError,
      WorkerCrash, node, hist, vars
<1>11. ASSUME NEW p \in Procs,
              \/ \E j \in Jobs : SubmitQueueOnly(p, j)
              \/ Enqueue(p) \/ MarkDispatched(p) \/ MarkDispatchFailed(p) \/ Record(p)
              \/ Acknowledge(p) \/ AcknowledgeFails(p)
       PROVE  Ledger!Next \/ UNCHANGED Ledger!ledger
  BY <1>2, <1>3, <1>4, <1>5, <1>6, <1>11 DEF Ledger!Next
<1>12. ASSUME NEW s \in Outcomes, Execute(s)
       PROVE  Ledger!Next
  BY <1>7, <1>12 DEF Ledger!Next
<1> QED
  BY <1>8, <1>9, <1>10, <1>11, <1>12 DEF Next, ControlStep, WorkerStep

(* The queue, the executions and the archive follow the ledger: the fabric *)
(* implements JobLedger, for any number of processes, jobs and failures.   *)
THEOREM FabricImplementsLedger == Spec => ImplementsLedger
<1>1. Init => Ledger!Init /\ KeyInv /\ ExecInv /\ AckInv /\ FreshInv
  BY NamesJob DEF Init, Ledger!Init, KeyInv, UniqueRows, NodeHasRow, HeldHasRow, HasRow, ExecInv,
     ResultsExecuted, CollectedExecuted, RecordedWasExecuted, WasExecuted, EmptyDir, AckInv,
     AcknowledgedIsRecorded, FreshInv
<1>2. TypeInv /\ KeyInv /\ ExecInv /\ AckInv /\ FreshInv /\ [Next]_vars
        => KeyInv' /\ ExecInv' /\ AckInv' /\ FreshInv'
  BY RowsStep, NodeRowsStep, HeldRowsStep, ExecInvStep, ResultsStep, AckInvStep, FreshInvStep DEF KeyInv
<1>3. TypeInv /\ KeyInv /\ ExecInv /\ AckInv /\ FreshInv /\ [Next]_vars => [Ledger!Next]_(Ledger!ledger)
  BY LedgerStep
<1> QED
  BY <1>1, <1>2, <1>3, TypeInvAlways, PTL DEF Spec, ImplementsLedger, Ledger!Spec

-----------------------------------------------------------------------------
(***************************************************************************)
(* What is recorded was complete.  A body and a manifest of one execution  *)
(* lie side by side in results/ only when that execution wrote both, for   *)
(* the body is there first and every execution makes the directory afresh. *)
(* A single process removes nothing while it copies: the files it copies,  *)
(* in any order, agree only if they agreed on Node-01.                     *)
(***************************************************************************)
(* Execution k of the job of name n is on its way, and has put its body in *)
(* the directory of n.                                                     *)
InComplete(n, k) == <<n[1], k>> \in complete

Making(n, k) == wpc \in {"body", "inputs", "manifest"} /\ wjob = n[1] /\ wrun.run = k

Placed(n) == wpc # "body" /\ n = wname /\ results[n].body = wrun

(* A manifest is that of an earlier execution, a body that is hashed by    *)
(* the manifest beside it is the one of a complete bundle.                 *)
Older(n, d) == d.manifest <= Len(outcome[n[1]]) /\ ~Making(n, d.manifest)

Whole(n, d) == d.body # NoResult /\ d.manifest = d.body.run => InComplete(n, d.body.run)

DirsInv ==
  \A n \in Names :
    /\ Older(n, results[n]) /\ Older(n, collected[n])
    /\ results[n].body # NoResult /\ Making(n, results[n].body.run) => Placed(n)
    /\ Whole(n, results[n])

(* What a copy has of a bundle that is not complete, the directory it is   *)
(* copied from does not have the other part of.                            *)
FetchHolds(n, c) ==
  /\ c.body # NoResult /\ ~InComplete(n, c.body.run) =>
       results[n].manifest # c.body.run /\ (Making(n, c.body.run) => Placed(n))
  /\ c.manifest # 0 /\ ~InComplete(n, c.manifest) => results[n].body.run # c.manifest

FetchInv ==
  \A p \in Procs :
    LET n == name[p] IN
    /\ pc[p] \in {"fetch", "verify", "record"} => Whole(n, collected[n])
    /\ pc[p] = "fetch" => FetchHolds(n, collected[n])
    /\ pc[p] = "record" =>
         collected[n].body # NoResult /\ collected[n].manifest = collected[n].body.run

CompleteInv == DirsInv /\ FetchInv /\ RecordedIsComplete

Working == {"body", "inputs", "manifest"}

LEMMA DirsKept ==
  ASSUME TypeInv, DirsInv, UNCHANGED hist, UNCHANGED wrk \/ wpc' \notin Working,
         \A n \in Names : results'[n] \in {results[n], EmptyDir},
         \A n \in Names : collected'[n].manifest \in {collected[n].manifest, results[n].manifest, 0}
  PROVE  DirsInv'
<1> SUFFICES ASSUME NEW n \in Names
             PROVE  /\ Older(n, results[n])' /\ Older(n, collected[n])'
                    /\ results'[n].body # NoResult /\ Making(n, results[n].body.run)' => Placed(n)'
                    /\ Whole(n, results[n])'
  BY DEF DirsInv
<1>1. /\ Older(n, results[n]) /\ Older(n, collected[n]) /\ Whole(n, results[n])
      /\ results[n].body # NoResult /\ Making(n, results[n].body.run) => Placed(n)
  BY DEF DirsInv
<1>2. \A k : Making(n, k)' => Making(n, k) /\ UNCHANGED wrk
  BY DEF Making, Working, wrk
<1>3. ~Making(n, 0) /\ 0 <= Len(outcome[n[1]])
  <2>1. n[1] \in Jobs /\ outcome \in [Jobs -> Seq(Outcomes)]
    BY NamesJob DEF TypeInv, TypeOK, WorkerTypeOK
  <2>2. wpc \in Working => wrun.run \in 1 .. MaxRuns
    BY ResultFields DEF TypeInv, WorkerHolds, Working
  <2> QED
    BY <2>1, <2>2 DEF Making, Working
<1>4. EmptyDir.body = NoResult /\ EmptyDir.manifest = 0
  BY DEF EmptyDir
<1>5. UNCHANGED <<outcome, complete>>
  BY DEF hist
<1>6. Older(n, results[n])' /\ Older(n, collected[n])'
  BY <1>1, <1>2, <1>3, <1>4, <1>5 DEF Older
<1>7. Whole(n, results[n])'
  BY <1>1, <1>4, <1>5 DEF Whole, InComplete
<1>8. results'[n].body # NoResult /\ Making(n, results[n].body.run)' => Placed(n)'
  BY <1>1, <1>2, <1>4 DEF Placed, wname, wrk
<1> QED
  BY <1>6, <1>7, <1>8

(* The four steps by which the worker writes a bundle.                     *)
LEMMA ExecuteFacts ==
  ASSUME TypeInv, NEW s \in Outcomes, Execute(s)
  PROVE  /\ wjob \in Jobs /\ wrun'.run = Len(outcome[wjob]) + 1 /\ wpc' = "body"
         /\ \A j \in Jobs : Len(outcome[j]) \in Nat /\ Len(outcome[j]) <= Len(outcome'[j])
         /\ \A n \in Names : results'[n] \in {results[n], EmptyDir}
         /\ UNCHANGED <<collected, complete, wjob, pc, name, result_json>>
<1>1. wjob \in Jobs /\ outcome \in [Jobs -> Seq(Outcomes)] /\ results \in [Names -> Dirs]
  BY DEF Execute, WGoTo, TypeInv, TypeOK, WorkerTypeOK, WorkerHolds, FilesTypeOK
<1>2. /\ outcome' = [outcome EXCEPT ![wjob] = Append(@, s)]
      /\ wrun' = [run |-> Len(outcome[wjob]) + 1, status |-> s]
      /\ results' = [results EXCEPT ![NameOf(wjob, s)] = EmptyDir]
      /\ wpc' = "body" /\ UNCHANGED <<collected, complete, wjob, pc, name, result_json>>
  BY DEF Execute, WGoTo, ctl, queue
<1>3. \A j \in Jobs : Len(outcome[j]) \in Nat /\ Len(outcome[j]) <= Len(outcome'[j])
  BY <1>1, <1>2
<1> QED
  BY <1>1, <1>2, <1>3

LEMMA WriteFacts ==
  ASSUME TypeInv
  PROVE  /\ WriteBody \/ WriteInputs \/ WriteManifest =>
              /\ wname \in Names /\ wname[1] = wjob /\ wjob \in Jobs /\ wrun \in Results
              /\ wrun.run = Len(outcome[wjob]) /\ wrun.run >= 1
              /\ wpc \in Working
              /\ \A n \in Names : n # wname => results'[n] = results[n]
              /\ UNCHANGED <<collected, outcome, wjob, wrun, pc, name, result_json>>
         /\ WriteBody => /\ wpc = "body" /\ wpc' = "inputs" /\ UNCHANGED complete
                         /\ results'[wname].body = wrun
                         /\ results'[wname].manifest = results[wname].manifest
         /\ WriteInputs => /\ wpc = "inputs" /\ wpc' = "manifest" /\ UNCHANGED complete
                           /\ results'[wname].body = results[wname].body
                           /\ results'[wname].manifest = results[wname].manifest
         /\ WriteManifest => /\ wpc = "manifest" /\ wpc' = "archive"
                             /\ results'[wname].body = results[wname].body
                             /\ results'[wname].manifest = wrun.run
                             /\ complete \subseteq complete'
                             /\ results[wname].body = wrun => <<wjob, wrun.run>> \in complete'
<1> SUFFICES ASSUME WriteBody \/ WriteInputs \/ WriteManifest
             PROVE  /\ wname \in Names /\ wname[1] = wjob /\ wjob \in Jobs /\ wrun \in Results
                    /\ wrun.run = Len(outcome[wjob]) /\ wrun.run >= 1 /\ wpc \in Working
                    /\ \A n \in Names : n # wname => results'[n] = results[n]
                    /\ UNCHANGED <<collected, outcome, wjob, wrun, pc, name, result_json>>
                    /\ WriteBody =>
                         /\ wpc = "body" /\ wpc' = "inputs" /\ UNCHANGED complete
                         /\ results'[wname].body = wrun
                         /\ results'[wname].manifest = results[wname].manifest
                    /\ WriteInputs =>
                         /\ wpc = "inputs" /\ wpc' = "manifest" /\ UNCHANGED complete
                         /\ results'[wname].body = results[wname].body
                         /\ results'[wname].manifest = results[wname].manifest
                    /\ WriteManifest =>
                         /\ wpc = "manifest" /\ wpc' = "archive"
                         /\ results'[wname].body = results[wname].body
                         /\ results'[wname].manifest = wrun.run
                         /\ complete \subseteq complete'
                         /\ results[wname].body = wrun => <<wjob, wrun.run>> \in complete'
  OBVIOUS
<1>1. wpc \in Working /\ UNCHANGED <<collected, outcome, wjob, wrun, pc, name, result_json>>
  BY DEF WriteBody, WriteInputs, WriteManifest, WGoTo, Working, ctl, queue, hist
<1>2. wjob \in Jobs /\ wrun \in Results /\ wrun.run = Len(outcome[wjob])
  BY <1>1 DEF TypeInv, WorkerHolds, Working
<1>3. wname \in Names /\ wname[1] = wjob /\ wrun.run >= 1
  BY <1>2, NameOfTyped, ResultFields DEF wname
<1>4. results \in [Names -> Dirs] /\ results[wname] \in Dirs
  BY <1>3 DEF TypeInv, TypeOK, FilesTypeOK
<1>5. /\ WriteBody     => results' = [results EXCEPT ![wname] = [results[wname] EXCEPT !.body = wrun]]
      /\ WriteInputs   => results' = [results EXCEPT ![wname] = [results[wname] EXCEPT !.inputs = TRUE]]
      /\ WriteManifest => results' = [results EXCEPT ![wname] = [results[wname] EXCEPT !.manifest = wrun.run]]
  BY <1>4 DEF WriteBody, WriteInputs, WriteManifest
<1>6. \A n \in Names : n # wname => results'[n] = results[n]
  BY <1>4, <1>5
<1>7. /\ WriteBody     => results'[wname] = [results[wname] EXCEPT !.body = wrun]
      /\ WriteInputs   => results'[wname] = [results[wname] EXCEPT !.inputs = TRUE]
      /\ WriteManifest => results'[wname] = [results[wname] EXCEPT !.manifest = wrun.run]
  BY <1>3, <1>4, <1>5
<1>8. /\ WriteBody     => /\ results'[wname].body = wrun
                          /\ results'[wname].manifest = results[wname].manifest
      /\ WriteInputs   => /\ results'[wname].body = results[wname].body
                          /\ results'[wname].manifest = results[wname].manifest
      /\ WriteManifest => /\ results'[wname].body = results[wname].body
                          /\ results'[wname].manifest = wrun.run
  BY <1>4, <1>7 DEF Dirs
<1>9. /\ WriteBody     => wpc = "body" /\ wpc' = "inputs" /\ UNCHANGED complete
      /\ WriteInputs   => wpc = "inputs" /\ wpc' = "manifest" /\ UNCHANGED complete
      /\ WriteManifest => /\ wpc = "manifest" /\ wpc' = "archive" /\ complete \subseteq complete'
                          /\ results[wname].body = wrun => <<wjob, wrun.run>> \in complete'
  BY DEF WriteBody, WriteInputs, WriteManifest, WGoTo, hist
<1> QED
  BY <1>1, <1>2, <1>3, <1>6, <1>8, <1>9

Collecting == {"fetch", "verify", "record"}

LEMMA CollectSteps ==
  ASSUME NEW p, Procs = {p}, TypeInv, [Next]_vars
  PROVE  \/ \E s \in Outcomes : Execute(s)
         \/ WriteBody \/ WriteInputs \/ WriteManifest
         \/ /\ UNCHANGED <<hist, results, collected, pc, name, result_json>>
            /\ UNCHANGED wrk \/ wpc' \notin Working
         \/ \E n \in Names : FetchStart(p, n)
         \/ \E f \in Files : CopyFile(p, f)
         \/ Verify(p) \/ Record(p)
         \/ /\ UNCHANGED <<hist, wrk, collected, result_json>> /\ pc'[p] \notin Collecting
            /\ \A n \in Names : results'[n] \in {results[n], EmptyDir}
<1> USE DEF Collecting, Working
<1>0. /\ p \in Procs /\ results \in [Names -> Dirs]
      /\ \A to : pc' = [pc EXCEPT ![p] = to] => pc'[p] = to
  BY DEF TypeInv, TypeOK, FilesTypeOK, ControlTypeOK
<1>1. ASSUME WorkerStep \/ WorkerCrash, ~\E s \in Outcomes : Execute(s),
             ~WriteBody, ~WriteInputs, ~WriteManifest
      PROVE  /\ UNCHANGED <<hist, results, collected, pc, name, result_json>>
             /\ UNCHANGED wrk \/ wpc' \notin Working
  BY <1>1 DEF WorkerStep, WorkerCrash, Quarantine, Claim, WGoTo, Archive, WorkerError, WorkerIdle,
              node, ctl, wrk, hist, queue
<1>2. ASSUME \/ \E j \in Jobs : SubmitQueueOnly(p, j)
             \/ UNCHANGED vars
      PROVE  UNCHANGED <<hist, results, collected, pc, name, result_json, wrk>>
  BY <1>2 DEF SubmitQueueOnly, InsertRow, node, ctl, queue, vars
<1>3. ASSUME \/ \E j \in Jobs : Build(p, j) \/ NextRow(p, j)
             \/ BeginDispatch(p) \/ BeginCollect(p) \/ Enqueue(p) \/ EnqueueDuplicate(p)
      PROVE  /\ UNCHANGED <<hist, wrk, collected, result_json, results>>
             /\ pc'[p] \notin Collecting
  BY <1>0, <1>3 DEF Build, NextRow, BeginDispatch, BeginCollect, Enqueue, EnqueueDuplicate,
                    InsertRow, GoTo, node, queue
<1>4. ASSUME Unpack(p) \/ UnpackFails(p) \/ Publish(p) \/ PublishFails(p)
      PROVE  /\ UNCHANGED <<hist, wrk, collected, result_json, results>>
             /\ pc'[p] \notin Collecting
  BY <1>0, <1>4 DEF Unpack, UnpackFails, Publish, PublishFails, MoveToInbox, GoTo, node, queue
<1>5. ASSUME MarkDispatched(p) \/ MarkDispatchFailed(p)
      PROVE  /\ UNCHANGED <<hist, wrk, collected, result_json, results>>
             /\ pc'[p] \notin Collecting
  BY <1>0, <1>5 DEF MarkDispatched, MarkDispatchFailed, AfterMark, mark_dispatched,
                    mark_dispatch_failed, GoTo, node
<1>6. ASSUME FetchFails(p) \/ Reject(p) \/ RecordFails(p) \/ ControlCrash(p)
      PROVE  /\ UNCHANGED <<hist, wrk, collected, result_json, results>>
             /\ pc'[p] \notin Collecting
  BY <1>0, <1>6 DEF FetchFails, Reject, RecordFails, ControlCrash, Continue, GoTo, node, queue
<1>7. ASSUME Acknowledge(p) \/ AcknowledgeFails(p)
      PROVE  /\ UNCHANGED <<hist, wrk, collected, result_json>> /\ pc'[p] \notin Collecting
             /\ \A n \in Names : results'[n] \in {results[n], EmptyDir}
  BY <1>0, <1>7 DEF Acknowledge, AcknowledgeFails, MoveToArchive, Continue, GoTo, node, queue
<1> QED
  BY <1>1, <1>2, <1>3, <1>4, <1>5, <1>6, <1>7, Zenon DEF Next, ControlStep

(* The files of a copy.                                                    *)
LEMMA CopyFacts ==
  ASSUME TypeInv, NEW p \in Procs, NEW f \in Files, CopyFile(p, f)
  PROVE  LET n == name[p]
             c == collected[n]
             d == collected'[n]
         IN  /\ n \in Names /\ n \in present /\ pc[p] = "fetch" /\ pc'[p] \in {"fetch", "verify"}
             /\ \A m \in Names : m # n => collected'[m] = collected[m]
             /\ \/ d.body = c.body /\ d.manifest = c.manifest
                \/ d.body = results[n].body /\ d.body # NoResult /\ d.manifest = c.manifest
                \/ d.body = c.body /\ d.manifest = results[n].manifest /\ d.manifest # 0
             /\ UNCHANGED <<hist, wrk, results, name, result_json>>
<1> DEFINE n == name[p]
           c == collected[n]
           d == CopiedOver(c, results[n], f)
<1>1. /\ n \in present /\ pc[p] = "fetch" /\ collected' = [collected EXCEPT ![n] = d]
      /\ pc' = [pc EXCEPT ![p] = IF files[p] = {f} THEN "verify" ELSE "fetch"]
      /\ UNCHANGED <<hist, wrk, results, name, result_json>>
  BY DEF CopyFile, node, queue
<1>2. n \in Names /\ collected \in [Names -> Dirs] /\ results[n] \in Dirs /\ c \in Dirs
      /\ pc'[p] \in {"fetch", "verify"}
  BY <1>1 DEF TypeInv, TypeOK, FilesTypeOK, ControlTypeOK
<1>3. \/ d = c
      \/ d = [c EXCEPT !.inputs = TRUE]
      \/ results[n].body # NoResult /\ d = [c EXCEPT !.body = results[n].body]
      \/ results[n].manifest # 0 /\ d = [c EXCEPT !.manifest = results[n].manifest]
  BY DEF CopiedOver, Files
<1>4. \/ d.body = c.body /\ d.manifest = c.manifest
      \/ d.body = results[n].body /\ d.body # NoResult /\ d.manifest = c.manifest
      \/ d.body = c.body /\ d.manifest = results[n].manifest /\ d.manifest # 0
  BY <1>2, <1>3 DEF Dirs
<1>5. collected'[n] = d /\ \A m \in Names : m # n => collected'[m] = collected[m]
  BY <1>1, <1>2
<1> QED
  BY <1>1, <1>2, <1>4, <1>5

LEMMA DirsInvStep ==
  ASSUME NEW p, Procs = {p}, TypeInv, ExecInv, DirsInv, [Next]_vars
  PROVE  DirsInv'
<1>0. /\ \A n \in Names : n[1] \in Jobs
      /\ results \in [Names -> Dirs] /\ collected \in [Names -> Dirs]
      /\ outcome \in [Jobs -> Seq(Outcomes)] /\ p \in Procs
  BY NamesJob DEF TypeInv, TypeOK, FilesTypeOK, WorkerTypeOK
<1>1. ASSUME NEW s \in Outcomes, Execute(s) PROVE DirsInv'
  <2> SUFFICES ASSUME NEW n \in Names
               PROVE  /\ Older(n, results[n])' /\ Older(n, collected[n])'
                      /\ results'[n].body # NoResult => ~Making(n, results[n].body.run)'
                      /\ Whole(n, results[n])'
    BY DEF DirsInv
  <2>1. /\ wrun'.run = Len(outcome[wjob]) + 1 /\ wjob' = wjob
        /\ Len(outcome[n[1]]) \in Nat /\ Len(outcome[n[1]]) <= Len(outcome'[n[1]])
        /\ results'[n] \in {results[n], EmptyDir}
        /\ UNCHANGED <<collected, complete>>
    BY <1>0, <1>1, ExecuteFacts
  <2>2. EmptyDir.body = NoResult /\ EmptyDir.manifest = 0
    BY DEF EmptyDir
  <2>3. results[n].manifest \in 0 .. MaxRuns /\ collected[n].manifest \in 0 .. MaxRuns
    BY <1>0, DirFields
  <2>4. /\ results[n].manifest <= Len(outcome[n[1]]) /\ collected[n].manifest <= Len(outcome[n[1]])
        /\ Whole(n, results[n])
    BY DEF DirsInv, Older
  <2>5. \A k : k <= Len(outcome[n[1]]) /\ k \in Nat => ~Making(n, k)'
    BY <2>1 DEF Making
  <2>6. Older(n, results[n])' /\ Older(n, collected[n])'
    BY <2>1, <2>2, <2>3, <2>4, <2>5, FabricAssumption DEF Older
  <2>7. results[n].body # NoResult => results[n].body.run \in DOMAIN outcome[n[1]]
    BY DEF ExecInv, ResultsExecuted, WasExecuted
  <2>8. results[n].body # NoResult => results[n].body.run \in 1 .. Len(outcome[n[1]])
    BY <1>0, <2>7
  <2>9. Whole(n, results[n])'
    BY <2>1, <2>2, <2>4 DEF Whole, InComplete
  <2> QED
    BY <2>1, <2>2, <2>5, <2>6, <2>8, <2>9
<1>2. ASSUME WriteBody \/ WriteInputs \/ WriteManifest PROVE DirsInv'
  <2> SUFFICES ASSUME NEW n \in Names
               PROVE  /\ Older(n, results[n])' /\ Older(n, collected[n])'
                      /\ results'[n].body # NoResult /\ Making(n, results[n].body.run)' => Placed(n)'
                      /\ Whole(n, results[n])'
    BY DEF DirsInv
  <2>1. /\ Older(n, results[n]) /\ Older(n, collected[n]) /\ Whole(n, results[n])
        /\ results[n].body # NoResult /\ Making(n, results[n].body.run) => Placed(n)
    BY DEF DirsInv
  <2>2. /\ wname \in Names /\ wname[1] = wjob /\ wrun \in Results
        /\ wrun.run = Len(outcome[wjob]) /\ wrun.run >= 1 /\ wpc \in Working
        /\ n # wname => results'[n] = results[n]
        /\ UNCHANGED <<collected, outcome, wjob, wrun>> /\ wname' = wname
        /\ complete \subseteq complete'
    BY <1>2, WriteFacts DEF wname
  <2>3. \A k : Making(n, k)' => Making(n, k)
    BY <2>2 DEF Making, Working
  <2>4. \A k : Making(n, k) <=> wjob = n[1] /\ wrun.run = k
    BY <2>2 DEF Making, Working
  <2>5. CASE WriteBody
    <3>1. /\ wpc = "body" /\ wpc' = "inputs"
          /\ results'[wname].body = wrun /\ results'[wname].manifest = results[wname].manifest
      BY <2>5, WriteFacts
    <3>2. results'[n].manifest = results[n].manifest
      BY <2>2, <3>1
    <3>3. Older(n, results[n])' /\ Older(n, collected[n])'
      BY <2>1, <2>2, <2>3, <3>2 DEF Older
    <3>4. CASE n = wname
      BY <2>1, <2>2, <2>4, <3>1, <3>2, <3>3, <3>4 DEF Placed, Whole, Older
    <3>5. CASE n # wname
      BY <2>1, <2>2, <2>3, <3>1, <3>3, <3>5 DEF Placed, Whole, InComplete
    <3> QED
      BY <3>4, <3>5
  <2>6. CASE WriteInputs
    <3>1. /\ wpc = "inputs" /\ wpc' = "manifest"
          /\ results'[n].body = results[n].body /\ results'[n].manifest = results[n].manifest
      BY <2>2, <2>6, WriteFacts
    <3>2. Older(n, results[n])' /\ Older(n, collected[n])'
      BY <2>1, <2>2, <2>3, <3>1 DEF Older
    <3>3. Whole(n, results[n])'
      BY <2>1, <2>2, <3>1 DEF Whole, InComplete
    <3> QED
      BY <2>1, <2>2, <2>3, <3>1, <3>2, <3>3 DEF Placed
  <2>7. CASE WriteManifest
    <3>1. /\ wpc = "manifest" /\ wpc' = "archive"
          /\ results'[n].body = results[n].body
          /\ results'[wname].manifest = wrun.run
          /\ results[wname].body = wrun => <<wjob, wrun.run>> \in complete'
      BY <2>2, <2>7, WriteFacts
    <3>2. \A k : ~Making(n, k)'
      BY <3>1 DEF Making
    <3>3. Older(n, collected[n])' /\ (n # wname => Older(n, results[n])')
      BY <2>1, <2>2, <3>2 DEF Older
    <3>4. n = wname => Older(n, results[n])'
      <4>1. wrun.run <= Len(outcome[wjob])
        BY <1>0, <2>2
      <4> QED
        BY <2>2, <3>1, <3>2, <4>1 DEF Older
    <3>5. Whole(n, results[n])'
      <4>1. CASE n # wname
        BY <2>1, <2>2, <4>1 DEF Whole, InComplete
      <4>2. CASE n = wname
        <5> SUFFICES ASSUME results[n].body # NoResult, wrun.run = results[n].body.run
                     PROVE  <<n[1], results[n].body.run>> \in complete'
          BY <3>1, <4>2 DEF Whole, InComplete
        <5>1. results[n].body = wrun
          BY <2>1, <2>2, <2>4, <4>2 DEF Placed
        <5> QED
          BY <2>2, <3>1, <4>2, <5>1
      <4> QED
        BY <4>1, <4>2
    <3> QED
      BY <3>2, <3>3, <3>4, <3>5
  <2> QED
    BY <1>2, <2>5, <2>6, <2>7
<1>3. ASSUME NEW n \in Names, FetchStart(p, n) PROVE DirsInv'
  <2>1. UNCHANGED <<hist, wrk, results>> /\ collected' = [collected EXCEPT ![n] = EmptyDir]
    BY <1>3 DEF FetchStart, node
  <2>2. \A m \in Names : collected'[m].manifest \in {collected[m].manifest, 0}
    BY <1>0, <2>1 DEF EmptyDir
  <2> QED
    BY <2>1, <2>2, DirsKept
<1>4. ASSUME NEW f \in Files, CopyFile(p, f) PROVE DirsInv'
  <2>1. \A m \in Names : collected'[m].manifest \in {collected[m].manifest, results[m].manifest}
    BY <1>0, <1>4, CopyFacts
  <2> QED
    BY <1>0, <1>4, <2>1, CopyFacts, DirsKept
<1>5. ASSUME Verify(p) \/ Record(p) PROVE DirsInv'
  BY <1>5, DirsKept DEF Verify, Record, node
<1>6. ASSUME UNCHANGED hist, UNCHANGED wrk \/ wpc' \notin Working, UNCHANGED collected,
             \A n \in Names : results'[n] \in {results[n], EmptyDir}
      PROVE  DirsInv'
  BY <1>6, DirsKept
<1> QED
  BY <1>1, <1>2, <1>3, <1>4, <1>5, <1>6, CollectSteps

(* While a copy is being made the worker adds to its source only what      *)
(* completes the bundle, or starts the next one.                           *)
LEMMA FetchHoldsStep ==
  ASSUME TypeInv, DirsInv, NEW n \in Names, NEW c \in Dirs,
         FetchHolds(n, c), Older(n, c), WasExecuted(n[1], c.body),
         \/ \E s \in Outcomes : Execute(s)
         \/ WriteBody \/ WriteInputs \/ WriteManifest
         \/ UNCHANGED <<hist, results>> /\ (UNCHANGED wrk \/ wpc' \notin Working)
  PROVE  FetchHolds(n, c)'
<1>0. /\ n[1] \in Jobs /\ results \in [Names -> Dirs]
      /\ outcome \in [Jobs -> Seq(Outcomes)]
  BY NamesJob DEF TypeInv, TypeOK, FilesTypeOK, WorkerTypeOK
<1>1. /\ c.body # NoResult /\ ~InComplete(n, c.body.run) =>
           results[n].manifest # c.body.run /\ (Making(n, c.body.run) => Placed(n))
      /\ c.manifest # 0 /\ ~InComplete(n, c.manifest) => results[n].body.run # c.manifest
      /\ ~Making(n, c.manifest)
  BY DEF FetchHolds, Older
<1>2. c.body # NoResult => c.body.run \in 1 .. Len(outcome[n[1]]) /\ c.body.run # 0
  <2>1. c.body # NoResult => c.body.run \in DOMAIN outcome[n[1]]
    BY DEF WasExecuted
  <2> QED
    BY <1>0, <2>1
<1>3. EmptyDir.body.run = 0 /\ EmptyDir.manifest = 0
  BY DEF EmptyDir, NoResult
<1> SUFFICES /\ c.body # NoResult /\ ~InComplete(n, c.body.run)' =>
                  results'[n].manifest # c.body.run /\ (Making(n, c.body.run)' => Placed(n)')
             /\ c.manifest # 0 /\ ~InComplete(n, c.manifest)' => results'[n].body.run # c.manifest
  BY DEF FetchHolds
<1>4. CASE \E s \in Outcomes : Execute(s)
  <2>1. /\ wrun'.run = Len(outcome[wjob]) + 1 /\ wjob' = wjob
        /\ Len(outcome[n[1]]) \in Nat
        /\ results'[n] \in {results[n], EmptyDir} /\ UNCHANGED complete
    BY <1>0, <1>4, ExecuteFacts
  <2>2. c.body # NoResult => ~Making(n, c.body.run)'
    BY <1>2, <2>1 DEF Making
  <2> QED
    BY <1>1, <1>2, <1>3, <2>1, <2>2 DEF InComplete
<1>5. CASE WriteBody \/ WriteInputs \/ WriteManifest
  <2>1. /\ wname \in Names /\ wname[1] = wjob /\ wpc \in Working
        /\ n # wname => results'[n] = results[n]
        /\ UNCHANGED <<wjob, wrun>> /\ wname' = wname /\ complete \subseteq complete'
    BY <1>5, WriteFacts DEF wname
  <2>2. \A k : Making(n, k)' => Making(n, k)
    BY <2>1 DEF Making, Working
  <2>3. \A k : Making(n, k) <=> wjob = n[1] /\ wrun.run = k
    BY <2>1 DEF Making, Working
  <2>4. \A k : InComplete(n, k) => InComplete(n, k)'
    BY <2>1 DEF InComplete
  <2>5. CASE WriteBody
    <3>1. /\ wpc = "body" /\ results'[wname].body = wrun
          /\ results'[wname].manifest = results[wname].manifest
      BY <2>5, WriteFacts
    <3>2. results'[n].manifest = results[n].manifest /\ ~Placed(n)
      BY <2>1, <3>1 DEF Placed
    <3>3. n = wname => results'[n].body.run # c.manifest
      BY <1>1, <2>1, <2>3, <3>1
    <3> QED
      BY <1>1, <2>1, <2>2, <2>4, <3>2, <3>3
  <2>6. CASE WriteInputs
    <3>1. /\ wpc' = "manifest"
          /\ results'[n].body = results[n].body /\ results'[n].manifest = results[n].manifest
      BY <2>1, <2>6, WriteFacts
    <3>2. Placed(n) => Placed(n)'
      BY <2>1, <3>1 DEF Placed
    <3> QED
      BY <1>1, <2>2, <2>4, <3>1, <3>2
  <2>7. CASE WriteManifest
    <3>1. /\ wpc' = "archive" /\ results'[n].body = results[n].body
          /\ results'[wname].manifest = wrun.run
          /\ results[wname].body = wrun => <<wjob, wrun.run>> \in complete'
      BY <2>1, <2>7, WriteFacts
    <3>2. \A k : ~Making(n, k)'
      BY <3>1 DEF Making
    <3>3. ASSUME n = wname, c.body # NoResult, ~InComplete(n, c.body.run)'
          PROVE  wrun.run # c.body.run
      <4> SUFFICES ASSUME wrun.run = c.body.run PROVE FALSE
        OBVIOUS
      <4>1. Placed(n)
        BY <1>1, <2>1, <2>3, <2>4, <3>3
      <4> QED
        BY <2>1, <3>1, <3>3, <4>1 DEF Placed, InComplete
    <3> QED
      BY <1>1, <2>1, <2>4, <3>1, <3>2, <3>3
  <2> QED
    BY <1>5, <2>5, <2>6, <2>7
<1>6. CASE UNCHANGED <<hist, results>> /\ (UNCHANGED wrk \/ wpc' \notin Working)
  <2>1. \A k : Making(n, k)' => Making(n, k) /\ UNCHANGED wrk
    BY <1>6 DEF Making, Working, wrk
  <2>2. UNCHANGED wrk => (Placed(n)' <=> Placed(n))
    BY <1>6 DEF Placed, wname, wrk
  <2> QED
    BY <1>1, <1>6, <2>1, <2>2 DEF InComplete, hist
<1> QED
  BY <1>4, <1>5, <1>6

(* What FetchInv says of a single process, at the next step.               *)
LEMMA FetchInvNext ==
  ASSUME NEW p, Procs = {p}, NEW n, NEW d,
         pc'[p] \in Collecting => name'[p] = n /\ collected'[n] = d /\ Whole(n, d)',
         pc'[p] = "fetch" => FetchHolds(n, d)',
         pc'[p] = "record" => d.body # NoResult /\ d.manifest = d.body.run
  PROVE  FetchInv'
  BY DEF FetchInv, Collecting, Whole, FetchHolds, InComplete, Making, Placed, wname

LEMMA FetchInvStep ==
  ASSUME NEW p, Procs = {p}, TypeInv, ExecInv, DirsInv, FetchInv, [Next]_vars
  PROVE  FetchInv'
<1>0. /\ p \in Procs /\ pc \in [Procs -> ControlStates]
      /\ pc[p] \in Collecting => name[p] \in Names
      /\ collected \in [Names -> Dirs] /\ results \in [Names -> Dirs]
      /\ name \in [Procs -> Names \union {None}]
  BY DEF TypeInv, TypeOK, FilesTypeOK, ControlTypeOK, ControlHolds, Collecting
<1>1. CASE pc'[p] \notin Collecting
  BY <1>1, FetchInvNext DEF Collecting
<1>2. CASE \E m \in Names : FetchStart(p, m)
  <2>1. PICK m \in Names : FetchStart(p, m)
    BY <1>2
  <2>2. pc'[p] = "fetch" /\ name'[p] = m /\ collected'[m] = EmptyDir
    BY <1>0, <2>1 DEF FetchStart, GoTo
  <2>3. EmptyDir.body = NoResult /\ EmptyDir.manifest = 0
    BY DEF EmptyDir
  <2>4. Whole(m, EmptyDir)' /\ FetchHolds(m, EmptyDir)'
    BY <2>3 DEF Whole, FetchHolds
  <2> QED
    BY <2>2, <2>4, FetchInvNext
<1>3. ASSUME pc[p] \in Collecting, pc'[p] \in Collecting, ~\E m \in Names : FetchStart(p, m)
      PROVE  FetchInv'
  <2>1. PICK n \in Names : n = name[p]
    BY <1>0, <1>3
  <2>2. PICK c \in Dirs : c = collected[n]
    BY <1>0
  <2>3. /\ Whole(n, c)
        /\ pc[p] = "fetch" => FetchHolds(n, c)
        /\ pc[p] = "record" => c.body # NoResult /\ c.manifest = c.body.run
        /\ Older(n, c) /\ WasExecuted(n[1], c.body)
        /\ Whole(n, results[n])
        /\ results[n].body # NoResult /\ Making(n, results[n].body.run) => Placed(n)
    BY <1>0, <1>3, <2>1, <2>2 DEF FetchInv, DirsInv, ExecInv, CollectedExecuted, Collecting
  <2>4. ASSUME UNCHANGED <<collected, pc, name>>,
               \/ \E s \in Outcomes : Execute(s)
               \/ WriteBody \/ WriteInputs \/ WriteManifest
               \/ UNCHANGED <<hist, results>> /\ (UNCHANGED wrk \/ wpc' \notin Working)
        PROVE  FetchInv'
    <3>1. complete \subseteq complete'
      BY <2>4, ExecuteFacts, WriteFacts DEF hist
    <3>2. Whole(n, c)'
      BY <2>3, <3>1 DEF Whole, InComplete
    <3>3. pc[p] = "fetch" => FetchHolds(n, c)'
      BY <2>3, <2>4, FetchHoldsStep
    <3> QED
      BY <2>1, <2>2, <2>3, <2>4, <3>2, <3>3, FetchInvNext
  <2>5. CASE \E f \in Files : CopyFile(p, f)
    <3>1. PICK d : d = collected'[n]
      OBVIOUS
    <3>2. /\ pc[p] = "fetch" /\ pc'[p] \in {"fetch", "verify"}
          /\ \/ d.body = c.body /\ d.manifest = c.manifest
             \/ d.body = results[n].body /\ d.body # NoResult /\ d.manifest = c.manifest
             \/ d.body = c.body /\ d.manifest = results[n].manifest /\ d.manifest # 0
          /\ UNCHANGED <<hist, wrk, results, name>>
      BY <1>0, <2>1, <2>2, <2>5, <3>1, CopyFacts
    <3>3. /\ c.body # NoResult => c.body.run # 0
          /\ results[n].body # NoResult => results[n].body.run # 0
      <4>1. c.body \in Results \union {NoResult} /\ results[n].body \in Results \union {NoResult}
        BY <1>0, DirFields
      <4> QED
        BY <4>1, ResultFields
    <3>4. NoResult.run = 0
      BY DEF NoResult
    <3>5. Whole(n, d)
      BY <2>3, <3>2, <3>3 DEF Whole, FetchHolds
    <3>6. FetchHolds(n, d)
      BY <2>3, <3>2, <3>3, <3>4 DEF Whole, FetchHolds
    <3>7. UNCHANGED <<complete, wpc, wjob, wrun, wname>>
      BY <3>2 DEF hist, wrk, wname
    <3>8. Whole(n, d)'
      BY <3>5, <3>7 DEF Whole, InComplete
    <3>9. FetchHolds(n, d)'
      BY <3>2, <3>6, <3>7 DEF FetchHolds, InComplete, Making, Placed
    <3> QED
      BY <2>1, <3>1, <3>2, <3>8, <3>9, FetchInvNext
  <2>6. CASE Verify(p)
    <3>1. UNCHANGED <<collected, name, complete>> /\ c.body # NoResult /\ c.manifest = c.body.run
      BY <2>1, <2>2, <2>6 DEF Verify, Verifies, GoTo, hist
    <3>2. pc'[p] = "record"
      BY <1>0, <2>6 DEF Verify, GoTo
    <3>3. Whole(n, c)'
      BY <2>3, <3>1 DEF Whole, InComplete
    <3> QED
      BY <2>1, <2>2, <3>1, <3>2, <3>3, FetchInvNext
  <2>7. CASE Record(p)
    BY <1>0, <1>3, <2>7 DEF Record, GoTo, Collecting
  <2>8. (\E s \in Outcomes : Execute(s)) \/ WriteBody \/ WriteInputs \/ WriteManifest
          => UNCHANGED <<collected, pc, name>>
    BY ExecuteFacts, WriteFacts
  <2> QED
    BY <1>3, <2>4, <2>5, <2>6, <2>7, <2>8, CollectSteps
<1>4. CASE pc[p] \notin Collecting /\ pc'[p] \in Collecting /\ ~\E m \in Names : FetchStart(p, m)
  <2>1. ~\E f \in Files : CopyFile(p, f)
    BY <1>4 DEF CopyFile, Collecting
  <2>2. ~Verify(p) /\ ~Record(p)
    BY <1>4 DEF Verify, Record, GoTo, Collecting
  <2>3. UNCHANGED pc
    BY <1>4, <2>1, <2>2, CollectSteps, ExecuteFacts, WriteFacts
  <2> QED
    BY <1>4, <2>3
<1> QED
  BY <1>1, <1>2, <1>3, <1>4

(* With one control process no result enters the queue from a half-written *)
(* or half-copied bundle: for any number of jobs, executions of a job,     *)
(* torn copies, lost answers and deaths on both sides.                     *)
THEOREM RecordedComplete == ASSUME NEW p, Procs = {p} PROVE Spec => []RecordedIsComplete
<1>1. Init => ExecInv /\ CompleteInv
  <2> SUFFICES ASSUME Init PROVE ExecInv /\ CompleteInv
    OBVIOUS
  <2>1. ExecInv
    BY NamesJob DEF Init, ExecInv, ResultsExecuted, CollectedExecuted, RecordedWasExecuted,
       WasExecuted, EmptyDir
  <2>2. RecordedIsComplete
    BY DEF Init, RecordedIsComplete
  <2>3. DirsInv
    BY NamesJob DEF Init, DirsInv, Older, Making, Whole, EmptyDir
  <2>4. FetchInv
    BY DEF Init, FetchInv
  <2> QED
    BY <2>1, <2>2, <2>3, <2>4 DEF CompleteInv
<1>2. TypeInv /\ ExecInv /\ CompleteInv /\ [Next]_vars => ExecInv' /\ CompleteInv'
  <2> SUFFICES ASSUME TypeInv, ExecInv, CompleteInv, [Next]_vars PROVE ExecInv' /\ CompleteInv'
    OBVIOUS
  <2>1. complete \subseteq complete'
    BY CollectSteps, ExecuteFacts, WriteFacts, CopyFacts
       DEF CompleteInv, hist, FetchStart, Verify, Record
  <2>0. \A j \in Jobs : HasResult(j) => <<j, result_json[j].run>> \in complete
    BY DEF CompleteInv, RecordedIsComplete, HasResult
  <2>2. ASSUME UNCHANGED result_json, NEW j \in Jobs, HasResult(j)'
        PROVE  <<j, result_json'[j].run>> \in complete'
    BY <2>0, <2>1, <2>2 DEF HasResult
  <2>3. ASSUME NEW q \in Procs, Record(q), NEW j \in Jobs, HasResult(j)'
        PROVE  <<j, result_json'[j].run>> \in complete'
    <3>1. Record(p) /\ pc[p] = "record" /\ p \in Procs
      BY <2>3 DEF Record, GoTo
    <3>2. /\ name[p] \in Names /\ name[p][1] \in Jobs
          /\ result_json' = [result_json EXCEPT ![name[p][1]] = collected[name[p]].body]
      BY <3>1, Recorded
    <3>3. <<name[p][1], collected[name[p]].body.run>> \in complete
      BY <3>1 DEF CompleteInv, FetchInv, Whole, InComplete
    <3>4. result_json \in [Jobs -> Results \union {NoResult}]
      BY DEF TypeInv, TypeOK, QueueTypeOK
    <3>5. CASE j = name[p][1]
      BY <2>1, <3>2, <3>3, <3>4, <3>5
    <3>6. CASE j # name[p][1]
      <4>1. result_json'[j] = result_json[j]
        BY <3>2, <3>4, <3>6
      <4> QED
        BY <2>0, <2>1, <2>3, <4>1 DEF HasResult
    <3> QED
      BY <3>5, <3>6
  <2>4. RecordedIsComplete'
    BY <2>2, <2>3, ResultSteps DEF RecordedIsComplete, HasResult
  <2> QED
    BY <2>4, ExecInvStep, DirsInvStep, FetchInvStep DEF CompleteInv
<1>3. CompleteInv => RecordedIsComplete
  BY DEF CompleteInv
<1> QED
  BY <1>1, <1>2, <1>3, TypeInvAlways, PTL DEF Spec
-----------------------------------------------------------------------------
(***************************************************************************)
(* A remote job is on its node, when there is one control process.  A row  *)
(* turns REMOTE_QUEUED only after the bundle stands in inbox/; from there  *)
(* the worker moves it on and keeps it in running/ until the result is     *)
(* whole; the only step that takes a result away is the acknowledgement,   *)
(* of a job whose result the queue already holds; and the only step that   *)
(* takes a bundle away is a dispatch, of a row that is still QUEUED.       *)
(***************************************************************************)
RowsInv ==
  /\ \A j \in Jobs : ~NotCollected(j) => status[j] # "REMOTE_QUEUED"
  /\ \A p \in Procs :
       /\ pc[p] \in Dispatching => status[cur[p]] = "QUEUED" /\ cur[p] \notin pend[p]
       /\ pc[p] \in Dispatching \union {"dispatch"} => \A j \in pend[p] : status[j] = "QUEUED"
       /\ pc[p] = "ack" => ~NotCollected(name[p][1])

LEMMA RowsInvStep ==
  ASSUME NEW p, Procs = {p}, TypeInv, KeyInv, FinalInv, RowsInv, [Next]_vars
  PROVE  RowsInv'
<1> USE DEF RowsInv, FinalInv, NotCollected, Dispatching, HasRow, GoTo, TypeInv, TypeOK,
        QueueTypeOK, ControlTypeOK, ControlHolds
<1>1. CASE UNCHANGED <<queue, ctl>>
  BY <1>1 DEF queue, ctl
<1>2. ASSUME NEW j \in Jobs, SubmitQueueOnly(p, j)
      PROVE  RowsInv'
  BY <1>2 DEF SubmitQueueOnly, InsertRow, ctl
<1>3. ASSUME NEW j \in Jobs, Build(p, j)
      PROVE  RowsInv'
  BY <1>3 DEF Build, queue
<1>4. ASSUME Enqueue(p)
      PROVE  RowsInv'
  BY <1>4 DEF Enqueue, InsertRow
<1>5. ASSUME EnqueueDuplicate(p)
      PROVE  RowsInv'
  BY <1>5 DEF EnqueueDuplicate, queue
<1>6. ASSUME BeginDispatch(p)
      PROVE  RowsInv'
  BY <1>6 DEF BeginDispatch, rows_for_dispatch, queue
<1>7. ASSUME NEW j \in Jobs, NextRow(p, j)
      PROVE  RowsInv'
  BY <1>7 DEF NextRow, queue
<1>8. ASSUME Unpack(p) \/ UnpackFails(p)
      PROVE  RowsInv'
  BY <1>8 DEF Unpack, UnpackFails, queue
<1>9. ASSUME Publish(p) \/ PublishFails(p)
      PROVE  RowsInv'
  BY <1>9 DEF Publish, PublishFails, queue
<1>10. ASSUME MarkDispatched(p)
       PROVE  RowsInv'
  BY <1>10 DEF MarkDispatched, AfterMark, mark_dispatched
<1>11. ASSUME MarkDispatchFailed(p)
       PROVE  RowsInv'
  BY <1>11 DEF MarkDispatchFailed, AfterMark, mark_dispatch_failed
<1>12. ASSUME BeginCollect(p)
       PROVE  RowsInv'
  BY <1>12 DEF BeginCollect, queue
<1>13. ASSUME NEW n \in Names, FetchStart(p, n)
       PROVE  RowsInv'
  BY <1>13 DEF FetchStart, queue
<1>14. ASSUME NEW f \in Files, CopyFile(p, f)
       PROVE  RowsInv'
  BY <1>14 DEF CopyFile, queue
<1>15. ASSUME Verify(p)
       PROVE  RowsInv'
  BY <1>15 DEF Verify, queue
<1>16. ASSUME FetchFails(p) \/ Reject(p) \/ RecordFails(p)
       PROVE  RowsInv'
  BY <1>16 DEF FetchFails, Reject, RecordFails, Continue, queue
<1>17. ASSUME Acknowledge(p) \/ AcknowledgeFails(p)
       PROVE  RowsInv'
  BY <1>17 DEF Acknowledge, AcknowledgeFails, Continue, queue
<1>18. ASSUME ControlCrash(p)
       PROVE  RowsInv'
  BY <1>18 DEF ControlCrash, queue
<1>19. ASSUME Record(p)
       PROVE  RowsInv'
  <2> DEFINE j == name[p][1]
             r == collected[name[p]].body
  <2>1. j \in Jobs /\ r \in Results /\ r.status # "REMOTE_QUEUED"
    BY <1>19, Recorded, ResultFields, FabricAssumption
  <2>2. /\ status' = [status EXCEPT ![j] = r.status]
        /\ dispatch_status' = [dispatch_status EXCEPT ![j] = "RESULT_COLLECTED"]
        /\ pc[p] = "record" /\ pc' = [pc EXCEPT ![p] = "ack"] /\ UNCHANGED <<pend, cur, name>>
    BY <1>19 DEF Record, mark_result
  <2>3. name'[p][1] = j
    BY <2>2
  <2> HIDE DEF j, r
  <2> QED
    BY <2>1, <2>2, <2>3
<1> QED
  BY <1>1, <1>2, <1>3, <1>4, <1>5, <1>6, <1>7, <1>8, <1>9, <1>10, <1>11, <1>12, <1>13, <1>14,
     <1>15, <1>16, <1>17, <1>18, <1>19
  DEF Next, ControlStep, WorkerStep, Quarantine, Claim, Execute, WriteBody, WriteInputs,
      WriteManifest, Archive, WorkerError, WorkerCrash, vars

(* A result directory that the verifier would accept, and where a job that *)
(* the queue shows as remote is.                                           *)
Finished(n) ==
  results[n].body # NoResult /\ results[n].inputs /\ results[n].manifest = results[n].body.run

AtNode(j) ==
  \/ j \in inbox \union running \union failed
  \/ \E s \in ResultSuffixes : Finished(<<j, s>>)

(* The worker keeps the job it holds in running/, and unless a collector   *)
(* has taken the result away, what it has written so far is in place.      *)
WorkerWrites ==
  wpc # "idle" =>
    /\ wjob \in running
    /\ NotCollected(wjob) =>
         /\ wpc \in {"inputs", "manifest", "archive"} => results[wname].body = wrun
         /\ wpc \in {"manifest", "archive"} => results[wname].inputs
         /\ wpc = "archive" => results[wname].manifest = wrun.run

RemoteInv ==
  /\ RemoteIsOnNode /\ WorkerWrites
  /\ \A p \in Procs : pc[p] = "mark_ok" => AtNode(cur[p])

(* The directories of Node-01 that these facts are about.                  *)
places == <<inbox, running, failed, results>>

LEMMA PlacesSteps ==
  ASSUME [Next]_vars
  PROVE  \/ UNCHANGED places
         \/ \E p \in Procs : Publish(p) \/ PublishFails(p) \/ Acknowledge(p) \/ AcknowledgeFails(p)
         \/ \E j \in Jobs : Quarantine(j) \/ Claim(j)
         \/ \E s \in Outcomes : Execute(s)
         \/ WriteBody \/ WriteInputs \/ WriteManifest \/ Archive
<1>1. ASSUME WorkerStep \/ WorkerCrash
      PROVE  \/ UNCHANGED places
             \/ \E j \in Jobs : Quarantine(j) \/ Claim(j)
             \/ \E s \in Outcomes : Execute(s)
             \/ WriteBody \/ WriteInputs \/ WriteManifest \/ Archive
  BY <1>1 DEF WorkerStep, WorkerError, WorkerCrash, node, places
<1>2. ASSUME NEW p \in Procs,
             \/ \E j \in Jobs : SubmitQueueOnly(p, j) \/ Build(p, j)
             \/ BeginDispatch(p) \/ BeginCollect(p)
             \/ ControlStep(p)
             \/ UnpackFails(p) \/ PublishFails(p) \/ AcknowledgeFails(p) \/ ControlCrash(p)
      PROVE  \/ UNCHANGED places
             \/ Publish(p) \/ PublishFails(p) \/ Acknowledge(p) \/ AcknowledgeFails(p)
  BY <1>2
  DEF ControlStep, SubmitQueueOnly, Build, Enqueue, EnqueueDuplicate, BeginDispatch, NextRow,
      Unpack, UnpackFails, MarkDispatched, MarkDispatchFailed, AfterMark, BeginCollect, FetchStart,
      CopyFile, FetchFails, Verify, Reject, Record, RecordFails, ControlCrash, Continue, node, places
<1>3. ASSUME UNCHANGED vars
      PROVE  UNCHANGED places
  BY <1>3 DEF vars, node, places
<1> QED
  BY <1>1, <1>2, <1>3 DEF Next

(* Of the job the worker holds: its result name, and that it is typed.     *)
LEMMA WorkerName ==
  ASSUME TypeInv, wpc \in {"body", "inputs", "manifest", "archive"}
  PROVE  /\ wjob \in Jobs /\ wrun \in Results /\ wname \in Names /\ wname[1] = wjob
         /\ \E s \in ResultSuffixes : wname = <<wjob, s>>
  BY NameOfTyped DEF TypeInv, WorkerHolds, wname, NameOf, ResultSuffixes

LEMMA PlacesSame == ASSUME UNCHANGED places PROVE \A j : AtNode(j) => AtNode(j)'
  BY DEF places, AtNode, Finished

(* A job that is on the node stays there, unless its result was collected  *)
(* or it is the one a dispatcher is publishing.                            *)
LEMMA AtNodeStep ==
  ASSUME NEW p, Procs = {p}, TypeInv, RowsInv, WorkerWrites, [Next]_vars,
         NEW j \in Jobs, AtNode(j), NotCollected(j), ~(pc[p] = "publish" /\ cur[p] = j)
  PROVE  AtNode(j)'
<1>0. results \in [Names -> Dirs] /\ \A s \in ResultSuffixes : <<j, s>> \in Names
  BY DEF TypeInv, TypeOK, FilesTypeOK, Names
<1>1. CASE UNCHANGED places
  BY <1>1, PlacesSame
<1>2. CASE Publish(p) \/ PublishFails(p)
  <2>1. pc[p] = "publish" /\ inbox \ {cur[p]} \subseteq inbox' /\ UNCHANGED <<running, failed, results>>
    BY <1>2 DEF Publish, PublishFails, MoveToInbox, GoTo, node
  <2> QED
    BY <2>1 DEF AtNode, Finished
<1>3. CASE Acknowledge(p) \/ AcknowledgeFails(p)
  <2>1. /\ pc[p] = "ack" /\ UNCHANGED <<inbox, running, failed>>
        /\ results' \in {results, [results EXCEPT ![name[p]] = EmptyDir]}
    BY <1>3 DEF Acknowledge, AcknowledgeFails, MoveToArchive, Continue, GoTo, node
  <2>2. name[p][1] # j
    BY <2>1 DEF RowsInv
  <2>3. \A s \in ResultSuffixes : results'[<<j, s>>] = results[<<j, s>>]
    BY <1>0, <2>1, <2>2
  <2> QED
    BY <2>1, <2>3 DEF AtNode, Finished
<1>4. ASSUME NEW k \in Jobs, Quarantine(k) \/ Claim(k)
      PROVE  AtNode(j)'
  <2>1. /\ inbox \union running \union failed \subseteq inbox' \union running' \union failed'
        /\ UNCHANGED results
    BY <1>4 DEF Quarantine, Claim
  <2> QED
    BY <2>1 DEF AtNode, Finished
<1>5. ASSUME NEW n \in Names, n[1] = wjob, wpc # "idle", UNCHANGED <<inbox, running, failed>>,
             \A m \in Names : m # n => results'[m] = results[m]
      PROVE  AtNode(j)'
  <2>1. CASE j = wjob
    BY <1>5, <2>1 DEF WorkerWrites, AtNode
  <2>2. CASE j # wjob
    <3>1. \A s \in ResultSuffixes : results'[<<j, s>>] = results[<<j, s>>]
      BY <1>0, <1>5, <2>2
    <3> QED
      BY <1>5, <3>1 DEF AtNode, Finished
  <2> QED
    BY <2>1, <2>2
<1>6. ASSUME NEW s \in Outcomes, Execute(s)
      PROVE  AtNode(j)'
  <2>1. wpc = "executing" /\ NameOf(wjob, s) \in Names /\ NameOf(wjob, s)[1] = wjob
    BY <1>6, NameOfTyped DEF Execute, WGoTo, TypeInv, WorkerHolds
  <2>2. UNCHANGED <<inbox, running, failed>> /\ results' = [results EXCEPT ![NameOf(wjob, s)] = EmptyDir]
    BY <1>6 DEF Execute
  <2> QED
    BY <1>0, <1>5, <2>1, <2>2
<1>7. CASE WriteBody \/ WriteInputs \/ WriteManifest
  <2>1. wpc # "idle" /\ wname \in Names /\ wname[1] = wjob
    BY <1>7, WorkerName DEF WriteBody, WriteInputs, WriteManifest, WGoTo
  <2>2. /\ UNCHANGED <<inbox, running, failed>>
        /\ \A m \in Names : m # wname => results'[m] = results[m]
    BY <1>0, <1>7 DEF WriteBody, WriteInputs, WriteManifest
  <2> QED
    BY <1>5, <2>1, <2>2
<1>8. CASE Archive
  <2>1. /\ wpc = "archive" /\ UNCHANGED <<inbox, failed, results>>
        /\ running' = running \ {wjob}
    BY <1>8 DEF Archive
  <2>2. CASE j = wjob
    <3>1. wrun \in Results /\ wrun # NoResult /\ \E s \in ResultSuffixes : wname = <<wjob, s>>
      BY <2>1, WorkerName, NoResultIsNone
    <3>2. results[wname].body = wrun /\ results[wname].inputs /\ results[wname].manifest = wrun.run
      BY <2>1, <2>2 DEF WorkerWrites
    <3>3. PICK s \in ResultSuffixes : wname = <<j, s>>
      BY <2>2, <3>1
    <3>4. Finished(<<j, s>>)
      BY <3>1, <3>2, <3>3 DEF Finished
    <3> QED
      BY <2>1, <3>4 DEF AtNode, Finished
  <2>3. CASE j # wjob
    BY <2>1, <2>3 DEF AtNode, Finished
  <2> QED
    BY <2>2, <2>3
<1> QED
  BY <1>1, <1>2, <1>3, <1>4, <1>6, <1>7, <1>8, PlacesSteps

(* The steps of the worker, and what the others leave it.                  *)
LEMMA WorkerSteps ==
  ASSUME [Next]_vars
  PROVE  \/ UNCHANGED <<wrk, running, results>>
         \/ UNCHANGED <<wrk, running>> /\ \E p \in Procs : Acknowledge(p) \/ AcknowledgeFails(p)
         \/ \E j \in Jobs : Claim(j)
         \/ \E s \in Outcomes : Execute(s)
         \/ WriteBody \/ WriteInputs \/ WriteManifest
         \/ wpc' = "idle"
<1>1. ASSUME WorkerStep \/ WorkerCrash
      PROVE  \/ UNCHANGED <<wrk, running, results>>
             \/ \E j \in Jobs : Claim(j)
             \/ \E s \in Outcomes : Execute(s)
             \/ WriteBody \/ WriteInputs \/ WriteManifest
             \/ wpc' = "idle"
  BY <1>1 DEF WorkerStep, Quarantine, Archive, WorkerError, WorkerCrash, WorkerIdle
<1>2. ASSUME NEW p \in Procs,
             \/ \E j \in Jobs : SubmitQueueOnly(p, j) \/ Build(p, j)
             \/ BeginDispatch(p) \/ BeginCollect(p)
             \/ ControlStep(p)
             \/ UnpackFails(p) \/ PublishFails(p) \/ AcknowledgeFails(p) \/ ControlCrash(p)
      PROVE  \/ UNCHANGED <<wrk, running, results>>
             \/ UNCHANGED <<wrk, running>> /\ (Acknowledge(p) \/ AcknowledgeFails(p))
  BY <1>2
  DEF ControlStep, SubmitQueueOnly, Build, Enqueue, EnqueueDuplicate, BeginDispatch, NextRow,
      Unpack, UnpackFails, Publish, PublishFails, MoveToInbox, MarkDispatched, MarkDispatchFailed,
      AfterMark, BeginCollect, FetchStart, CopyFile, FetchFails, Verify, Reject, Record,
      RecordFails, Acknowledge, AcknowledgeFails, MoveToArchive, ControlCrash, Continue, node
<1>3. ASSUME UNCHANGED vars
      PROVE  UNCHANGED <<wrk, running, results>>
  BY <1>3 DEF vars, node
<1> QED
  BY <1>1, <1>2, <1>3 DEF Next

LEMMA WorkerWritesStep ==
  ASSUME NEW p, Procs = {p}, TypeInv, KeyInv, FinalInv, RowsInv, WorkerWrites, [Next]_vars
  PROVE  WorkerWrites'
<1>0. \A j \in Jobs : NotCollected(j)' => NotCollected(j)
  BY FinalInvStep DEF FinalStep, NotCollected
<1>1. wpc # "idle" => wjob \in Jobs
  BY DEF TypeInv, WorkerHolds
<1>2. results \in [Names -> Dirs]
  BY DEF TypeInv, TypeOK, FilesTypeOK
<1>3. CASE UNCHANGED <<wrk, running, results>>
  BY <1>0, <1>1, <1>3 DEF WorkerWrites, wrk, wname
<1>4. CASE UNCHANGED <<wrk, running>> /\ (Acknowledge(p) \/ AcknowledgeFails(p))
  <2>1. pc[p] = "ack" /\ results' \in {results, [results EXCEPT ![name[p]] = EmptyDir]}
    BY <1>4 DEF Acknowledge, AcknowledgeFails, MoveToArchive, Continue, GoTo, node
  <2>2. ~NotCollected(name[p][1])
    BY <2>1 DEF RowsInv
  <2>3. ASSUME wpc \in {"inputs", "manifest", "archive"}, NotCollected(wjob)
        PROVE  results'[wname] = results[wname]
    <3>1. wname \in Names /\ wname # name[p]
      BY <2>2, <2>3, WorkerName
    <3> QED
      BY <1>2, <2>1, <3>1
  <2>4. wname' = wname
    BY <1>4 DEF wrk, wname
  <2> QED
    BY <1>0, <1>1, <1>4, <2>3, <2>4 DEF WorkerWrites, wrk
<1>5. ASSUME NEW j \in Jobs, Claim(j)
      PROVE  WorkerWrites'
  BY <1>5 DEF Claim, WGoTo, WorkerWrites
<1>6. ASSUME NEW s \in Outcomes, Execute(s)
      PROVE  WorkerWrites'
  BY <1>6 DEF Execute, WGoTo, WorkerWrites
<1>7. CASE WriteBody
  <2>1. wname \in Names /\ wname' = wname /\ results[wname] \in Dirs
    BY <1>2, <1>7, WorkerName DEF WriteBody, WGoTo, wname
  <2>2. results'[wname].body = wrun
    BY <1>2, <1>7, <2>1 DEF WriteBody, Dirs
  <2> QED
    BY <1>7, <2>1, <2>2 DEF WriteBody, WGoTo, WorkerWrites
<1>8. CASE WriteInputs
  <2>1. wname \in Names /\ wname' = wname /\ results[wname] \in Dirs
    BY <1>2, <1>8, WorkerName DEF WriteInputs, WGoTo, wname
  <2>2. results'[wname].body = results[wname].body /\ results'[wname].inputs
    BY <1>2, <1>8, <2>1 DEF WriteInputs, Dirs
  <2> QED
    BY <1>0, <1>1, <1>8, <2>1, <2>2 DEF WriteInputs, WGoTo, WorkerWrites
<1>9. CASE WriteManifest
  <2>1. wname \in Names /\ wname' = wname /\ results[wname] \in Dirs
    BY <1>2, <1>9, WorkerName DEF WriteManifest, WGoTo, wname
  <2>2. /\ results'[wname].body = results[wname].body
        /\ results'[wname].inputs = results[wname].inputs
        /\ results'[wname].manifest = wrun.run
    BY <1>2, <1>9, <2>1 DEF WriteManifest, Dirs
  <2> QED
    BY <1>0, <1>1, <1>9, <2>1, <2>2 DEF WriteManifest, WGoTo, WorkerWrites
<1>10. CASE wpc' = "idle"
  BY <1>10 DEF WorkerWrites
<1> QED
  BY <1>3, <1>4, <1>5, <1>6, <1>7, <1>8, <1>9, <1>10, WorkerSteps

LEMMA RemoteInvStep ==
  ASSUME NEW p, Procs = {p}, TypeInv, KeyInv, FinalInv, RowsInv, RemoteInv, [Next]_vars
  PROVE  RemoteInv'
<1> DEFINE Shown(j) == status[j] = "REMOTE_QUEUED"
<1>0. RemoteIsOnNode <=> \A j \in Jobs : Shown(j) => AtNode(j)
  BY DEF RemoteIsOnNode, AtNode, Finished
<1>1. WorkerWrites'
  BY WorkerWritesStep DEF RemoteInv
<1>2. RemoteIsOnNode'
  <2> SUFFICES ASSUME NEW j \in Jobs, status'[j] = "REMOTE_QUEUED" PROVE AtNode(j)'
    BY DEF RemoteIsOnNode, AtNode, Finished
  <2>1. CASE Shown(j)
    <3>1. AtNode(j) /\ NotCollected(j)
      BY <1>0, <2>1 DEF RemoteInv, RowsInv
    <3>2. ~(pc[p] = "publish" /\ cur[p] = j)
      BY <2>1 DEF RowsInv, Dispatching
    <3> QED
      BY <3>1, <3>2, AtNodeStep DEF RemoteInv
  <2>2. CASE ~Shown(j)
    <3>1. /\ status' # status
          /\ ~\E k \in Jobs : SubmitQueueOnly(p, k)
          /\ ~Enqueue(p)
      BY <2>2 DEF SubmitQueueOnly, Enqueue, InsertRow, TypeInv, TypeOK, QueueTypeOK
    <3>2. ~Record(p)
      <4> SUFFICES ASSUME Record(p) PROVE FALSE
        OBVIOUS
      <4>1. status' = [status EXCEPT ![name[p][1]] = collected[name[p]].body.status]
        BY DEF Record, mark_result
      <4>2. collected[name[p]].body.status # "REMOTE_QUEUED"
        BY Recorded, ResultFields, FabricAssumption
      <4> QED
        BY <2>2, <4>1, <4>2 DEF TypeInv, TypeOK, QueueTypeOK
    <3>3. MarkDispatched(p)
      BY <3>1, <3>2, StatusSteps
    <3>4. pc[p] = "mark_ok" /\ cur[p] = j /\ UNCHANGED node
      BY <2>2, <3>3 DEF MarkDispatched, AfterMark, GoTo, mark_dispatched, TypeInv, TypeOK, QueueTypeOK
    <3>5. AtNode(j) /\ UNCHANGED places
      BY <3>4 DEF RemoteInv, node, places
    <3> QED
      BY <3>5, PlacesSame
  <2> QED
    BY <2>1, <2>2
<1>3. pc'[p] = "mark_ok" => AtNode(cur[p])'
  <2> SUFFICES ASSUME pc'[p] = "mark_ok" PROVE AtNode(cur[p])'
    OBVIOUS
  <2>1. CASE UNCHANGED <<pc, cur>>
    <3>1. PICK j \in Jobs : j = cur[p]
      BY <2>1 DEF TypeInv, ControlHolds
    <3>2. AtNode(j) /\ NotCollected(j)
      BY <2>1, <3>1 DEF RemoteInv, FinalInv, Dispatching
    <3>3. AtNode(j)'
      BY <2>1, <3>2, AtNodeStep DEF RemoteInv
    <3> QED
      BY <2>1, <3>1, <3>3 DEF AtNode, Finished
  <2>2. CASE Publish(p)
    <3>1. UNCHANGED cur /\ cur[p] \in inbox'
      BY <2>2 DEF Publish, MoveToInbox, GoTo, TypeInv, TypeOK, ControlTypeOK
    <3> QED
      BY <3>1 DEF AtNode
  <2>3. UNCHANGED <<pc, cur>> \/ Publish(p)
    <3> USE DEF GoTo, TypeInv, TypeOK, ControlTypeOK
    <3>1. ~\E j \in Jobs : Build(p, j) \/ NextRow(p, j)
      BY DEF Build, NextRow
    <3>2. ~(Enqueue(p) \/ EnqueueDuplicate(p) \/ BeginDispatch(p) \/ BeginCollect(p) \/ Unpack(p))
      BY DEF Enqueue, EnqueueDuplicate, BeginDispatch, BeginCollect, Unpack
    <3>3. ~(UnpackFails(p) \/ PublishFails(p) \/ AcknowledgeFails(p) \/ Acknowledge(p) \/ ControlCrash(p))
      BY DEF UnpackFails, PublishFails, AcknowledgeFails, Acknowledge, Continue, ControlCrash
    <3>4. ~(MarkDispatched(p) \/ MarkDispatchFailed(p))
      BY DEF MarkDispatched, MarkDispatchFailed, AfterMark
    <3>5. /\ ~\E n \in Names : FetchStart(p, n)
          /\ ~\E f \in Files : CopyFile(p, f)
      BY DEF FetchStart, CopyFile
    <3>6. ~(FetchFails(p) \/ Verify(p) \/ Reject(p) \/ Record(p) \/ RecordFails(p))
      BY DEF FetchFails, Verify, Reject, Record, RecordFails, Continue
    <3> QED
      BY <3>1, <3>2, <3>3, <3>4, <3>5, <3>6
      DEF Next, ControlStep, WorkerStep, SubmitQueueOnly, Quarantine, Claim, Execute, WriteBody,
          WriteInputs, WriteManifest, Archive, WorkerError, WorkerCrash, ctl, vars
  <2> QED
    BY <2>1, <2>2, <2>3
<1> QED
  BY <1>1, <1>2, <1>3 DEF RemoteInv

(* With one control process, a job the queue shows as remote is on         *)
(* Node-01, waiting, running, quarantined or finished, whatever crashes    *)
(* and lost answers the dispatches, the executions and the collections met.*)
THEOREM RemoteOnNode == ASSUME NEW p, Procs = {p} PROVE Spec => []RemoteIsOnNode
<1>1. Init => FinalInv /\ RowsInv /\ RemoteInv
  BY DEF Init, FinalInv, RowsInv, RemoteInv, RemoteIsOnNode, WorkerWrites, NotCollected, Dispatching,
         HasRow
<1>2. TypeInv /\ KeyInv /\ FinalInv /\ RowsInv /\ RemoteInv /\ [Next]_vars
        => FinalInv' /\ RowsInv' /\ RemoteInv'
  BY FinalInvStep, RowsInvStep, RemoteInvStep
<1>3. RemoteInv => RemoteIsOnNode
  BY DEF RemoteInv
<1> QED
  BY <1>1, <1>2, <1>3, TypeInvAlways, KeyInvAlways, PTL DEF Spec

-----------------------------------------------------------------------------
(***************************************************************************)
(* One execution, when there is one control process and nothing fails.     *)
(* Until a failure, a bundle is published once: while its row is QUEUED,   *)
(* nothing of it was in inbox/ or ran, except between the publication and  *)
(* the mark that follows it; and what stands in inbox/ has not run.        *)
(***************************************************************************)
Unrun(j) == Len(outcome[j]) = 0 /\ ~(wpc # "idle" /\ wjob = j)

Unsent(j) == status[j] \in {"ABSENT", "QUEUED"}

Marking(j) == \E p \in Procs : pc[p] = "mark_ok" /\ cur[p] = j

OnceInv ==
  faults = 0 =>
    /\ \A j \in Jobs : Len(outcome[j]) <= 1
    /\ \A j \in inbox : Unrun(j)
    /\ wpc = "executing" => Len(outcome[wjob]) = 0
    /\ \A j \in Jobs : Unsent(j) => (j \notin inbox /\ Unrun(j)) \/ Marking(j)

(* A step that leaves the inbox and the worker alone and unsends nothing.  *)
LEMMA OnceKept ==
  ASSUME OnceInv, UNCHANGED <<inbox, wrk, outcome>>, faults' = 0 => faults = 0,
         \A j \in Jobs : Unsent(j)' => Unsent(j),
         \A j \in Jobs : Unsent(j)' /\ Marking(j) => Marking(j)'
  PROVE  OnceInv'
<1>1. \A j : Unrun(j)' <=> Unrun(j)
  BY DEF Unrun, wrk
<1> QED
  BY <1>1 DEF OnceInv, wrk

LEMMA FaultCounts == TypeInv /\ Fault => faults' # 0
  BY FabricAssumption DEF TypeInv, TypeOK, WorkerTypeOK, Fault

LEMMA OnceInvStep ==
  ASSUME NEW p, Procs = {p}, TypeInv, FinalInv, RowsInv, OnceInv, [Next]_vars
  PROVE  OnceInv'
<1> USE DEF TypeInv, TypeOK, QueueTypeOK, ControlTypeOK, ControlHolds, GoTo
<1>1. CASE faults' # 0
  BY <1>1 DEF OnceInv
<1>2. ASSUME \/ \E j \in Jobs : SubmitQueueOnly(p, j) \/ Build(p, j) \/ NextRow(p, j)
             \/ Enqueue(p) \/ EnqueueDuplicate(p) \/ BeginDispatch(p) \/ BeginCollect(p)
      PROVE  OnceInv'
  <2>1. UNCHANGED <<inbox, wrk, outcome, faults>> /\ ~\E j : Marking(j)
    BY <1>2 DEF SubmitQueueOnly, Build, NextRow, Enqueue, EnqueueDuplicate, BeginDispatch, BeginCollect,
        node, hist, Marking
  <2>2. \A j \in Jobs : Unsent(j)' => Unsent(j)
    <3>1. \/ UNCHANGED status
          \/ \E j \in Jobs : status[j] = "ABSENT" /\ status' = [status EXCEPT ![j] = "QUEUED"]
      BY <1>2 DEF SubmitQueueOnly, Build, NextRow, Enqueue, EnqueueDuplicate, BeginDispatch,
          BeginCollect, queue, InsertRow, FinalInv, HasRow
    <3> QED
      BY <3>1 DEF Unsent
  <2> QED
    BY <2>1, <2>2, OnceKept
<1>3. CASE Unpack(p) \/ MarkDispatchFailed(p)
  <2>1. UNCHANGED <<inbox, wrk, outcome, faults, status>> /\ ~\E j : Marking(j)
    BY <1>3 DEF Unpack, MarkDispatchFailed, AfterMark, mark_dispatch_failed, node, hist, queue, Marking
  <2> QED
    BY <2>1, OnceKept DEF Unsent
<1>4. CASE MarkDispatched(p)
  <2>1. UNCHANGED <<inbox, wrk, outcome, faults>>
    BY <1>4 DEF MarkDispatched, AfterMark, node, hist
  <2>2. \A j \in Jobs : Unsent(j)' => Unsent(j) /\ j # cur[p]
    BY <1>4 DEF MarkDispatched, AfterMark, mark_dispatched, Unsent
  <2> QED
    BY <2>1, <2>2, OnceKept DEF Marking
<1>5. CASE Record(p)
  <2> DEFINE j == name[p][1]
             r == collected[name[p]].body
  <2>1. UNCHANGED <<inbox, wrk, outcome, faults>> /\ ~\E k : Marking(k)
    BY <1>5 DEF Record, node, hist, Marking
  <2>2. r.status \notin {"ABSENT", "QUEUED"}
    BY <1>5, Recorded, ResultFields, FabricAssumption
  <2>3. status' = [status EXCEPT ![j] = r.status]
    BY <1>5 DEF Record, mark_result
  <2>4. \A k \in Jobs : Unsent(k)' => Unsent(k)
    <3> HIDE DEF j, r
    <3> QED
      BY <2>2, <2>3 DEF Unsent
  <2> QED
    BY <2>1, <2>4, OnceKept
<1>6. ASSUME \/ \E n \in Names : FetchStart(p, n)
             \/ \E f \in Files : CopyFile(p, f)
             \/ Verify(p) \/ FetchFails(p) \/ Reject(p) \/ RecordFails(p) \/ Acknowledge(p),
             faults' = 0
      PROVE  OnceInv'
  <2>1. UNCHANGED <<inbox, wrk, outcome, status>> /\ ~\E k : Marking(k)
    BY <1>6 DEF FetchStart, CopyFile, Verify, FetchFails, Reject, RecordFails, Acknowledge,
        MoveToArchive, Continue, node, hist, queue, Marking
  <2>2. faults = 0
    BY <1>6, FaultCounts DEF FetchStart, CopyFile, Verify, FetchFails, Reject, RecordFails, Acknowledge
  <2> QED
    BY <2>1, <2>2, OnceKept DEF Unsent
<1>7. CASE Publish(p)
  <2>1. PICK c \in Jobs : c = cur[p]
    BY <1>7 DEF Publish
  <2>2. /\ inbox \ {c} \subseteq inbox' /\ inbox' \subseteq inbox \union {c}
        /\ c \in inbox' => pc'[p] = "mark_ok"
        /\ cur' = cur /\ pc[p] = "publish" /\ UNCHANGED <<status, wrk, outcome, faults>>
    BY <1>7, <2>1 DEF Publish, MoveToInbox, queue, hist
  <2>3. ~\E k : Marking(k)
    BY <2>2 DEF Marking
  <2>4. Unsent(c) /\ \A j \in Jobs : (Unsent(j)' <=> Unsent(j)) /\ (Unrun(j)' <=> Unrun(j))
    BY <2>1, <2>2 DEF Unsent, Unrun, RowsInv, Dispatching, wrk
  <2>5. c \in inbox' => Marking(c)'
    BY <2>1, <2>2 DEF Marking
  <2>6. inbox' \subseteq Jobs
    BY <2>2 DEF FilesTypeOK
  <2> QED
    BY <2>2, <2>3, <2>4, <2>5, <2>6 DEF OnceInv, wrk
<1>8. ASSUME NEW k \in Jobs, Quarantine(k)
      PROVE  OnceInv'
  <2>1. inbox' \subseteq inbox /\ UNCHANGED <<status, pc, cur, wrk, outcome, faults>>
    BY <1>8 DEF Quarantine, queue, ctl, hist
  <2>2. \A j : (Unsent(j)' <=> Unsent(j)) /\ (Unrun(j)' <=> Unrun(j)) /\ (Marking(j)' <=> Marking(j))
    BY <2>1 DEF Unsent, Unrun, Marking, wrk
  <2> QED
    BY <2>1, <2>2 DEF OnceInv, wrk
<1>9. ASSUME NEW k \in Jobs, Claim(k)
      PROVE  OnceInv'
  <2>1. /\ k \in inbox /\ inbox' = inbox \ {k} /\ wpc' = "executing" /\ wjob' = k /\ wpc = "idle"
        /\ UNCHANGED <<status, pc, cur, outcome, faults>>
    BY <1>9 DEF Claim, WGoTo, queue, ctl, hist
  <2>2. \A j : (Unsent(j)' <=> Unsent(j)) /\ (Marking(j)' <=> Marking(j))
    BY <2>1 DEF Unsent, Marking
  <2>3. \A j : j # k => (Unrun(j)' <=> Unrun(j))
    BY <2>1 DEF Unrun
  <2>4. faults = 0 => Len(outcome[k]) = 0
    BY <2>1 DEF OnceInv, Unrun
  <2> QED
    BY <2>1, <2>2, <2>3, <2>4 DEF OnceInv
<1>10. ASSUME NEW s \in Outcomes, Execute(s)
       PROVE  OnceInv'
  <2>1. /\ wpc = "executing" /\ wpc' = "body" /\ wjob \in Jobs /\ wjob' = wjob
        /\ outcome' = [outcome EXCEPT ![wjob] = Append(@, s)]
        /\ UNCHANGED <<status, pc, cur, inbox, faults>>
    BY <1>10 DEF Execute, WGoTo, WorkerHolds, queue, ctl
  <2>2. \A j : (Unsent(j)' <=> Unsent(j)) /\ (Marking(j)' <=> Marking(j))
    BY <2>1 DEF Unsent, Marking
  <2>3. outcome \in [Jobs -> Seq(Outcomes)]
    BY DEF WorkerTypeOK
  <2>4. \A j \in Jobs : j # wjob => outcome'[j] = outcome[j]
    BY <2>1, <2>3
  <2>5. \A j \in Jobs : Unrun(j) => Unrun(j)'
    BY <2>1, <2>4 DEF Unrun
  <2>6. Len(outcome'[wjob]) = Len(outcome[wjob]) + 1
    BY <2>1, <2>3
  <2>7. inbox \subseteq Jobs
    BY DEF FilesTypeOK
  <2>8. faults = 0 => Len(outcome'[wjob]) = 1
    BY <2>1, <2>6 DEF OnceInv
  <2> QED
    BY <2>1, <2>2, <2>4, <2>5, <2>7, <2>8 DEF OnceInv
<1>11. ASSUME \/ WriteBody \/ WriteInputs \/ WriteManifest
              \/ Archive \/ WorkerError \/ WorkerCrash,
              faults' = 0
       PROVE  OnceInv'
  <2>1. /\ wpc # "idle" /\ wpc' # "executing" /\ (wpc' = "idle" \/ wjob' = wjob)
        /\ UNCHANGED <<status, pc, cur, inbox, outcome>>
    BY <1>11 DEF WriteBody, WriteInputs, WriteManifest, Archive, WorkerError, WorkerCrash, WorkerIdle,
        WGoTo, queue, ctl, node, hist
  <2>2. faults = 0
    BY <1>11, FaultCounts DEF WriteBody, WriteInputs, WriteManifest, Archive, WorkerError, WorkerCrash
  <2>3. \A j : (Unsent(j)' <=> Unsent(j)) /\ (Marking(j)' <=> Marking(j)) /\ (Unrun(j) => Unrun(j)')
    BY <2>1 DEF Unsent, Marking, Unrun
  <2> QED
    BY <2>1, <2>2, <2>3 DEF OnceInv
<1>12. CASE UNCHANGED vars
  <2>1. UNCHANGED <<inbox, wrk, outcome, faults, status, pc, cur>>
    BY <1>12 DEF vars, node, hist, queue, ctl
  <2> QED
    BY <2>1, OnceKept DEF Unsent, Marking
<1>13. UnpackFails(p) \/ PublishFails(p) \/ AcknowledgeFails(p) \/ ControlCrash(p) => faults' # 0
  BY FaultCounts DEF UnpackFails, PublishFails, AcknowledgeFails, ControlCrash
<1> QED
  BY <1>1, <1>2, <1>3, <1>4, <1>5, <1>6, <1>7, <1>8, <1>9, <1>10, <1>11, <1>12, <1>13
  DEF Next, ControlStep, WorkerStep

(* With one control process and no failure so far no job runs twice: a     *)
(* failed dispatch, which would leave its row to be sent again, needs one. *)
THEOREM OnceUntilFault == ASSUME NEW p, Procs = {p} PROVE Spec => []OnceWithoutFaults
<1>1. Init => FinalInv /\ RowsInv /\ OnceInv
  BY DEF Init, FinalInv, RowsInv, NotCollected, Dispatching, HasRow, OnceInv, Unrun
<1>2. TypeInv /\ KeyInv /\ FinalInv /\ RowsInv /\ OnceInv /\ [Next]_vars
        => FinalInv' /\ RowsInv' /\ OnceInv'
  BY FinalInvStep, RowsInvStep, OnceInvStep
<1>3. OnceInv => OnceWithoutFaults
  BY DEF OnceInv, OnceWithoutFaults
<1> QED
  BY <1>1, <1>2, <1>3, TypeInvAlways, KeyInvAlways, PTL DEF Spec
=============================================================================
