------------------------- MODULE RedactionJobsProofs -------------------------
(* Theorems about RedactionJobs, for every set of jobs, documents and        *)
(* attempts, with or without the inline fallback and with or without crashes. *)
EXTENDS RedactionJobs, TLAPS

USE DEF jobVars, runVars, dbVars, docVars

LEMMA RunJob == \A r \in Runs : r[1] \in Jobs /\ DocumentOf[r[1]] \in Documents
BY RedactionAssumption DEF Runs

LEMMA InlineRun == \A j \in Jobs : <<j, Inline>> \in Runs
BY RedactionAssumption DEF Runs

LEMMA DeliveriesAreRuns == \A j \in Jobs : \A S \in Deliveries(j) : S \subseteq Runs
BY DEF Deliveries, Runs

LEMMA EventTypes ==
  /\ \A j \in Jobs : QueuedEvent(j) \in Events
  /\ \A r \in Runs : FailedEvent(r) \in Events
  /\ \A r \in Runs, v \in {"none"} \cup Verdicts : CompletedEvent(r, v) \in Events
BY RunJob DEF QueuedEvent, FailedEvent, CompletedEvent, Events

-----------------------------------------------------------------------------

\* The state of the pipeline is well typed: a step of any request, run, proof
\* thread or environment keeps every record, set and label within its type.
THEOREM TypeCorrect == Spec => []TypeOK
<1>1. Init => TypeOK
  BY DEF Init, TypeOK, Statuses, Stages, ApiStates, Pcs, Proofs
<1>2. TypeOK /\ [Next]_vars => TypeOK'
  <2> SUFFICES ASSUME TypeOK, [Next]_vars PROVE TypeOK'
    OBVIOUS
  <2> USE DEF TypeOK, Statuses, Stages, ApiStates, Pcs, ActivePcs, TryPcs, Proofs,
              LiveProof, Verdicts
  <2>1. ASSUME NEW j \in Jobs, Submit(j) \/ RequestDies(j) PROVE TypeOK'
    BY <2>1, EventTypes DEF Submit, RequestDies
  <2>2. ASSUME NEW j \in Jobs, Request(j) PROVE TypeOK'
    <3>1. CASE SendTask(j) \/ SendTaskRaises(j)
      BY <3>1, DeliveriesAreRuns DEF SendTask, SendTaskRaises, Enqueue
    <3>2. CASE NoWorkerReady(j) \/ MarkSent(j) \/ MarkDispatchFailed(j) \/ LaunchInline(j)
      BY <3>2, InlineRun DEF NoWorkerReady, MarkSent, MarkDispatchFailed, LaunchInline
    <3> QED BY <2>2, <3>1, <3>2 DEF Request
  <2>3. ASSUME NEW r \in Runs, Run(r) PROVE TypeOK'
    <3> USE RunJob DEF Goto, Progress
    <3>1. CASE TakeTask(r) \/ StartRun(r) \/ Lookup(r) \/ Decrypt(r)
      BY <3>1 DEF TakeTask, StartRun, Lookup, Decrypt
    <3>2. CASE DetectText(r) \/ Ocr(r) \/ Redact(r) \/ Preflight(r) \/ StartProof(r)
      BY <3>2 DEF DetectText, Ocr, Redact, Preflight, StartProof
    <3>3. CASE JoinProof(r) \/ ProofDeadline(r) \/ InsertResult(r) \/ LinkSource(r)
      BY <3>3 DEF JoinProof, ProofDeadline, InsertResult, LinkSource
    <3>4. CASE CompleteJob(r) \/ Raise(r) \/ MarkFailed(r)
      BY <3>4 DEF CompleteJob, Raise, MarkFailed
    <3>5. CASE RecordCompletion(r) \/ RecordFailure(r)
      BY <3>5, EventTypes DEF RecordCompletion, RecordFailure
    <3> QED BY <2>3, <3>1, <3>2, <3>3, <3>4, <3>5 DEF Run, Proceed
  <2>4. ASSUME NEW r \in Runs, ProofThread(r) \/ ProcessDies(r) PROVE TypeOK'
    BY <2>4 DEF ProofThread, ProofFails, InsertBundle, ReturnPayload, ProcessDies
  <2>5. ASSUME NEW d \in Documents, DeleteSource(d) \/ ReviveSource(d) PROVE TypeOK'
    BY <2>5 DEF DeleteSource, ReviveSource
  <2>6. CASE UNCHANGED vars
    BY <2>6 DEF vars
  <2> QED BY <2>1, <2>2, <2>3, <2>4, <2>5, <2>6 DEF Next
<1> QED BY <1>1, <1>2, PTL DEF Spec

-----------------------------------------------------------------------------
(* The inductive invariant.  The properties relate what is durable (blobs,    *)
(* bundles, results, the job record, the timeline) with one another; they are *)
(* inductive only together with how far each run has come: a run is past an   *)
(* insertion exactly when what it inserts is there, so no later step of it    *)
(* can change a verdict that a stored result, a job or an event carries.      *)

AfterStore  == {"link", "complete", "custody"}
AfterRedact == {"preflight", "witness", "await", "insert"} \cup AfterStore

ProofIsBacked ==
  \A r \in Runs : proof[r] \in {"bundled", "verified"} \/ zkpt[r] = "verified" => r \in bundles

ProgressIsDurable ==
  \A r \in Runs :
    /\ pc[r] \in AfterRedact => r \in blobs
    /\ pc[r] \in AfterStore => r \in results
    /\ r \in results => pc[r] \in AfterStore \cup {"failing", "report", "done", "dead"}

\* Before the request reaches the broker, or launches the inline thread, the runs
\* it may still start have not begun: a start never resets a run.
RunsAreFresh ==
  /\ \A j \in Jobs, a \in Attempts :
       \/ api[j] \in {"idle", "created"}
       \/ api[j] = "inline" /\ a = Inline
       => pc[<<j, a>>] = "absent"
  /\ \A r \in Runs : pc[r] = "absent" => proof[r] = "none"

DurableInv ==
  TypeOK /\ ProofIsBacked /\ ProgressIsDurable /\ ResultIsReadable /\ RunsAreFresh

LEMMA AbsentStays ==
  ASSUME TypeOK, RunsAreFresh, [Next]_vars
  PROVE  RunsAreFresh'
<1> USE DEF RunsAreFresh, TypeOK
<1>1. ASSUME NEW j \in Jobs, Submit(j) \/ RequestDies(j) PROVE RunsAreFresh'
  BY <1>1 DEF Submit, RequestDies
<1>2. ASSUME NEW j \in Jobs, Request(j) PROVE RunsAreFresh'
  <2>1. CASE SendTask(j) \/ SendTaskRaises(j)
    BY <2>1 DEF SendTask, SendTaskRaises, Enqueue, Deliveries, Runs
  <2>2. CASE NoWorkerReady(j) \/ MarkSent(j) \/ MarkDispatchFailed(j) \/ LaunchInline(j)
    BY <2>2, RedactionAssumption DEF NoWorkerReady, MarkSent, MarkDispatchFailed,
                                     LaunchInline, Runs
  <2> QED BY <1>2, <2>1, <2>2 DEF Request
<1>3. ASSUME NEW r \in Runs, Run(r) PROVE RunsAreFresh'
  <2>1. pc[r] # "absent" /\ \A s \in Runs : s # r => pc'[s] = pc[s] /\ proof'[s] = proof[s]
    BY <1>3 DEF Run, Proceed, Goto, Progress, TakeTask, StartRun, Lookup, Decrypt, DetectText, Ocr,
         Redact, Preflight, StartProof, JoinProof, ProofDeadline, InsertResult, LinkSource,
         CompleteJob, RecordCompletion, Raise, MarkFailed, RecordFailure, TryPcs
  <2>2. pc'[r] # "absent" /\ api' = api
    BY <1>3 DEF Run, Proceed, Goto, Progress, TakeTask, StartRun, Lookup, Decrypt, DetectText, Ocr,
         Redact, Preflight, StartProof, JoinProof, ProofDeadline, InsertResult, LinkSource,
         CompleteJob, RecordCompletion, Raise, MarkFailed, RecordFailure
  <2> QED BY <2>1, <2>2 DEF Runs
<1>4. ASSUME NEW r \in Runs, ProofThread(r) \/ ProcessDies(r) PROVE RunsAreFresh'
  <2>1. CASE ProofThread(r)
    BY <2>1 DEF ProofThread, ProofFails, InsertBundle, ReturnPayload
  <2>2. CASE ProcessDies(r)
    BY <2>2 DEF ProcessDies, ActivePcs, TryPcs, LiveProof, Runs
  <2> QED BY <1>4, <2>1, <2>2
<1>5. ASSUME NEW d \in Documents, DeleteSource(d) \/ ReviveSource(d) PROVE RunsAreFresh'
  BY <1>5 DEF DeleteSource, ReviveSource
<1>6. CASE UNCHANGED vars
  BY <1>6 DEF vars
<1> QED BY <1>1, <1>2, <1>3, <1>4, <1>5, <1>6 DEF Next

LEMMA DurableStep ==
  ASSUME TypeOK, TypeOK', DurableInv, [Next]_vars
  PROVE  DurableInv'
<1>1. RunsAreFresh'
  BY AbsentStays DEF DurableInv
<1>2. (ProofIsBacked /\ ProgressIsDurable /\ ResultIsReadable)'
  <2> USE DEF DurableInv, ProofIsBacked, ProgressIsDurable, ResultIsReadable,
              AfterStore, AfterRedact, TypeOK
  <2>1. ASSUME NEW j \in Jobs, Submit(j) \/ RequestDies(j)
        PROVE (ProofIsBacked /\ ProgressIsDurable /\ ResultIsReadable)'
    BY <2>1 DEF Submit, RequestDies
  <2>2. ASSUME NEW j \in Jobs, Request(j)
        PROVE (ProofIsBacked /\ ProgressIsDurable /\ ResultIsReadable)'
    <3>1. CASE SendTask(j) \/ SendTaskRaises(j)
      <4>1. PICK S \in Deliveries(j) : Enqueue(S)
        BY <3>1 DEF SendTask, SendTaskRaises
      <4>2. \A r \in S : r \in Runs /\ pc[r] = "absent"
        BY <3>1 DEF RunsAreFresh, Deliveries, Runs, SendTask, SendTaskRaises
      <4>3. S \cap results = {}
        BY <4>2
      <4> QED BY <3>1, <4>1, <4>3 DEF SendTask, SendTaskRaises, Enqueue
    <3>2. CASE NoWorkerReady(j) \/ MarkSent(j) \/ MarkDispatchFailed(j)
      BY <3>2 DEF NoWorkerReady, MarkSent, MarkDispatchFailed
    <3>3. CASE LaunchInline(j)
      <4>1. pc[<<j, Inline>>] = "absent"
        BY <3>3, RedactionAssumption DEF LaunchInline, RunsAreFresh
      <4>2. <<j, Inline>> \notin results
        BY <4>1, InlineRun
      <4> QED BY <3>3, <4>2 DEF LaunchInline
    <3> QED BY <2>2, <3>1, <3>2, <3>3 DEF Request
  <2>3. ASSUME NEW r \in Runs, Run(r)
        PROVE (ProofIsBacked /\ ProgressIsDurable /\ ResultIsReadable)'
    <3> USE DEF Goto, Progress
    <3>1. CASE TakeTask(r) \/ StartRun(r) \/ Lookup(r) \/ Decrypt(r)
      BY <3>1 DEF TakeTask, StartRun, Lookup, Decrypt
    <3>2. CASE DetectText(r) \/ Ocr(r) \/ Redact(r) \/ Preflight(r)
      BY <3>2 DEF DetectText, Ocr, Redact, Preflight
    <3>3. CASE StartProof(r)
      BY <3>3 DEF StartProof
    <3>4. CASE JoinProof(r)
      BY <3>4 DEF JoinProof
    <3>5. CASE ProofDeadline(r)
      BY <3>5 DEF ProofDeadline
    <3>6. CASE InsertResult(r) \/ LinkSource(r)
      BY <3>6 DEF InsertResult, LinkSource
    <3>7. CASE CompleteJob(r) \/ RecordCompletion(r)
      BY <3>7 DEF CompleteJob, RecordCompletion
    <3>8. CASE Raise(r) \/ MarkFailed(r) \/ RecordFailure(r)
      BY <3>8 DEF Raise, MarkFailed, RecordFailure, TryPcs
    <3> QED BY <2>3, <3>1, <3>2, <3>3, <3>4, <3>5, <3>6, <3>7, <3>8 DEF Run, Proceed
  <2>4. ASSUME NEW r \in Runs, ProofThread(r)
        PROVE (ProofIsBacked /\ ProgressIsDurable /\ ResultIsReadable)'
    BY <2>4 DEF ProofThread, ProofFails, InsertBundle, ReturnPayload
  <2>5. ASSUME NEW r \in Runs, ProcessDies(r)
        PROVE (ProofIsBacked /\ ProgressIsDurable /\ ResultIsReadable)'
    BY <2>5 DEF ProcessDies, LiveProof
  <2>6. ASSUME NEW d \in Documents, DeleteSource(d) \/ ReviveSource(d)
        PROVE (ProofIsBacked /\ ProgressIsDurable /\ ResultIsReadable)'
    BY <2>6 DEF DeleteSource, ReviveSource
  <2>7. CASE UNCHANGED vars
    BY <2>7 DEF vars
  <2> QED BY <2>1, <2>2, <2>3, <2>4, <2>5, <2>6, <2>7 DEF Next
<1> QED BY <1>1, <1>2 DEF DurableInv

LEMMA DurableInvariant == Spec => []DurableInv
<1>1. Init /\ TypeOK => DurableInv
  BY DEF Init, DurableInv, ProofIsBacked, ProgressIsDurable, ResultIsReadable,
         RunsAreFresh, AfterStore, AfterRedact, Runs
<1>2. TypeOK /\ TypeOK' /\ DurableInv /\ [Next]_vars => DurableInv'
  BY DurableStep
<1> QED BY <1>1, <1>2, TypeCorrect, PTL DEF Spec

\* A result document never lacks its file: the object store is written first, and
\* every later write of the run comes after.
THEOREM ResultsAreReadable == Spec => []ResultIsReadable
BY DurableInvariant, PTL DEF DurableInv

\* The fail-closed guarantee: a stored result claims "verified" only with its
\* bundle stored, for every interleaving of proof threads, deadlines and deaths.
THEOREM VerifiedResultsAreBacked == Spec => []VerifiedIsBacked
<1>1. DurableInv => VerifiedIsBacked
  BY DEF DurableInv, ProofIsBacked, VerifiedIsBacked, TypeOK
<1> QED BY <1>1, DurableInvariant, PTL

-----------------------------------------------------------------------------
(* What a job, a source document and the timeline say of results *)

PublicationInv ==
  JobPublishesOwnResult /\ SourceLinksOwnResult /\ TimelineIsTrue /\ CompletionIsRecorded

\* A verdict, once its result is stored, is settled.
LEMMA VerdictsSettle ==
  ASSUME TypeOK, DurableInv, [Next]_vars
  PROVE  \A r \in results : r \in results' /\ zkpt'[r] = zkpt[r]
<1> USE DEF DurableInv, ProgressIsDurable, TypeOK, AfterStore
<1>1. ASSUME NEW j \in Jobs, Submit(j) \/ RequestDies(j) \/ Request(j)
      PROVE  results' = results /\ zkpt' = zkpt
  BY <1>1 DEF Submit, RequestDies, Request, SendTask, SendTaskRaises, NoWorkerReady,
              MarkSent, MarkDispatchFailed, LaunchInline
<1>2. ASSUME NEW r \in Runs, Run(r)
      PROVE  results \subseteq results' /\ (pc[r] # "await" => zkpt' = zkpt)
                /\ \A s \in Runs : s # r => zkpt'[s] = zkpt[s]
  BY <1>2 DEF Run, Proceed, Goto, TakeTask, StartRun, Lookup, Decrypt, DetectText, Ocr, Redact,
              Preflight, StartProof, JoinProof, ProofDeadline, InsertResult, LinkSource,
              CompleteJob, RecordCompletion, Raise, MarkFailed, RecordFailure
<1>3. ASSUME NEW r \in Runs, ProofThread(r) \/ ProcessDies(r)
      PROVE  results' = results /\ zkpt' = zkpt
  BY <1>3 DEF ProofThread, ProofFails, InsertBundle, ReturnPayload, ProcessDies
<1>4. ASSUME NEW d \in Documents, DeleteSource(d) \/ ReviveSource(d) PROVE results' = results /\ zkpt' = zkpt
  BY <1>4 DEF DeleteSource, ReviveSource
<1>5. CASE UNCHANGED vars
  BY <1>5 DEF vars
<1> QED BY <1>1, <1>2, <1>3, <1>4, <1>5 DEF Next

LEMMA PublicationStep ==
  ASSUME TypeOK, TypeOK', DurableInv, PublicationInv, [Next]_vars
  PROVE  PublicationInv'
<1> USE VerdictsSettle DEF PublicationInv, JobPublishesOwnResult, SourceLinksOwnResult,
        TimelineIsTrue, CompletionIsRecorded, TypeOK
<1>1. ASSUME NEW j \in Jobs, Submit(j) \/ RequestDies(j) PROVE PublicationInv'
  BY <1>1 DEF Submit, RequestDies, QueuedEvent
<1>2. ASSUME NEW j \in Jobs, Request(j) PROVE PublicationInv'
  <2>1. CASE SendTask(j) \/ SendTaskRaises(j)
    <3>1. PICK S \in Deliveries(j) : Enqueue(S)
      BY <2>1 DEF SendTask, SendTaskRaises
    <3>2. \A r \in S : r \in Runs /\ pc[r] = "absent"
      BY <2>1 DEF DurableInv, RunsAreFresh, Deliveries, Runs, SendTask, SendTaskRaises
    <3>3. S \cap results = {}
      BY <3>2 DEF DurableInv, ProgressIsDurable, AfterStore
    <3> QED BY <2>1, <3>1, <3>3 DEF SendTask, SendTaskRaises, Enqueue
  <2>2. CASE NoWorkerReady(j) \/ MarkSent(j) \/ MarkDispatchFailed(j)
    BY <2>2 DEF NoWorkerReady, MarkSent, MarkDispatchFailed
  <2>3. CASE LaunchInline(j)
    <3>1. <<j, Inline>> \notin results
      BY <2>3, RedactionAssumption, InlineRun
         DEF LaunchInline, DurableInv, RunsAreFresh, ProgressIsDurable, AfterStore
    <3> QED BY <2>3, <3>1 DEF LaunchInline
  <2> QED BY <1>2, <2>1, <2>2, <2>3 DEF Request
<1>3. ASSUME NEW r \in Runs, Run(r) PROVE PublicationInv'
  <2> USE RunJob DEF Goto, Progress
  <2>1. CASE TakeTask(r) \/ StartRun(r) \/ Lookup(r) \/ Decrypt(r)
    BY <2>1 DEF TakeTask, StartRun, Lookup, Decrypt
  <2>2. CASE DetectText(r) \/ Ocr(r) \/ Redact(r) \/ Preflight(r) \/ StartProof(r)
    BY <2>2 DEF DetectText, Ocr, Redact, Preflight, StartProof
  <2>3. CASE JoinProof(r) \/ ProofDeadline(r)
    BY <2>3 DEF JoinProof, ProofDeadline
  <2>4. CASE InsertResult(r)
    BY <2>4 DEF InsertResult
  <2>5. CASE LinkSource(r)
    BY <2>5 DEF LinkSource, DurableInv, ProgressIsDurable, AfterStore
  <2>6. CASE CompleteJob(r)
    <3>1. r \in results
      BY <2>6 DEF CompleteJob, DurableInv, ProgressIsDurable, AfterStore
    <3>2. JobPublishesOwnResult'
      BY <2>6, <3>1, RedactionAssumption DEF CompleteJob
    <3>3. (SourceLinksOwnResult /\ TimelineIsTrue)'
      BY <2>6 DEF CompleteJob
    <3>4. CompletionIsRecorded'
      BY <2>6 DEF CompleteJob
    <3> QED BY <3>2, <3>3, <3>4
  <2>7. CASE RecordCompletion(r)
    BY <2>7 DEF RecordCompletion, CompletedEvent, DurableInv, ProgressIsDurable, AfterStore
  <2>8. CASE Raise(r)
    BY <2>8 DEF Raise
  <2>9. CASE MarkFailed(r)
    BY <2>9 DEF MarkFailed
  <2>10. CASE RecordFailure(r)
    BY <2>10 DEF RecordFailure, FailedEvent
  <2> QED BY <1>3, <2>1, <2>2, <2>3, <2>4, <2>5, <2>6, <2>7, <2>8, <2>9, <2>10 DEF Run, Proceed
<1>4. ASSUME NEW r \in Runs, ProofThread(r) PROVE PublicationInv'
  BY <1>4 DEF ProofThread, ProofFails, InsertBundle, ReturnPayload
<1>5. ASSUME NEW r \in Runs, ProcessDies(r) PROVE PublicationInv'
  BY <1>5 DEF ProcessDies
<1>6. ASSUME NEW d \in Documents, DeleteSource(d) \/ ReviveSource(d) PROVE PublicationInv'
  BY <1>6 DEF DeleteSource, ReviveSource
<1>7. CASE UNCHANGED vars
  BY <1>7 DEF vars
<1> QED BY <1>1, <1>2, <1>3, <1>4, <1>5, <1>6, <1>7 DEF Next

LEMMA PublicationInvariant == Spec => []PublicationInv
<1>1. Init => PublicationInv
  BY DEF Init, PublicationInv, JobPublishesOwnResult, SourceLinksOwnResult,
         TimelineIsTrue, CompletionIsRecorded
<1>2. TypeOK /\ TypeOK' /\ DurableInv /\ PublicationInv /\ [Next]_vars => PublicationInv'
  BY PublicationStep
<1> QED BY <1>1, <1>2, TypeCorrect, DurableInvariant, PTL DEF Spec

\* A completed job points to a stored result of its own and to the bundle that
\* result attests, however many runs of the job there are and wherever they stop.
THEOREM JobsPublishOwnResults == Spec => []JobPublishesOwnResult
BY PublicationInvariant, PTL DEF PublicationInv

\* latest_redaction_result_id is always a stored result for that very source.
THEOREM SourcesLinkOwnResults == Spec => []SourceLinksOwnResult
BY PublicationInvariant, PTL DEF PublicationInv

\* The completions on the timeline are of stored results, with their verdicts.
THEOREM TimelineTruth == Spec => []TimelineIsTrue
BY PublicationInvariant, PTL DEF PublicationInv

\* A job stays completed only with its completion on the timeline, or with the run
\* that published it still to write it, to mark the job failed, or dead.
THEOREM CompletionsAreRecorded == Spec => []CompletionIsRecorded
BY PublicationInvariant, PTL DEF PublicationInv

\* A terminal stage is shown only with the status it belongs to, although every
\* progress update and the dispatcher write the stage alone.
THEOREM TerminalStages == Spec => []TerminalStageIsTrue
<1> USE DEF TypeOK, TerminalStageIsTrue, Goto, Progress
<1>1. Init => TerminalStageIsTrue
  BY DEF Init
<1>2. TypeOK /\ TerminalStageIsTrue /\ [Next]_vars => TerminalStageIsTrue'
  <2> SUFFICES ASSUME TypeOK, TerminalStageIsTrue, [Next]_vars PROVE TerminalStageIsTrue'
    OBVIOUS
  <2>1. ASSUME NEW j \in Jobs, Submit(j) \/ RequestDies(j) \/ Request(j)
        PROVE  TerminalStageIsTrue'
    BY <2>1 DEF Submit, RequestDies, Request, SendTask, SendTaskRaises, NoWorkerReady,
                MarkSent, MarkDispatchFailed, LaunchInline
  <2>2. ASSUME NEW r \in Runs, Run(r) PROVE TerminalStageIsTrue'
    <3>1. CASE TakeTask(r) \/ StartRun(r) \/ Lookup(r) \/ Decrypt(r) \/ DetectText(r)
               \/ Ocr(r) \/ Redact(r) \/ Preflight(r) \/ StartProof(r)
      BY <3>1 DEF TakeTask, StartRun, Lookup, Decrypt, DetectText, Ocr, Redact, Preflight,
                  StartProof
    <3>2. CASE JoinProof(r) \/ ProofDeadline(r) \/ InsertResult(r) \/ LinkSource(r)
               \/ CompleteJob(r) \/ RecordCompletion(r) \/ Raise(r) \/ MarkFailed(r)
               \/ RecordFailure(r)
      BY <3>2 DEF JoinProof, ProofDeadline, InsertResult, LinkSource, CompleteJob,
                  RecordCompletion, Raise, MarkFailed, RecordFailure
    <3> QED BY <2>2, <3>1, <3>2 DEF Run, Proceed
  <2>3. ASSUME NEW r \in Runs, ProofThread(r) \/ ProcessDies(r) PROVE TerminalStageIsTrue'
    BY <2>3 DEF ProofThread, ProofFails, InsertBundle, ReturnPayload, ProcessDies
  <2>4. ASSUME NEW d \in Documents, DeleteSource(d) \/ ReviveSource(d) PROVE TerminalStageIsTrue'
    BY <2>4 DEF DeleteSource, ReviveSource
  <2>5. CASE UNCHANGED vars
    BY <2>5 DEF vars
  <2> QED BY <2>1, <2>2, <2>3, <2>4, <2>5 DEF Next
<1> QED BY <1>1, <1>2, TypeCorrect, PTL DEF Spec

-----------------------------------------------------------------------------
(* No job is forgotten.  The request hands a job over before it lets go of it, *)
(* and each run holds it until its own last write of the status.               *)

LEMMA RequestForgetsNoJob ==
  ASSUME TypeOK, RunsAreFresh, NoJobIsForgotten, NEW i \in Jobs,
         Submit(i) \/ Request(i) \/ RequestDies(i)
  PROVE  NoJobIsForgotten'
<1> USE RedactionAssumption
<1>1. timeline \subseteq timeline' /\ \A j \in Jobs : j # i => api'[j] = api[j] /\ status'[j] = status[j]
  BY DEF TypeOK, Submit, Request, RequestDies, SendTask, SendTaskRaises, NoWorkerReady, MarkSent,
         MarkDispatchFailed, LaunchInline
<1>2. \A j \in Jobs, a \in Attempts : pc'[<<j, a>>] = pc[<<j, a>>] \/ pc[<<j, a>>] = "absent"
  <2> SUFFICES ASSUME NEW j \in Jobs, NEW a \in Attempts
               PROVE  pc'[<<j, a>>] = pc[<<j, a>>] \/ pc[<<j, a>>] = "absent"
    OBVIOUS
  <2>1. <<j, a>> \in Runs
    BY DEF Runs
  <2>2. CASE SendTask(i) \/ SendTaskRaises(i)
    <3>1. api[i] = "created" /\ \E S \in Deliveries(i) : Enqueue(S)
      BY <2>2 DEF SendTask, SendTaskRaises
    <3>2. j # i => pc'[<<j, a>>] = pc[<<j, a>>]
      BY <2>1, <3>1 DEF Enqueue, Deliveries
    <3> QED BY <3>1, <3>2 DEF RunsAreFresh
  <2>3. CASE LaunchInline(i)
    <3>1. pc[<<i, Inline>>] = "absent"
      BY <2>3 DEF LaunchInline, RunsAreFresh
    <3>2. <<j, a>> # <<i, Inline>> => pc'[<<j, a>>] = pc[<<j, a>>]
      BY <2>1, <2>3 DEF LaunchInline, TypeOK
    <3> QED BY <3>1, <3>2
  <2>4. CASE ~(SendTask(i) \/ SendTaskRaises(i) \/ LaunchInline(i))
    BY <2>4 DEF Submit, Request, RequestDies, NoWorkerReady, MarkSent, MarkDispatchFailed
  <2> QED BY <2>2, <2>3, <2>4
<1>3. \/ status'[i] \in {status[i], "queued"}
      \/ api'[i] = "refused" /\ status'[i] = "failed"
  <2>1. CASE Submit(i) \/ MarkDispatchFailed(i)
    BY <2>1 DEF TypeOK, Submit, MarkDispatchFailed
  <2>2. CASE ~(Submit(i) \/ MarkDispatchFailed(i))
    BY <2>2 DEF Request, RequestDies, SendTask, SendTaskRaises, NoWorkerReady, MarkSent, LaunchInline
  <2> QED BY <2>1, <2>2
<1>4. api[i] # "refused"
  BY DEF Submit, Request, RequestDies, SendTask, SendTaskRaises, NoWorkerReady, MarkSent,
         MarkDispatchFailed, LaunchInline
<1>5. ASSUME status'[i] = "queued"
      PROVE  \/ api'[i] \in {"created", "send_failed", "inline", "crashed"}
             \/ api'[i] = "refused" /\ ~AllowInlineFallback
             \/ \E a \in Attempts : pc'[<<i, a>>] \in {"queued", "start", "dead"}
  <2>1. CASE Submit(i) \/ RequestDies(i) \/ SendTaskRaises(i) \/ NoWorkerReady(i)
    BY <2>1 DEF Submit, RequestDies, SendTaskRaises, NoWorkerReady, TypeOK
  <2>2. CASE SendTask(i)
    <3>1. PICK S \in Deliveries(i) : S # {} /\ Enqueue(S)
      BY <2>2 DEF SendTask
    <3>2. PICK a \in Attempts : <<i, a>> \in S
      BY <3>1 DEF Deliveries
    <3>3. pc'[<<i, a>>] = "queued"
      BY <3>1, <3>2 DEF Enqueue, Runs
    <3> QED BY <3>3
  <2>3. CASE MarkSent(i)
    <3>1. api[i] = "sent" /\ status[i] = "queued" /\ pc' = pc
      BY <1>5, <2>3 DEF MarkSent
    <3> QED BY <3>1 DEF NoJobIsForgotten
  <2>4. CASE LaunchInline(i)
    <3>1. pc'[<<i, Inline>>] = "start"
      BY <2>4 DEF LaunchInline, TypeOK, Runs
    <3> QED BY <3>1
  <2>5. CASE MarkDispatchFailed(i)
    BY <1>5, <2>5 DEF MarkDispatchFailed, TypeOK
  <2> QED BY <2>1, <2>2, <2>3, <2>4, <2>5 DEF Request
<1>6. ASSUME NEW j \in Jobs, status'[j] = "queued"
      PROVE  \/ api'[j] \in {"created", "send_failed", "inline", "crashed"}
             \/ api'[j] = "refused" /\ ~AllowInlineFallback
             \/ \E a \in Attempts : pc'[<<j, a>>] \in {"queued", "start", "dead"}
  <2>1. CASE j # i
    BY <1>1, <1>2, <1>6, <2>1 DEF NoJobIsForgotten
  <2> QED BY <1>5, <1>6, <2>1
<1>7. ASSUME NEW j \in Jobs, status'[j] = "processing"
      PROVE  \E a \in Attempts :
               pc'[<<j, a>>] \in (TryPcs \ {"custody"}) \cup {"failing", "dead"}
  BY <1>1, <1>2, <1>3, <1>7 DEF NoJobIsForgotten, TryPcs
<1>8. ASSUME NEW j \in Jobs, status'[j] = "failed"
      PROVE  \/ api'[j] = "refused"
             \/ \E a \in Attempts : \/ FailedEvent(<<j, a>>) \in timeline'
                                    \/ pc'[<<j, a>>] \in {"report", "dead"}
  <2>1. CASE status[j] = "failed" /\ (j = i => api[i] # "refused")
    BY <1>1, <1>2, <2>1 DEF NoJobIsForgotten
  <2> QED BY <1>1, <1>3, <1>4, <1>8, <2>1
<1> QED BY <1>6, <1>7, <1>8 DEF NoJobIsForgotten

\* What a run that writes no status, or hands the job on, does to the others' claim.
LEMMA RunForgetsNoJob ==
  ASSUME TypeOK, NoJobIsForgotten, NEW r \in Runs, Run(r)
  PROVE  NoJobIsForgotten'
<1> USE DEF Goto, Progress, TypeOK
<1>1. PICK i \in Jobs, b \in Attempts : r = <<i, b>>
  BY DEF Runs
<1>2. api' = api /\ timeline \subseteq timeline'
  BY DEF Run, Proceed, TakeTask, StartRun, Lookup, Decrypt, DetectText, Ocr, Redact, Preflight,
       StartProof, JoinProof, ProofDeadline, InsertResult, LinkSource, CompleteJob,
       RecordCompletion, Raise, MarkFailed, RecordFailure
<1>3. \A j \in Jobs, a \in Attempts : <<j, a>> # r => pc'[<<j, a>>] = pc[<<j, a>>]
  BY DEF Runs, Run, Proceed, TakeTask, StartRun, Lookup, Decrypt, DetectText, Ocr, Redact,
       Preflight, StartProof, JoinProof, ProofDeadline, InsertResult, LinkSource, CompleteJob,
       RecordCompletion, Raise, MarkFailed, RecordFailure
<1>4. \A j \in Jobs : j # i => status'[j] = status[j]
  BY <1>1 DEF Run, Proceed, TakeTask, StartRun, Lookup, Decrypt, DetectText, Ocr, Redact,
       Preflight, StartProof, JoinProof, ProofDeadline, InsertResult, LinkSource, CompleteJob,
       RecordCompletion, Raise, MarkFailed, RecordFailure
<1>5. \/ status' = status /\ pc[r] \in {"queued"} /\ pc'[r] = "start"
      \/ status'[i] = "processing" /\ pc'[r] = "lookup"
      \/ /\ status' = status /\ pc[r] \in TryPcs \ {"custody"}
         /\ pc'[r] \in (TryPcs \ {"custody"}) \cup {"failing"}
      \/ status'[i] = "completed"
      \/ status' = status /\ pc[r] = "custody"
      \/ status'[i] = "failed" /\ pc'[r] = "report"
      \/ status' = status /\ pc[r] = "report" /\ FailedEvent(r) \in timeline'
  <2>1. CASE TakeTask(r) \/ StartRun(r) \/ CompleteJob(r) \/ RecordCompletion(r)
    BY <1>1, <2>1 DEF TakeTask, StartRun, CompleteJob, RecordCompletion
  <2>2. CASE MarkFailed(r) \/ RecordFailure(r)
    BY <1>1, <2>2 DEF MarkFailed, RecordFailure
  <2>3. CASE Raise(r)
    BY <2>3 DEF Raise, TryPcs
  <2>4. CASE Lookup(r) \/ Decrypt(r) \/ DetectText(r) \/ Ocr(r) \/ Redact(r) \/ Preflight(r)
    BY <2>4 DEF Lookup, Decrypt, DetectText, Ocr, Redact, Preflight, TryPcs
  <2>5. CASE StartProof(r) \/ JoinProof(r) \/ ProofDeadline(r) \/ InsertResult(r) \/ LinkSource(r)
    BY <2>5 DEF StartProof, JoinProof, ProofDeadline, InsertResult, LinkSource, TryPcs
  <2> QED BY <2>1, <2>2, <2>3, <2>4, <2>5 DEF Run, Proceed
<1>6. ASSUME NEW j \in Jobs, status'[j] = "queued"
      PROVE  \/ api'[j] \in {"created", "send_failed", "inline", "crashed"}
             \/ api'[j] = "refused" /\ ~AllowInlineFallback
             \/ \E a \in Attempts : pc'[<<j, a>>] \in {"queued", "start", "dead"}
  <2>1. CASE j # i
    BY <1>1, <1>2, <1>3, <1>4, <1>6, <2>1 DEF NoJobIsForgotten
  <2>2. CASE j = i
    BY <1>1, <1>2, <1>3, <1>5, <1>6, <2>2 DEF NoJobIsForgotten, TryPcs
  <2> QED BY <2>1, <2>2
<1>7. ASSUME NEW j \in Jobs, status'[j] = "processing"
      PROVE  \E a \in Attempts :
               pc'[<<j, a>>] \in (TryPcs \ {"custody"}) \cup {"failing", "dead"}
  <2>1. CASE j # i
    BY <1>1, <1>3, <1>4, <1>7, <2>1 DEF NoJobIsForgotten
  <2>2. CASE j = i
    BY <1>1, <1>3, <1>5, <1>7, <2>2 DEF NoJobIsForgotten, TryPcs
  <2> QED BY <2>1, <2>2
<1>8. ASSUME NEW j \in Jobs, status'[j] = "failed"
      PROVE  \/ api'[j] = "refused"
             \/ \E a \in Attempts : \/ FailedEvent(<<j, a>>) \in timeline'
                                    \/ pc'[<<j, a>>] \in {"report", "dead"}
  <2>1. CASE j # i
    BY <1>1, <1>2, <1>3, <1>4, <1>8, <2>1 DEF NoJobIsForgotten
  <2>2. CASE j = i
    BY <1>1, <1>2, <1>3, <1>5, <1>8, <2>2 DEF NoJobIsForgotten, TryPcs
  <2> QED BY <2>1, <2>2
<1> QED BY <1>6, <1>7, <1>8 DEF NoJobIsForgotten

\* No job is left in a status nobody will move it from, but by a death or the 503:
\* for any number of jobs and of runs of each, in every interleaving.
THEOREM JobsAreNotForgotten == Spec => []NoJobIsForgotten
<1>1. Init => NoJobIsForgotten
  BY DEF Init, NoJobIsForgotten
<1>2. TypeOK /\ RunsAreFresh /\ NoJobIsForgotten /\ [Next]_vars => NoJobIsForgotten'
  <2> SUFFICES ASSUME TypeOK, RunsAreFresh, NoJobIsForgotten, [Next]_vars
               PROVE  NoJobIsForgotten'
    OBVIOUS
  <2>1. ASSUME NEW j \in Jobs, Submit(j) \/ Request(j) \/ RequestDies(j)
        PROVE  NoJobIsForgotten'
    BY <2>1, RequestForgetsNoJob
  <2>2. ASSUME NEW r \in Runs, Run(r) PROVE NoJobIsForgotten'
    BY <2>2, RunForgetsNoJob
  <2>3. ASSUME NEW r \in Runs, ProofThread(r) PROVE NoJobIsForgotten'
    BY <2>3 DEF ProofThread, ProofFails, InsertBundle, ReturnPayload, NoJobIsForgotten
  <2>4. ASSUME NEW r \in Runs, ProcessDies(r) PROVE NoJobIsForgotten'
    <3>1. \A j \in Jobs, a \in Attempts :
            pc'[<<j, a>>] \in {pc[<<j, a>>], "dead"}
      BY <2>4 DEF ProcessDies, TypeOK, Runs
    <3> QED BY <2>4, <3>1 DEF ProcessDies, NoJobIsForgotten
  <2>5. ASSUME NEW d \in Documents, DeleteSource(d) \/ ReviveSource(d)
        PROVE  NoJobIsForgotten'
    BY <2>5 DEF DeleteSource, ReviveSource, NoJobIsForgotten
  <2>6. CASE UNCHANGED vars
    BY <2>6 DEF vars, NoJobIsForgotten
  <2> QED BY <2>1, <2>2, <2>3, <2>4, <2>5, <2>6 DEF Next
<1>3. DurableInv => RunsAreFresh
  BY DEF DurableInv
<1> QED BY <1>1, <1>2, <1>3, TypeCorrect, DurableInvariant, PTL DEF Spec

-----------------------------------------------------------------------------
(* Refinement: the pipeline implements RedactionPublication.  Three kinds of  *)
(* steps are visible there (inserting a bundle, a result document, and the    *)
(* last update of a job); every other step leaves the mapped state alone.     *)

Attested  == {r \in results : zkpt[r] = "verified"}
Published == [j \in Jobs |-> [result |-> resultOf[j], bundle |-> bundleOf[j]]]

LEMMA MappedRuns == Publication!Runs = Runs
BY DEF Publication!Runs, Runs

LEMMA InvisibleStep ==
  ASSUME TypeOK, UNCHANGED <<bundles, results, resultOf, bundleOf>>,
         \A r \in results : zkpt'[r] = zkpt[r]
  PROVE  UNCHANGED Publication!vars
<1>1. Attested' = Attested
  BY DEF Attested
<1>2. Published' = Published
  BY DEF Published
<1> QED BY <1>1, <1>2 DEF Publication!vars, Attested, Published

LEMMA VisibleStep ==
  ASSUME TypeOK, DurableInv, NEW r \in Runs, Run(r) \/ ProofThread(r)
  PROVE  \/ InsertBundle(r) \/ InsertResult(r) \/ CompleteJob(r)
         \/ UNCHANGED <<bundles, results, resultOf, bundleOf>>
BY DEF Run, Proceed, Goto, TakeTask, StartRun, Lookup, Decrypt, DetectText, Ocr, Redact,
       Preflight, StartProof, JoinProof, ProofDeadline, LinkSource,
       RecordCompletion, Raise, MarkFailed, RecordFailure,
       ProofThread, ProofFails, ReturnPayload

\* The detailed pipeline keeps the promise: proofs precede claims, results precede
\* publication, nothing published is withdrawn or changes its verdict.
THEOREM PipelineImplementsPublication == Spec => PublicationSpec
<1>1. Init => Publication!Init
  BY DEF Init, Publication!Init, Publication!Unpublished
<1>2. TypeOK /\ DurableInv /\ [Next]_vars => [Publication!Next]_(Publication!vars)
  <2> SUFFICES ASSUME TypeOK, DurableInv, [Next]_vars
               PROVE  [Publication!Next]_(Publication!vars)
    OBVIOUS
  <2>1. ASSUME UNCHANGED <<bundles, results, resultOf, bundleOf>>
        PROVE  UNCHANGED Publication!vars
    BY <2>1, VerdictsSettle, InvisibleStep
  <2>2. ASSUME NEW r \in Runs, InsertBundle(r) PROVE Publication!Prove(r)
    BY <2>2 DEF InsertBundle, Publication!Prove
  <2>3. ASSUME NEW r \in Runs, InsertResult(r) PROVE Publication!Store(r)
    <3>1. r \notin results
      BY <2>3 DEF InsertResult, Goto, DurableInv, ProgressIsDurable, AfterStore
    <3>2. zkpt[r] = "verified" => r \in bundles
      BY DEF DurableInv, ProofIsBacked
    <3>3. Attested' = IF zkpt[r] = "verified" THEN Attested \cup {r} ELSE Attested
      BY <2>3, <3>1 DEF InsertResult, Attested
    <3>4. UNCHANGED <<bundles, Published>> /\ results' = results \cup {r}
      BY <2>3 DEF InsertResult, Published
    <3> QED BY <3>1, <3>2, <3>3, <3>4 DEF Publication!Store, Attested, Published
  <2>4. ASSUME NEW r \in Runs, CompleteJob(r) PROVE Publication!Publish(r)
    <3>1. r \in results
      BY <2>4 DEF CompleteJob, Goto, DurableInv, ProgressIsDurable, AfterStore
    <3>2. r \in Attested <=> zkpt[r] = "verified"
      BY <3>1 DEF Attested
    <3>3. Published' = [Published EXCEPT ![r[1]] =
             [result |-> r, bundle |-> IF r \in Attested THEN r ELSE NoRun]]
      BY <2>4, <3>2, RunJob DEF CompleteJob, Published, TypeOK
    <3>4. UNCHANGED <<bundles, results, Attested>>
      BY <2>4 DEF CompleteJob, Attested
    <3> QED BY <3>1, <3>3, <3>4 DEF Publication!Publish, Attested, Published
  <2>5. ASSUME NEW j \in Jobs, Submit(j) \/ Request(j) \/ RequestDies(j)
        PROVE  UNCHANGED <<bundles, results, resultOf, bundleOf>>
    BY <2>5 DEF Submit, RequestDies, Request, SendTask, SendTaskRaises, NoWorkerReady,
                MarkSent, MarkDispatchFailed, LaunchInline
  <2>6. ASSUME NEW r \in Runs, ProcessDies(r)
        PROVE  UNCHANGED <<bundles, results, resultOf, bundleOf>>
    BY <2>6 DEF ProcessDies
  <2>7. ASSUME NEW d \in Documents, DeleteSource(d) \/ ReviveSource(d)
        PROVE  UNCHANGED <<bundles, results, resultOf, bundleOf>>
    BY <2>7 DEF DeleteSource, ReviveSource
  <2>8. ASSUME UNCHANGED vars PROVE UNCHANGED <<bundles, results, resultOf, bundleOf>>
    BY <2>8 DEF vars
  <2>9. ASSUME NEW r \in Runs, Run(r) \/ ProofThread(r)
        PROVE  [Publication!Next]_(Publication!vars)
    BY <2>1, <2>2, <2>3, <2>4, <2>9, VisibleStep, MappedRuns DEF Publication!Next
  <2> QED BY <2>1, <2>5, <2>6, <2>7, <2>8, <2>9 DEF Next
<1> QED BY <1>1, <1>2, TypeCorrect, DurableInvariant, PTL
        DEF Spec, PublicationSpec, Publication!Spec

=============================================================================
