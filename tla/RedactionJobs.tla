---------------------------- MODULE RedactionJobs ----------------------------
(***************************************************************************)
(* The redaction pipeline: POST /redactions/jobs inserts a job and         *)
(* dispatches it, a Celery worker or an inline thread of the API runs      *)
(* run_redaction_job on it, a proof thread with a deadline produces the    *)
(* zero-knowledge bundle, and the result document is inserted, linked from *)
(* its source and published on the job.                                    *)
(*                                                                         *)
(* One RUN is one execution of run_redaction_job: a pair <<job, attempt>>. *)
(* The identifiers a run draws at random (its "docr" document, its         *)
(* "zkptbundle") are unique to it and are represented by the run itself.   *)
(* Of the stage labels, those a run writes as it progresses are "running"; *)
(* those only _mark_failed writes ("lookup", "processing") are "error".    *)
(***************************************************************************)
EXTENDS Naturals, FiniteSets

CONSTANTS
  Jobs,                \* the submissions made
  Documents,           \* the source documents
  DocumentOf,          \* Jobs -> Documents: payload.documentId
  Attempts,            \* at most this many executions of one job
  Inline,              \* the attempt made by the API's own thread
  AllowInlineFallback, \* settings.allow_inline_redaction_fallback
  MayCrash,            \* whether processes may die
  NoRun                \* the null of a result_document_id or a zkpt_bundle_id

Runs == Jobs \X Attempts

ASSUME RedactionAssumption ==
  /\ DocumentOf \in [Jobs -> Documents]
  /\ Inline \in Attempts
  /\ AllowInlineFallback \in BOOLEAN
  /\ MayCrash \in BOOLEAN
  /\ NoRun \notin Runs

VARIABLES
  \* redaction_jobs, one record per job
  status, stage, resultOf, bundleOf,
  \* the request that submitted the job
  api,
  \* per run: where run_redaction_job is, its zkpt_payload status, its proof thread
  pc, zkpt, proof,
  \* object store "redactions", documents, zkpt_bundles, custody_events
  blobs, results, bundles, timeline,
  \* source documents: soft-deleted ones, and latest_redaction_result_id
  deleted, latest

jobVars  == <<status, stage, resultOf, bundleOf>>
runVars  == <<pc, zkpt, proof>>
dbVars   == <<blobs, results, bundles, timeline>>
docVars  == <<deleted, latest>>
vars     == <<jobVars, api, runVars, dbVars, docVars>>

Statuses  == {"absent", "queued", "processing", "completed", "failed"}
Stages    == {"absent", "queued", "queued_worker", "queued_inline",
              "dispatch_failed", "running", "result_ready", "error"}
ApiStates == {"idle", "created", "sent", "send_failed", "inline",
              "accepted", "refused", "crashed"}
Verdicts  == {"verified", "failed", "unsupported"}
TryPcs    == {"lookup", "decrypt", "detect", "ocr", "engine", "preflight",
              "witness", "await", "insert", "link", "complete", "custody"}
ActivePcs == {"start", "failing", "report"} \cup TryPcs
Pcs       == {"absent", "queued", "done", "dead"} \cup ActivePcs
LiveProof == {"proving", "bundled"}
Proofs    == {"none", "killed"} \cup LiveProof \cup Verdicts

QueuedEvent(j)       == [event |-> "redaction.queued", job |-> j,
                         run |-> NoRun, verdict |-> "none"]
FailedEvent(r)       == [event |-> "redaction.failed", job |-> r[1],
                         run |-> r, verdict |-> "none"]
CompletedEvent(r, v) == [event |-> "redaction.completed", job |-> r[1],
                         run |-> r, verdict |-> v]
Events == [event : {"redaction.queued", "redaction.failed", "redaction.completed"},
           job : Jobs, run : Runs \cup {NoRun}, verdict : {"none"} \cup Verdicts]

Init ==
  /\ status   = [j \in Jobs |-> "absent"]
  /\ stage    = [j \in Jobs |-> "absent"]
  /\ resultOf = [j \in Jobs |-> NoRun]
  /\ bundleOf = [j \in Jobs |-> NoRun]
  /\ api      = [j \in Jobs |-> "idle"]
  /\ pc       = [r \in Runs |-> "absent"]
  /\ zkpt     = [r \in Runs |-> "none"]
  /\ proof    = [r \in Runs |-> "none"]
  /\ blobs = {} /\ results = {} /\ bundles = {} /\ timeline = {}
  /\ deleted = {}
  /\ latest   = [d \in Documents |-> NoRun]

-----------------------------------------------------------------------------
(* The submitting request: create_redaction_job, then dispatch_redaction_job *)

\* The handler does not look the document up: any documentId makes a job.
Submit(j) ==
  /\ api[j] = "idle"
  /\ api'      = [api EXCEPT ![j] = "created"]
  /\ status'   = [status EXCEPT ![j] = "queued"]
  /\ stage'    = [stage EXCEPT ![j] = "queued"]
  /\ timeline' = timeline \cup {QueuedEvent(j)}
  /\ UNCHANGED <<resultOf, bundleOf, runVars, blobs, results, bundles, docVars>>

\* The attempts the broker may make of one send: publishing is retried on a
\* lost connection, so a send, reported as a success or as an error, may have
\* enqueued the task more than once.
Deliveries(j) == SUBSET {<<j, a>> : a \in Attempts \ {Inline}}

Enqueue(S) == pc' = [r \in Runs |-> IF r \in S THEN "queued" ELSE pc[r]]

\* A worker answered the ping and send_task returned.
SendTask(j) ==
  /\ api[j] = "created"
  /\ \E S \in Deliveries(j) : S # {} /\ Enqueue(S)
  /\ api' = [api EXCEPT ![j] = "sent"]
  /\ UNCHANGED <<jobVars, zkpt, proof, dbVars, docVars>>

\* send_task raised; the task may be in the broker all the same.  With the
\* fallback allowed the code falls through to the inline branch.
SendTaskRaises(j) ==
  /\ api[j] = "created"
  /\ \E S \in Deliveries(j) : Enqueue(S)
  /\ api' = [api EXCEPT ![j] = IF AllowInlineFallback THEN "inline" ELSE "send_failed"]
  /\ UNCHANGED <<jobVars, zkpt, proof, dbVars, docVars>>

\* No worker answered the ping.  Without fallback the request is refused with
\* 503 and the job is left as it is.
NoWorkerReady(j) ==
  /\ api[j] = "created"
  /\ api' = [api EXCEPT ![j] = IF AllowInlineFallback THEN "inline" ELSE "refused"]
  /\ UNCHANGED <<jobVars, runVars, dbVars, docVars>>

\* Faulty variant of MarkSent: the update repeats the status it goes with.
MarkSentRequeues(j) ==
  /\ api[j] = "sent"
  /\ api'    = [api EXCEPT ![j] = "accepted"]
  /\ stage'  = [stage EXCEPT ![j] = "queued_worker"]
  /\ status' = [status EXCEPT ![j] = "queued"]
  /\ UNCHANGED <<resultOf, bundleOf, runVars, dbVars, docVars>>

\* The update after a successful send: whatever the worker wrote meanwhile.
MarkSent(j) ==
  /\ api[j] = "sent"
  /\ api'   = [api EXCEPT ![j] = "accepted"]
  /\ stage' = [stage EXCEPT ![j] = "queued_worker"]
  /\ UNCHANGED <<status, resultOf, bundleOf, runVars, dbVars, docVars>>

MarkDispatchFailed(j) ==
  /\ api[j] = "send_failed"
  /\ api'    = [api EXCEPT ![j] = "refused"]
  /\ status' = [status EXCEPT ![j] = "failed"]
  /\ stage'  = [stage EXCEPT ![j] = "dispatch_failed"]
  /\ UNCHANGED <<resultOf, bundleOf, runVars, dbVars, docVars>>

LaunchInline(j) ==
  /\ api[j] = "inline"
  /\ api'   = [api EXCEPT ![j] = "accepted"]
  /\ stage' = [stage EXCEPT ![j] = "queued_inline"]
  /\ pc'    = [pc EXCEPT ![<<j, Inline>>] = "start"]
  /\ UNCHANGED <<status, resultOf, bundleOf, zkpt, proof, dbVars, docVars>>

\* The API process dies, or a database call of the handler raises.
RequestDies(j) ==
  /\ MayCrash
  /\ api[j] \in {"created", "sent", "send_failed", "inline"}
  /\ api' = [api EXCEPT ![j] = "crashed"]
  /\ UNCHANGED <<jobVars, runVars, dbVars, docVars>>

Request(j) ==
  \/ SendTask(j) \/ SendTaskRaises(j) \/ NoWorkerReady(j)
  \/ MarkSent(j) \/ MarkDispatchFailed(j) \/ LaunchInline(j)

-----------------------------------------------------------------------------
(* The run: run_redaction_job *)

Goto(r, from, to) == pc[r] = from /\ pc' = [pc EXCEPT ![r] = to]

\* Faulty variant of Progress: a label no reader knows.
ProgressUnlabelled(r) == stage' = [stage EXCEPT ![r[1]] = "proved"]

Progress(r) == stage' = [stage EXCEPT ![r[1]] = "running"]

\* The worker accepts the message, which acknowledges it.
TakeTask(r) ==
  /\ Goto(r, "queued", "start")
  /\ UNCHANGED <<jobVars, api, zkpt, proof, dbVars, docVars>>

\* Faulty variants of StartRun: the stage of an earlier run stays; the results of
\* an earlier run are cleared.
StartRunKeepsStage(r) ==
  /\ Goto(r, "start", "lookup")
  /\ status' = [status EXCEPT ![r[1]] = "processing"]
  /\ UNCHANGED <<stage, resultOf, bundleOf, api, zkpt, proof, dbVars, docVars>>

StartRunResets(r) ==
  /\ Goto(r, "start", "lookup")
  /\ status'   = [status EXCEPT ![r[1]] = "processing"]
  /\ Progress(r)
  /\ resultOf' = [resultOf EXCEPT ![r[1]] = NoRun]
  /\ bundleOf' = [bundleOf EXCEPT ![r[1]] = NoRun]
  /\ UNCHANGED <<api, zkpt, proof, dbVars, docVars>>

\* find_one and the first update: no look at the status the job already has.
StartRun(r) ==
  /\ Goto(r, "start", "lookup")
  /\ status' = [status EXCEPT ![r[1]] = "processing"]
  /\ Progress(r)
  /\ UNCHANGED <<resultOf, bundleOf, api, zkpt, proof, dbVars, docVars>>

\* _get_document_and_file: LookupError when the document is deleted.
Lookup(r) ==
  /\ IF DocumentOf[r[1]] \in deleted THEN Goto(r, "lookup", "failing")
                                     ELSE Goto(r, "lookup", "decrypt")
  /\ UNCHANGED <<jobVars, api, zkpt, proof, dbVars, docVars>>

Decrypt(r) ==
  /\ Goto(r, "decrypt", "detect")
  /\ Progress(r)
  /\ UNCHANGED <<status, resultOf, bundleOf, api, zkpt, proof, dbVars, docVars>>

\* direct_pdf goes to the engine, ocr_assisted through OCR first.
DetectText(r) ==
  /\ \E to \in {"ocr", "engine"} : Goto(r, "detect", to)
  /\ Progress(r)
  /\ UNCHANGED <<status, resultOf, bundleOf, api, zkpt, proof, dbVars, docVars>>

Ocr(r) ==
  /\ Goto(r, "ocr", "engine")
  /\ Progress(r)
  /\ UNCHANGED <<status, resultOf, bundleOf, api, zkpt, proof, dbVars, docVars>>

\* Faulty variant of Redact: the PDF is left to be stored later.
RedactWithoutStoring(r) ==
  /\ Goto(r, "engine", "preflight")
  /\ UNCHANGED <<jobVars, api, zkpt, proof, dbVars, docVars>>

\* The engine returns and the redacted PDF is put in the object store.
Redact(r) ==
  /\ Goto(r, "engine", "preflight")
  /\ blobs' = blobs \cup {r}
  /\ UNCHANGED <<jobVars, api, zkpt, proof, results, bundles, timeline, docVars>>

\* Any exception of the preflight is swallowed and its update skipped.
Preflight(r) ==
  /\ Goto(r, "preflight", "witness")
  /\ Progress(r) \/ UNCHANGED stage
  /\ UNCHANGED <<status, resultOf, bundleOf, api, zkpt, proof, dbVars, docVars>>

StartProof(r) ==
  /\ Goto(r, "witness", "await")
  /\ Progress(r)
  /\ proof' = [proof EXCEPT ![r] = "proving"]
  /\ UNCHANGED <<status, resultOf, bundleOf, api, zkpt, dbVars, docVars>>

\* The proof thread ended in time: its payload, and the stage it earns.
JoinProof(r) ==
  /\ proof[r] \in Verdicts
  /\ Goto(r, "await", "insert")
  /\ zkpt' = [zkpt EXCEPT ![r] = proof[r]]
  /\ Progress(r)
  /\ UNCHANGED <<status, resultOf, bundleOf, api, proof, dbVars, docVars>>

\* Faulty variant of ProofDeadline: join() without a timeout.
NoDeadline(r) == pc[r] = "await" /\ FALSE /\ UNCHANGED vars

\* join() timed out: a failed payload; the thread is not stopped.
ProofDeadline(r) ==
  /\ proof[r] \in LiveProof
  /\ Goto(r, "await", "insert")
  /\ zkpt' = [zkpt EXCEPT ![r] = "failed"]
  /\ Progress(r)
  /\ UNCHANGED <<status, resultOf, bundleOf, api, proof, dbVars, docVars>>

\* Faulty variant of InsertResult: the source is linked first.
LinkBeforeInsert(r) ==
  /\ Goto(r, "insert", "link")
  /\ latest' = [latest EXCEPT ![DocumentOf[r[1]]] = r]
  /\ UNCHANGED <<jobVars, api, zkpt, proof, dbVars, deleted>>

InsertResult(r) ==
  /\ Goto(r, "insert", "link")
  /\ results' = results \cup {r}
  /\ UNCHANGED <<jobVars, api, zkpt, proof, blobs, bundles, timeline, docVars>>

\* The source document is updated by id only: deleted or not.
LinkSource(r) ==
  /\ Goto(r, "link", "complete")
  /\ latest' = [latest EXCEPT ![DocumentOf[r[1]]] = r]
  /\ UNCHANGED <<jobVars, api, zkpt, proof, dbVars, deleted>>

\* Faulty variant of CompleteJob: the bundle is looked up again, so that one
\* inserted after the deadline counts.
CompleteWithAnyBundle(r) ==
  /\ Goto(r, "complete", "custody")
  /\ status'   = [status EXCEPT ![r[1]] = "completed"]
  /\ stage'    = [stage EXCEPT ![r[1]] = "result_ready"]
  /\ resultOf' = [resultOf EXCEPT ![r[1]] = r]
  /\ bundleOf' = [bundleOf EXCEPT ![r[1]] = IF r \in bundles THEN r ELSE NoRun]
  /\ UNCHANGED <<api, zkpt, proof, dbVars, docVars>>

CompleteJob(r) ==
  /\ Goto(r, "complete", "custody")
  /\ status'   = [status EXCEPT ![r[1]] = "completed"]
  /\ stage'    = [stage EXCEPT ![r[1]] = "result_ready"]
  /\ resultOf' = [resultOf EXCEPT ![r[1]] = r]
  /\ bundleOf' = [bundleOf EXCEPT ![r[1]] = IF zkpt[r] = "verified" THEN r ELSE NoRun]
  /\ UNCHANGED <<api, zkpt, proof, dbVars, docVars>>

\* Faulty variants of RecordCompletion: the verdict is looked up again; only
\* verified completions are recorded.
RecordLatestVerdict(r) ==
  /\ Goto(r, "custody", "done")
  /\ timeline' = timeline \cup
       {CompletedEvent(r, IF r \in bundles THEN "verified" ELSE zkpt[r])}
  /\ UNCHANGED <<jobVars, api, zkpt, proof, blobs, results, bundles, docVars>>

RecordVerifiedOnly(r) ==
  /\ Goto(r, "custody", "done")
  /\ timeline' = timeline \cup
       {CompletedEvent(r, v) : v \in {zkpt[r]} \cap {"verified"}}
  /\ UNCHANGED <<jobVars, api, zkpt, proof, blobs, results, bundles, docVars>>

RecordCompletion(r) ==
  /\ Goto(r, "custody", "done")
  /\ timeline' = timeline \cup {CompletedEvent(r, zkpt[r])}
  /\ UNCHANGED <<jobVars, api, zkpt, proof, blobs, results, bundles, docVars>>

\* A step inside the try block raises instead of taking effect.
Raise(r) ==
  /\ pc[r] \in TryPcs
  /\ pc' = [pc EXCEPT ![r] = "failing"]
  /\ UNCHANGED <<jobVars, api, zkpt, proof, dbVars, docVars>>

\* _mark_failed, from any except clause: first the job, then the event.  After an
\* OCR or an engine error the label is one of the progress labels.
MarkFailed(r) ==
  /\ Goto(r, "failing", "report")
  /\ status' = [status EXCEPT ![r[1]] = "failed"]
  /\ \E label \in {"error", "running"} : stage' = [stage EXCEPT ![r[1]] = label]
  /\ UNCHANGED <<resultOf, bundleOf, api, zkpt, proof, dbVars, docVars>>

RecordFailure(r) ==
  /\ Goto(r, "report", "done")
  /\ timeline' = timeline \cup {FailedEvent(r)}
  /\ UNCHANGED <<jobVars, api, zkpt, proof, blobs, results, bundles, docVars>>

\* The run goes on: its calls return, or join() reaches its deadline.
Proceed(r) ==
  \/ TakeTask(r) \/ StartRun(r) \/ Lookup(r) \/ Decrypt(r) \/ DetectText(r)
  \/ Ocr(r) \/ Redact(r) \/ Preflight(r) \/ StartProof(r) \/ JoinProof(r)
  \/ ProofDeadline(r) \/ InsertResult(r) \/ LinkSource(r) \/ CompleteJob(r)
  \/ RecordCompletion(r) \/ MarkFailed(r) \/ RecordFailure(r)

Run(r) == Proceed(r) \/ Raise(r)

-----------------------------------------------------------------------------
(* The proof thread: attempt_authoritative_proof.  A daemon thread of the    *)
(* run's process; it outlives the run and dies with the process.             *)

\* No bundle: an unsupported profile or document size, an invalid artifact, a
\* prover error, a projection no circuit fits.
ProofFails(r) ==
  /\ proof[r] = "proving"
  /\ \E v \in {"failed", "unsupported"} : proof' = [proof EXCEPT ![r] = v]
  /\ UNCHANGED <<jobVars, api, pc, zkpt, dbVars, docVars>>

\* Faulty variant of InsertBundle: the payload is returned before the insert.
VerdictBeforeBundle(r) ==
  /\ proof[r] = "proving"
  /\ proof' = [proof EXCEPT ![r] = "verified"]
  /\ UNCHANGED <<jobVars, api, pc, zkpt, dbVars, docVars>>

\* All shards proved and verified: create_verified_bundle inserts the bundle.
InsertBundle(r) ==
  /\ proof[r] = "proving"
  /\ proof'   = [proof EXCEPT ![r] = "bundled"]
  /\ bundles' = bundles \cup {r}
  /\ UNCHANGED <<jobVars, api, pc, zkpt, blobs, results, timeline, docVars>>

\* The benchmark row is recorded and the verified payload returned, or
\* recording it raises and the payload is a failed one, the bundle staying.
ReturnPayload(r) ==
  /\ proof[r] = "bundled"
  /\ \E v \in {"verified", "failed"} : proof' = [proof EXCEPT ![r] = v]
  /\ UNCHANGED <<jobVars, api, pc, zkpt, dbVars, docVars>>

ProofThread(r) == ProofFails(r) \/ InsertBundle(r) \/ ReturnPayload(r)

-----------------------------------------------------------------------------
(* The environment *)

\* The process of the run dies, with its proof thread; or the broker loses
\* the message.  Nothing restarts a run.
ProcessDies(r) ==
  /\ MayCrash
  /\ pc[r] \in ActivePcs \cup {"queued"} \/ proof[r] \in LiveProof
  /\ pc'    = [pc EXCEPT ![r] = IF @ = "done" THEN "done" ELSE "dead"]
  /\ proof' = [proof EXCEPT ![r] = IF @ \in LiveProof THEN "killed" ELSE @]
  /\ UNCHANGED <<jobVars, api, zkpt, dbVars, docVars>>

\* What delete_document of a source document is to the pipeline.
DeleteSource(d) ==
  /\ d \notin deleted
  /\ deleted' = deleted \cup {d}
  /\ UNCHANGED <<jobVars, api, runVars, dbVars, latest>>

\* notarize_document, overtaken by a deletion, writes "notarized" over it
\* (DocumentLineage has the two handlers step by step).
ReviveSource(d) ==
  /\ d \in deleted
  /\ deleted' = deleted \ {d}
  /\ UNCHANGED <<jobVars, api, runVars, dbVars, latest>>

Next ==
  \/ \E j \in Jobs : Submit(j) \/ Request(j) \/ RequestDies(j)
  \/ \E r \in Runs : Run(r) \/ ProofThread(r) \/ ProcessDies(r)
  \/ \E d \in Documents : DeleteSource(d) \/ ReviveSource(d)

\* Request threads, workers and inline threads are scheduled, and join() has a
\* deadline; no error is owed, and nothing is assumed of the prover, of clients or
\* of deletions.
Fairness ==
  /\ \A j \in Jobs : WF_vars(Request(j))
  /\ \A r \in Runs : WF_vars(Proceed(r))

Spec     == Init /\ [][Next]_vars
FairSpec == Spec /\ Fairness

-----------------------------------------------------------------------------
(* Properties *)

TypeOK ==
  /\ status \in [Jobs -> Statuses]
  /\ stage \in [Jobs -> Stages]
  /\ resultOf \in [Jobs -> Runs \cup {NoRun}]
  /\ bundleOf \in [Jobs -> Runs \cup {NoRun}]
  /\ api \in [Jobs -> ApiStates]
  /\ pc \in [Runs -> Pcs]
  /\ zkpt \in [Runs -> {"none"} \cup Verdicts]
  /\ proof \in [Runs -> Proofs]
  /\ blobs \subseteq Runs
  /\ results \subseteq Runs
  /\ bundles \subseteq Runs
  /\ timeline \subseteq Events
  /\ deleted \subseteq Documents
  /\ latest \in [Documents -> Runs \cup {NoRun}]


\* A completed job points to a result; whatever a job points to is a stored
\* result of its own, and its zkpt_bundle_id is that result's bundle exactly
\* when the result says "verified".  (run_redaction_job's last update, with two
\* runs of the job interleaved.)
JobPublishesOwnResult ==
  \A j \in Jobs :
    /\ status[j] = "completed" => resultOf[j] # NoRun
    /\ resultOf[j] # NoRun =>
         /\ resultOf[j] \in results
         /\ resultOf[j][1] = j
         /\ bundleOf[j] = IF zkpt[resultOf[j]] = "verified" THEN resultOf[j] ELSE NoRun

\* Fail closed: a result document that says "verified" has its bundle in the
\* database, whenever the deadline expires and whatever dies.
VerifiedIsBacked ==
  \A r \in results : zkpt[r] = "verified" => r \in bundles

\* A result document's storage_key can be read: no crash or error between the
\* object store and the database leaves a document without its file.
ResultIsReadable == results \subseteq blobs

\* latest_redaction_result_id of a source is a stored result of a job on it.
SourceLinksOwnResult ==
  \A d \in Documents :
    latest[d] # NoRun => latest[d] \in results /\ DocumentOf[latest[d][1]] = d

\* The chain of custody tells no untruth: a completion it records is of a stored
\* result and carries the verdict that result carries.
TimelineIsTrue ==
  \A e \in timeline :
    e.event = "redaction.completed" =>
      e.run \in results /\ e.verdict = zkpt[e.run]

\* The chain of custody misses no completion: a job stays "completed" only with
\* the event of its published result recorded, unless the run that published it
\* is still between the two writes, or is about to mark the job failed, or died.
CompletionIsRecorded ==
  \A j \in Jobs :
    status[j] = "completed" =>
      \/ CompletedEvent(resultOf[j], zkpt[resultOf[j]]) \in timeline
      \/ pc[resultOf[j]] \in {"custody", "failing", "dead"}

\* A stage that only terminal updates write is never shown with another status,
\* although stage is also written alone, by the dispatcher and by the progress of
\* every run.
TerminalStageIsTrue ==
  \A j \in Jobs :
    /\ stage[j] = "result_ready" => status[j] = "completed"
    /\ stage[j] \in {"error", "dispatch_failed"} => status[j] = "failed"

\* No job is forgotten while anyone lives who could still move it: a queued job has
\* its request or a run to come, a processing one a run under way, a failed one its
\* failure told or about to be.  Every excuse is named: a request or a run that
\* died, and the refusal that leaves the job queued.  (Dispatcher, runs and
\* _mark_failed all write the status; none looks at what the others wrote.)
NoJobIsForgotten ==
  \A j \in Jobs :
    /\ status[j] = "queued" =>
         \/ api[j] \in {"created", "send_failed", "inline", "crashed"}
         \/ api[j] = "refused" /\ ~AllowInlineFallback
         \/ \E a \in Attempts : pc[<<j, a>>] \in {"queued", "start", "dead"}
    /\ status[j] = "processing" =>
         \E a \in Attempts :
           pc[<<j, a>>] \in (TryPcs \ {"custody"}) \cup {"failing", "dead"}
    /\ status[j] = "failed" =>
         \/ api[j] = "refused"
         \/ \E a \in Attempts : \/ FailedEvent(<<j, a>>) \in timeline
                                \/ pc[<<j, a>>] \in {"report", "dead"}

\* The pipeline implements the promise of RedactionPublication.
Publication == INSTANCE RedactionPublication WITH
  proven    <- bundles,
  attested  <- {r \in results : zkpt[r] = "verified"},
  published <- [j \in Jobs |-> [result |-> resultOf[j], bundle |-> bundleOf[j]]]

PublicationSpec == Publication!Spec

\* Without crashes every submission settles: for good in a terminal status, or,
\* when no worker answered and the fallback is off, refused with nothing run.
\* It is the deadline of join() that makes it so: the prover may never return.
SubmissionSettles ==
  \A j \in Jobs :
    api[j] = "created" ~>
      [](\/ status[j] \in {"completed", "failed"}
         \/ /\ ~AllowInlineFallback
            /\ api[j] = "refused"
            /\ status[j] = "queued"
            /\ \A a \in Attempts : pc[<<j, a>>] = "absent")

\* What "authoritative proof failed closed" says on the timeline: the run has no
\* verified bundle.
FailedClosedHasNoBundle ==
  \A r \in Runs : CompletedEvent(r, "failed") \in timeline => r \notin bundles

=============================================================================
