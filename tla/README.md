# BlockVault: a TLA+ model of its redaction, lineage, vault and on-chain protocols

BlockVault stores encrypted legal documents, redacts them with a zero-knowledge
proof that only the redacted segments changed, keeps a chain of custody, and
registers verified proofs on a contract. Its code is sequential handler by
handler. What is hard is between the handlers: two API server processes with
thread pools, Celery workers, inline threads and proof threads write the same
MongoDB records and object-store keys in several steps each, without
transactions, and processes, the broker and the chain fail in their own ways.
These modules model those steps.

Paths below are relative to the repository; `api/` stands for
`apps/api/src/blockvault_api/`.

## 1. Inventory

### Components

| Component | State | Operations | What makes it correct |
|---|---|---|---|
| **Redaction pipeline** `api/redaction_jobs.py`, `api/routes/redactions.py`, `apps/worker` | `redaction_jobs`, result documents, `zkpt_bundles`, object store `redactions`, the runs and proof threads in memory | submit, dispatch (worker, inline, refused), `run_redaction_job` and its steps, proof thread with a deadline, `_mark_failed` | a job publishes a stored result of its own; a verified claim is backed by a bundle; the timeline is true and complete; a submission settles |
| **Document lineage** `api/routes/documents.py`, `api/repositories.py` | `documents`, `files`, `evidence_bundles`, object store `documents` | init and complete upload, notarize, OCR copy, insert and link a result, delete | evidence attests the document it is on; a source points to its newest live result; deletion follows the lineage, is final and is recorded |
| **On-chain submission** `api/zkpt_onchain.py`, `contracts/zkpt/ZKPTReceiptRegistry.sol` | `onchain` of bundle and document, the relayer's nonces, the registry | nonce, gas estimate, send, three pairs of writes, receipt polling | "confirmed" only for what the chain accepted, for good, and told alike everywhere |
| **Vault** `api/routes/files.py` | `files`, `shares` | upload, delete, share, revoke | access granted or revoked is on record; a deleted file is shared with nobody |
| **Verified bundles** `api/zkpt_bundle.py` | `zkpt_bundles`, `zkpt_benchmarks` | insert, list, export | inserted after every shard verified |
| **Custody timeline** `api/repositories.py` | `custody_events` | append, list | nothing happens that it misses; it says nothing untrue |
| **Shard proving** `attempt_authoritative_proof`, `api/zkpt_prover.py` | thread pool, child processes | witness, prove and verify a shard, cancel | all shards or none |
| **Shard planning** `api/zkpt_witness.py`, `api/zkpt_policy.py` | none: pure | projection, classification, splitting, padding, choice of profile | each changed segment in exactly one shard; no shard above its profile's limits |
| **Sign-in and sessions** `api/security.py`, `api/routes/auth.py` | `nonces`, `users`, `sessions` | issue, verify, test login, look up, sign out | a nonce opens one session; the nonce written last can be used; a session has its user |
| **Rate limiter** `api/rate_limit.py` | one deque per key, in memory, per process | check | at most `limit` requests per window and process; nobody is refused for what is older |
| **Object storage** `api/storage.py` | files or S3 objects | put, read | what is put can be read |
| **Runtime caches** `api/zkpt_runtime.py`, `api/zkpt_artifacts.py` | memoised probes | read, refresh | the dispatcher never trusts a stale worker probe |
| Cases, OCR, redaction engine, cryptography, Merkle trees, startup, probes, web client and scripts, circuits | records, or none | see `PROJECT.json` | not modelled, reasons in section 6 |

### How they interact

- A request inserts a job and sends a Celery task (`dispatch_redaction_job`), or
  starts a thread that runs the same function; the request and the run then both
  write the job's stage.
- A run starts a daemon thread for the proof and joins it with a deadline. The
  thread proves the shards in a pool and inserts the bundle; the run inserts the result document, updates the
  source document, then the job, then appends a custody event.
- Handlers of documents read a document, then storage, and write back by id
  alone, so any of them may overwrite what another wrote in between. The
  pipeline reads the source document only once, at its start.
- An on-chain submission reads a bundle, uses the relayer's next nonce and
  writes bundle and result document; the chain mines in its own time.
- Every handler ends with a custody event, written last and separately.
- Every route but sign-in looks up a session and its user first, and the routes that
  are limited ask the rate limiter of their process before they do anything else.

### What is hard here

`PROJECT.json` lists the hazards with their lines. By kind: duplicate executions
of one job (the broker's redelivery, or a send that reported an error after
succeeding, followed by the inline fallback); a proof that finishes after its
deadline; writes to four collections with a crash in between; updates that do
not check the status they overwrite; deletion racing everything; one relayer
account shared by concurrent submissions; a receipt that comes after nobody
waits for it; upserts with no unique index; a nonce deleted by its wallet alone;
times read before the lock that orders their use.

## 2. Plan

Order, the most important behaviour first. Modules 1 to 7 exist, with their runs and
their proofs; 8 and the extensions are what is left.

1. `RedactionJobs`, with `RedactionPublication` as its abstract specification, and
   `RedactionJobsProofs`.
2. `DocumentLineage`, `DocumentLineageProofs` and `DocumentLineageSoloProofs`, handlers
   that die included.
3. `ShardProving`, with `ProofThread` as its abstract specification, and
   `ShardProvingProofs`. To extend: the document binding.
4. `OnchainSubmission`, with `SubmissionPromise` as its abstract specification: a registry
   a bundle enters once and every claim follows; and `OnchainSubmissionProofs`.
5. `Vault` and `VaultProofs`, handlers that die included.
6. `Sessions` and `SessionsProofs`: nonces, sign-in and sessions with their expiry.
7. `RateLimiter` and `RateLimiterProofs`: the sliding window, with the clock read
   outside the lock.
8. A composition of `RedactionJobs` with `OnchainSubmission`: a bundle whose run
   failed closed is submitted to the registry. Each of the two has the other's
   effects as actions already (`InsertResult` in `OnchainSubmission`). Also worth stating:
   abstract specifications of `Vault` and `Sessions`, whose properties are now stated
   and proved one by one.

## 3. Modules

Conventions. A *handler in progress* is a record or a program counter, with what
it has read so far; one action is one database or storage call with the code
before it up to the previous call. MongoDB updates of one document are atomic.
Random identifiers are fresh by construction. Some modules hold *faulty
variants* of an action, named as such in a comment and used by no behaviour:
each is the change a plausible bug would make, and the property it is paired
with in `PROJECT.json` ("mutants") is violated when it takes the action's place.

*History variables* record what the code does not: that two handlers overlapped in one
particular way, or that one died between two writes. No guard reads them. The code takes
no lock and resumes nothing, so some properties hold only of the objects nothing like that
has happened to; they name that exception instead of
being checked on an instance where it cannot happen. The sections below say which
overlap or death each variable stands for.

### RedactionJobs

A *run* is one execution of `run_redaction_job`, the pair `<<job, attempt>>`;
`Inline` is the attempt of the API's own thread, the others are deliveries to
workers. A run's document and bundle are named by the run.

| Variable | Code |
|---|---|
| `status`, `stage`, `resultOf`, `bundleOf` | `redaction_jobs`: `status`, `stage`, `result_document_id`, `zkpt_bundle_id` |
| `api` | where the submitting request is |
| `pc`, `zkpt` | where a run is; the `status` of its `zkpt_payload`, which its result document stores as `zkpt.status` |
| `proof` | the thread of `attempt_authoritative_proof_with_deadline` |
| `blobs`, `results`, `bundles`, `timeline` | stored PDFs, result documents, `zkpt_bundles`, custody events |
| `deleted`, `latest` | source documents: deleted, and `latest_redaction_result_id` |

`Submit` to `LaunchInline` are the request, `TakeTask` to `RecordFailure` the run in
the order of its source, `ProofFails`, `InsertBundle` and `ReturnPayload` the proof
thread. `Raise` is any exception inside the `try`; it goes to `_mark_failed`.
`ProcessDies` kills a run and its proof thread, or loses its message.
Of the stage labels only those that end a run or a dispatch are kept apart; the
progress labels are one, `"running"`. OCR, the engine and the prover are outcomes.

`RedactionPublication` is the promise: prove, store a result whose verdict is
settled and backed, publish a stored result of the job. `RedactionJobs`
implements it with
`proven <- bundles`, `attested <-` the stored results that say "verified", and
`published <-` the two ids of the job.

### DocumentLineage

Documents, the files they are backed by, and handlers as `req` records. The
number of an upload stands for its bytes, the salt and iv they were encrypted
with, and their digest, so a handler that reads a record and a blob of two
different uploads fails, as authenticated decryption does. A redaction result has
no binary record of its own (`fileOf` is its source's), as in the code. `InsertResult` and
`LinkResult` are the pipeline's two writes; everything else of a run is in
`RedactionJobs`. That module in turn sees of this one `DeleteSource`
and `ReviveSource`, the two effects on `deleted` that these handlers have. A handler
may die anywhere, up to `MaxDeaths` times; the history variables `untold` and
`unlinked` hold the documents whose event, or whose latest result, a dead handler did
not get to write.

### ShardProving

One proof attempt, from the estimate of the job to the verdict of its proof thread.
A projection is a number of segments and the set of those the redaction changed; a
profile is its proof model, its `Capacity` (`num_segments`) and the `Leaves` of its trees.
A profile may be sparse, the on-chain safe one, or neither, and the legacy ones (`v2`) have
a budget of their own. `active` and `parallel` are the deployment's profile and
`zkpt_max_parallel_shards`, any of which an instance may have. The segments are numbered
as the active profile cuts the text: the one other profile a plan may move to, from a
sparse profile to the on-chain safe one, cuts it alike (256 characters in the manifests of
`v4_sparse` and `v3a`).

| Variable | Code |
|---|---|
| `segments`, `modified` | `ProjectionData`: how many segments, and `modified_indices` |
| `chosen`, `deadline` | `artifact_profile_id` and `timeout_seconds`, from the plan of `run_redaction_job` |
| `told` | what the job shows of its proof from the preflight on: profile, `estimated_shards`, classification |
| `profile`, `classification` | the plan `attempt_authoritative_proof` makes again |
| `phase` | where the run and its proof thread are |
| `future`, `collected`, `sweep` | the futures of the pool, what `as_completed` has yielded, and where the loop that cancels is |
| `bundle` | the shards of the bundle inserted |

`Estimate`, `Split`, `Shard`, `Updates`, `Classify`, `Selectable`, `Padding` and `Mask` are the
pure functions of planning and of the witness. How many shards the policy estimates
(`Estimate`, a quotient rounded up) and how many the split makes (`Split`, a slice at every
multiple of the capacity) are two pieces of code and two definitions; that they agree is
a lemma (`SplitIsEstimate`). The two plans are made at different
times, so each sees benchmarks of its own: a *pace* says whether the prediction is
within the target of a single proof, above it, or above the budget of many. Shards
are proved by the thread one after the other, or in a pool. Of the circuits one constraint
is kept, `Satisfiable`: an input that is not masked has the same leaf in both trees.

`Inputs` are the positions of the tree a shard proves: those it selects, and the
padding. The code's two refusals of a padding (too many selected, no position left) are
no steps, since `PaddingDecidesProof` says that no planned shard meets them.

`ProofThread` is the promise `ShardProving` implements (`ProofThreadSpec`): a thread that
ends once, with one verdict or with its process, and stores one bundle before it says
"verified". The phase is the state of the thread, and `bundle # {}` what it has stored.
`RedactionJobs` has a proof thread for every run, whose `StartProof`, `ProofFails`,
`InsertBundle`, `ReturnPayload` and `ProcessDies` stand for the same steps. That
correspondence is by inspection: no theorem links the two modules.

### OnchainSubmission

Handlers step by step (`req`), the bundle's and the document's `onchain` status,
and an external chain: `bundleOf` numbers the transactions the node has accepted,
`pool` orders them by nonce, `mined` counts the nonces executed, `outcome` and
`registered` are what the contract did. A transaction with a pending nonce
replaces the pending one; one with a used nonce is refused; the registry reverts
on a second receipt for a bundle, and the gas estimate raises where the call
would revert. Blocks are final. A bundle may be submitted before its run has
inserted the result document, which `InsertResult` then does, with the status of the
plan or, after a deadline, as "unsupported"; the handler's updates of a document that
does not exist change nothing. `overlapped` and `cut` (history) are the bundles with two
submissions at once, and those a handler of which died between its writes.

`SubmissionPromise` is what all that amounts to for who reads it: the registry settles
a bundle once; a bundle claims a receipt there is, by its own transaction; its document
and the timeline say "confirmed" of a bundle that claims it; and only a bundle that was
contended for takes anything back. `OnchainSubmission` implements it with
`receipts <-` the successful transactions with their bundles, `claims <-` the bundles that
say "confirmed" with the hash they show, `documented <-` the documents that say so,
`recorded <- timeline` and `contended <- overlapped`.

### Vault

Files, shares and handlers. `Upsert` is `update_one(..., upsert=True)` in the two
steps it is when nothing matches and no unique index guards the insertion. A handler
may die anywhere. Two documents of equal content count as one; only two handlers that
insert a share at once can make such a pair. History:

| Variable | Holds |
|---|---|
| `doubled` | pairs of file and recipient that two handlers were inserting a share of at once |
| `overtaken` | files whose shares were revoked while a handler that had found the file ready had yet to write one, until shares are revoked again |
| `halfDeleted` | files whose deletion died before it revoked the shares, until another does |
| `untold` | files with an event that a dead handler did not write |

### Sessions

The collections `nonces`, `users` and `sessions`, a clock, and handlers with one
step for each database call: nonce issue (an upsert, as in `Vault`),
`verify_siwe_message` (find, delete, upsert the user) followed by `create_session`, the
test login, and a request with a cookie, which may be a sign-out. A signed message
is the wallet and the nonce it names; any nonce drawn so far may be named. `RejectNonce`
covers what the signature may turn out to be. The checks of the message's other fields
come before the first call and lead to a refusal. A nonce is in force when it is written,
so a handler that dies after that, before its answer, leaves one the wallet was not told.
History:

| Variable | Holds |
|---|---|
| `waiting` | of each wallet, the nonce record written last, unless it is spent |
| `doubled` | wallets two handlers of which were inserting a nonce at once |
| `contested` | nonces a sign-in accepted while another that had accepted it was yet to delete it |
| `overtaken` | wallets whose nonce was last written while a sign-in was about to delete the one before |

### RateLimiter

One bucket of one process. `stamp` is what a thread has read from the clock before it
holds the lock, `bucket` the deque, and `admitted` every admission ever made (history).
`MaxLag` is how late a thread may be at the lock: the code sets no bound, so the
properties are stated relative to it.

## 4. Runs

All bounds are constants of the `.cfg` files. Deadlock is not checked in the runs
because the system stops: every job, handler or id of an instance is used up.

| Run | Instance | Shows |
|---|---|---|
| `RedactionJobs_retry` | one job, a worker's run and an inline run, fallback on, any process may die | All safety properties, and that the pipeline implements `RedactionPublication`. No job is left with nobody to move it on, but by the deaths and refusals `NoJobIsForgotten` names. Two runs of a job is the least that can disagree. |
| `RedactionJobs_hosted` | one job, none to two deliveries, fallback off, no crashes | `SubmissionSettles`: completed or failed for good, or refused with nothing run, although the prover may hang. |
| `RedactionJobs_late_bundle` | one job, violation | A bundle is inserted after the timeline says that the proof failed closed. |
| `DocumentLineage_concurrent` | two documents, two handlers, two uploads | No deletion or notarization goes unrecorded; a document points to its own results only; evidence attests the digest it is shown with. Two documents, a source and its result or copy, and two binaries are the least that two handlers can confuse. |
| `DocumentLineage_sequential` | four documents, one handler | The latest result is the newest live one; results follow their root; a deletion is final. Four documents: three results, or three levels. |
| `DocumentLineage_resurrection` | two handlers, violation | A notarization that began before a deletion revives the document. |
| `OnchainSubmission` | two bundles, two handlers, two transactions, crashes | Replaced, abandoned and lost transactions, and none is claimed that the chain did not accept; bundle, document and timeline agree; confirmed is final; all of it is the promise of `SubmissionPromise`. Two transactions: one replaces or follows the other, is a retry of it, or is sent after it is confirmed. |
| `Vault` | one file, two recipients, two handlers, three shares, crashes | Every grant and revocation is on record; one share for a recipient, unless two handlers were inserting it at once; none active on a deleted file, unless a share past its check overtook the revocation or the deletion died before it. Two handlers are the least that race, and a third share follows the two that they may both insert. Files do not interact. |
| `ShardProving_pool` | up to seven segments; `v4_sparse` and `v3a` with three to a shard, `v2` with four; trees of six leaves for the sparse profile, of four for the windows; sequential or a pool of two | All properties: what the job shows of its proof stays true although the thread plans again, which shards can be proved, and that the thread implements `ProofThread` and ends. Three shards and a pool of two: one proved, one running, one waiting when another fails. Seven segments do not fit the sparse tree. |
| `ShardProving_padding` | up to four segments, two to a shard, violation | A planned shard that no prover can prove. |
| `RateLimiter` | three threads, two admissions per window of four ticks, lag up to two, nine ticks | The window is respected, and refusals are earned, up to the lag. Three threads and a lag of two append out of order; nine ticks are two windows and the lag. |
| `Sessions` | two wallets, two handlers, two nonces, two sessions, one tick, which expires everything; crashes | A nonce opens one session; the nonce written last is the one on record, each but for its named overlaps; a session has its user. Two nonces: one wallet replaces its own, or two wallets have theirs. |

`LatestIsNewestLive`, `ResultsFollowRoot` and `DeletedStaysDeleted` hold only with one
handler at a time: a result linked between a deletion's search and its update is lost, and any third
document may be involved, so there is no object to exempt.

The other runs have two handlers, and where the code lets an overlap break a property the
property names it:

- `OneSharePerRecipient`: a recipient two handlers were inserting a share for at once.
- `DeletedRevokesShares`: a file that a share, past its check that the file is ready,
  overtook; and one whose deletion died between its two updates. Deleting it again ends either.
- `NonceUsedOnce`: a nonce two sign-ins accepted before either deleted it; and, as in
  `LastNonceWaits`, a wallet two handlers of which were inserting a nonce at once.
- `LastNonceWaits`: a nonce written while a sign-in was about to delete, by the wallet
  alone, the one before.
- `ConfirmedIsFinal`: bundles two submissions of which overlapped. Two that both pass the
  gas estimate end with the loser's "failed" over the winner's "confirmed".
- `DocumentAgrees`: those, and bundles a handler of which died between its writes or began
  before the document was there. `PromiseSpec` still binds all of them.

Each of these is what the code does, and a hazard says so at its line. `Vault` and
`Sessions` hold under every other interleaving and death of their handlers. `RateLimiter` needs no
exception.

The runs of `RateLimiter` and `Sessions` list no type invariant: their proofs show it.

### Fairness

`SubmissionSettles` assumes weak fairness of each request's handler and each run:
request threads, workers and inline threads are scheduled, and `join()` returns
at its deadline. Nothing is assumed of the proof thread, of clients or of
deletions, and the instance has no crashes: with them a job may stay
"processing" for ever, since a worker acknowledges a task when it takes it and
nothing watches over jobs. A message accepted by the broker is taken in the end.
`ProofEnds` assumes weak
fairness of the proof thread, of the pool's threads taking shards, and of a prover's
command ending at its timeout, whatever it says. Nothing is assumed of the Merkle
helper, a child process without a timeout: the property says that the thread ends
or waits for that helper for ever, and for nothing else.

### What the violations say

- *Late bundle* (`redaction_jobs.py:775`): the deadline abandons the proof thread.
  The run stores a failed verdict and says "failed closed"; the thread may then
  insert a bundle with status "verified". No job or result refers to it
  (`JobPublishesOwnResult` holds), but listing and submitting bundles finds it.
- *Resurrection* (`documents.py:454`): the update of a notarization has no
  condition on the status. Nothing else undoes a deletion (`OnlyNotarizationRevives`), and
  with one handler at a time nothing does (`DeletionIsFinal`).
- *Padding* (`zkpt_witness.py:202`): a sparse shard that is not full is filled with
  the lowest tree positions it does not select. When one of them is redacted by
  another shard its leaf differs between the trees but its update mask is 0, which
  the circuit refuses (`zkpt_redaction_sparse_v4.circom:129`). With four updates to a
  shard, a redaction of five segments, the first among them, never gets its bundle.
  `PaddingDecidesProof` is the exact condition: a sparse shard after the first can be
  proved if and only if the number of segments it selects and the position of the first
  redacted segment add up to the capacity at least.

## 5. Proofs

`RedactionJobsProofs` proves, for any sets of jobs, documents and attempts, with
the fallback on or off, with or without crashes:

| Theorem | Statement |
|---|---|
| `TypeCorrect` | `Spec => []TypeOK` |
| `ResultsAreReadable` | `Spec => []ResultIsReadable` |
| `VerifiedResultsAreBacked` | `Spec => []VerifiedIsBacked` |
| `JobsPublishOwnResults` | `Spec => []JobPublishesOwnResult` |
| `SourcesLinkOwnResults` | `Spec => []SourceLinksOwnResult` |
| `TimelineTruth` | `Spec => []TimelineIsTrue` |
| `CompletionsAreRecorded` | `Spec => []CompletionIsRecorded` |
| `TerminalStages` | `Spec => []TerminalStageIsTrue` |
| `PipelineImplementsPublication` | `Spec => PublicationSpec` |
| `JobsAreNotForgotten` | `Spec => []NoJobIsForgotten` |

The only assumption is `RedactionAssumption`: the types of the constants, and that
the null id is not a run. TLC evaluates it in every run.

The argument has two layers.

- `DurableInv` says what is durable at each point of a run: a proof that has ended
  "verified", and a verdict taken from it, has its bundle stored
  (`ProofIsBacked`); a run past the engine has its file, one past the insertion
  its document, and no document exists for a run that has not come that far
  (`ProgressIsDurable`); a run of a job not yet dispatched does not exist
  (`RunsAreFresh`). None of the safety properties is inductive without it:
  `VerifiedIsBacked` speaks of stored results, but the bundle is inserted by
  another thread long before, and the verdict is read in between.
- `PublicationInv` is the conjunction of the four properties of what is
  published. It is inductive given `DurableInv` and the lemma `VerdictsSettle`: no
  step changes the verdict of a stored result. That lemma is also what makes
  the refinement hold: every step is `Prove`, `Store` or `Publish`, or leaves the
  mapped variables alone.

`NoJobIsForgotten` says who is left to move a job, in every state of its request and
its runs. It is inductive with `TypeOK` and `RunsAreFresh`: a request hands the job to a run
before it lets go of it (`RequestForgetsNoJob`), and a run keeps it until its own last
write of the status, whatever another run has written meanwhile (`RunForgetsNoJob`).

`DocumentLineageProofs` proves, for any numbers of documents, handlers and uploads:

| Theorem | Statement |
|---|---|
| `TypeCorrect` | `Spec => []TypeOK` |
| `LatestResultIsOwn` | `Spec => []LatestIsOwnResult` |
| `EvidenceAttestsDigest` | `Spec => []EvidenceMatchesDocument` |
| `CustodyIsComplete` | `Spec => []TimelineIsComplete` |
| `OnlyNotarizationRevives` | a step takes a document out of "deleted" only as the write of a notarization under way |

from `LineageAssumption` (the null id is not a document). The properties speak of
the records; what breaks them is in the hands of handlers, so each invariant adds
what a handler carries. `StateInv` types handlers with the documents they work on,
`LatestInv` says that a result about to be linked was redacted from the document it
is linked to, `EvidenceInv` that evidence about to be written exists and attests the
digest that is written with it. `CustodyIsComplete` is shown by two facts of every
step: an event that is pending stays pending or is recorded (`Kept`), and a step
that deletes or notarizes makes its event pending (`Recorded`).

`DocumentLineageSoloProofs` proves, for any numbers of documents, uploads and deaths, and
with one handler in progress at a time (`OneHandler`, the assumption of each theorem):

| Theorem | Statement |
|---|---|
| `LatestIsNewest` | `OneHandler` gives `Spec => []LatestIsNewestLive` |
| `ResultsFollow` | `OneHandler` gives `Spec => []ResultsFollowRoot` |
| `DeletionIsFinal` | `OneHandler` gives `Spec => DeletedStaysDeleted` |

The first two speak of quiet states, so the invariant says what holds while the
handler is on its way: a document's latest result is its newest, or the handler is about
to write it (`NewestInv`); what the handler has read of the lineage, the targets of a
deletion and the result to link, is still so (`ReadInv`); creation times are drawn in
order and a document that does not exist has no results (`FreshInv`). `RootInv` is
`ResultsFollowRoot` in every state. Uploads of new roots are no handler's step and
interleave with the handler in these proofs too. `DeletionIsFinal` follows from `ReadInv`,
which keeps the document of a notarization live until it is written, and from the step
lemma behind `OnlyNotarizationRevives`.

`ShardProvingProofs` proves, for any projection, profiles, capacities, trees, pool and
timeouts:

| Theorem | Statement |
|---|---|
| `TypeCorrect` | `Spec => []TypeOK` |
| `BundlesCoverChanges` | `Spec => []BundleCoversChanges` |
| `NothingOutlives` | `Spec => []NothingOutlivesProof` |
| `EstimatesHold` | `Spec => []EstimateHolds` |
| `DeadlineCovers` | `Spec => []DeadlineCoversPlan` |
| `PaddingDecides` | `Spec => []PaddingDecidesProof` |
| `ThreadImplementsProofThread` | `Spec => ProofThreadSpec` |

from `ProvingAssumption`: the circuit of a profile fits its tree, the on-chain safe profile is
not a legacy one, and a single proof's timeout does not exceed both the general one and
that of many: `Single <= Larger(ProofTimeout, Multi)`. The last is true of the defaults (180 and
900 seconds) and of `render.yaml`, but the configuration does not enforce it; without it
the deadline of a run whose estimate failed could be below the budget. The first part is arithmetic: `ShardOfUnit` finds the shard of
any segment, by its rank among the units of the profile, whose quotient by the
capacity is below the number of shards (`ChunkOfRank`). The invariant `IInv` then says which
futures there are in each phase (`FutureInv`), that without a pool nothing starts
before what comes earlier is collected (`OneByOneInv`, from which a failure there
leaves nothing running), that a bundle holds the whole plan (`BundleInv`), and how
the first plan bounds the second (`DeadlineInv`). `ToldInv` is for `EstimateHolds`, which
compares two plans made at different times: what the job shows is the plan handed over,
the thread leaves it only for one proof of the on-chain safe profile, and a plan is made
of a redaction that changes something. The last also gives `ThreadImplementsProofThread`
that the bundle inserted has a shard (`SomeShard`). `SplitIsEstimate` is that estimate and
split count alike, but for the one proof that is estimated of nothing to prove.

`PaddingDecides` rests on counting. `LeastOf` says that a set of naturals that is not
empty has a least member (from the library's well-foundedness of `<`), and takes the
place of induction. With it `SliceSize` shows that exactly k members of a set have a rank
below k: so a shard holds between one segment and the capacity (`ShardSize`), the padding
is as long as it has to be (`InputsFill`), and the first shard of several is full
(`FirstShard`). In a later shard the first redacted segment is free, and its rank among
the free positions is its own number, which decides whether the padding reaches it
(`LaterPadding`).

`OnchainSubmissionProofs` proves, for any sets of bundles and handlers, with or without
crashes:

| Theorem | Statement |
|---|---|
| `SubmissionTypeCorrect` | `Spec => []TypeOK` |
| `OutcomesAreReal` | `Spec => []OutcomeIsReal` |
| `DocumentsAgree` | `Spec => []DocumentAgrees` |
| `ConfirmationsAreFinal` | `Spec => ConfirmedIsFinal` |
| `SubmissionsKeepPromise` | `Spec => PromiseSpec` |

from `OnchainAssumption` (the types of the constants, and that the null id is not a
bundle). `StateInv` is inductive with what is true of the chain (`ChainInv`: each
accepted transaction waits in one place, pending, and a successful one has left its
receipt) and of every handler (`HandlerInv`: the transaction it holds is of its bundle,
and what it is about to write is that transaction's outcome); `OutcomeIsReal` is one
of its parts. The other two are about one
handler at a time, so `SoloInv` says that two handlers of a bundle are in `overlapped`
(`AloneInv`), that a handler with anything but a confirmation to write works on a
bundle that is not confirmed, since the gas estimate has kept it out of the others
(`FinalInv`), and where a handler has come with the bundle, its document and the event
(`AgreeInv`).

The refinement takes two invariants more (`PromiseInv`). `ReceiptInv`: no bundle has two
successful transactions, so that a block settles what was not settled. `ShownInv`: of a
bundle that was never contended for, a handler about to update the document or to write
the event does so with what the bundle shows, and a document that says "confirmed" has a
bundle that does. The promise says of bundles a handler of which died between its writes
what `DocumentAgrees`, which exempts them, does not. Each step is then shown to settle,
claim, document, record, contend or retract for one bundle, or to change none of the
mapped variables.

`VaultProofs` proves, for any numbers of files, recipients, handlers and shares:

| Theorem | Statement |
|---|---|
| `VaultTypeCorrect` | `Spec => []TypeOK` |
| `AccessIsAlwaysRecorded` | `Spec => []AccessIsRecorded` |
| `OneShareEach` | `Spec => []OneSharePerRecipient` |
| `DeletionRevokesShares` | `Spec => []DeletedRevokesShares` |

from `VaultAssumption` (the null id is no file and no recipient). `StateInv` types the
handlers and says that the ids of shares, in the collection or about to be inserted,
are distinct; `TraceInv` is `AccessIsRecorded` with the handlers that still owe an event.
`ShareInv` is what the last two theorems need. `OneInv`: a share about to be inserted is not
there yet, and one handler inserts it. `DeletedInv`: until its shares are revoked a deleted
file has a deletion on its way to them; from then on nothing of it is active and no handler
is sharing it.

`SessionsProofs` proves, for any sets of wallets and handlers and any lifetimes:

| Theorem | Statement |
|---|---|
| `SessionsTypeCorrect` | `Spec => []TypeOK` |
| `SessionsHaveUsers` | `Spec => []SessionHasUser` |
| `NoncesAreUsedOnce` | `Spec => []NonceUsedOnce` |
| `TheLastNonceWaits` | `Spec => []LastNonceWaits` |

from `SessionsAssumption`. `UserInv` says that a handler about to open a session has
written its user. `NonceInv` follows a nonce from its draw to its session. It is issued
once: until then it is not on record and nobody is about to delete it (`DrawnInv`,
`IssueInv`). A wallet has one on record at most, and one about to be inserted is the first
(`RecordInv`). A nonce nobody has accepted is on record, and nobody is about to delete it
(`WaitInv`, from which `LastNonceWaits`). A nonce that signed in is off the record for good
and in no other sign-in's hands (`SpentInv`, of which `NonceUsedOnce` is a part).

`RateLimiterProofs` proves, for any limit, window, lag and number of threads:

| Theorem | Statement |
|---|---|
| `LimiterTypeCorrect` | `Spec => []TypeOK` |
| `WindowIsRespected` | `Spec => []WindowRespected` |
| `RefusalsAreEarned` | `Spec => RefusalIsEarned` |

from `LimiterAssumption` (a positive limit). The deque is not in order, so the invariant
compares it with all admissions: those younger than the window before the newest time
judged by are still in it (`ForgottenInv`), a thread is never more than the lag behind
the clock (`LagInv`), and the deque holds the limit at most, without duplicates, and out of
order by the lag at most (`BucketInv`). The admissions of a shortened window are then
those found in one deque, which bounds their number; and an entry stuck behind a
younger one is older than the window by the lag at most.

Only model-checked: liveness (`SubmissionSettles`, `ProofEnds`), which is out of the
prover's reach. Every safety property of the passing runs is proved, the
refinements among them. There is no recursive definition here, and where a proof about
data needs an induction it takes a least counterexample (`LeastOf`) instead.

## 6. Not modelled

- Cryptography, Poseidon hashes, Merkle trees, circuits and generated verifiers:
  arithmetic over fields TLC cannot enumerate. One constraint of the circuits is
  an operator of `ShardProving`.
- OCR, PDF layout and the redaction engine: they map bytes to bytes; that they
  may fail is modelled.
- Listing, downloads, export and health: they change nothing. Cases are inserted
  and read.
- Startup, configuration, logging, storage clients, probe and benchmark tools:
  wiring, pure I/O, or offline.
- Memoised status probes: the dispatcher refreshes the one it uses, and a missing
  prover shows as a failed proof, which is modelled.
- The web client and the workflow scripts: they call the routes in sequence and poll;
  they keep no state the server relies on. Their timeouts (240 seconds in
  `scripts/zkpt/live_workflow.py`, eight minutes in `apps/web/src/lib/redactions.ts`) may end
  before the job does, which changes nothing at the server.
- Planned, not yet modelled: the document binding, and the composition of section 2.
