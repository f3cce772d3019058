-------------------------- MODULE OnchainSubmission --------------------------
(***************************************************************************)
(* POST /zkpt/bundles/{id}/submit-onchain: the handler sends one           *)
(* transaction to the receipt registry through the relayer's account and   *)
(* polls for its receipt, writing the outcome to the bundle and then to    *)
(* the result document.  Handlers of the same bundle, or of others of the  *)
(* same relayer, interleave; a handler that gives up after 120 seconds     *)
(* leaves its transaction behind.                                          *)
(*                                                                         *)
(* The bundle's result document is inserted by its redaction's run, after  *)
(* the bundle: a submission may come first.                                *)
(*                                                                         *)
(* Transactions are numbered in the order the node accepts them.  The      *)
(* chain is external: its blocks are final (no reorganisation undoes a     *)
(* receipt), and it executes the relayer's transactions in nonce order.    *)
(***************************************************************************)
EXTENDS Naturals, Sequences, FiniteSets

CONSTANTS
  Bundles,   \* the verified bundles
  Eligible,  \* those with summary.onchainEligible, of the deployed profile
  Handlers,  \* requests that may be in progress at the same time
  NoBundle,  \* null
  MaxSends,  \* bound: transactions accepted by the node in one behaviour
  MayFail    \* whether a handler may die, or lose the database, among its writes

ASSUME OnchainAssumption ==
  /\ Eligible \subseteq Bundles
  /\ NoBundle \notin Bundles
  /\ MaxSends \in Nat
  /\ MayFail \in BOOLEAN

Txs    == 1..MaxSends
NoTx   == 0
Writes == {"submitted", "confirmed", "failed"}

VARIABLES
  onchain,    \* zkpt_bundles.onchain: status and txHash, per bundle
  docStatus,  \* documents.zkpt.onchain_status of the bundle's result document, or absent
  timeline,   \* zkpt.onchain_confirmed events, by bundle
  req,        \* handlers
  \* the node: bundle of each accepted transaction, the transactions by nonce,
  \* how many of them are mined, how each ended, and the registry's receipts
  bundleOf, pool, mined, outcome, registered,
  \* history: the bundles two submissions of which were in progress at once; those
  \* a submission of which began before the document was there, or died writing
  overlapped, cut

dbVars    == <<onchain, docStatus, timeline>>
chainVars == <<bundleOf, pool, mined, outcome, registered>>
history   == <<overlapped, cut>>
vars      == <<dbVars, req, chainVars, history>>

Idle  == [at |-> "idle", bundle |-> NoBundle, nonce |-> 0, tx |-> NoTx, write |-> "submitted"]
Steps == {"idle", "nonce", "estimate", "send", "bundle", "document", "wait", "record"}

Sent == Len(bundleOf)

DefaultStatus(b) == IF b \in Eligible THEN "not_submitted" ELSE "unsupported"

Init ==
  /\ onchain = [b \in Bundles |-> [status |-> DefaultStatus(b), tx |-> NoTx]]
  /\ docStatus = [b \in Bundles |-> "absent"]
  /\ timeline = {}
  /\ req = [q \in Handlers |-> Idle]
  /\ bundleOf = << >> /\ pool = << >> /\ mined = 0
  /\ outcome = [t \in Txs |-> "none"]
  /\ registered = {}
  /\ overlapped = {} /\ cut = {}

-----------------------------------------------------------------------------
(* The handler: submit_verified_bundle_onchain and the custody event *)

\* Nothing looks at the onchain status the bundle already has.
Begin(q, b) ==
  /\ req[q] = Idle
  /\ b \in Eligible
  /\ req' = [req EXCEPT ![q] = [Idle EXCEPT !.at = "nonce", !.bundle = b]]
  /\ overlapped' = IF \E p \in Handlers : req[p].bundle = b
                     THEN overlapped \cup {b} ELSE overlapped
  /\ cut' = IF docStatus[b] = "absent" THEN cut \cup {b} ELSE cut
  /\ UNCHANGED <<dbVars, chainVars>>

\* eth_getTransactionCount with "pending".
ReadNonce(q) ==
  /\ req[q].at = "nonce"
  /\ req' = [req EXCEPT ![q].at = "estimate", ![q].nonce = Len(pool) + 1]
  /\ UNCHANGED <<dbVars, chainVars, history>>

\* Faulty variant of EstimateGas: a fixed gas limit instead of an estimate.
FixedGas(q) ==
  /\ req[q].at = "estimate"
  /\ req' = [req EXCEPT ![q].at = "send"]
  /\ UNCHANGED <<dbVars, chainVars, history>>

\* eth_estimateGas executes the call, which raises once a receipt exists.
EstimateGas(q) ==
  /\ req[q].at = "estimate"
  /\ req' = IF req[q].bundle \in registered
              THEN [req EXCEPT ![q] = Idle]
              ELSE [req EXCEPT ![q].at = "send"]
  /\ UNCHANGED <<dbVars, chainVars, history>>

\* eth_sendRawTransaction: the node takes the transaction, in the place of a
\* pending one with the same nonce if need be, or refuses a nonce already mined.
\* The answer may be lost although the transaction was taken.
Acceptable(q) == Sent < MaxSends /\ req[q].nonce > mined

Accepted(q) ==
  /\ Acceptable(q)
  /\ bundleOf' = Append(bundleOf, req[q].bundle)
  /\ pool' = IF req[q].nonce = Len(pool) + 1
               THEN Append(pool, Sent + 1)
               ELSE [pool EXCEPT ![req[q].nonce] = Sent + 1]
  /\ outcome' = [outcome EXCEPT ![Sent + 1] = "pending"]
  /\ UNCHANGED <<mined, registered>>

Send(q) ==
  /\ req[q].at = "send"
  /\ Accepted(q)
  /\ \/ req' = [req EXCEPT ![q].at = "bundle", ![q].tx = Sent + 1]
     \/ req' = [req EXCEPT ![q] = Idle]
  /\ UNCHANGED <<dbVars, history>>

SendRefused(q) ==
  /\ req[q].at = "send"
  /\ ~Acceptable(q)
  /\ req' = [req EXCEPT ![q] = Idle]
  /\ UNCHANGED <<dbVars, chainVars, history>>

\* Faulty variant of WriteBundle: the hash a bundle once has stays.
WriteBundleKeepsHash(q) ==
  /\ req[q].at = "bundle"
  /\ onchain' = [onchain EXCEPT ![req[q].bundle] =
       [status |-> req[q].write, tx |-> IF @.tx = NoTx THEN req[q].tx ELSE @.tx]]
  /\ req' = [req EXCEPT ![q].at = "document"]
  /\ UNCHANGED <<docStatus, timeline, chainVars, history>>

\* The two updates of each of the three outcomes, the bundle's first.
WriteBundle(q) ==
  /\ req[q].at = "bundle"
  /\ onchain' = [onchain EXCEPT ![req[q].bundle] = [status |-> req[q].write, tx |-> req[q].tx]]
  /\ req' = [req EXCEPT ![q].at = "document"]
  /\ UNCHANGED <<docStatus, timeline, chainVars, history>>

\* After "submitted" the receipt is awaited, after "confirmed" the event recorded.
AfterDocument(q) ==
  CASE req[q].write = "submitted" -> [req[q] EXCEPT !.at = "wait"]
    [] req[q].write = "confirmed" -> [req[q] EXCEPT !.at = "record"]
    [] req[q].write = "failed"    -> Idle

\* Faulty variants of WriteDocument: the status name the project avoids; a failure
\* written to the bundle only.
WriteDocumentVerified(q) ==
  /\ req[q].at = "document"
  /\ docStatus' = [docStatus EXCEPT ![req[q].bundle] =
       IF req[q].write = "confirmed" THEN "verified" ELSE req[q].write]
  /\ req' = [req EXCEPT ![q] = AfterDocument(q)]
  /\ UNCHANGED <<onchain, timeline, chainVars, history>>

WriteDocumentUnlessFailed(q) ==
  /\ req[q].at = "document"
  /\ docStatus' = [docStatus EXCEPT ![req[q].bundle] =
       IF req[q].write = "failed" THEN @ ELSE req[q].write]
  /\ req' = [req EXCEPT ![q] = AfterDocument(q)]
  /\ UNCHANGED <<onchain, timeline, chainVars, history>>

\* An update that matches no document changes nothing.
WriteDocument(q) ==
  /\ req[q].at = "document"
  /\ docStatus' = [docStatus EXCEPT ![req[q].bundle] =
       IF @ = "absent" THEN @ ELSE req[q].write]
  /\ req' = [req EXCEPT ![q] = AfterDocument(q)]
  /\ UNCHANGED <<onchain, timeline, chainVars, history>>

\* Faulty variant of ReadReceipt: any receipt confirms.
AnyReceiptConfirms(q) ==
  /\ req[q].at = "wait"
  /\ outcome[req[q].tx] \in {"ok", "reverted"}
  /\ req' = [req EXCEPT ![q].at = "bundle", ![q].write = "confirmed"]
  /\ UNCHANGED <<dbVars, chainVars, history>>

\* _wait_for_receipt returned a receipt, and its status decides.
ReadReceipt(q) ==
  /\ req[q].at = "wait"
  /\ outcome[req[q].tx] \in {"ok", "reverted"}
  /\ req' = [req EXCEPT ![q].at = "bundle",
       ![q].write = IF outcome[req[q].tx] = "ok" THEN "confirmed" ELSE "failed"]
  /\ UNCHANGED <<dbVars, chainVars, history>>

\* The 120 seconds are over: 409, and everything stays as it is.
ReceiptTimeout(q) ==
  /\ req[q].at = "wait"
  /\ req' = [req EXCEPT ![q] = Idle]
  /\ UNCHANGED <<dbVars, chainVars, history>>

RecordConfirmed(q) ==
  /\ req[q].at = "record"
  /\ timeline' = timeline \cup {req[q].bundle}
  /\ req' = [req EXCEPT ![q] = Idle]
  /\ UNCHANGED <<onchain, docStatus, chainVars, history>>

\* A call to the node fails.
RpcRaises(q) ==
  /\ req[q].at \in {"nonce", "estimate", "send", "wait"}
  /\ req' = [req EXCEPT ![q] = Idle]
  /\ UNCHANGED <<dbVars, chainVars, history>>

\* The process dies, or a database call raises, between two writes.
HandlerDies(q) ==
  /\ MayFail
  /\ req[q].at \in {"bundle", "document", "record"}
  /\ req' = [req EXCEPT ![q] = Idle]
  /\ cut' = cut \cup {req[q].bundle}
  /\ UNCHANGED <<dbVars, chainVars, overlapped>>

-----------------------------------------------------------------------------
(* The redaction's run *)

\* The result document is inserted with the payload the run has: the proof's, with
\* the status of its plan, or the one of a deadline that the bundle has missed.
InsertResult(b) ==
  /\ docStatus[b] = "absent"
  /\ \E s \in {DefaultStatus(b), "unsupported"} : docStatus' = [docStatus EXCEPT ![b] = s]
  /\ UNCHANGED <<onchain, timeline, req, chainVars, history>>

-----------------------------------------------------------------------------
(* The chain: ZKPTReceiptRegistry.submitVerifiedBundle *)

\* The relayer's next transaction is executed.  It reverts when the bundle has a
\* receipt, and may for other reasons (out of gas, another verifier).
MineNext ==
  /\ mined < Len(pool)
  /\ mined' = mined + 1
  /\ LET t == pool[mined + 1] IN
       \/ /\ bundleOf[t] \notin registered
          /\ outcome' = [outcome EXCEPT ![t] = "ok"]
          /\ registered' = registered \cup {bundleOf[t]}
       \/ /\ outcome' = [outcome EXCEPT ![t] = "reverted"]
          /\ UNCHANGED registered
  /\ UNCHANGED <<dbVars, req, bundleOf, pool, history>>

-----------------------------------------------------------------------------

Handle(q) ==
  \/ ReadNonce(q) \/ EstimateGas(q) \/ Send(q) \/ SendRefused(q)
  \/ WriteBundle(q) \/ WriteDocument(q)
  \/ ReadReceipt(q) \/ ReceiptTimeout(q) \/ RecordConfirmed(q)

Next ==
  \/ \E q \in Handlers, b \in Bundles : Begin(q, b)
  \/ \E q \in Handlers : Handle(q) \/ RpcRaises(q) \/ HandlerDies(q)
  \/ \E b \in Bundles : InsertResult(b)
  \/ MineNext

Spec == Init /\ [][Next]_vars

-----------------------------------------------------------------------------
(* Properties *)

TypeOK ==
  /\ onchain \in [Bundles -> [status : {"unsupported", "not_submitted"} \cup Writes,
                              tx : Txs \cup {NoTx}]]
  /\ docStatus \in [Bundles -> {"absent", "unsupported", "not_submitted"} \cup Writes]
  /\ timeline \subseteq Bundles
  /\ req \in [Handlers -> [at : Steps, bundle : Bundles \cup {NoBundle},
                           nonce : 0..(MaxSends + 1), tx : Txs \cup {NoTx}, write : Writes]]
  /\ bundleOf \in Seq(Bundles) /\ Sent <= MaxSends
  /\ pool \in Seq(Txs) /\ Len(pool) <= Sent
  /\ mined \in 0..Len(pool)
  /\ outcome \in [Txs -> {"none", "pending", "ok", "reverted"}]
  /\ registered \subseteq Bundles
  /\ overlapped \subseteq Bundles /\ cut \subseteq Bundles

\* "The app only reports confirmed after the transaction is actually mined and
\* accepted on-chain": on the bundle, on the document and on the timeline, and the
\* hash shown with an outcome is the hash of a transaction that had this outcome
\* for this bundle, whatever handlers interleave, give up or die.
OutcomeIsReal ==
  \A b \in Bundles :
    /\ "confirmed" \in {onchain[b].status, docStatus[b]} \/ b \in timeline
         => b \in registered
    /\ onchain[b].status \in Writes =>
         /\ onchain[b].tx \in 1..Sent
         /\ bundleOf[onchain[b].tx] = b
         /\ onchain[b].status = "confirmed" => outcome[onchain[b].tx] = "ok"
         /\ onchain[b].status = "failed" => outcome[onchain[b].tx] = "reverted"

\* A confirmed bundle is never again shown otherwise, unless two submissions of it
\* overlapped: transactions of abandoned submissions may still be mined, the bundle may
\* be submitted again, other bundles use the same nonces, and handlers die.  It is the
\* gas estimate that stops it.
ConfirmedIsFinal ==
  [][\A b \in Bundles \ overlapped' :
       onchain[b].status = "confirmed" => onchain'[b].status = "confirmed"]_vars

\* A submitted bundle and its document tell the same when no submission is under way,
\* and a confirmation is on the timeline, unless two submissions overlapped, one began
\* before the document was there, or one was cut short.
DocumentAgrees ==
  \A b \in Bundles \ (overlapped \cup cut) :
    /\ onchain[b].status \in Writes
    /\ \A q \in Handlers : req[q].bundle # b
    => /\ docStatus[b] = onchain[b].status
       /\ docStatus[b] = "confirmed" => b \in timeline

\* The handlers and the chain implement the promise of SubmissionPromise.
Promise == INSTANCE SubmissionPromise WITH
  receipts   <- {<<bundleOf[t], t>> : t \in {u \in 1..Sent : outcome[u] = "ok"}},
  claims     <- {<<b, onchain[b].tx>> : b \in {c \in Bundles : onchain[c].status = "confirmed"}},
  documented <- {b \in Bundles : docStatus[b] = "confirmed"},
  recorded   <- timeline,
  contended  <- overlapped

PromiseSpec == Promise!Spec

=============================================================================
