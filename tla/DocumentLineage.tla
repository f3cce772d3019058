--------------------------- MODULE DocumentLineage ---------------------------
(***************************************************************************)
(* Legal documents and what derives from them: upload, notarization,       *)
(* OCR copies, redaction results and soft deletion, each a handler of      *)
(* several database and object-store steps that other handlers interleave  *)
(* with (requests run in a thread pool of two server processes, redactions *)
(* in workers).                                                            *)
(*                                                                         *)
(* A document's binary is the upload it holds: the number of the upload    *)
(* stands for its bytes, for the key material (salt and iv) they were      *)
(* encrypted with, and for their SHA-256.  An evidence bundle is the pair  *)
(* of the document and the digest it attests.                              *)
(***************************************************************************)
EXTENDS Naturals, FiniteSets

CONSTANTS
  Docs,        \* document ids, each drawn at most once
  Requests,    \* handlers that may be in progress at the same time
  MaxUploads,  \* bound: binaries stored in one behaviour
  MaxDeaths,   \* bound: handlers that die in one behaviour
  None         \* null: no document, no evidence, no binary

ASSUME LineageAssumption ==
  /\ None \notin Docs
  /\ MaxUploads \in Nat /\ MaxDeaths \in Nat

Versions == 1..MaxUploads
Bundles  == Docs \X Versions

VARIABLES
  \* the documents collection
  status, source, latest, digest, evidenceOf, fileOf, created,
  \* files: the record of a root's binary; the object store, by document id
  record, blob,
  \* evidence_bundles, and the custody events of interest
  evidence, timeline,
  \* handlers in progress; how many binaries, documents and deaths there have been
  req, uploads, clock, deaths,
  \* history, which no step reads: documents whose event a handler died before
  \* recording, and whose latest result one died before writing
  untold, unlinked

docVars  == <<status, source, latest, digest, evidenceOf, fileOf, created>>
fileVars == <<record, blob, uploads>>
logVars  == <<evidence, timeline, untold, unlinked, deaths>>
vars     == <<docVars, fileVars, logVars, req, clock>>

Live   == {d \in Docs : status[d] \notin {"absent", "deleted"}}
Absent == {d \in Docs : status[d] = "absent"}
LiveResults(d) == {c \in Live : source[c] = d}

\* A handler in progress: where it is, its document, and what it has read.
Idle == [at |-> "idle", doc |-> None, then |-> "idle", key |-> None, ver |-> 0,
         evid |-> None, targets |-> {}, pick |-> None]

Steps == {"idle", "put", "record", "read", "issue", "notarize", "note", "copy",
          "insert", "link", "delete", "remaining", "relink", "note_deleted"}

Init ==
  /\ status = [d \in Docs |-> "absent"]
  /\ source = [d \in Docs |-> None]
  /\ latest = [d \in Docs |-> None]
  /\ digest = [d \in Docs |-> None]
  /\ evidenceOf = [d \in Docs |-> None]
  /\ fileOf = [d \in Docs |-> None]
  /\ created = [d \in Docs |-> 0]
  /\ record = [d \in Docs |-> [key |-> None, ver |-> 0]]
  /\ blob = [d \in Docs |-> 0]
  /\ evidence = {} /\ timeline = {}
  /\ req = [q \in Requests |-> Idle]
  /\ uploads = 0 /\ clock = 0 /\ deaths = 0
  /\ untold = {} /\ unlinked = {}

-----------------------------------------------------------------------------
(* Creation and upload *)

\* create_pending_file and create_document: a root is also the name of its file.
NewRoot(d) ==
  /\ d \in Absent
  /\ status'  = [status EXCEPT ![d] = "uploaded"]
  /\ fileOf'  = [fileOf EXCEPT ![d] = d]
  /\ created' = [created EXCEPT ![d] = clock + 1]
  /\ clock'   = clock + 1
  /\ UNCHANGED <<source, latest, digest, evidenceOf>>

InitUpload(d) ==
  /\ NewRoot(d)
  /\ UNCHANGED <<fileVars, logVars, req>>

\* complete_document_upload: the document is looked up, the body awaited.
BeginUpload(q, d) ==
  /\ req[q] = Idle
  /\ d \in Live
  /\ uploads < MaxUploads
  /\ uploads' = uploads + 1
  /\ req' = [req EXCEPT ![q] = [Idle EXCEPT !.at = "put", !.doc = d, !.ver = uploads + 1]]
  /\ UNCHANGED <<docVars, record, blob, logVars, clock>>

\* The bytes go under the document's own key, over what is there.
PutBlob(q) ==
  /\ req[q].at = "put"
  /\ blob' = [blob EXCEPT ![req[q].doc] = req[q].ver]
  /\ req'  = [req EXCEPT ![q].at = "record"]
  /\ UNCHANGED <<docVars, record, uploads, logVars, clock>>

\* The key material goes to the file record, which a result shares with its source.
StoreRecord(q) ==
  /\ req[q].at = "record"
  /\ record' = [record EXCEPT ![fileOf[req[q].doc]] =
                  [key |-> req[q].doc, ver |-> req[q].ver]]
  /\ req' = [req EXCEPT ![q] = Idle]
  /\ UNCHANGED <<docVars, blob, uploads, logVars, clock>>

-----------------------------------------------------------------------------
(* Reading a document's binary: notarization, OCR copies, redaction *)

\* Faulty variant of BeginRead: a document is found whatever its status.
BeginReadAny(q, d, then) ==
  /\ req[q] = Idle
  /\ status[d] # "absent"
  /\ record[fileOf[d]].key # None
  /\ req' = [req EXCEPT ![q] = [Idle EXCEPT !.at = "read", !.doc = d, !.then = then,
               !.key = record[fileOf[d]].key, !.ver = record[fileOf[d]].ver,
               !.evid = evidenceOf[d]]]
  /\ UNCHANGED <<docVars, fileVars, logVars, clock>>

\* The document and its file record are read; evidence_bundle_id is what a
\* redaction will copy to its result.
BeginRead(q, d, then) ==
  /\ req[q] = Idle
  /\ d \in Live
  /\ record[fileOf[d]].key # None
  /\ req' = [req EXCEPT ![q] = [Idle EXCEPT !.at = "read", !.doc = d, !.then = then,
               !.key = record[fileOf[d]].key, !.ver = record[fileOf[d]].ver,
               !.evid = evidenceOf[d]]]
  /\ UNCHANGED <<docVars, fileVars, logVars, clock>>

\* The bytes are read and decrypted.  Authenticated decryption raises when they
\* are not the ones the record's key material is for, and ends the handler.
ReadBlob(q) ==
  /\ req[q].at = "read"
  /\ req' = IF blob[req[q].key] = req[q].ver
              THEN [req EXCEPT ![q].at = req[q].then]
              ELSE [req EXCEPT ![q] = Idle]
  /\ UNCHANGED <<docVars, fileVars, logVars, clock>>

\* notarize_document: create_evidence_bundle ...
IssueEvidence(q) ==
  /\ req[q].at = "issue"
  /\ evidence' = evidence \cup {<<req[q].doc, req[q].ver>>}
  /\ req' = [req EXCEPT ![q].at = "notarize"]
  /\ UNCHANGED <<docVars, fileVars, timeline, untold, unlinked, deaths, clock>>

\* Faulty variants of WriteNotarized: a status no other handler knows; a digest
\* written by the first notarization only.
WriteAnchored(q) ==
  LET d == req[q].doc IN
  /\ req[q].at = "notarize"
  /\ status'     = [status EXCEPT ![d] = "anchored"]
  /\ digest'     = [digest EXCEPT ![d] = req[q].ver]
  /\ evidenceOf' = [evidenceOf EXCEPT ![d] = <<d, req[q].ver>>]
  /\ req' = [req EXCEPT ![q].at = "note"]
  /\ UNCHANGED <<source, latest, fileOf, created, fileVars, logVars, clock>>

WriteFirstDigest(q) ==
  LET d == req[q].doc IN
  /\ req[q].at = "notarize"
  /\ status'     = [status EXCEPT ![d] = "notarized"]
  /\ digest'     = [digest EXCEPT ![d] = IF @ = None THEN req[q].ver ELSE @]
  /\ evidenceOf' = [evidenceOf EXCEPT ![d] = <<d, req[q].ver>>]
  /\ req' = [req EXCEPT ![q].at = "note"]
  /\ UNCHANGED <<source, latest, fileOf, created, fileVars, logVars, clock>>

\* ... the document, whatever its status has become ...
WriteNotarized(q) ==
  LET d == req[q].doc IN
  /\ req[q].at = "notarize"
  /\ status'     = [status EXCEPT ![d] = "notarized"]
  /\ digest'     = [digest EXCEPT ![d] = req[q].ver]
  /\ evidenceOf' = [evidenceOf EXCEPT ![d] = <<d, req[q].ver>>]
  /\ req' = [req EXCEPT ![q].at = "note"]
  /\ UNCHANGED <<source, latest, fileOf, created, fileVars, logVars, clock>>

\* ... and the custody event.
RecordNotarized(q) ==
  /\ req[q].at = "note"
  /\ timeline' = timeline \cup {<<"document.notarized", req[q].doc>>}
  /\ req' = [req EXCEPT ![q] = Idle]
  /\ UNCHANGED <<docVars, fileVars, evidence, untold, unlinked, deaths, clock>>

\* create_ocr_document: a new root, listed from here on, whose binary is then put
\* and recorded as an uploaded one is.
CreateCopy(q) ==
  /\ req[q].at = "copy"
  /\ uploads < MaxUploads
  /\ uploads' = uploads + 1
  /\ \E c \in Docs :
       /\ NewRoot(c)
       /\ req' = [req EXCEPT ![q] = [Idle EXCEPT !.at = "put", !.doc = c, !.ver = uploads + 1]]
  /\ UNCHANGED <<record, blob, logVars>>

\* run_redaction_job: the result document is inserted ...
InsertResult(q) ==
  LET d == req[q].doc IN
  /\ req[q].at = "insert"
  /\ \E c \in Absent :
       /\ status'     = [status EXCEPT ![c] = "redacted_unverified"]
       /\ source'     = [source EXCEPT ![c] = d]
       /\ fileOf'     = [fileOf EXCEPT ![c] = fileOf[d]]
       /\ digest'     = [digest EXCEPT ![c] = req[q].ver]
       /\ evidenceOf' = [evidenceOf EXCEPT ![c] = req[q].evid]
       /\ created'    = [created EXCEPT ![c] = clock + 1]
       /\ req' = [req EXCEPT ![q].at = "link", ![q].pick = c]
  /\ clock' = clock + 1
  /\ UNCHANGED <<latest, fileVars, logVars>>

\* Faulty variant of LinkResult: the update matches the result's own id.
LinkSelf(q) ==
  /\ req[q].at = "link"
  /\ latest' = [latest EXCEPT ![req[q].pick] = req[q].pick]
  /\ req' = [req EXCEPT ![q] = Idle]
  /\ UNCHANGED <<status, source, digest, evidenceOf, fileOf, created, fileVars, logVars, clock>>

\* ... and its source pointed to it, deleted or not.
LinkResult(q) ==
  /\ req[q].at = "link"
  /\ latest' = [latest EXCEPT ![req[q].doc] = req[q].pick]
  /\ unlinked' = unlinked \ {req[q].doc}
  /\ req' = [req EXCEPT ![q] = Idle]
  /\ UNCHANGED <<status, source, digest, evidenceOf, fileOf, created, fileVars,
                 evidence, timeline, untold, deaths, clock>>

-----------------------------------------------------------------------------
(* Deletion *)

\* Faulty variant of BeginDelete: results are left to be deleted on their own.
BeginDeleteAlone(q, d) ==
  /\ req[q] = Idle
  /\ d \in Live
  /\ req' = [req EXCEPT ![q] = [Idle EXCEPT !.at = "delete", !.doc = d, !.targets = {d}]]
  /\ UNCHANGED <<docVars, fileVars, logVars, clock>>

\* A root takes its live results with it, a result only itself.
BeginDelete(q, d) ==
  /\ req[q] = Idle
  /\ d \in Live
  /\ req' = [req EXCEPT ![q] = [Idle EXCEPT !.at = "delete", !.doc = d,
               !.targets = {d} \cup (IF source[d] = None THEN LiveResults(d) ELSE {})]]
  /\ UNCHANGED <<docVars, fileVars, logVars, clock>>

DeleteTargets(q) ==
  /\ req[q].at = "delete"
  /\ status' = [d \in Docs |-> IF d \in req[q].targets THEN "deleted" ELSE status[d]]
  /\ req' = [req EXCEPT ![q].at = IF source[req[q].doc] = None THEN "note_deleted" ELSE "remaining"]
  /\ UNCHANGED <<source, latest, digest, evidenceOf, fileOf, created, fileVars, logVars, clock>>

\* Faulty variant of Newest: the sort is ascending.
Oldest(S) == {d \in S : \A e \in S : created[d] <= created[e]}

\* sort created_at descending, limit 1: the documents it may return.
Newest(S) == {d \in S : \A e \in S : created[e] <= created[d]}

NewestOrNone(S) == IF S = {} THEN {None} ELSE Newest(S)

\* The newest live result left to the source is read ...
ReadRemaining(q) ==
  /\ req[q].at = "remaining"
  /\ \E d \in NewestOrNone(LiveResults(source[req[q].doc])) :
       req' = [req EXCEPT ![q].at = "relink", ![q].pick = d]
  /\ UNCHANGED <<docVars, fileVars, logVars, clock>>

\* ... and written to it, if the source is not itself deleted.
Relink(q) ==
  LET s == source[req[q].doc] IN
  /\ req[q].at = "relink"
  /\ latest' = IF status[s] = "deleted" THEN latest ELSE [latest EXCEPT ![s] = req[q].pick]
  /\ unlinked' = unlinked \ {s}
  /\ req' = [req EXCEPT ![q].at = "note_deleted"]
  /\ UNCHANGED <<status, source, digest, evidenceOf, fileOf, created, fileVars,
                 evidence, timeline, untold, deaths, clock>>

\* Faulty variant of RecordDeleted: only the document asked for is recorded.
RecordDeletedRoot(q) ==
  /\ req[q].at = "note_deleted"
  /\ timeline' = timeline \cup {<<"document.deleted", req[q].doc>>}
  /\ req' = [req EXCEPT ![q] = Idle]
  /\ UNCHANGED <<docVars, fileVars, evidence, untold, unlinked, deaths, clock>>

RecordDeleted(q) ==
  /\ req[q].at = "note_deleted"
  /\ timeline' = timeline \cup {<<"document.deleted", d>> : d \in req[q].targets}
  /\ req' = [req EXCEPT ![q] = Idle]
  /\ UNCHANGED <<docVars, fileVars, evidence, untold, unlinked, deaths, clock>>

\* Handlers on their way to record what they have done to a document, or to write
\* what its latest result has become.
Deleting(q, d)   == /\ req[q].at \in {"remaining", "relink", "note_deleted"}
                    /\ d \in req[q].targets
Notarizing(q, d) == req[q].at = "note" /\ req[q].doc = d
Linking(q, d) ==
  \/ req[q].at = "link" /\ req[q].doc = d
  \/ req[q].at \in {"remaining", "relink"} /\ source[req[q].doc] = d

\* The server process, or the worker, dies: nothing resumes what it was doing.
HandlerDies(q) ==
  /\ req[q] # Idle
  /\ deaths < MaxDeaths
  /\ deaths' = deaths + 1
  /\ req' = [req EXCEPT ![q] = Idle]
  /\ untold' = untold \cup {d \in Docs : Deleting(q, d) \/ Notarizing(q, d)}
  /\ unlinked' = unlinked \cup {d \in Docs : Linking(q, d)}
  /\ UNCHANGED <<docVars, fileVars, evidence, timeline, clock>>

-----------------------------------------------------------------------------

Begin(q, d) ==
  \/ BeginUpload(q, d)
  \/ \E then \in {"issue", "copy", "insert"} : BeginRead(q, d, then)
  \/ BeginDelete(q, d)

Continue(q) ==
  \/ PutBlob(q) \/ StoreRecord(q)
  \/ ReadBlob(q)
  \/ IssueEvidence(q) \/ WriteNotarized(q) \/ RecordNotarized(q)
  \/ CreateCopy(q)
  \/ InsertResult(q) \/ LinkResult(q)
  \/ DeleteTargets(q) \/ ReadRemaining(q) \/ Relink(q) \/ RecordDeleted(q)

Next ==
  \/ \E d \in Docs : InitUpload(d)
  \/ \E q \in Requests, d \in Docs : Begin(q, d)
  \/ \E q \in Requests : Continue(q) \/ HandlerDies(q)

Spec == Init /\ [][Next]_vars

-----------------------------------------------------------------------------
(* Properties *)

HandlerStates == [at : Steps, doc : Docs \cup {None},
                  then : {"idle", "issue", "copy", "insert"},
                  key : Docs \cup {None}, ver : 0..MaxUploads,
                  evid : Bundles \cup {None}, targets : SUBSET Docs,
                  pick : Docs \cup {None}]

TypeOK ==
  /\ status \in [Docs -> {"absent", "uploaded", "notarized", "redacted_unverified", "deleted"}]
  /\ source \in [Docs -> Docs \cup {None}]
  /\ latest \in [Docs -> Docs \cup {None}]
  /\ digest \in [Docs -> Versions \cup {None}]
  /\ evidenceOf \in [Docs -> Bundles \cup {None}]
  /\ fileOf \in [Docs -> Docs \cup {None}]
  /\ created \in [Docs -> Nat]
  /\ record \in [Docs -> [key : Docs \cup {None}, ver : 0..MaxUploads]]
  /\ blob \in [Docs -> 0..MaxUploads]
  /\ evidence \subseteq Bundles
  /\ timeline \subseteq {"document.notarized", "document.deleted"} \X Docs
  /\ req \in [Requests -> HandlerStates]
  /\ uploads \in 0..MaxUploads
  /\ clock \in Nat /\ deaths \in 0..MaxDeaths
  /\ untold \subseteq Docs /\ unlinked \subseteq Docs

Quiet == \A q \in Requests : req[q] = Idle

\* The evidence a document carries exists; when it is the document's own, and not
\* copied from the source it was redacted from, it attests the document's digest.
\* (Two notarizations with different binaries interleave with uploads.)
EvidenceMatchesDocument ==
  \A d \in Docs :
    evidenceOf[d] # None =>
      /\ evidenceOf[d] \in evidence
      /\ evidenceOf[d][1] = d => evidenceOf[d][2] = digest[d]

\* The chain of custody misses nothing: a document that is deleted, or notarized,
\* has the event, or a handler is on its way to record it, or died on that way.
TimelineIsComplete ==
  \A d \in Docs \ untold :
    /\ status[d] = "deleted" =>
         <<"document.deleted", d>> \in timeline \/ \E q \in Requests : Deleting(q, d)
    /\ status[d] = "notarized" =>
         <<"document.notarized", d>> \in timeline \/ \E q \in Requests : Notarizing(q, d)

\* latest_redaction_result_id is one of the document's own results, through
\* every interleaving of redactions and deletions that write it.
LatestIsOwnResult ==
  \A d \in Docs : latest[d] # None => source[latest[d]] = d

\* One handler at a time: the latest result of a live document is its newest live
\* one, or none when none is left; after a handler died between the two writes,
\* it is so again from the next redaction or deletion that completes.
LatestIsNewestLive ==
  Quiet => \A d \in Live \ unlinked :
    latest[d] \in NewestOrNone(LiveResults(d))

\* One handler at a time: no result outlives the root it was redacted from.
ResultsFollowRoot ==
  Quiet => \A d \in Live :
    source[d] # None /\ source[source[d]] = None => source[d] \in Live

\* A deleted document stays deleted, as the test of the deletion leaves it.  (So it is
\* with one handler at a time; a notarization that a deletion overtakes revives it.)
DeletedStaysDeleted ==
  [][\A d \in Docs : status[d] = "deleted" => status'[d] = "deleted"]_vars

=============================================================================
