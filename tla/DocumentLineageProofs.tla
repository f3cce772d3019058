------------------------- MODULE DocumentLineageProofs -------------------------
(***************************************************************************)
(* Proofs about DocumentLineage, for any documents and any number of       *)
(* handlers and uploads: what documents, evidence and timeline say of one  *)
(* another survives every interleaving of the handlers' steps.             *)
(***************************************************************************)
EXTENDS DocumentLineage, TLAPS

\* A document has a place for its binary once it exists, and a source only then; a
\* record that was written names a binary.
DocumentInv ==
  \A d \in Docs :
    /\ status[d] = "absent" => source[d] = None
    /\ status[d] # "absent" => fileOf[d] \in Docs
    /\ record[d].key # None => record[d].ver \in Versions

Carrying == {"put", "record", "read", "issue", "notarize", "copy", "insert"}

\* A handler works on a document that exists and carries a binary that does.
HandlerInv ==
  \A q \in Requests :
    /\ req[q].at # "idle" => req[q].doc \in Docs /\ status[req[q].doc] # "absent"
    /\ req[q].at \in Carrying => req[q].ver \in Versions
    /\ req[q].at = "read" => req[q].key \in Docs /\ req[q].then \in {"issue", "copy", "insert"}
    /\ req[q].at \in {"remaining", "relink"} => source[req[q].doc] \in Docs
    /\ \A c \in req[q].targets : status[c] # "absent"

StateInv == TypeOK /\ DocumentInv /\ HandlerInv

\* What a handler is about to write to latest is a result of the document it
\* writes it to.
LatestInv ==
  /\ LatestIsOwnResult
  /\ \A q \in Requests :
       /\ req[q].at = "link" => req[q].pick \in Docs /\ source[req[q].pick] = req[q].doc
       /\ req[q].at = "relink" /\ req[q].pick # None => source[req[q].pick] = source[req[q].doc]

\* Evidence a handler carries, or is about to write, exists; and attests a document
\* that does, which a result about to be inserted does not.
EvidenceInv ==
  /\ EvidenceMatchesDocument
  /\ \A e \in evidence : status[e[1]] # "absent"
  /\ \A q \in Requests :
       /\ req[q].at = "notarize" => <<req[q].doc, req[q].ver>> \in evidence
       /\ req[q].evid # None => req[q].evid \in evidence

-----------------------------------------------------------------------------

LEMMA IdleType == Idle \in HandlerStates /\ Idle.at = "idle"
BY LineageAssumption DEF Idle, Steps, HandlerStates

LEMMA HandlerMoves == \A h \in HandlerStates, a \in Steps : [h EXCEPT !.at = a] \in HandlerStates
BY DEF HandlerStates

LEMMA VersionBounds ==
  /\ Versions \subseteq 0..MaxUploads
  /\ \A v \in 0..MaxUploads : v < MaxUploads => v + 1 \in Versions
  /\ 0 \in 0..MaxUploads
BY LineageAssumption DEF Versions

LEMMA StateStep ==
  ASSUME StateInv, [Next]_vars
  PROVE  StateInv'
<1> USE LineageAssumption, IdleType, VersionBounds
        DEF StateInv, Carrying, Live, Absent, Steps, docVars, fileVars, logVars
<1>1. ASSUME NEW d \in Docs, InitUpload(d) PROVE StateInv'
  <2>1. TypeOK'
    BY <1>1 DEF InitUpload, NewRoot, TypeOK, DocumentInv, HandlerInv, HandlerStates, Idle
  <2>2. DocumentInv'
    BY <1>1 DEF InitUpload, NewRoot, TypeOK, DocumentInv, HandlerInv, HandlerStates
  <2>3. HandlerInv'
    BY <1>1 DEF InitUpload, NewRoot, TypeOK, DocumentInv, HandlerInv, HandlerStates, Idle
  <2> QED BY <2>1, <2>2, <2>3
<1>2. ASSUME NEW q \in Requests, NEW d \in Docs, BeginUpload(q, d) PROVE StateInv'
  <2>1. TypeOK'
    BY <1>2 DEF BeginUpload, TypeOK, DocumentInv, HandlerInv, HandlerStates, Idle
  <2>2. DocumentInv'
    BY <1>2 DEF BeginUpload, TypeOK, DocumentInv, HandlerInv, HandlerStates
  <2>3. HandlerInv'
    BY <1>2 DEF BeginUpload, TypeOK, DocumentInv, HandlerInv, HandlerStates, Idle
  <2> QED BY <2>1, <2>2, <2>3
<1>3. ASSUME NEW q \in Requests, NEW d \in Docs,
             NEW then \in {"issue", "copy", "insert"}, BeginRead(q, d, then) PROVE StateInv'
  <2>1. TypeOK'
    BY <1>3 DEF BeginRead, TypeOK, DocumentInv, HandlerInv, HandlerStates, Idle
  <2>2. DocumentInv'
    BY <1>3 DEF BeginRead, TypeOK, DocumentInv, HandlerInv, HandlerStates
  <2>3. HandlerInv'
    BY <1>3 DEF BeginRead, TypeOK, DocumentInv, HandlerInv, HandlerStates, Idle
  <2> QED BY <2>1, <2>2, <2>3
<1>4. ASSUME NEW q \in Requests, NEW d \in Docs, BeginDelete(q, d) PROVE StateInv'
  <2>1. TypeOK'
    <3> DEFINE T == {d} \cup (IF source[d] = None THEN LiveResults(d) ELSE {})
    <3>1. T \in SUBSET Docs
      BY DEF LiveResults
    <3> HIDE DEF T
    <3>2. [Idle EXCEPT !.at = "delete", !.doc = d, !.targets = T] \in HandlerStates
      BY <3>1 DEF HandlerStates
    <3>3. req' = [req EXCEPT ![q] = [Idle EXCEPT !.at = "delete", !.doc = d, !.targets = T]]
      BY <1>4 DEF BeginDelete, T
    <3>4. req' \in [Requests -> HandlerStates]
      BY <3>2, <3>3 DEF TypeOK
    <3> QED BY <1>4, <3>4 DEF BeginDelete, TypeOK
  <2>2. DocumentInv'
    BY <1>4 DEF BeginDelete, LiveResults, TypeOK, DocumentInv, HandlerInv, HandlerStates
  <2>3. HandlerInv'
    BY <1>4 DEF BeginDelete, LiveResults, TypeOK, DocumentInv, HandlerInv, HandlerStates, Idle
  <2> QED BY <2>1, <2>2, <2>3
<1>5. ASSUME NEW q \in Requests, PutBlob(q) PROVE StateInv'
  <2>1. TypeOK'
    BY <1>5 DEF PutBlob, TypeOK, DocumentInv, HandlerInv, HandlerStates, Idle
  <2>2. DocumentInv'
    BY <1>5 DEF PutBlob, TypeOK, DocumentInv, HandlerInv, HandlerStates
  <2>3. HandlerInv'
    BY <1>5 DEF PutBlob, TypeOK, DocumentInv, HandlerInv, HandlerStates, Idle
  <2> QED BY <2>1, <2>2, <2>3
<1>6. ASSUME NEW q \in Requests, StoreRecord(q) PROVE StateInv'
  <2>1. TypeOK'
    BY <1>6 DEF StoreRecord, TypeOK, DocumentInv, HandlerInv, HandlerStates, Idle
  <2>2. DocumentInv'
    BY <1>6 DEF StoreRecord, TypeOK, DocumentInv, HandlerInv, HandlerStates
  <2>3. HandlerInv'
    BY <1>6 DEF StoreRecord, TypeOK, DocumentInv, HandlerInv, HandlerStates, Idle
  <2> QED BY <2>1, <2>2, <2>3
<1>7. ASSUME NEW q \in Requests, ReadBlob(q) PROVE StateInv'
  <2>1. TypeOK'
    BY <1>7 DEF ReadBlob, TypeOK, DocumentInv, HandlerInv, HandlerStates, Idle
  <2>2. DocumentInv'
    BY <1>7 DEF ReadBlob, TypeOK, DocumentInv, HandlerInv, HandlerStates
  <2>3. HandlerInv'
    BY <1>7 DEF ReadBlob, TypeOK, DocumentInv, HandlerInv, HandlerStates, Idle
  <2> QED BY <2>1, <2>2, <2>3
<1>8. ASSUME NEW q \in Requests, IssueEvidence(q) PROVE StateInv'
  <2>1. TypeOK'
    <3>1. <<req[q].doc, req[q].ver>> \in Bundles
      <4>1. req[q].doc \in Docs /\ req[q].ver \in Versions
        BY <1>8 DEF IssueEvidence, HandlerInv
      <4> QED BY <4>1 DEF Bundles
    <3>2. req' \in [Requests -> HandlerStates]
      BY <1>8, HandlerMoves DEF IssueEvidence, TypeOK
    <3> QED BY <1>8, <3>1, <3>2 DEF IssueEvidence, TypeOK
  <2>2. DocumentInv'
    BY <1>8 DEF IssueEvidence, Bundles, TypeOK, DocumentInv, HandlerInv, HandlerStates
  <2>3. HandlerInv'
    BY <1>8 DEF IssueEvidence, Bundles, TypeOK, DocumentInv, HandlerInv, HandlerStates, Idle
  <2> QED BY <2>1, <2>2, <2>3
<1>9. ASSUME NEW q \in Requests, WriteNotarized(q) PROVE StateInv'
  <2>1. TypeOK'
    <3>1. req[q].doc \in Docs /\ req[q].ver \in Versions
      BY <1>9 DEF WriteNotarized, TypeOK, HandlerInv
    <3>2. <<req[q].doc, req[q].ver>> \in Bundles
      BY <3>1 DEF Bundles
    <3>3. req' \in [Requests -> HandlerStates]
      BY <1>9, HandlerMoves DEF WriteNotarized, TypeOK
    <3>4. evidenceOf' \in [Docs -> Bundles \cup {None}]
      BY <1>9, <3>1, <3>2 DEF WriteNotarized, TypeOK
    <3> QED BY <1>9, <3>1, <3>3, <3>4 DEF WriteNotarized, TypeOK
  <2>2. DocumentInv'
    BY <1>9 DEF WriteNotarized, Bundles, TypeOK, DocumentInv, HandlerInv, HandlerStates
  <2>3. HandlerInv'
    BY <1>9 DEF WriteNotarized, Bundles, TypeOK, DocumentInv, HandlerInv, HandlerStates, Idle
  <2> QED BY <2>1, <2>2, <2>3
<1>10. ASSUME NEW q \in Requests, RecordNotarized(q) PROVE StateInv'
  <2>1. TypeOK'
    BY <1>10 DEF RecordNotarized, TypeOK, DocumentInv, HandlerInv, HandlerStates, Idle
  <2>2. DocumentInv'
    BY <1>10 DEF RecordNotarized, TypeOK, DocumentInv, HandlerInv, HandlerStates
  <2>3. HandlerInv'
    BY <1>10 DEF RecordNotarized, TypeOK, DocumentInv, HandlerInv, HandlerStates, Idle
  <2> QED BY <2>1, <2>2, <2>3
<1>11. ASSUME NEW q \in Requests, CreateCopy(q) PROVE StateInv'
  <2>1. TypeOK'
    <3>1. PICK c \in Docs :
            /\ NewRoot(c)
            /\ req' = [req EXCEPT ![q] =
                        [Idle EXCEPT !.at = "put", !.doc = c, !.ver = uploads + 1]]
      BY <1>11 DEF CreateCopy
    <3>2. uploads + 1 \in Versions
      BY <1>11 DEF CreateCopy, TypeOK
    <3>3. [Idle EXCEPT !.at = "put", !.doc = c, !.ver = uploads + 1] \in HandlerStates
      BY <3>2 DEF HandlerStates
    <3>4. req' \in [Requests -> HandlerStates]
      BY <3>1, <3>3 DEF TypeOK
    <3>5. /\ status' \in [Docs -> {"absent", "uploaded", "notarized", "redacted_unverified", "deleted"}]
          /\ fileOf' \in [Docs -> Docs \cup {None}]
          /\ created' \in [Docs -> Nat]
          /\ clock' \in Nat
          /\ UNCHANGED <<source, latest, digest, evidenceOf>>
      BY <3>1 DEF NewRoot, TypeOK
    <3> QED BY <1>11, <3>2, <3>4, <3>5 DEF CreateCopy, TypeOK
  <2>2. DocumentInv'
    BY <1>11 DEF CreateCopy, NewRoot, TypeOK, DocumentInv, HandlerInv, HandlerStates
  <2>3. HandlerInv'
    BY <1>11 DEF CreateCopy, NewRoot, TypeOK, DocumentInv, HandlerInv, HandlerStates, Idle
  <2> QED BY <2>1, <2>2, <2>3
<1>12. ASSUME NEW q \in Requests, InsertResult(q) PROVE StateInv'
  <2>1. TypeOK'
    <3>1. /\ req[q] \in HandlerStates /\ req[q].doc \in Docs /\ req[q].ver \in Versions
          /\ req[q].evid \in Bundles \cup {None}
      BY <1>12 DEF InsertResult, TypeOK, HandlerInv, HandlerStates
    <3>2. PICK c \in Absent :
            /\ status'     = [status EXCEPT ![c] = "redacted_unverified"]
            /\ source'     = [source EXCEPT ![c] = req[q].doc]
            /\ fileOf'     = [fileOf EXCEPT ![c] = fileOf[req[q].doc]]
            /\ digest'     = [digest EXCEPT ![c] = req[q].ver]
            /\ evidenceOf' = [evidenceOf EXCEPT ![c] = req[q].evid]
            /\ created'    = [created EXCEPT ![c] = clock + 1]
            /\ req' = [req EXCEPT ![q].at = "link", ![q].pick = c]
      BY <1>12 DEF InsertResult
    <3>3. req' \in [Requests -> HandlerStates]
      BY <3>1, <3>2 DEF TypeOK, HandlerStates
    <3>4. /\ status' \in [Docs -> {"absent", "uploaded", "notarized", "redacted_unverified", "deleted"}]
          /\ source' \in [Docs -> Docs \cup {None}]
          /\ fileOf' \in [Docs -> Docs \cup {None}]
          /\ digest' \in [Docs -> Versions \cup {None}]
          /\ evidenceOf' \in [Docs -> Bundles \cup {None}]
          /\ created' \in [Docs -> Nat]
      BY <3>1, <3>2 DEF TypeOK
    <3> QED BY <1>12, <3>3, <3>4 DEF InsertResult, TypeOK
  <2>2. DocumentInv'
    BY <1>12 DEF InsertResult, TypeOK, DocumentInv, HandlerInv, HandlerStates
  <2>3. HandlerInv'
    BY <1>12 DEF InsertResult, TypeOK, DocumentInv, HandlerInv, HandlerStates, Idle
  <2> QED BY <2>1, <2>2, <2>3
<1>13. ASSUME NEW q \in Requests, LinkResult(q) PROVE StateInv'
  <2>1. TypeOK'
    BY <1>13 DEF LinkResult, TypeOK, DocumentInv, HandlerInv, HandlerStates, Idle
  <2>2. DocumentInv'
    BY <1>13 DEF LinkResult, TypeOK, DocumentInv, HandlerInv, HandlerStates
  <2>3. HandlerInv'
    BY <1>13 DEF LinkResult, TypeOK, DocumentInv, HandlerInv, HandlerStates, Idle
  <2> QED BY <2>1, <2>2, <2>3
<1>14. ASSUME NEW q \in Requests, DeleteTargets(q) PROVE StateInv'
  <2>1. TypeOK'
    <3>1. req' \in [Requests -> HandlerStates]
      BY <1>14, HandlerMoves DEF DeleteTargets, TypeOK
    <3>2. status' \in [Docs -> {"absent", "uploaded", "notarized", "redacted_unverified", "deleted"}]
      BY <1>14 DEF DeleteTargets, TypeOK
    <3> QED BY <1>14, <3>1, <3>2 DEF DeleteTargets, TypeOK
  <2>2. DocumentInv'
    <3>1. \A c \in Docs : status'[c] = "absent" <=> status[c] = "absent"
      BY <1>14 DEF DeleteTargets, HandlerInv
    <3> QED BY <1>14, <3>1 DEF DeleteTargets, DocumentInv
  <2>3. HandlerInv'
    BY <1>14 DEF DeleteTargets, TypeOK, DocumentInv, HandlerInv, HandlerStates, Idle
  <2> QED BY <2>1, <2>2, <2>3
<1>15. ASSUME NEW q \in Requests, ReadRemaining(q) PROVE StateInv'
  <2>1. TypeOK'
    <3>1. PICK c \in NewestOrNone(LiveResults(source[req[q].doc])) :
                 req' = [req EXCEPT ![q].at = "relink", ![q].pick = c]
      BY <1>15 DEF ReadRemaining
    <3>2. c \in Docs \cup {None}
      BY DEF NewestOrNone, Newest, LiveResults
    <3>3. req[q] \in HandlerStates
      BY DEF TypeOK
    <3>4. [req[q] EXCEPT !.at = "relink", !.pick = c] \in HandlerStates
      BY <3>2, <3>3 DEF HandlerStates
    <3>5. req' \in [Requests -> HandlerStates]
      BY <3>1, <3>4 DEF TypeOK
    <3>6. UNCHANGED <<docVars, fileVars, logVars, clock>>
      BY <1>15 DEF ReadRemaining
    <3> QED BY <3>5, <3>6 DEF TypeOK
  <2>2. DocumentInv'
    BY <1>15 DEF ReadRemaining, LiveResults, TypeOK, DocumentInv, HandlerInv, HandlerStates
  <2>3. HandlerInv'
    BY <1>15 DEF ReadRemaining, LiveResults, TypeOK, DocumentInv, HandlerInv, HandlerStates, Idle
  <2> QED BY <2>1, <2>2, <2>3
<1>16. ASSUME NEW q \in Requests, Relink(q) PROVE StateInv'
  <2>1. TypeOK'
    BY <1>16 DEF Relink, TypeOK, DocumentInv, HandlerInv, HandlerStates, Idle
  <2>2. DocumentInv'
    BY <1>16 DEF Relink, TypeOK, DocumentInv, HandlerInv, HandlerStates
  <2>3. HandlerInv'
    BY <1>16 DEF Relink, TypeOK, DocumentInv, HandlerInv, HandlerStates, Idle
  <2> QED BY <2>1, <2>2, <2>3
<1>17. ASSUME NEW q \in Requests, RecordDeleted(q) PROVE StateInv'
  <2>1. TypeOK'
    BY <1>17 DEF RecordDeleted, TypeOK, DocumentInv, HandlerInv, HandlerStates, Idle
  <2>2. DocumentInv'
    BY <1>17 DEF RecordDeleted, TypeOK, DocumentInv, HandlerInv, HandlerStates
  <2>3. HandlerInv'
    BY <1>17 DEF RecordDeleted, TypeOK, DocumentInv, HandlerInv, HandlerStates, Idle
  <2> QED BY <2>1, <2>2, <2>3
<1>18. ASSUME NEW q \in Requests, HandlerDies(q) PROVE StateInv'
  <2>1. TypeOK'
    BY <1>18 DEF HandlerDies, TypeOK, DocumentInv, HandlerInv, HandlerStates, Idle
  <2>2. DocumentInv'
    BY <1>18 DEF HandlerDies, TypeOK, DocumentInv, HandlerInv, HandlerStates
  <2>3. HandlerInv'
    BY <1>18 DEF HandlerDies, TypeOK, DocumentInv, HandlerInv, HandlerStates, Idle
  <2> QED BY <2>1, <2>2, <2>3
<1>19. CASE UNCHANGED vars
  BY <1>19 DEF vars, TypeOK, DocumentInv, HandlerInv
<1> QED BY <1>1, <1>2, <1>3, <1>4, <1>5, <1>6, <1>7, <1>8, <1>9, <1>10, <1>11, <1>12, <1>13, <1>14, <1>15, <1>16, <1>17, <1>18, <1>19 DEF Next, Begin, Continue

LEMMA StateInvariant == Spec => []StateInv
<1>1. Init => StateInv
  BY LineageAssumption, IdleType, VersionBounds
     DEF Init, StateInv, TypeOK, DocumentInv, HandlerInv, Carrying, Idle
<1> QED BY <1>1, StateStep, PTL DEF Spec

\* Documents, files, evidence and handlers are well typed, whatever interleaves.
THEOREM TypeCorrect == Spec => []TypeOK
BY StateInvariant, PTL DEF StateInv

-----------------------------------------------------------------------------

LEMMA LatestStep ==
  ASSUME StateInv, LatestInv, [Next]_vars
  PROVE  LatestInv'
<1> USE LineageAssumption DEF StateInv, TypeOK, HandlerStates, Steps, LatestInv, LatestIsOwnResult, docVars, fileVars, logVars
<1>1. ASSUME NEW d \in Docs, InitUpload(d) PROVE LatestInv'
  BY <1>1 DEF InitUpload, NewRoot, Absent
<1>2. ASSUME NEW q \in Requests, NEW d \in Docs, BeginUpload(q, d) PROVE LatestInv'
  BY <1>2 DEF BeginUpload, Idle
<1>3. ASSUME NEW q \in Requests, NEW d \in Docs, NEW then \in {"issue", "copy", "insert"},
             BeginRead(q, d, then) PROVE LatestInv'
  BY <1>3 DEF BeginRead, Idle
<1>4. ASSUME NEW q \in Requests, NEW d \in Docs, BeginDelete(q, d) PROVE LatestInv'
  BY <1>4 DEF BeginDelete, Idle
<1>5. ASSUME NEW q \in Requests, PutBlob(q) PROVE LatestInv'
  BY <1>5 DEF PutBlob
<1>6. ASSUME NEW q \in Requests, StoreRecord(q) PROVE LatestInv'
  BY <1>6 DEF StoreRecord, Idle
<1>7. ASSUME NEW q \in Requests, ReadBlob(q) PROVE LatestInv'
  BY <1>7 DEF ReadBlob, Idle, HandlerInv
<1>8. ASSUME NEW q \in Requests, IssueEvidence(q) PROVE LatestInv'
  BY <1>8 DEF IssueEvidence
<1>9. ASSUME NEW q \in Requests, WriteNotarized(q) PROVE LatestInv'
  BY <1>9 DEF WriteNotarized
<1>10. ASSUME NEW q \in Requests, RecordNotarized(q) PROVE LatestInv'
  BY <1>10 DEF RecordNotarized, Idle
<1>11. ASSUME NEW q \in Requests, CreateCopy(q) PROVE LatestInv'
  BY <1>11 DEF CreateCopy, NewRoot, Absent, Idle
<1>12. ASSUME NEW q \in Requests, InsertResult(q) PROVE LatestInv'
  BY <1>12 DEF InsertResult, Absent, DocumentInv, HandlerInv
<1>13. ASSUME NEW q \in Requests, LinkResult(q) PROVE LatestInv'
  BY <1>13 DEF LinkResult, Idle, HandlerInv
<1>14. ASSUME NEW q \in Requests, DeleteTargets(q) PROVE LatestInv'
  BY <1>14 DEF DeleteTargets
<1>15. ASSUME NEW q \in Requests, ReadRemaining(q) PROVE LatestInv'
  BY <1>15 DEF ReadRemaining, NewestOrNone, Newest, LiveResults, Live, HandlerInv
<1>16. ASSUME NEW q \in Requests, Relink(q) PROVE LatestInv'
  BY <1>16 DEF Relink, HandlerInv
<1>17. ASSUME NEW q \in Requests, RecordDeleted(q) PROVE LatestInv'
  BY <1>17 DEF RecordDeleted, Idle
<1>18. ASSUME NEW q \in Requests, HandlerDies(q) PROVE LatestInv'
  BY <1>18 DEF HandlerDies, Idle
<1>19. CASE UNCHANGED vars
  BY <1>19 DEF vars
<1> QED BY <1>1, <1>2, <1>3, <1>4, <1>5, <1>6, <1>7, <1>8, <1>9,
           <1>10, <1>11, <1>12, <1>13, <1>14, <1>15, <1>16, <1>17, <1>18, <1>19 DEF Next, Begin, Continue

LEMMA EvidenceStep ==
  ASSUME StateInv, EvidenceInv, [Next]_vars
  PROVE  EvidenceInv'
<1> USE LineageAssumption DEF StateInv, TypeOK, HandlerStates, Steps, EvidenceInv, EvidenceMatchesDocument, docVars, fileVars, logVars
<1>1. ASSUME NEW d \in Docs, InitUpload(d) PROVE EvidenceInv'
  BY <1>1 DEF InitUpload, NewRoot, Absent
<1>2. ASSUME NEW q \in Requests, NEW d \in Docs, BeginUpload(q, d) PROVE EvidenceInv'
  BY <1>2 DEF BeginUpload, Idle
<1>3. ASSUME NEW q \in Requests, NEW d \in Docs, NEW then \in {"issue", "copy", "insert"},
             BeginRead(q, d, then) PROVE EvidenceInv'
  BY <1>3 DEF BeginRead, Idle, Live
<1>4. ASSUME NEW q \in Requests, NEW d \in Docs, BeginDelete(q, d) PROVE EvidenceInv'
  BY <1>4 DEF BeginDelete, Idle
<1>5. ASSUME NEW q \in Requests, PutBlob(q) PROVE EvidenceInv'
  BY <1>5 DEF PutBlob
<1>6. ASSUME NEW q \in Requests, StoreRecord(q) PROVE EvidenceInv'
  BY <1>6 DEF StoreRecord, Idle
<1>7. ASSUME NEW q \in Requests, ReadBlob(q) PROVE EvidenceInv'
  BY <1>7 DEF ReadBlob, Idle, HandlerInv
<1>8. ASSUME NEW q \in Requests, IssueEvidence(q) PROVE EvidenceInv'
  BY <1>8 DEF IssueEvidence, HandlerInv, Bundles
<1>9. ASSUME NEW q \in Requests, WriteNotarized(q) PROVE EvidenceInv'
  BY <1>9 DEF WriteNotarized, HandlerInv, Bundles
<1>10. ASSUME NEW q \in Requests, RecordNotarized(q) PROVE EvidenceInv'
  BY <1>10 DEF RecordNotarized, Idle
<1>11. ASSUME NEW q \in Requests, CreateCopy(q) PROVE EvidenceInv'
  BY <1>11 DEF CreateCopy, NewRoot, Absent, Idle
<1>12. ASSUME NEW q \in Requests, InsertResult(q) PROVE EvidenceInv'
  <2>1. PICK c \in Absent :
          /\ status' = [status EXCEPT ![c] = "redacted_unverified"]
          /\ digest' = [digest EXCEPT ![c] = req[q].ver]
          /\ evidenceOf' = [evidenceOf EXCEPT ![c] = req[q].evid]
          /\ req' = [req EXCEPT ![q].at = "link", ![q].pick = c]
    BY <1>12 DEF InsertResult
  <2>2. evidence' = evidence
    BY <1>12 DEF InsertResult
  <2>3. req[q].evid # None => req[q].evid \in evidence /\ req[q].evid[1] # c
    BY <2>1 DEF Absent
  <2>4. EvidenceMatchesDocument'
    BY <2>1, <2>2, <2>3 DEF Absent
  <2>5. \A e \in evidence' : status'[e[1]] # "absent"
    BY <2>1, <2>2 DEF Absent, Bundles
  <2>6. \A p \in Requests : req'[p].at = "notarize" => req[p].at = "notarize" /\ req'[p] = req[p]
    BY <2>1
  <2>7. \A p \in Requests : req'[p].evid = req[p].evid
    BY <2>1
  <2> QED BY <2>2, <2>4, <2>5, <2>6, <2>7
<1>13. ASSUME NEW q \in Requests, LinkResult(q) PROVE EvidenceInv'
  BY <1>13 DEF LinkResult, Idle, HandlerInv
<1>14. ASSUME NEW q \in Requests, DeleteTargets(q) PROVE EvidenceInv'
  <2>1. /\ UNCHANGED <<evidence, evidenceOf, digest>>
        /\ \A c \in Docs : status'[c] = "absent" => status[c] = "absent"
    BY <1>14 DEF DeleteTargets
  <2>2. \A p \in Requests : /\ req'[p].evid = req[p].evid
                            /\ req'[p].at = "notarize" => req'[p] = req[p]
    BY <1>14 DEF DeleteTargets
  <2> QED BY <2>1, <2>2 DEF Bundles
<1>15. ASSUME NEW q \in Requests, ReadRemaining(q) PROVE EvidenceInv'
  BY <1>15 DEF ReadRemaining, Live, HandlerInv
<1>16. ASSUME NEW q \in Requests, Relink(q) PROVE EvidenceInv'
  BY <1>16 DEF Relink, HandlerInv
<1>17. ASSUME NEW q \in Requests, RecordDeleted(q) PROVE EvidenceInv'
  BY <1>17 DEF RecordDeleted, Idle
<1>18. ASSUME NEW q \in Requests, HandlerDies(q) PROVE EvidenceInv'
  BY <1>18 DEF HandlerDies, Idle
<1>19. CASE UNCHANGED vars
  BY <1>19 DEF vars
<1> QED BY <1>1, <1>2, <1>3, <1>4, <1>5, <1>6, <1>7, <1>8, <1>9,
           <1>10, <1>11, <1>12, <1>13, <1>14, <1>15, <1>16, <1>17, <1>18, <1>19 DEF Next, Begin, Continue

\* A step leaves every event that is pending pending, or recorded, or untold ...
Kept ==
  /\ timeline \subseteq timeline' /\ untold \subseteq untold'
  /\ \A q \in Requests, d \in Docs :
       /\ Deleting(q, d) =>
            Deleting(q, d)' \/ <<"document.deleted", d>> \in timeline' \/ d \in untold'
       /\ Notarizing(q, d) =>
            Notarizing(q, d)' \/ <<"document.notarized", d>> \in timeline' \/ d \in untold'

\* ... and one that deletes or notarizes a document has its event pending.
Recorded ==
  \A d \in Docs :
    /\ status'[d] = "deleted" => status[d] = "deleted" \/ \E q \in Requests : Deleting(q, d)'
    /\ status'[d] = "notarized" => status[d] = "notarized" \/ \E q \in Requests : Notarizing(q, d)'

LEMMA PendingStep ==
  ASSUME StateInv, [Next]_vars
  PROVE  Kept
<1> USE LineageAssumption DEF StateInv, TypeOK, HandlerStates, Steps, Kept, Deleting, Notarizing, docVars, fileVars, logVars
<1>1. ASSUME NEW d \in Docs, InitUpload(d) PROVE Kept
  BY <1>1 DEF InitUpload, NewRoot, Absent
<1>2. ASSUME NEW q \in Requests, NEW d \in Docs, BeginUpload(q, d) PROVE Kept
  BY <1>2 DEF BeginUpload, Idle
<1>3. ASSUME NEW q \in Requests, NEW d \in Docs, NEW then \in {"issue", "copy", "insert"},
             BeginRead(q, d, then) PROVE Kept
  BY <1>3 DEF BeginRead, Idle
<1>4. ASSUME NEW q \in Requests, NEW d \in Docs, BeginDelete(q, d) PROVE Kept
  BY <1>4 DEF BeginDelete, Idle
<1>5. ASSUME NEW q \in Requests, PutBlob(q) PROVE Kept
  BY <1>5 DEF PutBlob
<1>6. ASSUME NEW q \in Requests, StoreRecord(q) PROVE Kept
  BY <1>6 DEF StoreRecord, Idle
<1>7. ASSUME NEW q \in Requests, ReadBlob(q) PROVE Kept
  BY <1>7 DEF ReadBlob, Idle, HandlerInv
<1>8. ASSUME NEW q \in Requests, IssueEvidence(q) PROVE Kept
  BY <1>8 DEF IssueEvidence
<1>9. ASSUME NEW q \in Requests, WriteNotarized(q) PROVE Kept
  BY <1>9 DEF WriteNotarized
<1>10. ASSUME NEW q \in Requests, RecordNotarized(q) PROVE Kept
  BY <1>10 DEF RecordNotarized, Idle
<1>11. ASSUME NEW q \in Requests, CreateCopy(q) PROVE Kept
  BY <1>11 DEF CreateCopy, NewRoot, Absent, Idle
<1>12. ASSUME NEW q \in Requests, InsertResult(q) PROVE Kept
  BY <1>12 DEF InsertResult, Absent, DocumentInv, HandlerInv
<1>13. ASSUME NEW q \in Requests, LinkResult(q) PROVE Kept
  BY <1>13 DEF LinkResult, Idle, HandlerInv
<1>14. ASSUME NEW q \in Requests, DeleteTargets(q) PROVE Kept
  BY <1>14 DEF DeleteTargets, HandlerInv
<1>15. ASSUME NEW q \in Requests, ReadRemaining(q) PROVE Kept
  BY <1>15 DEF ReadRemaining, HandlerInv
<1>16. ASSUME NEW q \in Requests, Relink(q) PROVE Kept
  BY <1>16 DEF Relink, HandlerInv
<1>17. ASSUME NEW q \in Requests, RecordDeleted(q) PROVE Kept
  BY <1>17 DEF RecordDeleted, Idle
<1>18. ASSUME NEW q \in Requests, HandlerDies(q) PROVE Kept
  BY <1>18 DEF HandlerDies, Idle
<1>19. CASE UNCHANGED vars
  BY <1>19 DEF vars
<1> HIDE DEF Kept
<1> QED BY <1>1, <1>2, <1>3, <1>4, <1>5, <1>6, <1>7, <1>8, <1>9,
           <1>10, <1>11, <1>12, <1>13, <1>14, <1>15, <1>16, <1>17, <1>18, <1>19 DEF Next, Begin, Continue

LEMMA StatusStep ==
  ASSUME StateInv, [Next]_vars
  PROVE  Recorded
<1> USE DEF StateInv, TypeOK, Steps
<1>1. CASE UNCHANGED status
  BY <1>1 DEF Recorded
<1>2. ASSUME NEW q \in Requests, WriteNotarized(q) PROVE Recorded
  BY <1>2 DEF WriteNotarized, HandlerStates, Recorded, Notarizing
<1>3. ASSUME NEW q \in Requests, DeleteTargets(q) PROVE Recorded
  BY <1>3 DEF DeleteTargets, HandlerStates, Recorded, Deleting
<1>4. ASSUME NEW q \in Requests, InsertResult(q) PROVE Recorded
  BY <1>4 DEF InsertResult, Absent, Recorded
<1>5. ASSUME NEW d \in Docs, NewRoot(d) PROVE Recorded
  BY <1>5 DEF NewRoot, Absent, Recorded
<1>6. \/ UNCHANGED status
      \/ \E q \in Requests : WriteNotarized(q) \/ DeleteTargets(q) \/ InsertResult(q)
      \/ \E d \in Docs : NewRoot(d)
  BY DEF Next, Begin, Continue, vars, docVars, InitUpload, BeginUpload, BeginRead, BeginDelete,
         PutBlob, StoreRecord, ReadBlob, IssueEvidence, RecordNotarized, CreateCopy,
         LinkResult, ReadRemaining, Relink, RecordDeleted, HandlerDies
<1> QED BY <1>1, <1>2, <1>3, <1>4, <1>5, <1>6

LEMMA TimelineStep ==
  ASSUME StateInv, TimelineIsComplete, [Next]_vars
  PROVE  TimelineIsComplete'
BY PendingStep, StatusStep DEF TimelineIsComplete, Kept, Recorded

\* The latest result of a document is one of its own, through every interleaving of
\* redactions and deletions.
THEOREM LatestResultIsOwn == Spec => []LatestIsOwnResult
<1>1. Init => LatestInv
  BY DEF Init, LatestInv, LatestIsOwnResult, Idle
<1> QED BY <1>1, StateInvariant, LatestStep, PTL DEF Spec, LatestInv

\* The evidence a document carries exists, and attests its digest when it is its own.
THEOREM EvidenceAttestsDigest == Spec => []EvidenceMatchesDocument
<1>1. Init => EvidenceInv
  BY DEF Init, EvidenceInv, EvidenceMatchesDocument, Idle
<1> QED BY <1>1, StateInvariant, EvidenceStep, PTL DEF Spec, EvidenceInv

\* No deletion and no notarization is missing from the chain of custody, but those a
\* handler is about to record or died before recording.
THEOREM CustodyIsComplete == Spec => []TimelineIsComplete
<1>1. Init => TimelineIsComplete
  BY DEF Init, TimelineIsComplete
<1> QED BY <1>1, StateInvariant, TimelineStep, PTL DEF Spec

\* What takes a document out of "deleted".
LEMMA ReviveStep ==
  ASSUME StateInv, [Next]_vars, NEW d \in Docs, status[d] = "deleted", status'[d] # "deleted"
  PROVE  /\ status'[d] = "notarized"
         /\ \E q \in Requests : req[q].at = "notarize" /\ req[q].doc = d
<1>0. status \in [Docs -> {"absent", "uploaded", "notarized", "redacted_unverified", "deleted"}]
  BY DEF StateInv, TypeOK
<1>1. ASSUME NEW c \in Docs, NewRoot(c) PROVE FALSE
  BY <1>0, <1>1 DEF NewRoot, Absent
<1>2. ASSUME NEW q \in Requests, InsertResult(q) PROVE FALSE
  <2>1. PICK c \in Absent : status' = [status EXCEPT ![c] = "redacted_unverified"]
    BY <1>2 DEF InsertResult
  <2> QED BY <1>0, <2>1 DEF Absent
<1>3. ASSUME NEW q \in Requests, DeleteTargets(q) PROVE FALSE
  BY <1>3 DEF DeleteTargets
<1>4. ASSUME NEW q \in Requests, WriteNotarized(q)
      PROVE  status'[d] = "notarized" /\ req[q].at = "notarize" /\ req[q].doc = d
  BY <1>0, <1>4 DEF WriteNotarized
<1>5. ASSUME NEW q \in Requests,
             \/ \E c \in Docs : Begin(q, c)
             \/ PutBlob(q) \/ StoreRecord(q) \/ ReadBlob(q) \/ IssueEvidence(q)
             \/ RecordNotarized(q) \/ LinkResult(q) \/ ReadRemaining(q) \/ Relink(q)
             \/ RecordDeleted(q) \/ HandlerDies(q)
      PROVE  FALSE
  BY <1>5 DEF Begin, BeginUpload, BeginRead, BeginDelete, PutBlob, StoreRecord, ReadBlob,
              IssueEvidence, RecordNotarized, LinkResult, ReadRemaining, Relink,
              RecordDeleted, HandlerDies, docVars
<1>6. ~UNCHANGED vars
  BY DEF vars, docVars
<1> QED BY <1>1, <1>2, <1>3, <1>4, <1>5, <1>6 DEF Next, Continue, InitUpload, CreateCopy

\* However many handlers interleave, a deletion is undone in one way only: by a
\* notarization whose handler had found the document.
THEOREM OnlyNotarizationRevives ==
  Spec => [][\A d \in Docs : status[d] = "deleted" /\ status'[d] # "deleted" =>
               /\ status'[d] = "notarized"
               /\ \E q \in Requests : req[q].at = "notarize" /\ req[q].doc = d]_vars
<1>1. StateInv /\ [Next]_vars =>
        [\A d \in Docs : status[d] = "deleted" /\ status'[d] # "deleted" =>
           /\ status'[d] = "notarized"
           /\ \E q \in Requests : req[q].at = "notarize" /\ req[q].doc = d]_vars
  BY ReviveStep
<1> QED BY <1>1, StateInvariant, PTL DEF Spec

=============================================================================
