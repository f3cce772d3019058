---------------------- MODULE DocumentLineageSoloProofs ----------------------
(***************************************************************************)
(* Proofs about DocumentLineage with one handler in progress at a time,    *)
(* for any documents and uploads: what a deletion and a redaction leave of *)
(* the lineage they work on, and what they leave when they die.            *)
(***************************************************************************)
EXTENDS DocumentLineageProofs

OneHandler == \A p, q \in Requests : p = q

\* Creation times are drawn in order, and a document that does not exist yet has
\* neither results nor a place in any lineage.
FreshInv ==
  /\ \A d \in Docs : created[d] <= clock
  /\ \A d \in Docs : status[d] = "absent" =>
       latest[d] = None /\ \A c \in Docs : source[c] # d

\* No result outlives its root: ResultsFollowRoot, while handlers run too.
RootInv ==
  \A d \in Live, s \in Docs : source[d] = s /\ source[s] = None => s \in Live

\* LatestIsNewestLive, or the handler that is about to make it so.
NewestInv ==
  \A d \in Live \ unlinked :
    latest[d] \in NewestOrNone(LiveResults(d)) \/ \E q \in Requests : Linking(q, d)

\* What the handler has read of the lineage is still so.
ReadOK(q) ==
  \A d \in Docs : req[q].doc = d =>
    /\ req[q].at \in {"read", "issue", "notarize", "insert", "link"} => d \in Live
    /\ req[q].at = "delete" =>
         req[q].targets = {d} \cup (IF source[d] = None THEN LiveResults(d) ELSE {})
    /\ req[q].at = "link" => req[q].pick \in Newest(LiveResults(d))
    /\ req[q].at = "relink" =>
         \A s \in Docs : source[d] = s => req[q].pick \in NewestOrNone(LiveResults(s))

ReadInv == \A q \in Requests : ReadOK(q)

SoloInv == StateInv /\ FreshInv /\ RootInv /\ NewestInv /\ ReadInv

-----------------------------------------------------------------------------

\* Newest looks at the creation times of its documents only.
LEMMA NewestStays ==
  ASSUME \A d \in Docs : LiveResults(d)' = LiveResults(d),
         \A d \in Docs : \A c \in LiveResults(d) : created'[c] = created[c]
  PROVE  \A d \in Docs : /\ Newest(LiveResults(d))' = Newest(LiveResults(d))
                         /\ NewestOrNone(LiveResults(d))' = NewestOrNone(LiveResults(d))
<1> SUFFICES ASSUME NEW d \in Docs
             PROVE  /\ Newest(LiveResults(d))' = Newest(LiveResults(d))
                    /\ NewestOrNone(LiveResults(d))' = NewestOrNone(LiveResults(d))
  OBVIOUS
<1>1. Newest(LiveResults(d))' = Newest(LiveResults(d))
  BY DEF Newest
<1> QED BY <1>1 DEF NewestOrNone

\* Steps that leave the documents alone leave what is said of them.
LEMMA DocsStay ==
  ASSUME FreshInv, RootInv, NewestInv,
         UNCHANGED <<status, source, latest, created, unlinked, clock>>,
         \A q \in Requests, d \in Docs : Linking(q, d) => Linking(q, d)'
  PROVE  /\ FreshInv' /\ RootInv' /\ NewestInv'
         /\ Live' = Live
         /\ \A d \in Docs : /\ LiveResults(d)' = LiveResults(d)
                            /\ Newest(LiveResults(d))' = Newest(LiveResults(d))
                            /\ NewestOrNone(LiveResults(d))' = NewestOrNone(LiveResults(d))
<1>1. Live' = Live
  BY DEF Live
<1>2. \A d \in Docs : LiveResults(d)' = LiveResults(d)
  BY <1>1 DEF LiveResults
<1>3. \A d \in Docs : /\ Newest(LiveResults(d))' = Newest(LiveResults(d))
                      /\ NewestOrNone(LiveResults(d))' = NewestOrNone(LiveResults(d))
  BY <1>2, NewestStays
<1>4. FreshInv'
  BY DEF FreshInv
<1>5. RootInv'
  BY <1>1 DEF RootInv
<1>6. NewestInv'
  <2> SUFFICES ASSUME NEW d \in Live \ unlinked
               PROVE  latest[d] \in NewestOrNone(LiveResults(d))' \/ \E q \in Requests : Linking(q, d)'
    BY <1>1 DEF NewestInv
  <2>1. d \in Docs
    BY DEF Live
  <2> QED BY <1>3, <2>1 DEF NewestInv
<1> QED BY <1>1, <1>2, <1>3, <1>4, <1>5, <1>6

\* A new root has no results and is nobody's.
LEMMA RootIsNew ==
  ASSUME StateInv, FreshInv, RootInv, NEW r \in Docs, NewRoot(r)
  PROVE  /\ FreshInv' /\ RootInv'
         /\ Live' = Live \cup {r} /\ UNCHANGED <<source, latest>>
         /\ \A d \in Docs : /\ LiveResults(d)' = LiveResults(d)
                            /\ Newest(LiveResults(d))' = Newest(LiveResults(d))
                            /\ NewestOrNone(LiveResults(d))' = NewestOrNone(LiveResults(d))
         /\ latest[r] \in NewestOrNone(LiveResults(r))
<1>1. /\ status[r] = "absent" /\ source[r] = None /\ latest[r] = None
      /\ \A c \in Docs : source[c] # r
  BY DEF NewRoot, Absent, StateInv, DocumentInv, FreshInv
<1>2. Live' = Live \cup {r}
  BY DEF NewRoot, Live, StateInv, TypeOK
<1>3. UNCHANGED <<source, latest>>
  BY DEF NewRoot
<1>4. \A d \in Docs : LiveResults(d)' = LiveResults(d)
  BY <1>1, <1>2, <1>3, LineageAssumption DEF LiveResults
<1>5. \A d \in Docs : \A c \in LiveResults(d) : created'[c] = created[c]
  BY <1>1, LineageAssumption DEF LiveResults, Live, NewRoot, StateInv, TypeOK
<1>6. \A d \in Docs : /\ Newest(LiveResults(d))' = Newest(LiveResults(d))
                      /\ NewestOrNone(LiveResults(d))' = NewestOrNone(LiveResults(d))
  BY <1>4, <1>5, NewestStays
<1>7. FreshInv'
  <2>1. \A d \in Docs : created'[d] <= clock'
    BY DEF FreshInv, NewRoot, StateInv, TypeOK
  <2>2. \A d \in Docs : status'[d] = "absent" => status[d] = "absent"
    BY DEF NewRoot, StateInv, TypeOK
  <2> QED BY <1>3, <2>1, <2>2 DEF FreshInv
<1>8. RootInv'
  BY <1>1, <1>2, <1>3, LineageAssumption DEF RootInv
<1>9. latest[r] \in NewestOrNone(LiveResults(r))
  BY <1>1 DEF LiveResults, Live, NewestOrNone
<1> QED BY <1>2, <1>3, <1>4, <1>6, <1>7, <1>8, <1>9

-----------------------------------------------------------------------------
(* The steps, by what they leave alone *)

\* Steps after which the handler has nothing of the lineage in hand.
LEMMA NothingInHand ==
  ASSUME NEW q \in Requests,
         req'[q].at \notin {"read", "issue", "notarize", "copy", "insert", "link", "delete", "relink"}
  PROVE  ReadOK(q)'
BY DEF ReadOK

\* Documents, uploads and reads: no step writes what the lineage is made of.
LEMMA AsideStep ==
  ASSUME OneHandler, SoloInv, NEW q \in Requests,
         \/ \E d \in Docs : Begin(q, d)
         \/ PutBlob(q) \/ StoreRecord(q) \/ ReadBlob(q) \/ IssueEvidence(q)
         \/ RecordNotarized(q) \/ RecordDeleted(q) \/ ReadRemaining(q)
  PROVE  FreshInv' /\ RootInv' /\ NewestInv' /\ ReadInv'
<1> USE DEF SoloInv, docVars, logVars, fileVars
<1>0. req \in [Requests -> HandlerStates]
  BY DEF StateInv, TypeOK
<1>1. UNCHANGED <<status, source, latest, created, unlinked, clock>>
  BY DEF Begin, BeginUpload, BeginRead, BeginDelete, PutBlob, StoreRecord, ReadBlob,
         IssueEvidence, RecordNotarized, RecordDeleted, ReadRemaining
<1>2. \A p \in Requests, d \in Docs : Linking(p, d) => Linking(p, d)'
  <2> SUFFICES ASSUME NEW d \in Docs, Linking(q, d) PROVE Linking(q, d)'
    BY DEF OneHandler
  <2>1. req[q].at \in {"link", "remaining", "relink"}
    BY DEF Linking
  <2>2. ReadRemaining(q)
    BY <2>1, IdleType DEF Begin, BeginUpload, BeginRead, BeginDelete, PutBlob, StoreRecord,
       ReadBlob, IssueEvidence, RecordNotarized, RecordDeleted
  <2>3. req'[q].at = "relink" /\ req'[q].doc = req[q].doc
    BY <1>0, <2>2 DEF ReadRemaining, HandlerStates
  <2> QED BY <1>1, <2>2, <2>3 DEF Linking, ReadRemaining
<1>3. /\ FreshInv' /\ RootInv' /\ NewestInv'
      /\ Live' = Live
      /\ \A d \in Docs : /\ LiveResults(d)' = LiveResults(d)
                         /\ Newest(LiveResults(d))' = Newest(LiveResults(d))
                         /\ NewestOrNone(LiveResults(d))' = NewestOrNone(LiveResults(d))
  BY <1>1, <1>2, DocsStay
<1>4. ReadOK(q)'
  <2>1. CASE PutBlob(q) \/ StoreRecord(q) \/ RecordNotarized(q) \/ RecordDeleted(q)
    BY <1>0, <2>1, NothingInHand, IdleType
       DEF PutBlob, StoreRecord, RecordNotarized, RecordDeleted, HandlerStates
  <2>2. ASSUME NEW d \in Docs, BeginUpload(q, d) PROVE ReadOK(q)'
    BY <1>0, <2>2, NothingInHand DEF BeginUpload, Idle
  <2>3. ASSUME NEW d \in Docs, NEW then \in {"issue", "copy", "insert"}, BeginRead(q, d, then)
        PROVE  ReadOK(q)'
    <3>1. d \in Live /\ req'[q].at = "read" /\ req'[q].doc = d
      BY <1>0, <2>3 DEF BeginRead, Idle
    <3> QED BY <1>3, <3>1 DEF ReadOK
  <2>4. ASSUME NEW d \in Docs, BeginDelete(q, d) PROVE ReadOK(q)'
    <3>1. /\ req'[q].at = "delete" /\ req'[q].doc = d
          /\ req'[q].targets = {d} \cup (IF source[d] = None THEN LiveResults(d) ELSE {})
      BY <1>0, <2>4 DEF BeginDelete, Idle
    <3> QED BY <1>1, <1>3, <3>1 DEF ReadOK
  <2>5. CASE ReadBlob(q)
    <3>1. CASE req' = [req EXCEPT ![q] = Idle]
      BY <1>0, <3>1, NothingInHand, IdleType
    <3>2. CASE req' = [req EXCEPT ![q].at = req[q].then]
      <4>1. /\ req[q].at = "read" /\ req[q].then \in {"issue", "copy", "insert"}
            /\ req'[q].at = req[q].then /\ req'[q].doc = req[q].doc
        BY <1>0, <2>5, <3>2 DEF ReadBlob, StateInv, HandlerInv, HandlerStates
      <4>2. \A d \in Docs : req[q].doc = d => d \in Live
        BY <4>1 DEF ReadInv, ReadOK
      <4> QED BY <1>3, <4>1, <4>2 DEF ReadOK
    <3> QED BY <2>5, <3>1, <3>2 DEF ReadBlob
  <2>6. CASE IssueEvidence(q)
    <3>1. /\ req[q].at = "issue"
          /\ req'[q].at = "notarize" /\ req'[q].doc = req[q].doc
      BY <1>0, <2>6 DEF IssueEvidence, HandlerStates
    <3>2. \A d \in Docs : req[q].doc = d => d \in Live
      BY <3>1 DEF ReadInv, ReadOK
    <3> QED BY <1>3, <3>1, <3>2 DEF ReadOK
  <2>7. CASE ReadRemaining(q)
    <3>1. PICK c \in NewestOrNone(LiveResults(source[req[q].doc])) :
                 req' = [req EXCEPT ![q].at = "relink", ![q].pick = c]
      BY <2>7 DEF ReadRemaining
    <3>2. req'[q].at = "relink" /\ req'[q].doc = req[q].doc /\ req'[q].pick = c
      BY <1>0, <3>1 DEF HandlerStates
    <3> QED BY <1>1, <1>3, <3>1, <3>2 DEF ReadOK
  <2> QED BY <2>1, <2>2, <2>3, <2>4, <2>5, <2>6, <2>7 DEF Begin
<1> QED BY <1>3, <1>4 DEF OneHandler, ReadInv

\* A new root, while a handler may be anywhere.
LEMMA UploadStep ==
  ASSUME OneHandler, SoloInv, NEW r \in Docs, InitUpload(r)
  PROVE  FreshInv' /\ RootInv' /\ NewestInv' /\ ReadInv'
<1> USE DEF SoloInv
<1>1. NewRoot(r) /\ UNCHANGED <<req, unlinked>>
  BY DEF InitUpload, logVars
<1>2. /\ FreshInv' /\ RootInv'
      /\ Live' = Live \cup {r} /\ UNCHANGED <<source, latest>>
      /\ \A d \in Docs : /\ LiveResults(d)' = LiveResults(d)
                         /\ Newest(LiveResults(d))' = Newest(LiveResults(d))
                         /\ NewestOrNone(LiveResults(d))' = NewestOrNone(LiveResults(d))
      /\ latest[r] \in NewestOrNone(LiveResults(r))
  BY <1>1, RootIsNew
<1>3. NewestInv'
  <2> SUFFICES ASSUME NEW d \in Live', d \notin unlinked
               PROVE  latest[d] \in NewestOrNone(LiveResults(d))' \/ \E q \in Requests : Linking(q, d)'
    BY <1>1, <1>2 DEF NewestInv
  <2>1. d \in Docs
    BY DEF Live
  <2>2. latest[d] \in NewestOrNone(LiveResults(d)) \/ \E q \in Requests : Linking(q, d)
    BY <1>2 DEF NewestInv
  <2>3. ASSUME NEW q \in Requests, Linking(q, d) PROVE Linking(q, d)'
    BY <1>1, <1>2, <2>3 DEF Linking
  <2> QED BY <1>2, <2>1, <2>2, <2>3
<1>4. ReadInv'
  BY <1>1, <1>2 DEF ReadInv, ReadOK
<1> QED BY <1>2, <1>3, <1>4

LEMMA CopyStep ==
  ASSUME OneHandler, SoloInv, NEW q \in Requests, CreateCopy(q)
  PROVE  FreshInv' /\ RootInv' /\ NewestInv' /\ ReadInv'
<1> USE DEF SoloInv
<1>0. req \in [Requests -> HandlerStates]
  BY DEF StateInv, TypeOK
<1>1. PICK r \in Docs :
        /\ NewRoot(r)
        /\ req' = [req EXCEPT ![q] = [Idle EXCEPT !.at = "put", !.doc = r, !.ver = uploads + 1]]
  BY DEF CreateCopy
<1>2. req[q].at = "copy" /\ req'[q].at = "put" /\ UNCHANGED unlinked
  BY <1>0, <1>1 DEF CreateCopy, Idle, logVars
<1>3. /\ FreshInv' /\ RootInv'
      /\ Live' = Live \cup {r} /\ UNCHANGED <<source, latest>>
      /\ \A d \in Docs : /\ LiveResults(d)' = LiveResults(d)
                         /\ Newest(LiveResults(d))' = Newest(LiveResults(d))
                         /\ NewestOrNone(LiveResults(d))' = NewestOrNone(LiveResults(d))
      /\ latest[r] \in NewestOrNone(LiveResults(r))
  BY <1>1, RootIsNew
<1>4. NewestInv'
  <2>1. \A d \in Docs, p \in Requests : ~Linking(p, d)
    BY <1>2 DEF OneHandler, Linking
  <2> SUFFICES ASSUME NEW d \in Live', d \notin unlinked
               PROVE  latest[d] \in NewestOrNone(LiveResults(d))'
    BY <1>2, <1>3 DEF NewestInv
  <2>2. d \in Docs
    BY DEF Live
  <2> QED BY <1>3, <2>1, <2>2 DEF NewestInv
<1>5. ReadInv'
  BY <1>2, NothingInHand DEF OneHandler, ReadInv
<1> QED BY <1>3, <1>4, <1>5

\* A notarization writes a status, but its document was live and stays so.
LEMMA NotarizeStep ==
  ASSUME OneHandler, SoloInv, NEW q \in Requests, WriteNotarized(q)
  PROVE  FreshInv' /\ RootInv' /\ NewestInv' /\ ReadInv'
<1> USE DEF SoloInv
<1>0. /\ req \in [Requests -> HandlerStates]
      /\ status \in [Docs -> {"absent", "uploaded", "notarized", "redacted_unverified", "deleted"}]
      /\ req[q].at = "notarize" /\ req[q].doc \in Docs
  BY DEF StateInv, TypeOK, HandlerInv, WriteNotarized
<1>1. req[q].doc \in Live
  BY <1>0 DEF ReadInv, ReadOK
<1>2. /\ UNCHANGED <<source, latest, created, unlinked, clock>>
      /\ status' = [status EXCEPT ![req[q].doc] = "notarized"]
      /\ req'[q].at = "note"
  BY <1>0 DEF WriteNotarized, logVars
<1>3. Live' = Live
  BY <1>0, <1>1, <1>2 DEF Live
<1>4. \A d \in Docs : LiveResults(d)' = LiveResults(d)
  BY <1>2, <1>3 DEF LiveResults
<1>5. \A d \in Docs : NewestOrNone(LiveResults(d))' = NewestOrNone(LiveResults(d))
  BY <1>2, <1>4, NewestStays
<1>6. FreshInv'
  BY <1>0, <1>2 DEF FreshInv
<1>7. RootInv'
  BY <1>2, <1>3 DEF RootInv
<1>8. NewestInv'
  <2>1. \A d \in Docs, p \in Requests : ~Linking(p, d)
    BY <1>0 DEF OneHandler, Linking
  <2>2. \A d \in Live : d \in Docs
    BY DEF Live
  <2> QED BY <1>2, <1>3, <1>5, <2>1, <2>2 DEF NewestInv
<1>9. ReadInv'
  BY <1>2, NothingInHand DEF OneHandler, ReadInv
<1> QED BY <1>6, <1>7, <1>8, <1>9

\* A result is its source's newest, and has none of its own.
LEMMA InsertStep ==
  ASSUME OneHandler, SoloInv, NEW q \in Requests, InsertResult(q)
  PROVE  FreshInv' /\ RootInv' /\ NewestInv' /\ ReadInv'
<1> USE DEF SoloInv
<1>0. /\ req \in [Requests -> HandlerStates]
      /\ status \in [Docs -> {"absent", "uploaded", "notarized", "redacted_unverified", "deleted"}]
      /\ source \in [Docs -> Docs \cup {None}]
      /\ created \in [Docs -> Nat] /\ clock \in Nat
      /\ req[q].at = "insert" /\ req[q].doc \in Docs
  BY DEF StateInv, TypeOK, HandlerInv, InsertResult
<1>1. PICK c \in Absent :
        /\ status'  = [status EXCEPT ![c] = "redacted_unverified"]
        /\ source'  = [source EXCEPT ![c] = req[q].doc]
        /\ created' = [created EXCEPT ![c] = clock + 1]
        /\ req' = [req EXCEPT ![q].at = "link", ![q].pick = c]
  BY DEF InsertResult
<1>2. PICK s \in Docs : s = req[q].doc
  BY <1>0
<1>3. /\ s \in Live /\ c # s
      /\ c \in Docs /\ status[c] = "absent" /\ source[c] = None /\ latest[c] = None
      /\ \A d \in Docs : source[d] # c
  BY <1>0, <1>1, <1>2 DEF ReadInv, ReadOK, Absent, Live, StateInv, DocumentInv, FreshInv
<1>4. UNCHANGED <<latest, unlinked>> /\ clock' = clock + 1
  BY DEF InsertResult, logVars
<1>5. Live' = Live \cup {c} /\ c \notin Live
  BY <1>0, <1>1, <1>3 DEF Live
<1>6. req'[q].at = "link" /\ req'[q].doc = s /\ req'[q].pick = c
  BY <1>0, <1>1, <1>2 DEF HandlerStates
<1>7. /\ source'[c] = s /\ source'[s] = source[s]
      /\ \A d \in Docs \ {c} : source'[d] = source[d] /\ created'[d] = created[d]
      /\ created'[c] = clock + 1
  BY <1>0, <1>1, <1>2, <1>3
<1>8. \A d \in Docs : d # s => LiveResults(d)' = LiveResults(d)
  BY <1>3, <1>5, <1>7, LineageAssumption DEF LiveResults, Live
<1>9. LiveResults(s)' = LiveResults(s) \cup {c}
  BY <1>3, <1>5, <1>7, LineageAssumption DEF LiveResults, Live
<1>10. \A d \in Docs : d # s => NewestOrNone(LiveResults(d))' = NewestOrNone(LiveResults(d))
  <2> SUFFICES ASSUME NEW d \in Docs, d # s
               PROVE  NewestOrNone(LiveResults(d))' = NewestOrNone(LiveResults(d))
    OBVIOUS
  <2>1. \A e \in LiveResults(d) : created'[e] = created[e]
    BY <1>5, <1>7 DEF LiveResults, Live
  <2>2. Newest(LiveResults(d))' = Newest(LiveResults(d))
    BY <1>8, <2>1 DEF Newest
  <2> QED BY <1>8, <2>2 DEF NewestOrNone
<1>11. c \in Newest(LiveResults(s))'
  <2>1. \A e \in LiveResults(s) : created'[e] <= clock /\ created'[e] \in Nat
    BY <1>0, <1>5, <1>7 DEF LiveResults, Live, FreshInv
  <2>2. created'[c] <= created'[c]
    BY <1>0, <1>7
  <2>3. \A e \in LiveResults(s) : created'[e] <= created'[c]
    BY <1>0, <1>7, <2>1
  <2> QED BY <1>9, <2>2, <2>3 DEF Newest
<1>12. FreshInv'
  <2>1. \A d \in Docs : created'[d] <= clock'
    BY <1>0, <1>1, <1>3, <1>4 DEF FreshInv
  <2>2. ASSUME NEW d \in Docs, status'[d] = "absent"
        PROVE  latest[d] = None /\ \A e \in Docs : source'[e] # d
    <3>1. d # c /\ status[d] = "absent"
      BY <1>0, <1>1, <1>3, <2>2
    <3>2. d # s
      BY <1>3, <3>1 DEF Live
    <3> QED BY <1>7, <3>1, <3>2 DEF FreshInv
  <2> QED BY <1>4, <2>1, <2>2 DEF FreshInv
<1>13. RootInv'
  <2> SUFFICES ASSUME NEW d \in Live', NEW t \in Docs, source'[d] = t, source'[t] = None
               PROVE  t \in Live'
    BY DEF RootInv
  <2>1. CASE d = c
    BY <1>3, <1>5, <1>7, <2>1
  <2>2. CASE d # c
    <3>1. d \in Live /\ d \in Docs /\ source[d] = t /\ t # c
      BY <1>3, <1>5, <1>7, <2>2 DEF Live
    <3> QED BY <1>5, <1>7, <3>1 DEF RootInv
  <2> QED BY <2>1, <2>2
<1>14. NewestInv'
  <2> SUFFICES ASSUME NEW d \in Live', d \notin unlinked
               PROVE  latest[d] \in NewestOrNone(LiveResults(d))' \/ \E p \in Requests : Linking(p, d)'
    BY <1>4 DEF NewestInv
  <2>1. CASE d = s
    BY <1>6, <2>1 DEF Linking
  <2>2. CASE d = c
    <3>1. LiveResults(c) = {}
      BY <1>3 DEF LiveResults, Live
    <3> QED BY <1>3, <1>10, <2>2, <3>1 DEF NewestOrNone
  <2>3. CASE d # s /\ d # c
    <3>1. d \in Live /\ d \in Docs
      BY <1>5, <2>3 DEF Live
    <3>2. \A p \in Requests : ~Linking(p, d)
      BY <1>0 DEF OneHandler, Linking
    <3> QED BY <1>10, <2>3, <3>1, <3>2 DEF NewestInv
  <2> QED BY <2>1, <2>2, <2>3
<1>15. ReadInv'
  <2>1. ReadOK(q)'
    BY <1>3, <1>5, <1>6, <1>11 DEF ReadOK
  <2> QED BY <2>1 DEF OneHandler, ReadInv
<1> QED BY <1>12, <1>13, <1>14, <1>15

\* The two writes of latest, for the document they write it to.
LEMMA LatestWritten ==
  ASSUME OneHandler, SoloInv, NEW q \in Requests, NEW s \in Docs, NEW c,
         UNCHANGED <<status, source, created, clock>>,
         unlinked' = unlinked \ {s},
         s \in Live => c \in NewestOrNone(LiveResults(s)),
         latest' = IF s \in Live THEN [latest EXCEPT ![s] = c] ELSE latest,
         \A d \in Docs : Linking(q, d) => d = s
  PROVE  FreshInv' /\ RootInv' /\ NewestInv'
<1> USE DEF SoloInv
<1>0. latest \in [Docs -> Docs \cup {None}]
  BY DEF StateInv, TypeOK
<1>1. Live' = Live
  BY DEF Live
<1>2. \A d \in Docs : LiveResults(d)' = LiveResults(d)
  BY <1>1 DEF LiveResults
<1>3. \A d \in Docs : NewestOrNone(LiveResults(d))' = NewestOrNone(LiveResults(d))
  BY <1>2, NewestStays
<1>4. FreshInv'
  BY <1>0 DEF FreshInv, Live
<1>5. RootInv'
  BY <1>1 DEF RootInv
<1>6. NewestInv'
  <2> SUFFICES ASSUME NEW d \in Live, d \notin unlinked'
               PROVE  latest'[d] \in NewestOrNone(LiveResults(d))
    BY <1>1, <1>3 DEF NewestInv, Live
  <2>1. d \in Docs
    BY DEF Live
  <2>2. CASE d = s
    BY <1>0, <2>1, <2>2
  <2>3. CASE d # s
    <3>1. \A p \in Requests : ~Linking(p, d)
      BY <2>1, <2>3 DEF OneHandler
    <3>2. latest'[d] = latest[d]
      BY <1>0, <2>1, <2>3
    <3> QED BY <2>3, <3>1, <3>2 DEF NewestInv
  <2> QED BY <2>2, <2>3
<1> QED BY <1>4, <1>5, <1>6

LEMMA LinkStep ==
  ASSUME OneHandler, SoloInv, NEW q \in Requests, LinkResult(q)
  PROVE  FreshInv' /\ RootInv' /\ NewestInv' /\ ReadInv'
<1> USE DEF SoloInv
<1>0. /\ req \in [Requests -> HandlerStates]
      /\ req[q].at = "link" /\ req[q].doc \in Docs
  BY DEF StateInv, TypeOK, HandlerInv, LinkResult
<1>1. PICK s \in Docs : s = req[q].doc
  BY <1>0
<1>2. s \in Live /\ req[q].pick \in Newest(LiveResults(s))
  BY <1>0, <1>1 DEF ReadInv, ReadOK
<1>3. req[q].pick \in NewestOrNone(LiveResults(s))
  BY <1>2 DEF NewestOrNone, Newest
<1>4. \A d \in Docs : Linking(q, d) => d = s
  BY <1>0, <1>1 DEF Linking
<1>5. FreshInv' /\ RootInv' /\ NewestInv'
  BY <1>1, <1>2, <1>3, <1>4, LatestWritten DEF LinkResult
<1>6. ReadInv'
  BY <1>0, NothingInHand, IdleType DEF LinkResult, OneHandler, ReadInv
<1> QED BY <1>5, <1>6

LEMMA RelinkStep ==
  ASSUME OneHandler, SoloInv, NEW q \in Requests, Relink(q)
  PROVE  FreshInv' /\ RootInv' /\ NewestInv' /\ ReadInv'
<1> USE DEF SoloInv
<1>0. /\ req \in [Requests -> HandlerStates]
      /\ req[q].at = "relink" /\ req[q].doc \in Docs /\ source[req[q].doc] \in Docs
  BY DEF StateInv, TypeOK, HandlerInv, Relink
<1>1. PICK s \in Docs : s = source[req[q].doc]
  BY <1>0
<1>2. req[q].pick \in NewestOrNone(LiveResults(s))
  BY <1>0, <1>1 DEF ReadInv, ReadOK
<1>3. \A d \in Docs : Linking(q, d) => d = s
  BY <1>0, <1>1 DEF Linking
<1>4. status[s] # "absent"
  BY <1>0, <1>1 DEF FreshInv
<1>5. latest' = IF s \in Live THEN [latest EXCEPT ![s] = req[q].pick] ELSE latest
  BY <1>1, <1>4 DEF Relink, Live
<1>6. FreshInv' /\ RootInv' /\ NewestInv'
  BY <1>1, <1>2, <1>3, <1>5, LatestWritten DEF Relink
<1>7. req'[q].at = "note_deleted"
  BY <1>0 DEF Relink
<1>8. ReadInv'
  BY <1>7, NothingInHand DEF OneHandler, ReadInv
<1> QED BY <1>6, <1>8

\* A deletion takes a root with all its results, or a result alone.
LEMMA DeleteStep ==
  ASSUME OneHandler, SoloInv, NEW q \in Requests, DeleteTargets(q)
  PROVE  FreshInv' /\ RootInv' /\ NewestInv' /\ ReadInv'
<1> USE DEF SoloInv
<1>0. /\ req \in [Requests -> HandlerStates]
      /\ source \in [Docs -> Docs \cup {None}]
      /\ status \in [Docs -> {"absent", "uploaded", "notarized", "redacted_unverified", "deleted"}]
      /\ req[q].at = "delete" /\ req[q].doc \in Docs
      /\ \A c \in req[q].targets : status[c] # "absent"
  BY DEF StateInv, TypeOK, HandlerInv, DeleteTargets
<1>1. PICK r \in Docs : r = req[q].doc
  BY <1>0
<1>2. PICK T \in SUBSET Docs : /\ T = req[q].targets
                               /\ T = {r} \cup (IF source[r] = None THEN LiveResults(r) ELSE {})
  <2>1. req[q].targets = {r} \cup (IF source[r] = None THEN LiveResults(r) ELSE {})
    BY <1>0, <1>1 DEF ReadInv, ReadOK
  <2>2. req[q].targets \in SUBSET Docs
    BY <1>0 DEF HandlerStates
  <2> QED BY <2>1, <2>2
<1>3. /\ UNCHANGED <<source, latest, created, unlinked, clock>>
      /\ status' = [d \in Docs |-> IF d \in T THEN "deleted" ELSE status[d]]
      /\ req'[q].at = IF source[r] = None THEN "note_deleted" ELSE "remaining"
      /\ req'[q].doc = r
  BY <1>0, <1>1, <1>2 DEF DeleteTargets, HandlerStates, logVars
<1>4. Live' = Live \ T
  BY <1>2, <1>3 DEF Live
<1>5. \A d \in Docs : LiveResults(d)' = LiveResults(d) \ T
  BY <1>3, <1>4 DEF LiveResults
\* Only results of r's source lose one.
<1>6. \A d \in Docs \ T : d # source[r] => LiveResults(d)' = LiveResults(d)
  <2> SUFFICES ASSUME NEW d \in Docs \ T, d # source[r], NEW c \in LiveResults(d), c \in T
               PROVE  FALSE
    BY <1>5
  <2>1. source[c] = d
    BY DEF LiveResults
  <2>2. CASE c = r
    BY <2>1, <2>2
  <2>3. CASE c # r
    <3>1. source[c] = r
      BY <1>2, <2>3 DEF LiveResults
    <3> QED BY <1>2, <2>1, <3>1
  <2> QED BY <2>2, <2>3
<1>7. FreshInv'
  BY <1>0, <1>2, <1>3 DEF FreshInv
<1>8. RootInv'
  <2> SUFFICES ASSUME NEW d \in Live \ T, NEW s \in Docs, source[d] = s, source[s] = None
               PROVE  s \notin T
    BY <1>3, <1>4 DEF RootInv
  <2>1. d \in Docs /\ d \in LiveResults(s)
    BY DEF Live, LiveResults
  <2>2. CASE s = r
    BY <1>2, <2>1, <2>2
  <2>3. CASE s # r /\ s \in T
    BY <1>2, <2>3, LineageAssumption DEF LiveResults
  <2> QED BY <2>2, <2>3
<1>9. NewestInv'
  <2> SUFFICES ASSUME NEW d \in Live \ T, d \notin unlinked
               PROVE  latest[d] \in NewestOrNone(LiveResults(d))' \/ \E p \in Requests : Linking(p, d)'
    BY <1>3, <1>4 DEF NewestInv
  <2>1. d \in Docs
    BY DEF Live
  <2>2. CASE d = source[r]
    BY <1>3, <2>1, <2>2, LineageAssumption DEF Linking
  <2>3. CASE d # source[r]
    <3>1. LiveResults(d)' = LiveResults(d)
      BY <1>6, <2>1, <2>3
    <3>2. Newest(LiveResults(d))' = Newest(LiveResults(d))
      BY <1>3, <3>1 DEF Newest
    <3>3. NewestOrNone(LiveResults(d))' = NewestOrNone(LiveResults(d))
      BY <3>1, <3>2 DEF NewestOrNone
    <3>4. \A p \in Requests : ~Linking(p, d)
      BY <1>0 DEF OneHandler, Linking
    <3> QED BY <3>3, <3>4 DEF NewestInv
  <2> QED BY <2>2, <2>3
<1>10. ReadInv'
  BY <1>3, NothingInHand DEF OneHandler, ReadInv
<1> QED BY <1>7, <1>8, <1>9, <1>10

\* A handler that dies leaves the documents as they are, and what it has not linked
\* is not linked.
LEMMA DieStep ==
  ASSUME OneHandler, SoloInv, NEW q \in Requests, HandlerDies(q)
  PROVE  FreshInv' /\ RootInv' /\ NewestInv' /\ ReadInv'
<1> USE DEF SoloInv
<1>0. /\ req \in [Requests -> HandlerStates] /\ req'[q].at = "idle"
      /\ UNCHANGED <<status, source, latest, created, clock>>
      /\ unlinked' = unlinked \cup {d \in Docs : Linking(q, d)}
  BY IdleType DEF StateInv, TypeOK, HandlerDies, docVars
<1>1. Live' = Live
  BY <1>0 DEF Live
<1>2. \A d \in Docs : LiveResults(d)' = LiveResults(d)
  BY <1>0, <1>1 DEF LiveResults
<1>3. \A d \in Docs : NewestOrNone(LiveResults(d))' = NewestOrNone(LiveResults(d))
  BY <1>0, <1>2, NewestStays
<1>4. FreshInv'
  BY <1>0 DEF FreshInv
<1>5. RootInv'
  BY <1>0, <1>1 DEF RootInv
<1>6. NewestInv'
  <2> SUFFICES ASSUME NEW d \in Live, d \notin unlinked'
               PROVE  latest[d] \in NewestOrNone(LiveResults(d))
    BY <1>0, <1>1, <1>3 DEF NewestInv, Live
  <2>1. d \in Docs /\ d \notin unlinked /\ ~Linking(q, d)
    BY <1>0 DEF Live
  <2> QED BY <2>1 DEF NewestInv, OneHandler
<1>7. ReadInv'
  BY <1>0, NothingInHand DEF OneHandler, ReadInv
<1> QED BY <1>4, <1>5, <1>6, <1>7

-----------------------------------------------------------------------------

LEMMA SoloStep ==
  ASSUME OneHandler, SoloInv, [Next]_vars
  PROVE  SoloInv'
<1>1. StateInv'
  BY StateStep DEF SoloInv
<1>2. FreshInv' /\ RootInv' /\ NewestInv' /\ ReadInv'
  <2>1. ASSUME NEW d \in Docs, InitUpload(d) PROVE FreshInv' /\ RootInv' /\ NewestInv' /\ ReadInv'
    BY <2>1, UploadStep
  <2>2. ASSUME NEW q \in Requests, NEW d \in Docs, Begin(q, d)
        PROVE  FreshInv' /\ RootInv' /\ NewestInv' /\ ReadInv'
    BY <2>2, AsideStep
  <2>3. ASSUME NEW q \in Requests, Continue(q)
        PROVE  FreshInv' /\ RootInv' /\ NewestInv' /\ ReadInv'
    BY <2>3, AsideStep, NotarizeStep, CopyStep, InsertStep, LinkStep, DeleteStep, RelinkStep
       DEF Continue
  <2>4. ASSUME NEW q \in Requests, HandlerDies(q)
        PROVE  FreshInv' /\ RootInv' /\ NewestInv' /\ ReadInv'
    BY <2>4, DieStep
  <2>5. CASE UNCHANGED vars
    <3>1. UNCHANGED <<status, source, latest, created, unlinked, clock, req>>
      BY <2>5 DEF vars, docVars, logVars
    <3>2. \A q \in Requests, d \in Docs : Linking(q, d) => Linking(q, d)'
      BY <3>1 DEF Linking
    <3>3. /\ FreshInv' /\ RootInv' /\ NewestInv'
          /\ Live' = Live
          /\ \A d \in Docs : /\ LiveResults(d)' = LiveResults(d)
                             /\ Newest(LiveResults(d))' = Newest(LiveResults(d))
                             /\ NewestOrNone(LiveResults(d))' = NewestOrNone(LiveResults(d))
      BY <3>1, <3>2, DocsStay DEF SoloInv
    <3> QED BY <3>1, <3>3 DEF SoloInv, ReadInv, ReadOK
  <2> QED BY <2>1, <2>2, <2>3, <2>4, <2>5 DEF Next
<1> QED BY <1>1, <1>2 DEF SoloInv

LEMMA SoloInvariant ==
  ASSUME OneHandler
  PROVE  Spec => []SoloInv
<1>1. Init => SoloInv
  <2>1. ASSUME Init PROVE StateInv
    BY <2>1, LineageAssumption, IdleType, VersionBounds
       DEF Init, StateInv, TypeOK, DocumentInv, HandlerInv, Carrying, Idle
  <2>2. ASSUME Init PROVE FreshInv /\ RootInv /\ NewestInv /\ ReadInv
    BY <2>2, LineageAssumption, IdleType DEF Init, FreshInv, RootInv, NewestInv, ReadInv, ReadOK, Live
  <2> QED BY <2>1, <2>2 DEF SoloInv
<1> QED BY <1>1, SoloStep, PTL DEF Spec

\* With one handler at a time, whatever it redacts, deletes or leaves when it dies: the
\* latest result of a live document is its newest live one, or none when none is left.
THEOREM LatestIsNewest ==
  ASSUME OneHandler
  PROVE  Spec => []LatestIsNewestLive
<1>1. SoloInv => LatestIsNewestLive
  BY IdleType DEF SoloInv, NewestInv, LatestIsNewestLive, Quiet, Linking
<1> QED BY <1>1, SoloInvariant, PTL

\* With one handler at a time, no live result has a root that is not.
THEOREM ResultsFollow ==
  ASSUME OneHandler
  PROVE  Spec => []ResultsFollowRoot
<1>1. SoloInv => ResultsFollowRoot
  BY DEF SoloInv, RootInv, ResultsFollowRoot, StateInv, TypeOK, Live
<1> QED BY <1>1, SoloInvariant, PTL

\* With one handler at a time a deletion is final: the document of a notarization is live
\* until it has written it.
THEOREM DeletionIsFinal ==
  ASSUME OneHandler
  PROVE  Spec => DeletedStaysDeleted
<1>1. ASSUME SoloInv, [Next]_vars, NEW d \in Docs, status[d] = "deleted"
      PROVE  status'[d] = "deleted"
  <2>1. \A q \in Requests : req[q].at = "notarize" /\ req[q].doc = d => d \in Live
    BY <1>1 DEF SoloInv, ReadInv, ReadOK
  <2>2. d \notin Live
    BY <1>1 DEF Live
  <2> QED BY <1>1, <2>1, <2>2, ReviveStep DEF SoloInv
<1>2. SoloInv /\ [Next]_vars => [\A d \in Docs : status[d] = "deleted" => status'[d] = "deleted"]_vars
  BY <1>1
<1> QED BY <1>2, SoloInvariant, PTL DEF Spec, DeletedStaysDeleted

=============================================================================
