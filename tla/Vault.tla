-------------------------------- MODULE Vault --------------------------------
(***************************************************************************)
(* The encrypted vault: files, their shares, and the handlers of           *)
(* routes/files.py, each several database steps that others interleave     *)
(* with.  Every file has one owner, who makes all these requests; what a   *)
(* recipient may download follows from the files and the shares.  The      *)
(* binaries are left out (DocumentLineage has their uploads).              *)
(***************************************************************************)
EXTENDS Naturals, FiniteSets

CONSTANTS
  Files,       \* file ids
  Recipients,  \* wallets a file can be shared with, none of them the owner's
  Requests,    \* handlers that may be in progress at the same time
  MaxShares,   \* bound: share ids drawn in one behaviour
  None         \* null

ASSUME VaultAssumption ==
  /\ MaxShares \in Nat
  /\ None \notin Files \cup Recipients

ShareIds == 1..MaxShares
NoShare  == 0

VARIABLES
  status,    \* files: absent, pending_upload, ready or deleted
  shares,    \* the shares collection; active is revoked_at = null
  timeline,  \* custody events, with the recipient they are about
  req,       \* handlers in progress
  ids,       \* how many share ids have been drawn
  \* history: files and recipients that two handlers were inserting a share of at
  \* once; files whose shares were revoked while another handler, which had found the
  \* file ready, was about to write one; files whose deletion died before it revoked
  \* them; files a handler of which died before it recorded whom it gave access or
  \* took it from
  doubled, overtaken, halfDeleted, untold

history == <<doubled, overtaken, halfDeleted, untold>>
vars    == <<status, shares, timeline, req, ids, history>>

Idle == [at |-> "idle", file |-> None, to |-> None, id |-> NoShare]

Steps == {"idle", "store", "note_uploaded", "revoke_all", "note_deleted",
          "find", "upsert", "insert", "note_shared", "revoke", "note_revoked"}

SharesOf(f, to) == {s \in shares : s.file = f /\ s.to = to}
ActiveShares(f) == {s \in shares : s.file = f /\ s.active}

\* _owned_or_shared_file, for a wallet that is not the owner's.
MayDownload(f, to) ==
  /\ status[f] \notin {"absent", "deleted"}
  /\ \E s \in SharesOf(f, to) : s.active

Revoked(S) == (shares \ S) \cup {[s EXCEPT !.active = FALSE] : s \in S}

Init ==
  /\ status = [f \in Files |-> "absent"]
  /\ shares = {} /\ timeline = {}
  /\ req = [q \in Requests |-> Idle]
  /\ ids = 0
  /\ doubled = {} /\ overtaken = {} /\ halfDeleted = {} /\ untold = {}

\* A handler of f is in progress from here on.
Begin(q, at, f, to, id) ==
  /\ req[q] = Idle
  /\ req' = [req EXCEPT ![q] = [at |-> at, file |-> f, to |-> to, id |-> id]]
  /\ UNCHANGED history

-----------------------------------------------------------------------------
(* Upload and deletion *)

InitUpload(f) ==
  /\ status[f] = "absent"
  /\ status' = [status EXCEPT ![f] = "pending_upload"]
  /\ UNCHANGED <<shares, timeline, req, ids, history>>

\* complete_upload looks the record up by id and owner, whatever its status, and
\* awaits the body.
BeginUpload(q, f) ==
  /\ Begin(q, "store", f, None, NoShare)
  /\ status[f] # "absent"
  /\ UNCHANGED <<status, shares, timeline, ids>>

\* Faulty variant of Store: the status a document has after its upload.
StoreUploaded(q) ==
  /\ req[q].at = "store"
  /\ status' = [status EXCEPT ![req[q].file] = "uploaded"]
  /\ req' = [req EXCEPT ![q].at = "note_uploaded"]
  /\ UNCHANGED <<shares, timeline, ids, history>>

Store(q) ==
  /\ req[q].at = "store"
  /\ status' = [status EXCEPT ![req[q].file] = "ready"]
  /\ req' = [req EXCEPT ![q].at = "note_uploaded"]
  /\ UNCHANGED <<shares, timeline, ids, history>>

\* delete_file: the record, whatever its status, then its shares.
BeginDelete(q, f) ==
  /\ Begin(q, "revoke_all", f, None, NoShare)
  /\ status[f] # "absent"
  /\ status' = [status EXCEPT ![f] = "deleted"]
  /\ UNCHANGED <<shares, timeline, ids>>

\* Handlers that have found f ready and have yet to write its share.
Sharers(f) == {p \in Requests : req[p].file = f /\ req[p].at \in {"find", "upsert", "insert"}}

\* The history of a deletion that comes to the shares of f.
Revokes(f) ==
  /\ overtaken' = IF Sharers(f) # {} THEN overtaken \cup {f} ELSE overtaken \ {f}
  /\ halfDeleted' = halfDeleted \ {f}
  /\ UNCHANGED <<doubled, untold>>

\* Faulty variant of RevokeAll: update_one for update_many.
RevokeFirst(q) ==
  LET found == ActiveShares(req[q].file) IN
  /\ req[q].at = "revoke_all"
  /\ shares' = IF found = {} THEN shares ELSE Revoked({CHOOSE s \in found : TRUE})
  /\ req' = [req EXCEPT ![q].at = "note_deleted"]
  /\ Revokes(req[q].file)
  /\ UNCHANGED <<status, timeline, ids>>

RevokeAll(q) ==
  /\ req[q].at = "revoke_all"
  /\ shares' = Revoked(ActiveShares(req[q].file))
  /\ req' = [req EXCEPT ![q].at = "note_deleted"]
  /\ Revokes(req[q].file)
  /\ UNCHANGED <<status, timeline, ids>>

-----------------------------------------------------------------------------
(* Sharing and revoking *)

BeginShare(q, f, to) ==
  /\ Begin(q, "find", f, to, NoShare)
  /\ status[f] = "ready"
  /\ UNCHANGED <<status, shares, timeline, ids>>

\* The id of a share the recipient has, revoked or not, or a fresh one.
FindShare(q) ==
  LET there == SharesOf(req[q].file, req[q].to) IN
  /\ req[q].at = "find"
  /\ \/ /\ there # {}
        /\ \E s \in there : req' = [req EXCEPT ![q].at = "upsert", ![q].id = s.id]
        /\ UNCHANGED ids
     \/ /\ there = {}
        /\ ids < MaxShares
        /\ ids' = ids + 1
        /\ req' = [req EXCEPT ![q].at = "upsert", ![q].id = ids + 1]
  /\ UNCHANGED <<status, shares, timeline, history>>

ShareRecord(q) == [id |-> req[q].id, file |-> req[q].file, to |-> req[q].to, active |-> TRUE]

Pair(q) == <<req[q].file, req[q].to>>

\* The upsert of q overwrites one of these records, its id included, or is left to
\* insert one: as no unique index is declared another upsert may do so meanwhile.
Matching(q, there) ==
  /\ req[q].at = "upsert"
  /\ \/ /\ there = {}
        /\ req' = [req EXCEPT ![q].at = "insert"]
        /\ doubled' = doubled \cup
             {x \in {Pair(q)} : \E p \in Requests : req[p].at = "insert" /\ Pair(p) = x}
        /\ UNCHANGED shares
     \/ /\ there # {}
        /\ req' = [req EXCEPT ![q].at = "note_shared"]
        /\ \E s \in there : shares' = (shares \ {s}) \cup {ShareRecord(q)}
        /\ UNCHANGED doubled
  /\ UNCHANGED <<status, timeline, ids, overtaken, halfDeleted, untold>>

\* Faulty variant of Upsert: revoked shares do not match.
UpsertActive(q) == Matching(q, {s \in SharesOf(req[q].file, req[q].to) : s.active})

\* update_one with upsert.
Upsert(q) == Matching(q, SharesOf(req[q].file, req[q].to))

\* Two documents that come to have the same content, which takes an insertion by two
\* handlers at once, count as one.
Insert(q) ==
  /\ req[q].at = "insert"
  /\ shares' = shares \cup {ShareRecord(q)}
  /\ req' = [req EXCEPT ![q].at = "note_shared"]
  /\ UNCHANGED <<status, timeline, ids, history>>

\* revoke_share finds an active share by its id ...
BeginRevoke(q) ==
  /\ \E s \in shares : s.active /\ Begin(q, "revoke", s.file, s.to, s.id)
  /\ UNCHANGED <<status, shares, timeline, ids>>

\* Faulty variant of RevokeShare: the handler ends without its event.
RevokeSilently(q) ==
  LET found == {s \in shares : s.id = req[q].id /\ s.active} IN
  /\ req[q].at = "revoke"
  /\ req' = [req EXCEPT ![q] = Idle]
  /\ IF found = {} THEN UNCHANGED shares ELSE \E s \in found : shares' = Revoked({s})
  /\ UNCHANGED <<status, timeline, ids, history>>

\* ... and revokes it by its id, unless it is no longer active.
RevokeShare(q) ==
  LET found == {s \in shares : s.id = req[q].id /\ s.active} IN
  /\ req[q].at = "revoke"
  /\ IF found = {}
       THEN /\ req' = [req EXCEPT ![q] = Idle]
            /\ UNCHANGED shares
       ELSE /\ req' = [req EXCEPT ![q].at = "note_revoked"]
            /\ \E s \in found : shares' = Revoked({s})
  /\ UNCHANGED <<status, timeline, ids, history>>

-----------------------------------------------------------------------------

EventOf == [note_uploaded |-> "vault.uploaded", note_deleted |-> "vault.deleted",
            note_shared |-> "vault.shared", note_revoked |-> "vault.share_revoked"]

\* The custody event that ends every handler.
Record(q) ==
  /\ req[q].at \in DOMAIN EventOf
  /\ timeline' = timeline \cup {[event |-> EventOf[req[q].at], file |-> req[q].file, to |-> req[q].to]}
  /\ req' = [req EXCEPT ![q] = Idle]
  /\ UNCHANGED <<status, shares, ids, history>>

\* The process dies between two steps, or a call raises: nothing is undone.
HandlerDies(q) ==
  /\ req[q] # Idle
  /\ req' = [req EXCEPT ![q] = Idle]
  /\ halfDeleted' = IF req[q].at = "revoke_all"
                      THEN halfDeleted \cup {req[q].file} ELSE halfDeleted
  /\ untold' = IF req[q].at \in {"note_shared", "note_revoked", "note_deleted"}
             THEN untold \cup {req[q].file} ELSE untold
  /\ UNCHANGED <<status, shares, timeline, ids, doubled, overtaken>>

Continue(q) ==
  \/ Store(q) \/ RevokeAll(q) \/ FindShare(q) \/ Upsert(q) \/ Insert(q)
  \/ RevokeShare(q) \/ Record(q)

Next ==
  \/ \E f \in Files : InitUpload(f)
  \/ \E q \in Requests :
       \/ \E f \in Files : BeginUpload(q, f) \/ BeginDelete(q, f)
       \/ \E f \in Files, to \in Recipients : BeginShare(q, f, to)
       \/ BeginRevoke(q)
       \/ Continue(q) \/ HandlerDies(q)

Spec == Init /\ [][Next]_vars

-----------------------------------------------------------------------------
(* Properties *)

Events == [event : {EventOf[e] : e \in DOMAIN EventOf}, file : Files,
           to : Recipients \cup {None}]

TypeOK ==
  /\ status \in [Files -> {"absent", "pending_upload", "ready", "deleted"}]
  /\ shares \subseteq [id : ShareIds, file : Files, to : Recipients, active : BOOLEAN]
  /\ timeline \subseteq Events
  /\ req \in [Requests -> [at : Steps, file : Files \cup {None},
                           to : Recipients \cup {None}, id : 0..MaxShares]]
  /\ ids \in 0..MaxShares
  /\ doubled \subseteq Files \X Recipients
  /\ overtaken \subseteq Files /\ halfDeleted \subseteq Files /\ untold \subseteq Files

\* A file has one of these events for one of these recipients, or a handler is
\* about to record it, or one died when it was.
Traced(f, events, tos, steps) ==
  \/ f \in untold
  \/ \E e \in timeline : e.event \in events /\ e.file = f /\ e.to \in tos
  \/ \E q \in Requests : req[q].at \in steps /\ req[q].file = f /\ req[q].to \in tos

\* Access has a trace, whatever handlers interleave: a recipient who may download a
\* file has been recorded as one it was shared with, and for a revoked share the
\* revocation was recorded, or the deletion of the file.
AccessIsRecorded ==
  /\ \A f \in Files, to \in Recipients :
       MayDownload(f, to) => Traced(f, {"vault.shared"}, {to}, {"note_shared"})
  /\ \A s \in shares : ~s.active =>
       Traced(s.file, {"vault.share_revoked", "vault.deleted"}, {s.to, None},
              {"note_revoked", "note_deleted"})

\* A recipient has one share of a file at most, so that revoking it ends the access,
\* however shares, revocations, uploads and deletions of the file interleave and
\* whatever dies meanwhile; only two handlers that were inserting it at once may have
\* left two.
OneSharePerRecipient ==
  \A s, t \in shares :
    s.file = t.file /\ s.to = t.to /\ <<s.file, s.to>> \notin doubled => s = t

\* Deletion as the vault page reports it, "File deleted and shares revoked": once no
\* deletion is on its way, a deleted file has no active share, whatever shares,
\* uploads and deletions interleaved.  The exceptions are a handler that had found the
\* file ready and wrote its share after the revocation, and a last deletion that died
\* before it: deleting the file again ends either.
DeletedRevokesShares ==
  \A f \in Files \ (overtaken \cup halfDeleted) :
    /\ status[f] = "deleted"
    /\ \A q \in Requests : req[q].at = "revoke_all" => req[q].file # f
    => ActiveShares(f) = {}

=============================================================================
