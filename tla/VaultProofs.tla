----------------------------- MODULE VaultProofs -----------------------------
(***************************************************************************)
(* Proofs about Vault, for any files, recipients, handlers and number of   *)
(* shares: access and its end leave a trace, a recipient has one share of  *)
(* a file, and a deleted file has none that is active.                     *)
(***************************************************************************)
EXTENDS Vault, TLAPS

Shares   == [id : ShareIds, file : Files, to : Recipients, active : BOOLEAN]
Handlers == [at : Steps, file : Files \cup {None}, to : Recipients \cup {None}, id : 0..MaxShares]

Sharing  == {"find", "upsert", "insert", "note_shared", "revoke", "note_revoked"}
WithId   == {"upsert", "insert", "revoke"}

\* A handler works on a file, and on a recipient when it shares or revokes.
HandlerInv ==
  \A q \in Requests :
    /\ req[q].at = "idle" => req[q] = Idle
    /\ req[q].at # "idle" => req[q].file \in Files
    /\ req[q].at \in Sharing => req[q].to \in Recipients
    /\ req[q].at \in {"store", "note_uploaded", "revoke_all", "note_deleted"} => req[q].to = None

\* A share id stands for a file and a recipient, wherever it is used.
IdInv ==
  /\ \A s \in shares : s.id <= ids
  /\ \A s, t \in shares : s.id = t.id => s.file = t.file /\ s.to = t.to
  /\ \A q \in Requests : req[q].at \in WithId =>
       /\ req[q].id \in 1..ids
       /\ \A s \in shares : s.id = req[q].id => s.file = req[q].file /\ s.to = req[q].to
  /\ \A p, q \in Requests :
       req[p].at \in WithId /\ req[q].at \in WithId /\ req[p].id = req[q].id
         => req[p].file = req[q].file /\ req[p].to = req[q].to

StateInv == TypeOK /\ HandlerInv /\ IdInv

-----------------------------------------------------------------------------

LEMMA IdleType == Idle \in Handlers /\ Idle.at = "idle" /\ Idle.file = None
BY VaultAssumption DEF Idle, Handlers, Steps, NoShare

LEMMA RevokedShares ==
  ASSUME NEW S \in SUBSET shares, shares \subseteq Shares
  PROVE  /\ Revoked(S) \subseteq Shares
         /\ \A s \in Revoked(S) :
              \/ s \in shares /\ s \notin S
              \/ \E t \in S : s.id = t.id /\ s.file = t.file /\ s.to = t.to /\ ~s.active
         /\ \A s \in Revoked(S) :
              \E t \in shares : s.id = t.id /\ s.file = t.file /\ s.to = t.to /\ (s.active => t = s)
BY DEF Revoked, Shares

\* The shares may become fewer or revoked; the handlers keep what they have, or end,
\* or move to a step without an id.
LEMMA FewerShares ==
  ASSUME StateInv, NEW q \in Requests, NEW h \in Handlers,
         req' = [req EXCEPT ![q] = h], ids' = ids,
         h = Idle \/ (/\ h.at # "idle" /\ h.file \in Files
                      /\ h.at \in Sharing => h.to \in Recipients
                      /\ h.at \in {"store", "note_uploaded", "revoke_all", "note_deleted"} => h.to = None
                      /\ h.at \in WithId => /\ req[q].at \in WithId /\ h.id = req[q].id
                                           /\ h.file = req[q].file /\ h.to = req[q].to),
         shares' \subseteq Shares,
         \A s \in shares' : \E t \in shares : s.id = t.id /\ s.file = t.file /\ s.to = t.to
  PROVE  req' \in [Requests -> Handlers] /\ HandlerInv' /\ IdInv'
<1>1. req \in [Requests -> Handlers] /\ req' \in [Requests -> Handlers]
  BY DEF StateInv, TypeOK, Handlers
<1>2. HandlerInv'
  BY <1>1, IdleType DEF StateInv, HandlerInv, Sharing
<1>3. \A p \in Requests : req'[p].at \in WithId =>
        /\ req[p].at \in WithId /\ req'[p].id = req[p].id
        /\ req'[p].file = req[p].file /\ req'[p].to = req[p].to
  BY <1>1, IdleType DEF WithId
<1>4. IdInv'
  <2>1. \A s \in shares' : s.id <= ids'
    BY DEF StateInv, IdInv
  <2>2. \A s, t \in shares' : s.id = t.id => s.file = t.file /\ s.to = t.to
    BY DEF StateInv, IdInv
  <2>3. \A p \in Requests : req'[p].at \in WithId =>
          /\ req'[p].id \in 1..ids'
          /\ \A s \in shares' : s.id = req'[p].id => s.file = req'[p].file /\ s.to = req'[p].to
    BY <1>3 DEF StateInv, IdInv
  <2>4. \A p, r \in Requests :
          req'[p].at \in WithId /\ req'[r].at \in WithId /\ req'[p].id = req'[r].id
            => req'[p].file = req'[r].file /\ req'[p].to = req'[r].to
    BY <1>3 DEF StateInv, IdInv
  <2> QED BY <2>1, <2>2, <2>3, <2>4 DEF IdInv
<1> QED BY <1>1, <1>2, <1>4

LEMMA BeginStep ==
  ASSUME StateInv, NEW q \in Requests, NEW f \in Files,
         \/ BeginUpload(q, f) \/ BeginDelete(q, f)
         \/ \E to \in Recipients : BeginShare(q, f, to)
  PROVE  StateInv'
<1>1. PICK h \in Handlers :
        /\ req' = [req EXCEPT ![q] = h]
        /\ h.at \in {"store", "revoke_all", "find"} /\ h.file = f
        /\ h.at = "find" => h.to \in Recipients
        /\ h.at # "find" => h.to = None
  <2>1. CASE BeginUpload(q, f)
    <3> DEFINE h == [at |-> "store", file |-> f, to |-> None, id |-> NoShare]
    <3>1. h \in Handlers
      BY VaultAssumption DEF Handlers, Steps, NoShare
    <3> QED BY <2>1, <3>1 DEF BeginUpload, Begin
  <2>2. CASE BeginDelete(q, f)
    <3> DEFINE h == [at |-> "revoke_all", file |-> f, to |-> None, id |-> NoShare]
    <3>1. h \in Handlers
      BY VaultAssumption DEF Handlers, Steps, NoShare
    <3> QED BY <2>2, <3>1 DEF BeginDelete, Begin
  <2>3. ASSUME NEW to \in Recipients, BeginShare(q, f, to)
        PROVE  \E h \in Handlers :
                 /\ req' = [req EXCEPT ![q] = h]
                 /\ h.at \in {"store", "revoke_all", "find"} /\ h.file = f
                 /\ h.at = "find" => h.to \in Recipients
                 /\ h.at # "find" => h.to = None
    <3> DEFINE h == [at |-> "find", file |-> f, to |-> to, id |-> NoShare]
    <3>1. h \in Handlers
      BY VaultAssumption DEF Handlers, Steps, NoShare
    <3> QED BY <2>3, <3>1 DEF BeginShare, Begin
  <2> QED BY <2>1, <2>2, <2>3
<1>2. UNCHANGED <<shares, timeline, ids, history>>
  BY DEF BeginUpload, BeginDelete, BeginShare, Begin
<1>3. shares' \subseteq Shares
  BY <1>2 DEF StateInv, TypeOK, Shares
<1>4. req' \in [Requests -> Handlers] /\ HandlerInv' /\ IdInv'
  BY <1>1, <1>2, <1>3, FewerShares DEF Sharing, WithId
<1>5. status' \in [Files -> {"absent", "pending_upload", "ready", "deleted"}]
  BY DEF BeginUpload, BeginDelete, BeginShare, Begin, StateInv, TypeOK
<1>6. TypeOK'
  BY <1>2, <1>4, <1>5 DEF StateInv, TypeOK, Handlers, history
<1> QED BY <1>4, <1>6 DEF StateInv

LEMMA BeginRevokeStep ==
  ASSUME StateInv, NEW q \in Requests, BeginRevoke(q)
  PROVE  StateInv'
<1>1. PICK s \in shares :
        req' = [req EXCEPT ![q] = [at |-> "revoke", file |-> s.file, to |-> s.to, id |-> s.id]]
  BY DEF BeginRevoke, Begin
<1>2. s \in Shares /\ s.id \in 1..ids /\ ids \in Nat /\ MaxShares \in Nat /\ ids <= MaxShares
  BY VaultAssumption DEF StateInv, TypeOK, IdInv, Shares, ShareIds
<1> DEFINE h == [at |-> "revoke", file |-> s.file, to |-> s.to, id |-> s.id]
<1>3. h \in Handlers
  BY <1>2 DEF Handlers, Steps, Shares
<1>4. UNCHANGED <<status, shares, timeline, ids, history>>
  BY DEF BeginRevoke, Begin
<1>5. req \in [Requests -> Handlers] /\ req' \in [Requests -> Handlers]
  BY <1>1, <1>3 DEF StateInv, TypeOK, Handlers
<1>6. /\ req'[q].at = "revoke" /\ req'[q].file = s.file /\ req'[q].to = s.to /\ req'[q].id = s.id
      /\ \A p \in Requests : p # q => req'[p] = req[p]
  BY <1>1, <1>5
<1>7. TypeOK'
  BY <1>4, <1>5 DEF StateInv, TypeOK, Handlers, history
<1>8. HandlerInv'
  BY <1>2, <1>6 DEF StateInv, HandlerInv, Sharing, Shares
<1>9. IdInv'
  <2>1. \A t \in shares : t.id = s.id => t.file = s.file /\ t.to = s.to
    BY DEF StateInv, IdInv
  <2>2. \A p \in Requests : req[p].at \in WithId /\ req[p].id = s.id
          => s.file = req[p].file /\ s.to = req[p].to
    BY DEF StateInv, IdInv
  <2> QED BY <1>2, <1>4, <1>6, <2>1, <2>2 DEF StateInv, IdInv
<1> QED BY <1>7, <1>8, <1>9 DEF StateInv

LEMMA FindStep ==
  ASSUME StateInv, NEW q \in Requests, FindShare(q)
  PROVE  StateInv'
<1>1. PICK i \in 1..MaxShares :
        /\ req' = [req EXCEPT ![q] = [req[q] EXCEPT !.at = "upsert", !.id = i]]
        /\ \/ ids' = ids /\ \E s \in shares : s.id = i /\ s.file = req[q].file /\ s.to = req[q].to
           \/ ids' = ids + 1 /\ i = ids + 1
        /\ i <= ids' /\ ids <= ids' /\ ids' \in 0..MaxShares
  <2>1. req \in [Requests -> Handlers] /\ ids \in Nat /\ ids <= MaxShares /\ MaxShares \in Nat
    BY VaultAssumption DEF StateInv, TypeOK, Handlers
  <2>2. CASE SharesOf(req[q].file, req[q].to) # {}
    <3>1. PICK s \in SharesOf(req[q].file, req[q].to) :
            req' = [req EXCEPT ![q].at = "upsert", ![q].id = s.id] /\ ids' = ids
      BY <2>2 DEF FindShare
    <3>2. s \in shares /\ s.file = req[q].file /\ s.to = req[q].to
          /\ s.id \in 1..MaxShares /\ s.id <= ids
      BY DEF SharesOf, StateInv, TypeOK, IdInv, ShareIds
    <3>3. req' = [req EXCEPT ![q] = [req[q] EXCEPT !.at = "upsert", !.id = s.id]]
      BY <2>1, <3>1
    <3>4. s.id <= ids' /\ ids <= ids' /\ ids' \in 0..MaxShares
      BY <2>1, <3>1, <3>2
    <3> QED BY <3>1, <3>2, <3>3, <3>4
  <2>3. CASE SharesOf(req[q].file, req[q].to) = {}
    <3>1. /\ req' = [req EXCEPT ![q].at = "upsert", ![q].id = ids + 1]
          /\ ids' = ids + 1 /\ ids < MaxShares
      BY <2>3 DEF FindShare
    <3>2. req' = [req EXCEPT ![q] = [req[q] EXCEPT !.at = "upsert", !.id = ids + 1]]
      BY <2>1, <3>1
    <3>3. /\ ids + 1 \in 1..MaxShares /\ ids + 1 <= ids' /\ ids <= ids' /\ ids' \in 0..MaxShares
      BY <2>1, <3>1
    <3> QED BY <3>1, <3>2, <3>3
  <2> QED BY <2>2, <2>3
<1>2. /\ req \in [Requests -> Handlers] /\ ids \in Nat /\ ids' \in Nat
      /\ req[q].at = "find" /\ UNCHANGED <<status, shares, timeline, history>>
  <2>1. req[q].at = "find" /\ UNCHANGED <<status, shares, timeline, history>>
    BY DEF FindShare
  <2>2. \A n \in 0..MaxShares : n \in Nat
    BY VaultAssumption
  <2>3. req \in [Requests -> Handlers] /\ ids \in 0..MaxShares
    BY DEF StateInv, TypeOK, Handlers
  <2> QED BY <1>1, <2>1, <2>2, <2>3
<1>3. [req[q] EXCEPT !.at = "upsert", !.id = i] \in Handlers
  <2>1. i \in 0..MaxShares /\ req[q] \in Handlers
    BY <1>2, VaultAssumption
  <2> QED BY <2>1 DEF Handlers, Steps
<1>4. req' \in [Requests -> Handlers]
  BY <1>1, <1>2, <1>3
<1>5. /\ req'[q].at = "upsert" /\ req'[q].file = req[q].file /\ req'[q].to = req[q].to /\ req'[q].id = i
      /\ \A p \in Requests : p # q => req'[p] = req[p]
  BY <1>1, <1>2 DEF Handlers
<1>6. TypeOK'
  BY <1>1, <1>2, <1>4 DEF StateInv, TypeOK, Handlers, history
<1>7. HandlerInv'
  BY <1>2, <1>5 DEF StateInv, HandlerInv, Sharing
<1>8. IdInv'
  <2>0. \A s \in shares : s.id \in Nat /\ s.id <= ids
    BY DEF StateInv, TypeOK, IdInv, ShareIds
  <2>1. \A s \in shares : s.id = i => s.file = req[q].file /\ s.to = req[q].to
    BY <1>1, <1>2, <2>0 DEF StateInv, IdInv
  <2>2. \A p \in Requests : req[p].at \in WithId /\ req[p].id = i
          => req[p].file = req[q].file /\ req[p].to = req[q].to
    <3>1. \A p \in Requests : req[p].at \in WithId => req[p].id \in 1..ids
      BY DEF StateInv, IdInv
    <3> QED BY <1>1, <1>2, <3>1 DEF StateInv, IdInv
  <2>3. i \in 1..ids'
    BY <1>1, <1>2
  <2>4. \A s \in shares' : s.id <= ids'
    BY <1>1, <1>2, <2>0
  <2>5. \A p \in Requests : req'[p].at \in WithId => req'[p].id \in 1..ids'
    BY <1>1, <1>2, <1>5, <2>3 DEF StateInv, IdInv
  <2> QED BY <1>2, <1>5, <2>1, <2>2, <2>4, <2>5 DEF StateInv, IdInv
<1> QED BY <1>6, <1>7, <1>8 DEF StateInv

LEMMA WriteStep ==
  ASSUME StateInv, NEW q \in Requests, Upsert(q) \/ Insert(q)
  PROVE  StateInv'
<1>1. /\ req[q].at \in {"upsert", "insert"} /\ req \in [Requests -> Handlers]
      /\ UNCHANGED <<status, timeline, ids, overtaken, halfDeleted, untold>>
      /\ ids \in Nat /\ ids <= MaxShares
  BY VaultAssumption DEF Upsert, Matching, Insert, history, StateInv, TypeOK, Handlers
<1>2. /\ req[q].file \in Files /\ req[q].to \in Recipients /\ req[q].id \in 1..ids
      /\ req[q].at \in WithId
  BY <1>1 DEF StateInv, HandlerInv, IdInv, Sharing, WithId
<1>3. PICK a \in {"insert", "note_shared"} : req' = [req EXCEPT ![q] = [req[q] EXCEPT !.at = a]]
  BY <1>1 DEF Upsert, Matching, Insert
<1>4. [req[q] EXCEPT !.at = a] \in Handlers
  BY <1>1 DEF Handlers, Steps
<1>5. req' \in [Requests -> Handlers]
  BY <1>1, <1>3, <1>4
<1>6. \A p \in Requests :
        /\ req'[p].file = req[p].file /\ req'[p].to = req[p].to /\ req'[p].id = req[p].id
        /\ req'[p].at \in WithId => req[p].at \in WithId
        /\ p # q => req'[p] = req[p]
  BY <1>1, <1>2, <1>3 DEF Handlers
<1>7. req'[q].at \in {"insert", "note_shared"}
  BY <1>1, <1>3 DEF Handlers
<1> DEFINE r == ShareRecord(q)
<1>8. r \in Shares /\ r.id = req[q].id /\ r.file = req[q].file /\ r.to = req[q].to
  BY <1>1, <1>2, VaultAssumption DEF ShareRecord, Shares, ShareIds
<1>9. \A s \in shares' : s \in shares \/ s = r
  BY DEF Upsert, Matching, Insert
<1> HIDE DEF r
<1>10. TypeOK'
  <2>1. doubled' \subseteq Files \X Recipients
    <3>1. Pair(q) \in Files \X Recipients
      BY <1>2 DEF Pair
    <3> QED BY <3>1 DEF Upsert, Matching, Insert, history, StateInv, TypeOK
  <2> QED BY <1>1, <1>5, <1>8, <1>9, <2>1 DEF StateInv, TypeOK, Handlers, Shares
<1>11. HandlerInv'
  BY <1>2, <1>6, <1>7 DEF StateInv, HandlerInv, Sharing
<1>12. IdInv'
  <2>1. \A s \in shares : s.id = r.id => s.file = r.file /\ s.to = r.to
    BY <1>2, <1>8 DEF StateInv, IdInv
  <2>2. \A p \in Requests : req[p].at \in WithId /\ req[p].id = r.id
          => req[p].file = r.file /\ req[p].to = r.to
    BY <1>2, <1>8 DEF StateInv, IdInv
  <2>3. r.id <= ids
    BY <1>1, <1>2, <1>8
  <2> QED BY <1>1, <1>6, <1>9, <2>1, <2>2, <2>3 DEF StateInv, IdInv
<1> QED BY <1>10, <1>11, <1>12 DEF StateInv

\* The steps that end a handler or take it on to its event.
LEMMA KeepStep ==
  ASSUME StateInv, NEW q \in Requests,
         Store(q) \/ RevokeAll(q) \/ RevokeShare(q) \/ Record(q) \/ HandlerDies(q)
  PROVE  StateInv'
<1>1. /\ req \in [Requests -> Handlers] /\ req[q] \in Handlers /\ shares \subseteq Shares
      /\ ids' = ids /\ ids \in 0..MaxShares /\ req[q] # Idle /\ req[q].file \in Files
  <2>1. req \in [Requests -> Handlers] /\ shares \subseteq Shares /\ ids \in 0..MaxShares
    BY DEF StateInv, TypeOK, Handlers, Shares
  <2>2. ids' = ids /\ req[q] # Idle
    BY DEF Store, RevokeAll, Revokes, RevokeShare, Record, HandlerDies, Idle, EventOf
  <2>3. req[q].file \in Files
    BY <2>2 DEF StateInv, HandlerInv
  <2> QED BY <2>1, <2>2, <2>3
<1>2. /\ shares' \subseteq Shares
      /\ \A s \in shares' : \E t \in shares : s.id = t.id /\ s.file = t.file /\ s.to = t.to
  <2>1. CASE shares' = shares
    BY <1>1, <2>1
  <2>2. CASE \E S \in SUBSET shares : shares' = Revoked(S)
    BY <1>1, <2>2, RevokedShares
  <2>3. CASE RevokeAll(q)
    <3>1. ActiveShares(req[q].file) \in SUBSET shares
      BY DEF ActiveShares
    <3> QED BY <2>2, <2>3, <3>1 DEF RevokeAll, Revokes
  <2>4. CASE RevokeShare(q)
    <3> DEFINE found == {s \in shares : s.id = req[q].id /\ s.active}
    <3>1. shares' = shares \/ \E s \in found : shares' = Revoked({s})
      BY <2>4 DEF RevokeShare
    <3>2. \A s \in found : {s} \in SUBSET shares
      OBVIOUS
    <3> QED BY <2>1, <2>2, <3>1, <3>2
  <2> QED BY <2>1, <2>3, <2>4 DEF Store, Record, HandlerDies
<1>3. PICK h \in Handlers :
        /\ req' = [req EXCEPT ![q] = h]
        /\ \/ h = Idle
           \/ /\ h.at \in {"note_uploaded", "note_deleted", "note_revoked"}
              /\ h.file = req[q].file /\ h.to = req[q].to
              /\ h.at = "note_revoked" => req[q].at = "revoke"
              /\ h.at = "note_uploaded" => req[q].at = "store"
              /\ h.at = "note_deleted" => req[q].at = "revoke_all"
  <2>1. CASE req' = [req EXCEPT ![q] = Idle]
    BY <2>1, IdleType
  <2>2. ASSUME NEW a \in {"note_uploaded", "note_deleted", "note_revoked"},
               req' = [req EXCEPT ![q].at = a],
               /\ a = "note_revoked" => req[q].at = "revoke"
               /\ a = "note_uploaded" => req[q].at = "store"
               /\ a = "note_deleted" => req[q].at = "revoke_all"
        PROVE  \E h \in Handlers :
                 /\ req' = [req EXCEPT ![q] = h]
                 /\ \/ h = Idle
                    \/ /\ h.at \in {"note_uploaded", "note_deleted", "note_revoked"}
                       /\ h.file = req[q].file /\ h.to = req[q].to
                       /\ h.at = "note_revoked" => req[q].at = "revoke"
                       /\ h.at = "note_uploaded" => req[q].at = "store"
                       /\ h.at = "note_deleted" => req[q].at = "revoke_all"
    <3> DEFINE h == [req[q] EXCEPT !.at = a]
    <3>1. h \in Handlers
      BY <1>1 DEF Handlers, Steps
    <3>2. req' = [req EXCEPT ![q] = h]
      BY <1>1, <2>2
    <3>3. h.at = a /\ h.file = req[q].file /\ h.to = req[q].to
      BY <1>1 DEF Handlers
    <3> HIDE DEF h
    <3> QED BY <2>2, <3>1, <3>2, <3>3
  <2> QED BY <2>1, <2>2 DEF Store, RevokeAll, Revokes, RevokeShare, Record, HandlerDies
<1>4. req' \in [Requests -> Handlers] /\ HandlerInv' /\ IdInv'
  <2>1. h # Idle => /\ h.at \in Sharing => h.to \in Recipients
                    /\ h.at \in {"store", "note_uploaded", "revoke_all", "note_deleted"} => h.to = None
                    /\ h.at \notin WithId
    BY <1>1, <1>3 DEF StateInv, HandlerInv, Sharing, WithId
  <2> QED BY <1>1, <1>2, <1>3, <2>1, FewerShares
<1>5. /\ status' \in [Files -> {"absent", "pending_upload", "ready", "deleted"}]
      /\ doubled' \subseteq Files \X Recipients
      /\ overtaken' \subseteq Files /\ halfDeleted' \subseteq Files /\ untold' \subseteq Files
  BY <1>1 DEF Store, RevokeAll, Revokes, RevokeShare, Record, HandlerDies, history, StateInv, TypeOK
<1>6. timeline' \subseteq Events
  <2>1. CASE Record(q)
    <3>1. [event |-> EventOf[req[q].at], file |-> req[q].file, to |-> req[q].to] \in Events
      BY <1>1, <2>1 DEF Record, Events, Handlers
    <3> QED BY <2>1, <3>1 DEF Record, StateInv, TypeOK
  <2> QED BY <2>1 DEF Store, RevokeAll, Revokes, RevokeShare, HandlerDies, StateInv, TypeOK
<1>7. TypeOK'
  BY <1>1, <1>2, <1>4, <1>5, <1>6 DEF TypeOK, Handlers, Shares
<1> QED BY <1>4, <1>7 DEF StateInv

LEMMA StateInit == Init => StateInv
<1> SUFFICES ASSUME Init PROVE StateInv
  OBVIOUS
<1>1. \A q \in Requests : req[q] = Idle
  BY DEF Init
<1>2. TypeOK
  BY IdleType, VaultAssumption DEF Init, TypeOK, Handlers
<1> QED BY <1>1, <1>2, IdleType DEF Init, StateInv, HandlerInv, IdInv, Sharing, WithId

LEMMA StateStep == StateInv /\ [Next]_vars => StateInv'
<1> SUFFICES ASSUME StateInv, [Next]_vars PROVE StateInv'
  OBVIOUS
<1>1. CASE UNCHANGED vars
  BY <1>1 DEF vars, history, StateInv, TypeOK, HandlerInv, IdInv
<1>2. ASSUME NEW f \in Files, InitUpload(f) PROVE StateInv'
  BY <1>2 DEF InitUpload, history, StateInv, TypeOK, HandlerInv, IdInv
<1>3. ASSUME NEW q \in Requests,
             \/ \E f \in Files : BeginUpload(q, f) \/ BeginDelete(q, f)
             \/ \E f \in Files, to \in Recipients : BeginShare(q, f, to)
      PROVE  StateInv'
  BY <1>3, BeginStep
<1>4. ASSUME NEW q \in Requests, BeginRevoke(q) PROVE StateInv'
  BY <1>4, BeginRevokeStep
<1>5. ASSUME NEW q \in Requests, Continue(q) \/ HandlerDies(q) PROVE StateInv'
  BY <1>5, FindStep, WriteStep, KeepStep DEF Continue
<1> QED BY <1>1, <1>2, <1>3, <1>4, <1>5 DEF Next

LEMMA StateAlways == Spec => []StateInv
BY StateInit, StateStep, PTL DEF Spec

\* The vault's collections, its handlers and the share ids they carry keep their
\* types, whatever interleaves or dies.
THEOREM VaultTypeCorrect == Spec => []TypeOK
BY StateAlways, PTL DEF StateInv

-----------------------------------------------------------------------------
(* The trace of every share, and of its end *)

Given(s) == Traced(s.file, {"vault.shared"}, {s.to}, {"note_shared"})
Taken(s) == Traced(s.file, {"vault.share_revoked", "vault.deleted"}, {s.to, None},
                   {"note_revoked", "note_deleted"})

TraceInv == \A s \in shares : Given(s) /\ (~s.active => Taken(s))

\* A handler about to record its event records it, or dies and leaves its file untold.
LEMMA NotesEnd ==
  ASSUME StateInv, [Next]_vars
  PROVE  /\ untold \subseteq untold' /\ timeline \subseteq timeline'
         /\ \A p \in Requests : req[p].at \in {"note_shared", "note_revoked", "note_deleted"} =>
              \/ req'[p] = req[p]
              \/ req[p].file \in untold'
              \/ [event |-> EventOf[req[p].at], file |-> req[p].file, to |-> req[p].to] \in timeline'
<1>1. req \in [Requests -> Handlers]
  BY DEF StateInv, TypeOK, Handlers
<1>2. CASE UNCHANGED vars
  BY <1>2 DEF vars, history
<1>3. ASSUME NEW f \in Files, InitUpload(f)
      PROVE  UNCHANGED <<req, untold, timeline>>
  BY <1>3 DEF InitUpload, history
<1>4. ASSUME NEW q \in Requests,
             \/ \E f \in Files : BeginUpload(q, f) \/ BeginDelete(q, f)
             \/ \E f \in Files, to \in Recipients : BeginShare(q, f, to)
             \/ BeginRevoke(q)
      PROVE  /\ UNCHANGED <<untold, timeline>> /\ req[q].at = "idle"
             /\ \A p \in Requests : p # q => req'[p] = req[p]
  BY <1>1, <1>4, IdleType DEF BeginUpload, BeginDelete, BeginShare, BeginRevoke, Begin, history
<1>5. ASSUME NEW q \in Requests,
             Store(q) \/ RevokeAll(q) \/ FindShare(q) \/ Upsert(q) \/ Insert(q) \/ RevokeShare(q)
      PROVE  /\ UNCHANGED <<untold, timeline>>
             /\ req[q].at \notin {"note_shared", "note_revoked", "note_deleted"}
             /\ \A p \in Requests : p # q => req'[p] = req[p]
  <2>1. UNCHANGED <<untold, timeline>> /\ req[q].at \notin {"note_shared", "note_revoked", "note_deleted"}
    BY <1>5 DEF Store, RevokeAll, Revokes, FindShare, Upsert, Matching, Insert, RevokeShare, history
  <2>2. \E h : req' = [req EXCEPT ![q] = h]
    <3>1. CASE FindShare(q)
      <4> PICK i : req' = [req EXCEPT ![q].at = "upsert", ![q].id = i]
        BY <3>1 DEF FindShare
      <4>2. req' = [req EXCEPT ![q] = [req[q] EXCEPT !.at = "upsert", !.id = i]]
        BY <1>1
      <4> QED BY <4>2
    <3>2. CASE req' = [req EXCEPT ![q] = Idle]
      BY <3>2
    <3>3. ASSUME NEW a, req' = [req EXCEPT ![q].at = a] PROVE \E h : req' = [req EXCEPT ![q] = h]
      <4>1. req' = [req EXCEPT ![q] = [req[q] EXCEPT !.at = a]]
        BY <1>1, <3>3
      <4> QED BY <4>1
    <3> QED BY <1>5, <3>1, <3>2, <3>3 DEF Store, RevokeAll, Revokes, Upsert, Matching, Insert, RevokeShare
  <2> QED BY <1>1, <2>1, <2>2
<1>6. ASSUME NEW q \in Requests, Record(q)
      PROVE  /\ untold' = untold /\ timeline \subseteq timeline'
             /\ \A p \in Requests : p # q => req'[p] = req[p]
             /\ [event |-> EventOf[req[q].at], file |-> req[q].file, to |-> req[q].to] \in timeline'
  BY <1>1, <1>6 DEF Record, history
<1>7. ASSUME NEW q \in Requests, HandlerDies(q)
      PROVE  /\ untold \subseteq untold' /\ timeline' = timeline
             /\ \A p \in Requests : p # q => req'[p] = req[p]
             /\ req[q].at \in {"note_shared", "note_revoked", "note_deleted"} => req[q].file \in untold'
  BY <1>1, <1>7 DEF HandlerDies
<1> QED BY <1>2, <1>3, <1>4, <1>5, <1>6, <1>7 DEF Next, Continue

\* So what is traced stays traced.
LEMMA TracesStay ==
  ASSUME StateInv, [Next]_vars, NEW s
  PROVE  (Given(s) => Given(s)') /\ (Taken(s) => Taken(s)')
<1>1. /\ EventOf["note_shared"] = "vault.shared"
      /\ EventOf["note_revoked"] = "vault.share_revoked"
      /\ EventOf["note_deleted"] = "vault.deleted"
  BY DEF EventOf
<1>2. ASSUME NEW E, NEW tos, NEW S,
             S \subseteq {"note_shared", "note_revoked", "note_deleted"},
             \A a \in S : EventOf[a] \in E,
             Traced(s.file, E, tos, S)
      PROVE  Traced(s.file, E, tos, S)'
  <2>1. CASE \/ s.file \in untold
             \/ \E e \in timeline : e.event \in E /\ e.file = s.file /\ e.to \in tos
    BY <2>1, NotesEnd DEF Traced
  <2>2. ASSUME NEW q \in Requests, req[q].at \in S, req[q].file = s.file, req[q].to \in tos
        PROVE  Traced(s.file, E, tos, S)'
    <3> DEFINE e == [event |-> EventOf[req[q].at], file |-> req[q].file, to |-> req[q].to]
    <3>1. req'[q] = req[q] \/ req[q].file \in untold' \/ e \in timeline'
      BY <1>2, <2>2, NotesEnd
    <3>2. e.event \in E /\ e.file = s.file /\ e.to \in tos
      BY <1>2, <2>2
    <3> HIDE DEF e
    <3> QED BY <2>2, <3>1, <3>2 DEF Traced
  <2> QED BY <1>2, <2>1, <2>2 DEF Traced
<1> QED BY <1>1, <1>2 DEF Given, Taken

\* A new share is about to be noted by the handler that wrote it, and a share is
\* revoked by a handler about to note that.
LEMMA TraceStep == StateInv /\ TraceInv /\ [Next]_vars => TraceInv'
<1> SUFFICES ASSUME StateInv, TraceInv, [Next]_vars PROVE TraceInv'
  OBVIOUS
<1>0. req \in [Requests -> Handlers] /\ shares \subseteq Shares
  BY DEF StateInv, TypeOK, Handlers, Shares
<1>1. CASE shares' = shares
  BY <1>1, TracesStay DEF TraceInv
<1>2. ASSUME NEW q \in Requests, Upsert(q) \/ Insert(q), shares' # shares
      PROVE  TraceInv'
  <2>1. req'[q].at = "note_shared" /\ req'[q].file = req[q].file /\ req'[q].to = req[q].to
    BY <1>0, <1>2 DEF Upsert, Matching, Insert, Handlers
  <2>2. \A s \in shares' : s \in shares \/ (s.active /\ s.file = req[q].file /\ s.to = req[q].to)
    BY <1>2 DEF Upsert, Matching, Insert, ShareRecord
  <2>3. \A s \in shares' : s \notin shares => s.active /\ Given(s)'
    BY <2>1, <2>2 DEF Given, Traced
  <2> QED BY <2>3, TracesStay DEF TraceInv
<1>3. ASSUME NEW q \in Requests, RevokeAll(q)
      PROVE  TraceInv'
  <2>1. /\ req'[q].at = "note_deleted" /\ req'[q].file = req[q].file /\ req'[q].to = None
    BY <1>0, <1>3 DEF RevokeAll, Revokes, Handlers, StateInv, HandlerInv
  <2>2. ASSUME NEW s \in shares' PROVE (s \in shares \/ (~s.active /\ s.file = req[q].file))
             /\ \E t \in shares : s.file = t.file /\ s.to = t.to
    BY <1>0, <1>3, RevokedShares DEF RevokeAll, Revokes, ActiveShares
  <2>3. ASSUME NEW s \in shares' PROVE Given(s)'
    BY <2>2, TracesStay DEF TraceInv, Given
  <2>4. ASSUME NEW s \in shares', ~s.active PROVE Taken(s)'
    <3>1. CASE s \in shares
      BY <2>4, <3>1, TracesStay DEF TraceInv
    <3>2. CASE s.file = req[q].file
      BY <2>1, <3>2 DEF Taken, Traced
    <3> QED BY <2>2, <3>1, <3>2
  <2> QED BY <2>3, <2>4 DEF TraceInv
<1>4. ASSUME NEW q \in Requests, RevokeShare(q), shares' # shares
      PROVE  TraceInv'
  <2>1. PICK t \in shares : shares' = Revoked({t}) /\ t.id = req[q].id
    BY <1>4 DEF RevokeShare
  <2>2. t.file = req[q].file /\ t.to = req[q].to
    BY <1>4, <2>1 DEF RevokeShare, StateInv, IdInv, WithId
  <2>3. /\ req'[q].at = "note_revoked" /\ req'[q].file = t.file /\ req'[q].to = t.to
    BY <1>0, <1>4, <2>2 DEF RevokeShare, Handlers
  <2>4. {t} \in SUBSET shares
    BY <2>1
  <2>5. ASSUME NEW s \in shares' PROVE (s \in shares \/ (~s.active /\ s.file = t.file /\ s.to = t.to))
             /\ \E u \in shares : s.file = u.file /\ s.to = u.to
    BY <1>0, <2>1, <2>4, RevokedShares
  <2>6. ASSUME NEW s \in shares' PROVE Given(s)'
    BY <2>5, TracesStay DEF TraceInv, Given
  <2>7. ASSUME NEW s \in shares', ~s.active PROVE Taken(s)'
    <3>1. CASE s \in shares
      BY <2>7, <3>1, TracesStay DEF TraceInv
    <3>2. CASE s.file = t.file /\ s.to = t.to
      BY <2>3, <3>2 DEF Taken, Traced
    <3> QED BY <2>5, <3>1, <3>2
  <2> QED BY <2>6, <2>7 DEF TraceInv
<1>5. \/ shares' = shares
      \/ \E q \in Requests : Upsert(q) \/ Insert(q) \/ RevokeAll(q) \/ RevokeShare(q)
  BY DEF Next, vars, InitUpload, BeginUpload, BeginDelete, BeginShare, BeginRevoke,
         Continue, Store, FindShare, Record, HandlerDies
<1> QED BY <1>1, <1>2, <1>3, <1>4, <1>5

\* Whoever may download a file is on its timeline as a recipient, and whoever no
\* longer may through a share of theirs has its revocation there, unless a handler of
\* the file died before it came to its event.
THEOREM AccessIsAlwaysRecorded == Spec => []AccessIsRecorded
<1>1. Init => TraceInv
  BY DEF Init, TraceInv
<1>2. TraceInv => AccessIsRecorded
  BY DEF TraceInv, AccessIsRecorded, MayDownload, SharesOf, Given, Taken
<1> QED BY <1>1, <1>2, StateAlways, TraceStep, PTL DEF Spec

-----------------------------------------------------------------------------
(* The shares a recipient has, and those a deletion leaves *)

\* A share about to be inserted is not there yet, and one handler inserts it.
OneInv ==
  /\ OneSharePerRecipient
  /\ \A q \in Requests : req[q].at = "insert" /\ Pair(q) \notin doubled =>
       /\ SharesOf(req[q].file, req[q].to) = {}
       /\ \A p \in Requests : req[p].at = "insert" /\ Pair(p) = Pair(q) => p = q

\* Until its shares are revoked a deleted file has a deletion on its way to them; from
\* then on nothing of it is active and nobody shares it.
DeletedInv ==
  \A f \in Files \ (overtaken \cup halfDeleted) : status[f] = "deleted" =>
    \/ \E q \in Requests : req[q].at = "revoke_all" /\ req[q].file = f
    \/ Sharers(f) = {} /\ ActiveShares(f) = {}

ShareInv == OneInv /\ DeletedInv

\* What the steps of a handler, Begin apart, leave: its file and recipient, or nothing.
LEMMA Continued ==
  ASSUME StateInv, NEW q \in Requests, Continue(q) \/ HandlerDies(q)
  PROVE  /\ req[q].at # "idle" /\ req[q].file \in Files
         /\ \A p \in Requests : p # q => req'[p] = req[p]
         /\ \/ req'[q] = Idle
            \/ req'[q].file = req[q].file /\ req'[q].to = req[q].to
         /\ req'[q].at = "insert" => Upsert(q)
         /\ req'[q].at \in {"find", "upsert", "insert"} => req[q].at \in {"find", "upsert"}
<1>1. req \in [Requests -> Handlers]
  BY DEF StateInv, TypeOK, Handlers
<1>2. req[q].at # "idle"
  BY DEF StateInv, HandlerInv, Continue, Store, RevokeAll, FindShare, Upsert, Matching, Insert,
         RevokeShare, Record, HandlerDies, EventOf
<1>3. PICK h : /\ req' = [req EXCEPT ![q] = h]
               /\ h = Idle \/ (h.file = req[q].file /\ h.to = req[q].to)
  <2>1. CASE FindShare(q)
    <3> PICK i : req' = [req EXCEPT ![q].at = "upsert", ![q].id = i]
      BY <2>1 DEF FindShare
    <3> DEFINE h == [req[q] EXCEPT !.at = "upsert", !.id = i]
    <3>1. req' = [req EXCEPT ![q] = h] /\ h.file = req[q].file /\ h.to = req[q].to
      BY <1>1 DEF Handlers
    <3> QED BY <3>1
  <2>2. CASE req' = [req EXCEPT ![q] = Idle]
    BY <2>2
  <2>3. ASSUME NEW a, req' = [req EXCEPT ![q].at = a]
        PROVE  \E h : /\ req' = [req EXCEPT ![q] = h]
                      /\ h = Idle \/ (h.file = req[q].file /\ h.to = req[q].to)
    <3> DEFINE h == [req[q] EXCEPT !.at = a]
    <3>1. req' = [req EXCEPT ![q] = h] /\ h.file = req[q].file /\ h.to = req[q].to
      BY <1>1, <2>3 DEF Handlers
    <3> QED BY <3>1
  <2> QED BY <2>1, <2>2, <2>3
          DEF Continue, Store, RevokeAll, Upsert, Matching, Insert, RevokeShare, Record, HandlerDies
<1>4. req'[q].at = "insert" => Upsert(q)
  BY <1>1, IdleType DEF Continue, Store, RevokeAll, FindShare, Insert, RevokeShare, Record,
     HandlerDies, Handlers
<1>5. req'[q].at \in {"find", "upsert", "insert"} => req[q].at \in {"find", "upsert"}
  BY <1>1, IdleType DEF Continue, Store, RevokeAll, FindShare, Upsert, Matching, Insert, RevokeShare,
     Record, HandlerDies, Handlers
<1> QED BY <1>1, <1>2, <1>3, <1>4, <1>5 DEF StateInv, HandlerInv

\* A handler that begins does so with one of these steps.
LEMMA Begun ==
  ASSUME StateInv, NEW q \in Requests,
         \/ \E f \in Files : BeginUpload(q, f) \/ BeginDelete(q, f)
         \/ \E f \in Files, to \in Recipients : BeginShare(q, f, to)
         \/ BeginRevoke(q)
  PROVE  /\ req[q].at = "idle" /\ UNCHANGED <<shares, history>>
         /\ \A p \in Requests : p # q => req'[p] = req[p]
         /\ req'[q].at \in {"store", "revoke_all", "find", "revoke"}
         /\ \A f \in Files :
              status'[f] # status[f] => req'[q].at = "revoke_all" /\ req'[q].file = f
         /\ req'[q].at = "find" => status[req'[q].file] = "ready" /\ status' = status
<1>1. req \in [Requests -> Handlers] /\ status \in [Files -> {"absent", "pending_upload", "ready", "deleted"}]
  BY DEF StateInv, TypeOK, Handlers
<1>2. PICK a, g, to, id : Begin(q, a, g, to, id)
  BY DEF BeginUpload, BeginDelete, BeginShare, BeginRevoke
<1>3. /\ req[q].at = "idle" /\ UNCHANGED history
      /\ \A p \in Requests : p # q => req'[p] = req[p]
  BY <1>1, <1>2, IdleType DEF Begin
<1>4. CASE \E f \in Files : BeginUpload(q, f)
  BY <1>1, <1>3, <1>4 DEF BeginUpload, Begin
<1>5. CASE \E f \in Files : BeginDelete(q, f)
  BY <1>1, <1>3, <1>5 DEF BeginDelete, Begin
<1>6. CASE \E f \in Files, t \in Recipients : BeginShare(q, f, t)
  BY <1>1, <1>3, <1>6 DEF BeginShare, Begin
<1>7. CASE BeginRevoke(q)
  BY <1>1, <1>3, <1>7 DEF BeginRevoke, Begin
<1> QED BY <1>4, <1>5, <1>6, <1>7

LEMMA OneStep == StateInv /\ OneInv /\ [Next]_vars => OneInv'
<1> SUFFICES ASSUME StateInv, OneInv, [Next]_vars PROVE OneInv'
  OBVIOUS
<1>0. req \in [Requests -> Handlers] /\ shares \subseteq Shares
  BY DEF StateInv, TypeOK, Handlers, Shares
<1>1. ASSUME NEW q \in Requests, Upsert(q) PROVE OneInv'
  <2>1. /\ req[q].at = "upsert" /\ \A p \in Requests : p # q => req'[p] = req[p]
        /\ \A p \in Requests : req'[p].file = req[p].file /\ req'[p].to = req[p].to
    BY <1>0, <1>1 DEF Upsert, Matching, Handlers
  <2>2. \A p \in Requests : Pair(p)' = Pair(p)
    BY <2>1 DEF Pair
  <2>3. CASE SharesOf(req[q].file, req[q].to) = {}
    <3>1. /\ shares' = shares /\ doubled \subseteq doubled'
          /\ \A p \in Requests : req[p].at = "insert" /\ Pair(p) = Pair(q) => Pair(q) \in doubled'
      BY <1>1, <2>3 DEF Upsert, Matching
    <3>2. OneSharePerRecipient'
      BY <3>1 DEF OneInv, OneSharePerRecipient
    <3>3. ASSUME NEW p \in Requests, req'[p].at = "insert", Pair(p) \notin doubled'
          PROVE  /\ SharesOf(req[p].file, req[p].to) = {}
                 /\ \A r \in Requests : req'[r].at = "insert" /\ Pair(r) = Pair(p) => r = p
      <4>1. CASE p = q
        BY <2>1, <2>3, <3>1, <3>3, <4>1
      <4>2. CASE p # q
        <5>1. req[p].at = "insert" /\ Pair(p) \notin doubled
          BY <2>1, <3>1, <3>3, <4>2
        <5>2. ASSUME NEW r \in Requests, req'[r].at = "insert", Pair(r) = Pair(p) PROVE r = p
          <6>1. r # q
            BY <3>1, <3>3, <5>1, <5>2
          <6> QED BY <2>1, <5>1, <5>2, <6>1 DEF OneInv
        <5> QED BY <5>1, <5>2 DEF OneInv
      <4> QED BY <4>1, <4>2
    <3> QED BY <2>1, <2>2, <3>1, <3>2, <3>3 DEF OneInv, SharesOf
  <2>4. CASE SharesOf(req[q].file, req[q].to) # {}
    <3>1. PICK s \in shares : /\ s.file = req[q].file /\ s.to = req[q].to
                              /\ shares' = (shares \ {s}) \cup {ShareRecord(q)}
      BY <1>1, <2>4 DEF Upsert, Matching, SharesOf
    <3>2. /\ doubled' = doubled /\ req'[q].at # "insert"
          /\ ShareRecord(q).file = s.file /\ ShareRecord(q).to = s.to
      BY <1>0, <1>1, <2>4, <3>1 DEF Upsert, Matching, ShareRecord, Handlers
    <3>3. OneSharePerRecipient'
      BY <3>1, <3>2 DEF OneInv, OneSharePerRecipient
    <3>4. \A p \in Requests : req'[p].at = "insert" => req[p].at = "insert"
      BY <2>1, <3>2
    <3>5. \A p \in Requests : SharesOf(req[p].file, req[p].to) = {} => SharesOf(req[p].file, req[p].to)' = {}
      BY <2>1, <3>1, <3>2 DEF SharesOf
    <3> QED BY <2>1, <2>2, <3>2, <3>3, <3>4, <3>5 DEF OneInv
  <2> QED BY <2>3, <2>4
<1>2. ASSUME NEW q \in Requests, Insert(q) PROVE OneInv'
  <2>1. /\ req[q].at = "insert" /\ req'[q].at = "note_shared" /\ doubled' = doubled
        /\ \A p \in Requests : p # q => req'[p] = req[p]
        /\ \A p \in Requests : req'[p].file = req[p].file /\ req'[p].to = req[p].to
        /\ shares' = shares \cup {ShareRecord(q)}
    BY <1>0, <1>2 DEF Insert, Handlers, history
  <2>2. ShareRecord(q).file = req[q].file /\ ShareRecord(q).to = req[q].to
    BY DEF ShareRecord
  <2>3. OneSharePerRecipient'
    <3>1. <<req[q].file, req[q].to>> \notin doubled => SharesOf(req[q].file, req[q].to) = {}
      BY <2>1 DEF OneInv, Pair
    <3> QED BY <2>1, <2>2, <3>1 DEF OneInv, OneSharePerRecipient, SharesOf
  <2>4. ASSUME NEW p \in Requests, req'[p].at = "insert", Pair(p)' \notin doubled'
        PROVE  /\ SharesOf(req[p].file, req[p].to)' = {}
               /\ \A r \in Requests : req'[r].at = "insert" /\ Pair(r)' = Pair(p)' => r = p
    <3>1. /\ p # q /\ req[p].at = "insert" /\ Pair(p) \notin doubled
          /\ \A r \in Requests : Pair(r)' = Pair(r)
      BY <2>1, <2>4 DEF Pair
    <3>2. Pair(p) # Pair(q)
      BY <2>1, <3>1 DEF OneInv
    <3> QED BY <2>1, <2>2, <3>1, <3>2 DEF OneInv, SharesOf, Pair
  <2> QED BY <2>3, <2>4 DEF OneInv
<1>3. ASSUME doubled' = doubled,
             \A p \in Requests : req'[p].at = "insert" => req'[p] = req[p],
             \/ shares' = shares
             \/ \E S \in SUBSET shares : shares' = Revoked(S)
      PROVE  OneInv'
  <2>1. \E S \in SUBSET shares : \A s \in shares' : \E t \in shares :
          s.file = t.file /\ s.to = t.to /\ s = IF t \in S THEN [t EXCEPT !.active = FALSE] ELSE t
    <3>1. CASE shares' = shares
      <4>1. \A s \in shares' : \E t \in shares :
              s.file = t.file /\ s.to = t.to /\ s = IF t \in {} THEN [t EXCEPT !.active = FALSE] ELSE t
        BY <3>1
      <4>2. {} \in SUBSET shares
        OBVIOUS
      <4> QED BY <4>1, <4>2
    <3>2. ASSUME NEW S \in SUBSET shares, shares' = Revoked(S)
          PROVE  \A s \in shares' : \E t \in shares :
                   s.file = t.file /\ s.to = t.to /\ s = IF t \in S THEN [t EXCEPT !.active = FALSE] ELSE t
      BY <1>0, <3>2 DEF Revoked, Shares
    <3> QED BY <1>3, <3>1, <3>2
  <2>2. PICK S \in SUBSET shares : \A s \in shares' : \E t \in shares :
          s.file = t.file /\ s.to = t.to /\ s = IF t \in S THEN [t EXCEPT !.active = FALSE] ELSE t
    BY <2>1
  <2>3. OneSharePerRecipient'
    <3> SUFFICES ASSUME NEW u \in shares', NEW v \in shares',
                        u.file = v.file, u.to = v.to, <<u.file, u.to>> \notin doubled
                 PROVE  u = v
      BY <1>3 DEF OneSharePerRecipient
    <3>1. PICK t \in shares : /\ u.file = t.file /\ u.to = t.to
                              /\ u = IF t \in S THEN [t EXCEPT !.active = FALSE] ELSE t
      BY <2>2
    <3>2. PICK w \in shares : /\ v.file = w.file /\ v.to = w.to
                              /\ v = IF w \in S THEN [w EXCEPT !.active = FALSE] ELSE w
      BY <2>2
    <3>3. t = w
      BY <3>1, <3>2 DEF OneInv, OneSharePerRecipient
    <3> QED BY <3>1, <3>2, <3>3
  <2>4. ASSUME NEW p \in Requests, req'[p].at = "insert", Pair(p)' \notin doubled'
        PROVE  /\ SharesOf(req[p].file, req[p].to)' = {}
               /\ \A r \in Requests : req'[r].at = "insert" /\ Pair(r)' = Pair(p)' => r = p
    <3>1. \A r \in Requests : req'[r].at = "insert" => req'[r] = req[r] /\ Pair(r)' = Pair(r)
      BY <1>3 DEF Pair
    <3>2. /\ SharesOf(req[p].file, req[p].to) = {}
          /\ \A r \in Requests : req[r].at = "insert" /\ Pair(r) = Pair(p) => r = p
      BY <1>3, <2>4, <3>1 DEF OneInv
    <3> QED BY <2>2, <2>4, <3>1, <3>2 DEF SharesOf
  <2> QED BY <2>3, <2>4 DEF OneInv
<1>4. CASE UNCHANGED vars
  BY <1>3, <1>4 DEF vars, history
<1>5. ASSUME NEW f \in Files, InitUpload(f) PROVE OneInv'
  BY <1>3, <1>5 DEF InitUpload, history
<1>6. ASSUME NEW q \in Requests,
             \/ \E f \in Files : BeginUpload(q, f) \/ BeginDelete(q, f)
             \/ \E f \in Files, to \in Recipients : BeginShare(q, f, to)
             \/ BeginRevoke(q)
      PROVE  OneInv'
  <2>1. /\ UNCHANGED <<shares, history>> /\ req'[q].at # "insert"
        /\ \A p \in Requests : p # q => req'[p] = req[p]
    BY <1>6, Begun
  <2> QED BY <1>3, <2>1 DEF history
<1>7. ASSUME NEW q \in Requests, Continue(q) \/ HandlerDies(q), ~Upsert(q), ~Insert(q)
      PROVE  OneInv'
  <2>1. \A p \in Requests : req'[p].at = "insert" => req'[p] = req[p]
    BY <1>7, Continued
  <2>2. doubled' = doubled
    BY <1>7 DEF Continue, Store, RevokeAll, Revokes, FindShare, RevokeShare, Record, HandlerDies, history
  <2>3. CASE RevokeAll(q)
    <3>1. ActiveShares(req[q].file) \in SUBSET shares
      BY DEF ActiveShares
    <3> QED BY <1>3, <2>1, <2>2, <2>3, <3>1 DEF RevokeAll
  <2>4. CASE RevokeShare(q)
    <3> DEFINE found == {s \in shares : s.id = req[q].id /\ s.active}
    <3>1. shares' = shares \/ \E s \in found : shares' = Revoked({s})
      BY <2>4 DEF RevokeShare
    <3>2. \A s \in found : {s} \in SUBSET shares
      OBVIOUS
    <3> QED BY <1>3, <2>1, <2>2, <3>1, <3>2
  <2>5. CASE shares' = shares
    BY <1>3, <2>1, <2>2, <2>5
  <2> QED BY <1>7, <2>3, <2>4, <2>5 DEF Continue, Store, FindShare, Record, HandlerDies
<1> QED BY <1>1, <1>2, <1>4, <1>5, <1>6, <1>7 DEF Next, Continue

LEMMA DeletedStep == StateInv /\ DeletedInv /\ [Next]_vars => DeletedInv'
<1> SUFFICES ASSUME StateInv, DeletedInv, [Next]_vars,
                    NEW f \in Files, f \notin overtaken', f \notin halfDeleted', status'[f] = "deleted",
                    \A q \in Requests : req'[q].at = "revoke_all" => req'[q].file # f
             PROVE  /\ \A q \in Requests : req'[q].at \in {"find", "upsert", "insert"} => req'[q].file # f
                    /\ \A s \in shares' : s.file = f => ~s.active
  BY DEF DeletedInv, Sharers, ActiveShares
<1> DEFINE Done == /\ \A q \in Requests : req[q].at \in {"find", "upsert", "insert"} => req[q].file # f
                   /\ \A s \in shares : s.file = f => ~s.active
<1>0. /\ req \in [Requests -> Handlers] /\ shares \subseteq Shares
      /\ status \in [Files -> {"absent", "pending_upload", "ready", "deleted"}]
  BY DEF StateInv, TypeOK, Handlers, Shares
<1>1. ASSUME f \notin overtaken, f \notin halfDeleted, status[f] = "deleted",
             \A q \in Requests : req[q].at = "revoke_all" => req[q].file # f
      PROVE  Done
  BY <1>1 DEF DeletedInv, Sharers, ActiveShares
<1>2. CASE UNCHANGED vars
  BY <1>1, <1>2 DEF vars, history
<1>3. ASSUME NEW g \in Files, InitUpload(g)
      PROVE  UNCHANGED <<req, shares>> /\ Done
  <2>1. UNCHANGED <<req, shares, history>> /\ status[f] = "deleted"
    BY <1>0, <1>3 DEF InitUpload
  <2> QED BY <1>1, <2>1 DEF history
<1>4. ASSUME NEW q \in Requests,
             \/ \E g \in Files : BeginUpload(q, g) \/ BeginDelete(q, g)
             \/ \E g \in Files, to \in Recipients : BeginShare(q, g, to)
             \/ BeginRevoke(q)
      PROVE  /\ \A p \in Requests : req'[p].at \in {"find", "upsert", "insert"} => req'[p].file # f
             /\ \A s \in shares' : s.file = f => ~s.active
  <2>1. /\ req[q].at = "idle" /\ UNCHANGED <<shares, history>>
        /\ \A p \in Requests : p # q => req'[p] = req[p]
        /\ req'[q].at \in {"store", "revoke_all", "find", "revoke"}
        /\ status'[f] # status[f] => req'[q].at = "revoke_all" /\ req'[q].file = f
        /\ req'[q].at = "find" => status[req'[q].file] = "ready" /\ status' = status
    BY <1>4, Begun
  <2>2. Done
    BY <1>1, <2>1 DEF history
  <2> QED BY <2>1, <2>2
<1>5. ASSUME NEW q \in Requests, RevokeAll(q), req[q].file = f
      PROVE  /\ \A p \in Requests : req'[p].at \in {"find", "upsert", "insert"} => req'[p].file # f
             /\ \A s \in shares' : s.file = f => ~s.active
  <2>1. Sharers(f) = {} /\ req'[q].at = "note_deleted" /\ \A p \in Requests : p # q => req'[p] = req[p]
    BY <1>0, <1>5 DEF RevokeAll, Revokes, Handlers
  <2>2. \A s \in shares' : s.file = f => ~s.active
    BY <1>0, <1>5 DEF RevokeAll, Revoked, ActiveShares, Shares
  <2> QED BY <2>1, <2>2 DEF Sharers
<1>6. ASSUME NEW q \in Requests, Continue(q) \/ HandlerDies(q), ~(RevokeAll(q) /\ req[q].file = f)
      PROVE  /\ \A p \in Requests : req'[p].at \in {"find", "upsert", "insert"} => req'[p].file # f
             /\ \A s \in shares' : s.file = f => ~s.active
  <2>1. /\ req[q].file \in Files
        /\ \A p \in Requests : p # q => req'[p] = req[p]
        /\ req'[q] = Idle \/ req'[q].file = req[q].file
        /\ req'[q].at \in {"find", "upsert", "insert"} => req[q].at \in {"find", "upsert"}
    BY <1>6, Continued
  <2>2. status[f] = "deleted"
    <3>1. CASE Store(q)
      BY <1>0, <2>1, <3>1 DEF Store
    <3>2. CASE ~Store(q)
      BY <1>6, <3>2 DEF Continue, RevokeAll, FindShare, Upsert, Matching, Insert, RevokeShare, Record, HandlerDies
    <3> QED BY <3>1, <3>2
  <2>3. f \notin overtaken /\ f \notin halfDeleted
    BY <1>6, <2>1 DEF Continue, Store, RevokeAll, Revokes, FindShare, Upsert, Matching, Insert, RevokeShare,
       Record, HandlerDies, history
  <2>4. \A p \in Requests : req[p].at = "revoke_all" => req[p].file # f
    <3>1. CASE req[q].at = "revoke_all" /\ req[q].file = f
      <4>1. HandlerDies(q)
        BY <1>6, <3>1 DEF Continue, Store, FindShare, Upsert, Matching, Insert, RevokeShare, Record, EventOf
      <4> QED BY <3>1, <4>1 DEF HandlerDies
    <3>2. CASE ~(req[q].at = "revoke_all" /\ req[q].file = f)
      BY <2>1, <3>2
    <3> QED BY <3>1, <3>2
  <2>5. Done
    BY <1>1, <2>2, <2>3, <2>4
  <2>6. \A s \in shares' : s.file = f => ~s.active
    <3>1. CASE Upsert(q) \/ Insert(q)
      <4>1. req[q].file # f
        BY <2>5, <3>1 DEF Upsert, Matching, Insert
      <4>2. \A s \in shares' : s \in shares \/ s.file = req[q].file
        BY <3>1 DEF Upsert, Matching, Insert, ShareRecord
      <4> QED BY <2>5, <4>1, <4>2
    <3>2. CASE RevokeAll(q) \/ RevokeShare(q)
      BY <1>0, <2>5, <3>2 DEF RevokeAll, RevokeShare, Revoked, ActiveShares, Shares
    <3> QED BY <1>6, <2>5, <3>1, <3>2 DEF Continue, Store, FindShare, Record, HandlerDies
  <2> QED BY <2>1, <2>5, <2>6, IdleType
<1> QED BY <1>2, <1>3, <1>4, <1>5, <1>6, <1>1 DEF Next, vars, history

LEMMA ShareAlways == Spec => []ShareInv
<1>1. Init => ShareInv
  <2> SUFFICES ASSUME Init PROVE ShareInv
    OBVIOUS
  <2>1. \A q \in Requests : req[q] = Idle
    BY DEF Init
  <2> QED BY <2>1, IdleType DEF Init, ShareInv, OneInv, OneSharePerRecipient, DeletedInv
<1>2. StateInv /\ ShareInv /\ [Next]_vars => ShareInv'
  BY OneStep, DeletedStep DEF ShareInv
<1> QED BY <1>1, <1>2, StateAlways, PTL DEF Spec

\* A recipient never has two shares of a file, one of which would outlive the
\* revocation of the other, whatever the handlers of the file do and however they die,
\* but when two of them were inserting that share at once.
THEOREM OneShareEach == Spec => []OneSharePerRecipient
<1>1. ShareInv => OneSharePerRecipient
  BY DEF ShareInv, OneInv
<1> QED BY <1>1, ShareAlways, PTL

\* Once the deletions of a file have come to its shares none of them is active, unless a
\* handler that had found the file ready wrote its share later, or the last deletion
\* died before it revoked them.
THEOREM DeletionRevokesShares == Spec => []DeletedRevokesShares
<1>1. ShareInv => DeletedRevokesShares
  BY DEF ShareInv, DeletedInv, DeletedRevokesShares
<1> QED BY <1>1, ShareAlways, PTL

=============================================================================
