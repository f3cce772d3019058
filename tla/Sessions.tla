------------------------------ MODULE Sessions ------------------------------
(***************************************************************************)
(* Sign-in and sessions: nonces, their verification, and the requests that *)
(* a session authenticates, as handlers whose database calls interleave.   *)
(* A message is the wallet and the nonce it names; whether its signature   *)
(* is the wallet's is settled when it is looked at.                        *)
(***************************************************************************)
EXTENDS Naturals, Sequences, FiniteSets

CONSTANTS
  Wallets,
  Requests,     \* handlers that may be in progress at the same time
  NonceTTL, SessionTTL,
  TestAuth,     \* enable_test_auth, outside production
  MaxNonces, MaxSessions, MaxTime,  \* bounds on what is drawn, and on the clock
  None          \* null

ASSUME SessionsAssumption ==
  /\ None \notin Wallets
  /\ TestAuth \in BOOLEAN
  /\ {NonceTTL, SessionTTL, MaxNonces, MaxSessions, MaxTime} \subseteq Nat

Nonces   == 1..MaxNonces
NoNonce  == 0
Ids      == 1..MaxSessions
NoId     == 0
Expiries == 0..(MaxTime + NonceTTL + SessionTTL)

VARIABLES
  now,
  nonces, users, sessions,  \* the collections
  req,                      \* handlers in progress
  drawn,                    \* how many nonces there have been
  signIns,                  \* history: wallet and nonce of every session opened
  waiting,                  \* history: the nonce record written last, per wallet, unless spent
  \* history: wallets two handlers of which were inserting a nonce at once; nonces
  \* accepted twice before either sign-in had deleted one; wallets whose nonce was last
  \* written while a sign-in was about to delete the one before
  doubled, contested, overtaken

history == <<doubled, contested, overtaken>>
vars == <<now, nonces, users, sessions, req, drawn, signIns, waiting, history>>

Idle == [at |-> "idle", wallet |-> None, nonce |-> NoNonce, expires |-> 0, id |-> NoId]

NonceSteps == {"upsert", "insert", "find", "delete"}
Steps == {"idle", "user", "open", "session", "who", "logout"} \cup NonceSteps

NonceOf(r) == [wallet |-> r.wallet, nonce |-> r.nonce, expires |-> r.expires]
NoncesOf(w) == {n \in nonces : n.wallet = w}

NoRecord == NonceOf(Idle)

Init ==
  /\ now = 0
  /\ nonces = {} /\ users = {} /\ sessions = {}
  /\ req = [q \in Requests |-> Idle]
  /\ drawn = 0 /\ signIns = << >>
  /\ waiting = [w \in Wallets |-> NoRecord]
  /\ doubled = {} /\ contested = {} /\ overtaken = {}

Tick ==
  /\ now < MaxTime
  /\ now' = now + 1
  /\ UNCHANGED <<nonces, users, sessions, req, drawn, signIns, waiting, history>>

Begin(q, r) ==
  /\ req[q] = Idle
  /\ req' = [req EXCEPT ![q] = r]
  /\ UNCHANGED <<now, nonces, users, sessions, signIns, waiting, history>>

\* Handlers of w at this step.
At(step, w) == {p \in Requests : req[p].at = step /\ req[p].wallet = w}

-----------------------------------------------------------------------------
(* POST /siwe/nonce *)

BeginIssue(q, w) ==
  /\ drawn < MaxNonces
  /\ Begin(q, [Idle EXCEPT !.at = "upsert", !.wallet = w,
                           !.nonce = drawn + 1, !.expires = now + NonceTTL])
  /\ drawn' = drawn + 1

\* The nonce is written, and answered: its wallet may sign it from now on.  (A handler
\* that dies before its answer leaves the nonce in force all the same.)
Written(q) ==
  LET w == req[q].wallet IN
  /\ req' = [req EXCEPT ![q] = Idle]
  /\ waiting' = [waiting EXCEPT ![w] = NonceOf(req[q])]
  /\ overtaken' = IF At("delete", w) # {} THEN overtaken \cup {w} ELSE overtaken \ {w}
  /\ UNCHANGED <<now, users, sessions, drawn, signIns, doubled, contested>>

\* Faulty variant of ReplaceNonce: the nonce in force is kept.
KeepNonce(q) ==
  /\ req[q].at = "upsert"
  /\ NoncesOf(req[q].wallet) # {}
  /\ UNCHANGED nonces
  /\ Written(q)

\* update_one with upsert: one record of the wallet is overwritten ...
ReplaceNonce(q) ==
  /\ req[q].at = "upsert"
  /\ \E n \in NoncesOf(req[q].wallet) : nonces' = (nonces \ {n}) \cup {NonceOf(req[q])}
  /\ Written(q)

\* ... or, when there is none, inserted, as another upsert may be doing meanwhile:
\* no unique index is declared.
NoNonceYet(q) ==
  /\ req[q].at = "upsert"
  /\ NoncesOf(req[q].wallet) = {}
  /\ req' = [req EXCEPT ![q].at = "insert"]
  /\ doubled' = doubled \cup {w \in {req[q].wallet} : At("insert", w) # {}}
  /\ UNCHANGED <<now, nonces, users, sessions, drawn, signIns, waiting, contested, overtaken>>

InsertNonce(q) ==
  /\ req[q].at = "insert"
  /\ nonces' = nonces \cup {NonceOf(req[q])}
  /\ Written(q)

-----------------------------------------------------------------------------
(* POST /siwe/verify, and POST /test-login *)

BeginVerify(q, w, n) ==
  /\ Begin(q, [Idle EXCEPT !.at = "find", !.wallet = w, !.nonce = n])
  /\ UNCHANGED drawn

\* The message names the wallet's nonce, which has not expired.
Matches(r, n) == n.nonce = r.nonce /\ n.expires >= now

\* Faulty variant of AcceptNonce: the nonce is left to expire.
AcceptKeepsNonce(q) ==
  /\ req[q].at = "find"
  /\ \E n \in NoncesOf(req[q].wallet) : Matches(req[q], n)
  /\ req' = [req EXCEPT ![q].at = "user"]
  /\ waiting' = [waiting EXCEPT ![req[q].wallet] =
                   IF @.nonce = req[q].nonce THEN NoRecord ELSE @]
  /\ UNCHANGED <<now, nonces, users, sessions, drawn, signIns, history>>

\* find_one may return any of the wallet's records; the signature is the wallet's.
AcceptNonce(q) ==
  /\ req[q].at = "find"
  /\ \E n \in NoncesOf(req[q].wallet) : Matches(req[q], n)
  /\ req' = [req EXCEPT ![q].at = "delete"]
  /\ waiting' = [waiting EXCEPT ![req[q].wallet] =
                   IF @.nonce = req[q].nonce THEN NoRecord ELSE @]
  /\ contested' = contested \cup
       {n \in {req[q].nonce} : \E p \in At("delete", req[q].wallet) : req[p].nonce = n}
  /\ UNCHANGED <<now, nonces, users, sessions, drawn, signIns, doubled, overtaken>>

\* 401: there is no such nonce, or the signature is not the wallet's.
RejectNonce(q) ==
  /\ req[q].at = "find"
  /\ req' = [req EXCEPT ![q] = Idle]
  /\ UNCHANGED <<now, nonces, users, sessions, drawn, signIns, waiting, history>>

\* delete_one by the wallet alone, whichever nonce its record has by now.
DeleteNonce(q) ==
  /\ req[q].at = "delete"
  /\ IF NoncesOf(req[q].wallet) = {}
       THEN UNCHANGED nonces
       ELSE \E n \in NoncesOf(req[q].wallet) : nonces' = nonces \ {n}
  /\ req' = [req EXCEPT ![q].at = "user"]
  /\ UNCHANGED <<now, users, sessions, drawn, signIns, waiting, history>>

BeginTestLogin(q, w) ==
  /\ TestAuth
  /\ Begin(q, [Idle EXCEPT !.at = "user", !.wallet = w])
  /\ UNCHANGED drawn

\* Faulty variant of UpsertUser: the user is written when the session is looked up.
UpsertUserLater(q) ==
  /\ req[q].at = "user"
  /\ req' = [req EXCEPT ![q].at = "open"]
  /\ UNCHANGED <<now, nonces, users, sessions, drawn, signIns, waiting, history>>

UpsertUser(q) ==
  /\ req[q].at = "user"
  /\ users' = users \cup {req[q].wallet}
  /\ req' = [req EXCEPT ![q].at = "open"]
  /\ UNCHANGED <<now, nonces, sessions, drawn, signIns, waiting, history>>

\* create_session
OpenSession(q) ==
  /\ req[q].at = "open"
  /\ Len(signIns) < MaxSessions
  /\ sessions' = sessions \cup
       {[id |-> Len(signIns) + 1, wallet |-> req[q].wallet, expires |-> now + SessionTTL]}
  /\ signIns' = Append(signIns, [wallet |-> req[q].wallet, nonce |-> req[q].nonce])
  /\ req' = [req EXCEPT ![q] = Idle]
  /\ UNCHANGED <<now, nonces, users, drawn, waiting, history>>

-----------------------------------------------------------------------------
(* Requests with a session cookie: current_user, then the handler *)

BeginWithCookie(q, id) ==
  /\ Begin(q, [Idle EXCEPT !.at = "session", !.id = id])
  /\ UNCHANGED drawn

Live(id) == {s \in sessions : s.id = id /\ s.expires >= now}

FindSession(q) ==
  /\ req[q].at = "session"
  /\ req' = [req EXCEPT ![q] =
       IF Live(req[q].id) = {} THEN Idle
       ELSE [@ EXCEPT !.at = "who", !.wallet = (CHOOSE s \in Live(req[q].id) : TRUE).wallet]]
  /\ UNCHANGED <<now, nonces, users, sessions, drawn, signIns, waiting, history>>

\* The request is answered as the user's (/me and every other route), or goes on to
\* sign out; without a user record it is refused.
FindUser(q) ==
  /\ req[q].at = "who"
  /\ \/ req' = [req EXCEPT ![q] = Idle]
     \/ req[q].wallet \in users /\ req' = [req EXCEPT ![q].at = "logout"]
  /\ UNCHANGED <<now, nonces, users, sessions, drawn, signIns, waiting, history>>

ClearSession(q) ==
  /\ req[q].at = "logout"
  /\ sessions' = {s \in sessions : s.id # req[q].id}
  /\ req' = [req EXCEPT ![q] = Idle]
  /\ UNCHANGED <<now, nonces, users, drawn, signIns, waiting, history>>

\* The process dies, or a database call raises.
HandlerDies(q) ==
  /\ req[q] # Idle
  /\ req' = [req EXCEPT ![q] = Idle]
  /\ UNCHANGED <<now, nonces, users, sessions, drawn, signIns, waiting, history>>

-----------------------------------------------------------------------------

Continue(q) ==
  \/ ReplaceNonce(q) \/ NoNonceYet(q) \/ InsertNonce(q)
  \/ AcceptNonce(q) \/ RejectNonce(q) \/ DeleteNonce(q)
  \/ UpsertUser(q) \/ OpenSession(q)
  \/ FindSession(q) \/ FindUser(q) \/ ClearSession(q)

Next ==
  \/ Tick
  \/ \E q \in Requests :
       \/ \E w \in Wallets : BeginIssue(q, w) \/ BeginTestLogin(q, w)
       \/ \E w \in Wallets, n \in 1..drawn : BeginVerify(q, w, n)
       \/ \E id \in DOMAIN signIns : BeginWithCookie(q, id)
       \/ Continue(q) \/ HandlerDies(q)

Spec == Init /\ [][Next]_vars

-----------------------------------------------------------------------------
(* Properties *)

NonceRecords == [wallet : Wallets, nonce : Nonces, expires : Expiries]

TypeOK ==
  /\ now \in 0..MaxTime
  /\ nonces \subseteq NonceRecords
  /\ users \subseteq Wallets
  /\ sessions \subseteq [id : Ids, wallet : Wallets, expires : Expiries]
  /\ req \in [Requests -> [at : Steps, wallet : Wallets \cup {None},
                           nonce : Nonces \cup {NoNonce}, expires : Expiries,
                           id : Ids \cup {NoId}]]
  /\ drawn \in 0..MaxNonces
  /\ signIns \in Seq([wallet : Wallets, nonce : Nonces \cup {NoNonce}])
  /\ Len(signIns) <= MaxSessions
  /\ waiting \in [Wallets -> NonceRecords \cup {NoRecord}]
  /\ doubled \subseteq Wallets /\ contested \subseteq Nonces /\ overtaken \subseteq Wallets

\* A signed message signs in once: no nonce has opened two sessions, however its
\* wallet's nonce requests and sign-ins interleave and whichever handlers die between
\* their steps.  The exceptions are a nonce that two sign-ins accepted before either
\* had deleted it, and a wallet two handlers of which were inserting a nonce at once.
NonceUsedOnce ==
  \A i, j \in DOMAIN signIns :
    /\ signIns[i] = signIns[j] /\ signIns[i].nonce # NoNonce
    /\ signIns[i].wallet \notin doubled /\ signIns[i].nonce \notin contested
    => i = j

\* A wallet can use the nonce written for it last, until that expires: the nonce is on
\* record until it is spent, and no other of the wallet is, whatever handlers do
\* meanwhile.  The exceptions are a nonce that was written while a sign-in was about to
\* delete the one before, until the next is written, and the wallets above.
LastNonceWaits ==
  \A w \in Wallets \ (doubled \cup overtaken) :
    waiting[w] # NoRecord => NoncesOf(w) = {waiting[w]}

\* "Unknown session user" is answered to nobody: a session's user exists, whatever
\* handlers interleave or die, so that every live session authenticates.
SessionHasUser == \A s \in sessions : s.wallet \in users

=============================================================================
