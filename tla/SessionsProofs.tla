--------------------------- MODULE SessionsProofs ---------------------------
(***************************************************************************)
(* Proofs about Sessions, for any wallets, handlers, lifetimes and bounds: *)
(* a session has a user, a nonce opens one session, and the nonce written  *)
(* for a wallet last is the one on record.                                 *)
(***************************************************************************)
EXTENDS Sessions, TLAPS

Handlers == [at : Steps, wallet : Wallets \cup {None}, nonce : Nonces \cup {NoNonce},
             expires : Expiries, id : Ids \cup {NoId}]

SigningIn == {"user", "open"}

\* What a handler carries at its step.
HandlerInv ==
  \A q \in Requests :
    /\ req[q].at = "idle" => req[q] = Idle
    /\ req[q].at \notin {"idle", "session"} => req[q].wallet \in Wallets
    /\ req[q].at \in NonceSteps => req[q].nonce \in 1..drawn

\* Users are written before what refers to them.
UserInv ==
  /\ SessionHasUser
  /\ \A q \in Requests : req[q].at = "open" => req[q].wallet \in users

StateInv == TypeOK /\ HandlerInv /\ UserInv

-----------------------------------------------------------------------------

LEMMA Bounds ==
  /\ MaxNonces \in Nat /\ MaxSessions \in Nat /\ MaxTime \in Nat
  /\ NonceTTL \in Nat /\ SessionTTL \in Nat
  /\ \A n \in Nat : n <= MaxTime => n + NonceTTL \in Expiries /\ n + SessionTTL \in Expiries
  /\ 0 \in Expiries
<1>1. /\ MaxNonces \in Nat /\ MaxSessions \in Nat /\ MaxTime \in Nat
      /\ NonceTTL \in Nat /\ SessionTTL \in Nat
  BY SessionsAssumption
<1>2. \A a, b, c, n \in Nat : n <= a => n + b \in 0..(a + b + c) /\ n + c \in 0..(a + b + c)
  OBVIOUS
<1>3. \A a, b, c \in Nat : 0 \in 0..(a + b + c)
  OBVIOUS
<1> QED BY <1>1, <1>2, <1>3 DEF Expiries

LEMMA IdleType ==
  /\ Idle \in Handlers /\ Idle.at = "idle" /\ Idle.wallet = None /\ Idle.nonce = NoNonce
  /\ NoRecord.wallet = None /\ NoRecord.nonce = NoNonce /\ None \notin Wallets
BY SessionsAssumption, Bounds DEF Idle, Handlers, Steps, NoNonce, NoId, NoRecord, NonceOf

\* A handler moves on to another step, or ends; the others stay where they are.
LEMMA Moves ==
  ASSUME req \in [Requests -> Handlers], NEW q \in Requests, NEW a \in Steps,
         req' = [req EXCEPT ![q].at = a]
  PROVE  /\ req' \in [Requests -> Handlers]
         /\ req'[q].at = a /\ req'[q].wallet = req[q].wallet /\ req'[q].nonce = req[q].nonce
         /\ \A p \in Requests : p # q => req'[p] = req[p]
<1>1. req' = [req EXCEPT ![q] = [req[q] EXCEPT !.at = a]]
  OBVIOUS
<1>2. [req[q] EXCEPT !.at = a] \in Handlers
  BY DEF Handlers
<1>3. /\ [req[q] EXCEPT !.at = a].at = a
      /\ [req[q] EXCEPT !.at = a].wallet = req[q].wallet
      /\ [req[q] EXCEPT !.at = a].nonce = req[q].nonce
  BY DEF Handlers
<1> QED BY <1>1, <1>2, <1>3

LEMMA Ends ==
  ASSUME req \in [Requests -> Handlers], NEW q \in Requests, req' = [req EXCEPT ![q] = Idle]
  PROVE  /\ req' \in [Requests -> Handlers]
         /\ req'[q] = Idle /\ \A p \in Requests : p # q => req'[p] = req[p]
BY IdleType

\* Nonces are drawn and users written, never taken back.
LEMMA StateKept ==
  ASSUME StateInv, NEW q \in Requests, req' \in [Requests -> Handlers],
         \A p \in Requests : p # q => req'[p] = req[p],
         drawn' \in 0..MaxNonces, drawn <= drawn', users \subseteq users',
         req'[q].at = "idle" => req'[q] = Idle,
         req'[q].at \notin {"idle", "session"} => req'[q].wallet \in Wallets,
         req'[q].at \in NonceSteps => req'[q].nonce \in 1..drawn',
         req'[q].at = "open" => req'[q].wallet \in users',
         \A s \in sessions' : s \in sessions \/ s.wallet \in users'
  PROVE  HandlerInv' /\ UserInv'
<1>1. \A n : n \in 1..drawn => n \in 1..drawn'
  BY Bounds DEF StateInv, TypeOK
<1> QED BY <1>1 DEF StateInv, HandlerInv, UserInv, SessionHasUser

LEMMA BeginStep ==
  ASSUME StateInv, NEW q \in Requests,
         \/ \E w \in Wallets : BeginIssue(q, w) \/ BeginTestLogin(q, w)
         \/ \E w \in Wallets, n \in 1..drawn : BeginVerify(q, w, n)
         \/ \E id \in DOMAIN signIns : BeginWithCookie(q, id)
  PROVE  StateInv'
<1>0. /\ req \in [Requests -> Handlers] /\ drawn \in 0..MaxNonces
      /\ now \in Nat /\ now <= MaxTime
  BY Bounds DEF StateInv, TypeOK, Handlers
<1>1. PICK r \in Handlers :
        /\ Begin(q, r) /\ r.at \notin {"idle", "open"}
        /\ r.at = "session" \/ r.wallet \in Wallets
        /\ r.at \in NonceSteps => r.nonce \in 1..drawn'
        /\ drawn' \in 0..MaxNonces /\ drawn <= drawn'
  <2>1. ASSUME NEW w \in Wallets, BeginIssue(q, w)
        PROVE  \E r \in Handlers :
                 /\ Begin(q, r) /\ r.at \notin {"idle", "open"}
                 /\ r.at = "session" \/ r.wallet \in Wallets
                 /\ r.at \in NonceSteps => r.nonce \in 1..drawn'
                 /\ drawn' \in 0..MaxNonces /\ drawn <= drawn'
    <3> DEFINE r == [Idle EXCEPT !.at = "upsert", !.wallet = w,
                                 !.nonce = drawn + 1, !.expires = now + NonceTTL]
    <3>1. drawn + 1 \in Nonces /\ now + NonceTTL \in Expiries
      <4>1. drawn < MaxNonces
        BY <2>1 DEF BeginIssue
      <4> HIDE DEF r
      <4> QED BY <1>0, <4>1, Bounds DEF Nonces
    <3>2. r \in Handlers /\ r.at = "upsert" /\ r.wallet = w /\ r.nonce = drawn + 1
      BY <3>1, IdleType DEF Handlers, Steps, NonceSteps, Idle
    <3>3. Begin(q, r) /\ drawn' = drawn + 1 /\ drawn < MaxNonces
      BY <2>1 DEF BeginIssue
    <3> HIDE DEF r
    <3>4. drawn' \in 0..MaxNonces /\ drawn <= drawn' /\ drawn + 1 \in 1..drawn'
      BY <1>0, <3>3, Bounds
    <3> QED BY <3>2, <3>3, <3>4
  <2>2. ASSUME NEW w \in Wallets, BeginTestLogin(q, w)
        PROVE  \E r \in Handlers :
                 /\ Begin(q, r) /\ r.at \notin {"idle", "open"}
                 /\ r.at = "session" \/ r.wallet \in Wallets
                 /\ r.at \in NonceSteps => r.nonce \in 1..drawn'
                 /\ drawn' \in 0..MaxNonces /\ drawn <= drawn'
    <3> DEFINE r == [Idle EXCEPT !.at = "user", !.wallet = w]
    <3>1. r \in Handlers /\ r.at = "user" /\ r.wallet = w
      BY IdleType DEF Handlers, Steps, Idle
    <3>2. Begin(q, r) /\ drawn' = drawn
      BY <2>2 DEF BeginTestLogin
    <3> HIDE DEF r
    <3> QED BY <1>0, <3>1, <3>2, Bounds DEF NonceSteps
  <2>3. ASSUME NEW w \in Wallets, NEW n \in 1..drawn, BeginVerify(q, w, n)
        PROVE  \E r \in Handlers :
                 /\ Begin(q, r) /\ r.at \notin {"idle", "open"}
                 /\ r.at = "session" \/ r.wallet \in Wallets
                 /\ r.at \in NonceSteps => r.nonce \in 1..drawn'
                 /\ drawn' \in 0..MaxNonces /\ drawn <= drawn'
    <3> DEFINE r == [Idle EXCEPT !.at = "find", !.wallet = w, !.nonce = n]
    <3>0. n \in Nonces
      BY <1>0, Bounds DEF Nonces
    <3>1. r \in Handlers /\ r.at = "find" /\ r.wallet = w /\ r.nonce = n
      BY <3>0, IdleType DEF Handlers, Steps, NonceSteps, Idle
    <3>2. Begin(q, r) /\ drawn' = drawn
      BY <2>3 DEF BeginVerify
    <3> HIDE DEF r
    <3> QED BY <1>0, <3>1, <3>2, Bounds
  <2>4. ASSUME NEW i \in DOMAIN signIns, BeginWithCookie(q, i)
        PROVE  \E r \in Handlers :
                 /\ Begin(q, r) /\ r.at \notin {"idle", "open"}
                 /\ r.at = "session" \/ r.wallet \in Wallets
                 /\ r.at \in NonceSteps => r.nonce \in 1..drawn'
                 /\ drawn' \in 0..MaxNonces /\ drawn <= drawn'
    <3> DEFINE r == [Idle EXCEPT !.at = "session", !.id = i]
    <3>0. i \in Ids
      <4>1. Len(signIns) \in Nat /\ Len(signIns) <= MaxSessions /\ i \in 1..Len(signIns)
        BY DEF StateInv, TypeOK
      <4> QED BY <4>1, Bounds DEF Ids
    <3>1. r \in Handlers /\ r.at = "session"
      BY <3>0, IdleType DEF Handlers, Steps, Idle
    <3>2. Begin(q, r) /\ drawn' = drawn
      BY <2>4 DEF BeginWithCookie
    <3> HIDE DEF r
    <3> QED BY <1>0, <3>1, <3>2, Bounds DEF NonceSteps
  <2> QED BY <2>1, <2>2, <2>3, <2>4
<1>2. /\ req' \in [Requests -> Handlers] /\ req'[q] = r
      /\ \A p \in Requests : p # q => req'[p] = req[p]
      /\ UNCHANGED <<now, nonces, users, sessions, signIns, waiting, history>>
  BY <1>0, <1>1 DEF Begin
<1>4. TypeOK'
  BY <1>1, <1>2 DEF StateInv, TypeOK, Handlers, history
<1>5. HandlerInv' /\ UserInv'
  BY <1>1, <1>2, StateKept
<1> QED BY <1>4, <1>5 DEF StateInv

LEMMA IssueStep ==
  ASSUME StateInv, NEW q \in Requests, ReplaceNonce(q) \/ NoNonceYet(q) \/ InsertNonce(q)
  PROVE  StateInv'
<1>0. /\ req \in [Requests -> Handlers] /\ drawn \in 0..MaxNonces
      /\ req[q].at \in {"upsert", "insert"}
  BY DEF StateInv, TypeOK, Handlers, ReplaceNonce, NoNonceYet, InsertNonce
<1>1. /\ req[q].wallet \in Wallets /\ req[q].nonce \in 1..drawn /\ req[q].nonce \in Nonces
  BY <1>0, Bounds DEF StateInv, HandlerInv, NonceSteps, Nonces
<1>2. NonceOf(req[q]) \in NonceRecords
  BY <1>0, <1>1 DEF NonceOf, NonceRecords, Handlers
<1>3. /\ UNCHANGED <<now, users, sessions, drawn, signIns, contested>>
      /\ \A n \in nonces' : n \in nonces \/ n = NonceOf(req[q])
      /\ \/ waiting' = waiting
         \/ waiting' = [waiting EXCEPT ![req[q].wallet] = NonceOf(req[q])]
      /\ doubled' \subseteq doubled \cup {req[q].wallet}
      /\ overtaken' \subseteq overtaken \cup {req[q].wallet}
  BY DEF ReplaceNonce, NoNonceYet, InsertNonce, Written
<1>4. /\ req' \in [Requests -> Handlers] /\ \A p \in Requests : p # q => req'[p] = req[p]
      /\ \/ req'[q] = Idle
         \/ req'[q].at = "insert" /\ req'[q].wallet = req[q].wallet /\ req'[q].nonce = req[q].nonce
  <2>1. CASE req' = [req EXCEPT ![q] = Idle]
    BY <1>0, <2>1, Ends
  <2>2. CASE req' = [req EXCEPT ![q].at = "insert"]
    <3>1. "insert" \in Steps
      BY DEF Steps, NonceSteps
    <3> QED BY <1>0, <2>2, <3>1, Moves
  <2> QED BY <2>1, <2>2 DEF ReplaceNonce, NoNonceYet, InsertNonce, Written
<1>5. TypeOK'
  BY <1>1, <1>2, <1>3, <1>4 DEF StateInv, TypeOK, Handlers
<1>6. HandlerInv' /\ UserInv'
  BY <1>0, <1>1, <1>3, <1>4, IdleType, Bounds, StateKept DEF NonceSteps
<1> QED BY <1>5, <1>6 DEF StateInv

\* The steps that open no session and look at no cookie.
LEMMA VerifyStep ==
  ASSUME StateInv, NEW q \in Requests,
         \/ AcceptNonce(q) \/ RejectNonce(q) \/ DeleteNonce(q) \/ UpsertUser(q)
         \/ ClearSession(q) \/ HandlerDies(q)
  PROVE  StateInv'
<1>0. /\ req \in [Requests -> Handlers] /\ drawn \in 0..MaxNonces
  BY DEF StateInv, TypeOK, Handlers
<1>1. /\ req' \in [Requests -> Handlers] /\ \A p \in Requests : p # q => req'[p] = req[p]
      /\ \/ req'[q] = Idle
         \/ /\ req'[q].wallet = req[q].wallet /\ req'[q].nonce = req[q].nonce
            /\ req'[q].at # "idle"
            /\ req'[q].at \in NonceSteps => req[q].at \in NonceSteps
            /\ req[q].at \in NonceSteps \cup SigningIn
            /\ req'[q].at = "open" => UpsertUser(q)
  <2>1. CASE req' = [req EXCEPT ![q] = Idle]
    BY <1>0, <2>1, Ends
  <2>2. CASE AcceptNonce(q)
    <3>1. req' = [req EXCEPT ![q].at = "delete"] /\ req[q].at = "find" /\ "delete" \in Steps
      BY <2>2 DEF AcceptNonce, Steps, NonceSteps
    <3> QED BY <1>0, <3>1, Moves DEF NonceSteps
  <2>3. CASE DeleteNonce(q)
    <3>1. req' = [req EXCEPT ![q].at = "user"] /\ req[q].at = "delete" /\ "user" \in Steps
      BY <2>3 DEF DeleteNonce, Steps
    <3> QED BY <1>0, <3>1, Moves DEF NonceSteps
  <2>4. CASE UpsertUser(q)
    <3>1. req' = [req EXCEPT ![q].at = "open"] /\ req[q].at = "user" /\ "open" \in Steps
      BY <2>4 DEF UpsertUser, Steps
    <3> QED BY <1>0, <2>4, <3>1, Moves DEF NonceSteps, SigningIn
  <2> QED BY <2>1, <2>2, <2>3, <2>4 DEF RejectNonce, ClearSession, HandlerDies
<1>2. req[q].at \in NonceSteps \cup SigningIn => req[q].wallet \in Wallets
  BY DEF StateInv, HandlerInv, NonceSteps, SigningIn
<1>3. /\ UNCHANGED <<now, drawn, signIns, doubled, overtaken>>
      /\ AcceptNonce(q) \/ contested' = contested
      /\ nonces' \subseteq nonces /\ sessions' \subseteq sessions
      /\ users' = users \/ (UpsertUser(q) /\ users' = users \cup {req[q].wallet})
      /\ \/ waiting' = waiting
         \/ waiting' = [waiting EXCEPT ![req[q].wallet] = NoRecord]
  <2>1. CASE AcceptNonce(q)
    <3>1. UNCHANGED <<now, nonces, users, sessions, drawn, signIns, doubled, overtaken>> /\ req[q].at = "find"
      BY <2>1 DEF AcceptNonce
    <3>2. req[q].wallet \in Wallets
      BY <1>2, <3>1 DEF NonceSteps
    <3>3. \/ waiting' = waiting
          \/ waiting' = [waiting EXCEPT ![req[q].wallet] = NoRecord]
      BY <2>1, <3>2 DEF AcceptNonce, StateInv, TypeOK
    <3> QED BY <2>1, <3>1, <3>3
  <2> QED BY <2>1 DEF RejectNonce, DeleteNonce, UpsertUser, ClearSession, HandlerDies, history
<1>4. /\ UpsertUser(q) => req[q].wallet \in Wallets
      /\ contested' \subseteq Nonces
  <2>1. AcceptNonce(q) => req[q].nonce \in Nonces
    BY Bounds DEF AcceptNonce, StateInv, TypeOK, HandlerInv, NonceSteps, Nonces
  <2>2. AcceptNonce(q) => contested' \subseteq contested \cup {req[q].nonce}
    BY DEF AcceptNonce
  <2>3. contested \subseteq Nonces
    BY DEF StateInv, TypeOK
  <2> QED BY <1>2, <1>3, <2>1, <2>2, <2>3 DEF UpsertUser, SigningIn
<1>5. TypeOK'
  BY <1>1, <1>3, <1>4 DEF StateInv, TypeOK, Handlers
<1>6. req'[q].at = "open" => req'[q].wallet \in users'
  BY <1>1, IdleType DEF UpsertUser
<1>7. HandlerInv' /\ UserInv'
  <2>1. drawn <= drawn' /\ drawn' \in 0..MaxNonces /\ users \subseteq users'
    BY <1>0, <1>3, Bounds
  <2>2. req'[q].at \notin {"idle", "session"} => req'[q].wallet \in Wallets
    BY <1>1, <1>2, IdleType
  <2>3. req'[q].at \in NonceSteps => req'[q].nonce \in 1..drawn'
    BY <1>1, <1>3, IdleType DEF StateInv, HandlerInv, NonceSteps
  <2> QED BY <1>1, <1>3, <1>6, <2>1, <2>2, <2>3, StateKept, IdleType
<1> QED BY <1>5, <1>7 DEF StateInv

LEMMA SessionStep ==
  ASSUME StateInv, NEW q \in Requests, OpenSession(q) \/ FindSession(q) \/ FindUser(q)
  PROVE  StateInv'
<1>0. /\ req \in [Requests -> Handlers] /\ drawn \in 0..MaxNonces
      /\ now \in Nat /\ now <= MaxTime
  BY Bounds DEF StateInv, TypeOK, Handlers
<1>1. CASE OpenSession(q)
  <2> DEFINE s == [id |-> Len(signIns) + 1, wallet |-> req[q].wallet, expires |-> now + SessionTTL]
             e == [wallet |-> req[q].wallet, nonce |-> req[q].nonce]
  <2>1. /\ req[q].wallet \in users /\ req[q].wallet \in Wallets
        /\ req[q].nonce \in Nonces \cup {NoNonce}
    BY <1>0, <1>1 DEF OpenSession, StateInv, TypeOK, UserInv, Handlers
  <2>2. /\ Len(signIns) \in Nat /\ Len(signIns) < MaxSessions
        /\ signIns \in Seq([wallet : Wallets, nonce : Nonces \cup {NoNonce}])
    BY <1>1 DEF OpenSession, StateInv, TypeOK
  <2>3. Len(signIns) + 1 \in Ids /\ Len(signIns) + 1 <= MaxSessions /\ now + SessionTTL \in Expiries
    BY <1>0, <2>2, Bounds DEF Ids
  <2>4. s \in [id : Ids, wallet : Wallets, expires : Expiries] /\ s.wallet = req[q].wallet
    BY <2>1, <2>3
  <2>5. e \in [wallet : Wallets, nonce : Nonces \cup {NoNonce}]
    BY <2>1
  <2>6. /\ sessions' = sessions \cup {s} /\ signIns' = Append(signIns, e)
        /\ req' = [req EXCEPT ![q] = Idle]
        /\ UNCHANGED <<now, nonces, users, drawn, waiting, history>>
    BY <1>1 DEF OpenSession
  <2> HIDE DEF s, e
  <2>7. /\ signIns' \in Seq([wallet : Wallets, nonce : Nonces \cup {NoNonce}])
        /\ Len(signIns') <= MaxSessions
    BY <2>2, <2>3, <2>5, <2>6
  <2>8. req' \in [Requests -> Handlers] /\ req'[q] = Idle /\ \A p \in Requests : p # q => req'[p] = req[p]
    BY <1>0, <2>6, Ends
  <2>9. TypeOK'
    BY <2>4, <2>6, <2>7, <2>8 DEF StateInv, TypeOK, Handlers, history
  <2>10. HandlerInv' /\ UserInv'
    BY <1>0, <2>1, <2>4, <2>6, <2>8, IdleType, Bounds, StateKept DEF NonceSteps
  <2> QED BY <2>9, <2>10 DEF StateInv
<1>2. CASE FindSession(q) \/ FindUser(q)
  <2>1. UNCHANGED <<now, nonces, users, sessions, drawn, signIns, waiting, history>>
    BY <1>2 DEF FindSession, FindUser
  <2>2. /\ req' \in [Requests -> Handlers] /\ \A p \in Requests : p # q => req'[p] = req[p]
        /\ \/ req'[q] = Idle
           \/ req'[q].at \in {"who", "logout"} /\ req'[q].wallet \in Wallets
    <3>1. CASE req' = [req EXCEPT ![q] = Idle]
      BY <1>0, <3>1, Ends
    <3>2. CASE FindUser(q) /\ req' = [req EXCEPT ![q].at = "logout"]
      <4>1. "logout" \in Steps /\ req[q].wallet \in Wallets
        BY <3>2 DEF FindUser, Steps, StateInv, HandlerInv
      <4> QED BY <1>0, <3>2, <4>1, Moves
    <3>3. CASE FindSession(q) /\ Live(req[q].id) # {}
      <4> DEFINE w == (CHOOSE s \in Live(req[q].id) : TRUE).wallet
                 h == [req[q] EXCEPT !.at = "who", !.wallet = w]
      <4>1. w \in Wallets
        BY <3>3 DEF Live, StateInv, TypeOK
      <4>2. req' = [req EXCEPT ![q] = h]
        BY <1>0, <3>3 DEF FindSession
      <4> HIDE DEF w
      <4>3. h \in Handlers /\ h.at = "who" /\ h.wallet = w
        BY <1>0, <4>1 DEF Handlers, Steps
      <4> HIDE DEF h
      <4> QED BY <1>0, <4>1, <4>2, <4>3
    <3>4. CASE FindSession(q) /\ Live(req[q].id) = {}
      <4>1. req' = [req EXCEPT ![q] = Idle]
        BY <1>0, <3>4 DEF FindSession
      <4> QED BY <3>1, <4>1
    <3> QED BY <1>2, <3>1, <3>2, <3>3, <3>4 DEF FindUser
  <2>3. TypeOK'
    BY <2>1, <2>2 DEF StateInv, TypeOK, Handlers, history
  <2>4. HandlerInv' /\ UserInv'
    BY <1>0, <2>1, <2>2, IdleType, Bounds, StateKept DEF NonceSteps
  <2> QED BY <2>3, <2>4 DEF StateInv
<1> QED BY <1>1, <1>2

LEMMA StateInit == Init => StateInv
<1> SUFFICES ASSUME Init PROVE StateInv
  OBVIOUS
<1>1. \A q \in Requests : req[q] = Idle
  BY DEF Init
<1>2. TypeOK
  <2>1. 0 \in 0..MaxTime /\ 0 \in 0..MaxNonces /\ 0 <= MaxSessions
    BY Bounds
  <2>2. req \in [Requests -> Handlers]
    BY IdleType DEF Init
  <2>3. << >> \in Seq([wallet : Wallets, nonce : Nonces \cup {NoNonce}]) /\ Len(<< >>) = 0
    OBVIOUS
  <2>4. [w \in Wallets |-> NoRecord] \in [Wallets -> NonceRecords \cup {NoRecord}]
    OBVIOUS
  <2> QED BY <2>1, <2>2, <2>3, <2>4 DEF Init, TypeOK, Handlers
<1> QED BY <1>1, <1>2, IdleType DEF Init, StateInv, HandlerInv, UserInv, SessionHasUser, NonceSteps

LEMMA StateStep == StateInv /\ [Next]_vars => StateInv'
<1> SUFFICES ASSUME StateInv, [Next]_vars PROVE StateInv'
  OBVIOUS
<1>1. CASE UNCHANGED vars
  BY <1>1 DEF vars, history, StateInv, TypeOK, HandlerInv, UserInv, SessionHasUser
<1>2. CASE Tick
  <2>1. now' \in 0..MaxTime
    BY <1>2, Bounds DEF Tick, StateInv, TypeOK
  <2> QED BY <1>2, <2>1 DEF Tick, history, StateInv, TypeOK, HandlerInv, UserInv, SessionHasUser
<1>3. ASSUME NEW q \in Requests, Continue(q) \/ HandlerDies(q) PROVE StateInv'
  BY <1>3, IssueStep, VerifyStep, SessionStep DEF Continue
<1> QED BY <1>1, <1>2, <1>3, BeginStep DEF Next

LEMMA StateAlways == Spec => []StateInv
BY StateInit, StateStep, PTL DEF Spec

\* The collections and handlers of sign-in keep their types, whatever interleaves or dies.
THEOREM SessionsTypeCorrect == Spec => []TypeOK
BY StateAlways, PTL DEF StateInv

\* A session's user exists, so that "Unknown session user" is answered to nobody.
THEOREM SessionsHaveUsers == Spec => []SessionHasUser
BY StateAlways, PTL DEF StateInv, UserInv

-----------------------------------------------------------------------------
(* The nonces on record and in the hands of handlers *)

Issuing(q, n)     == req[q].at \in {"upsert", "insert"} /\ req[q].nonce = n
Deleting(q, w, n) == req[q].at = "delete" /\ req[q].wallet = w /\ req[q].nonce = n
Signing(q, w, n)  == req[q].at \in SigningIn /\ req[q].wallet = w /\ req[q].nonce = n
Signed(w, n) == \E i \in DOMAIN signIns : signIns[i].wallet = w /\ signIns[i].nonce = n
Used(w, n)   == Signed(w, n) \/ \E q \in Requests : Signing(q, w, n)

\* A nonce on record has been drawn.
DrawnInv == \A m \in nonces : m.nonce <= drawn

\* A nonce is issued once: until then it is not on record, and nobody deletes it.
IssueInv ==
  \A q \in Requests, n \in Nonces : Issuing(q, n) =>
    /\ \A p \in Requests : Issuing(p, n) => p = q
    /\ \A m \in nonces : m.nonce # n
    /\ \A p \in Requests : req[p].at = "delete" => req[p].nonce # n

\* A wallet has one nonce on record at most, and one about to be inserted is the first.
RecordInv ==
  /\ \A m, n \in nonces : m.wallet = n.wallet /\ m.wallet \notin doubled => m = n
  /\ \A q \in Requests : req[q].at = "insert" /\ req[q].wallet \notin doubled =>
       /\ NoncesOf(req[q].wallet) = {}
       /\ \A p \in At("insert", req[q].wallet) : p = q

\* A nonce nobody has accepted yet is on record, and nobody is about to delete it.
WaitInv ==
  \A w \in Wallets \ (doubled \cup overtaken) : waiting[w] # NoRecord =>
    /\ NoncesOf(w) = {waiting[w]}
    /\ At("delete", w) = {}

\* A nonce that signed in is off the record for good, and in no other sign-in's hands.
SpentInv ==
  /\ \A w \in Wallets \ doubled, n \in Nonces \ contested : Used(w, n) =>
       /\ n <= drawn
       /\ \A m \in NoncesOf(w) : m.nonce # n
       /\ \A q \in Requests : ~Issuing(q, n) /\ ~Deleting(q, w, n)
  /\ \A w \in Wallets \ doubled, n \in Nonces \ contested, p, q \in Requests :
       \/ Deleting(p, w, n) /\ Deleting(q, w, n)
       \/ Signing(p, w, n) /\ Signing(q, w, n)
       => p = q
  /\ \A w \in Wallets \ doubled, n \in Nonces \ contested, q \in Requests :
       Signing(q, w, n) => ~Signed(w, n)
  /\ NonceUsedOnce

NonceInv == DrawnInv /\ IssueInv /\ RecordInv /\ WaitInv /\ SpentInv

\* What every step but Begin leaves.
LEMMA Continued ==
  ASSUME StateInv, NEW q \in Requests, Continue(q) \/ HandlerDies(q)
  PROVE  /\ UNCHANGED <<now, drawn>>
         /\ req' \in [Requests -> Handlers] /\ \A p \in Requests : p # q => req'[p] = req[p]
         /\ req'[q].at \in NonceSteps \cup SigningIn =>
              req'[q].wallet = req[q].wallet /\ req'[q].nonce = req[q].nonce
         /\ req'[q].at \notin {"upsert", "find"}
         /\ req'[q].at = "insert" => NoNonceYet(q)
         /\ req'[q].at = "delete" => AcceptNonce(q)
         /\ req'[q].at \in SigningIn => DeleteNonce(q) \/ req[q].at \in SigningIn
<1> DEFINE Left(a) ==
      /\ req' \in [Requests -> Handlers] /\ \A p \in Requests : p # q => req'[p] = req[p]
      /\ req'[q].at = a
      /\ a \in NonceSteps \cup SigningIn =>
           req'[q].wallet = req[q].wallet /\ req'[q].nonce = req[q].nonce
<1>0. req \in [Requests -> Handlers]
  BY DEF StateInv, TypeOK, Handlers
<1>1. UNCHANGED <<now, drawn>>
  BY DEF Continue, ReplaceNonce, NoNonceYet, InsertNonce, Written, AcceptNonce, RejectNonce,
         DeleteNonce, UpsertUser, OpenSession, FindSession, FindUser, ClearSession, HandlerDies
<1>2. ASSUME req' = [req EXCEPT ![q] = Idle] PROVE Left("idle")
  BY <1>0, <1>2, Ends, IdleType DEF NonceSteps, SigningIn
<1>3. ASSUME FindSession(q) PROVE Left("idle") \/ Left("who")
  <2> DEFINE w == (CHOOSE s \in Live(req[q].id) : TRUE).wallet
             h == [req[q] EXCEPT !.at = "who", !.wallet = w]
  <2>1. CASE Live(req[q].id) = {}
    <3>1. req' = [req EXCEPT ![q] = Idle]
      BY <1>0, <1>3, <2>1 DEF FindSession
    <3> QED BY <1>2, <3>1
  <2>2. CASE Live(req[q].id) # {}
    <3>1. w \in Wallets
      BY <2>2 DEF Live, StateInv, TypeOK
    <3>2. req' = [req EXCEPT ![q] = h]
      BY <1>0, <1>3, <2>2 DEF FindSession
    <3> HIDE DEF w
    <3>3. h \in Handlers /\ h.at = "who"
      BY <1>0, <3>1 DEF Handlers, Steps
    <3> HIDE DEF h
    <3> QED BY <1>0, <3>2, <3>3 DEF NonceSteps, SigningIn
  <2> QED BY <2>1, <2>2
<1>4. ASSUME NEW a \in Steps, req' = [req EXCEPT ![q].at = a] PROVE Left(a)
  BY <1>0, <1>4, Moves
<1>5. \A a \in {"insert", "delete", "user", "open", "logout"} : a \in Steps
  BY DEF Steps, NonceSteps
<1>6. CASE NoNonceYet(q)
  <2>1. Left("insert")
    BY <1>4, <1>5, <1>6 DEF NoNonceYet
  <2> QED BY <1>1, <1>6, <2>1 DEF NonceSteps, SigningIn
<1>7. CASE AcceptNonce(q)
  <2>1. Left("delete")
    BY <1>4, <1>5, <1>7 DEF AcceptNonce
  <2> QED BY <1>1, <1>7, <2>1 DEF NonceSteps, SigningIn
<1>8. CASE DeleteNonce(q)
  <2>1. Left("user")
    BY <1>4, <1>5, <1>8 DEF DeleteNonce
  <2> QED BY <1>1, <1>8, <2>1 DEF NonceSteps, SigningIn
<1>9. CASE UpsertUser(q)
  <2>1. Left("open") /\ req[q].at = "user"
    BY <1>4, <1>5, <1>9 DEF UpsertUser
  <2> QED BY <1>1, <2>1 DEF NonceSteps, SigningIn
<1>10. CASE \E a \in {"idle", "who", "logout"} : Left(a)
  BY <1>1, <1>10 DEF NonceSteps, SigningIn
<1>11. CASE FindUser(q)
  <2>1. Left("idle") \/ Left("logout")
    BY <1>2, <1>4, <1>5, <1>11 DEF FindUser
  <2> QED BY <1>10, <2>1
<1>12. CASE req' = [req EXCEPT ![q] = Idle]
  BY <1>2, <1>10, <1>12
<1> QED BY <1>3, <1>6, <1>7, <1>8, <1>9, <1>10, <1>11, <1>12
        DEF Continue, ReplaceNonce, InsertNonce, Written, RejectNonce, OpenSession, ClearSession, HandlerDies

\* A request begins, with a nonce nobody has used when it issues one.
LEMMA Begun ==
  ASSUME StateInv, NEW q \in Requests,
         \/ \E w \in Wallets : BeginIssue(q, w) \/ BeginTestLogin(q, w)
         \/ \E w \in Wallets, n \in 1..drawn : BeginVerify(q, w, n)
         \/ \E id \in DOMAIN signIns : BeginWithCookie(q, id)
  PROVE  /\ req[q] = Idle /\ \A p \in Requests : p # q => req'[p] = req[p]
         /\ UNCHANGED <<now, nonces, users, sessions, signIns, waiting, history>>
         /\ drawn \in Nat /\ drawn' \in Nat /\ drawn <= drawn'
         /\ req'[q].at \notin {"insert", "delete", "open"}
         /\ req'[q].at = "user" => req'[q].nonce = NoNonce
         /\ req'[q].at = "upsert" => req'[q].nonce = drawn + 1
<1>0. req \in [Requests -> Handlers] /\ drawn \in Nat
  BY Bounds DEF StateInv, TypeOK, Handlers
<1>1. PICK r : /\ Begin(q, r) /\ drawn' \in {drawn, drawn + 1}
               /\ r.at \notin {"insert", "delete", "open"}
               /\ r.at = "user" => r.nonce = NoNonce
               /\ r.at = "upsert" => r.nonce = drawn + 1
  <2>1. ASSUME NEW w \in Wallets, BeginIssue(q, w)
        PROVE  \E r : /\ Begin(q, r) /\ drawn' \in {drawn, drawn + 1}
                      /\ r.at \notin {"insert", "delete", "open"}
                      /\ r.at = "user" => r.nonce = NoNonce
                      /\ r.at = "upsert" => r.nonce = drawn + 1
    <3> DEFINE r == [Idle EXCEPT !.at = "upsert", !.wallet = w,
                                 !.nonce = drawn + 1, !.expires = now + NonceTTL]
    <3>1. r.at = "upsert" /\ r.nonce = drawn + 1
      BY DEF Idle
    <3>2. Begin(q, r) /\ drawn' = drawn + 1
      BY <2>1 DEF BeginIssue
    <3> HIDE DEF r
    <3> QED BY <3>1, <3>2
  <2>2. ASSUME NEW w \in Wallets, BeginTestLogin(q, w)
        PROVE  \E r : /\ Begin(q, r) /\ drawn' \in {drawn, drawn + 1}
                      /\ r.at \notin {"insert", "delete", "open"}
                      /\ r.at = "user" => r.nonce = NoNonce
                      /\ r.at = "upsert" => r.nonce = drawn + 1
    <3> DEFINE r == [Idle EXCEPT !.at = "user", !.wallet = w]
    <3>1. r.at = "user" /\ r.nonce = NoNonce
      BY DEF Idle
    <3>2. Begin(q, r) /\ drawn' = drawn
      BY <2>2 DEF BeginTestLogin
    <3> HIDE DEF r
    <3> QED BY <3>1, <3>2
  <2>3. ASSUME NEW w \in Wallets, NEW n \in 1..drawn, BeginVerify(q, w, n)
        PROVE  \E r : /\ Begin(q, r) /\ drawn' \in {drawn, drawn + 1}
                      /\ r.at \notin {"insert", "delete", "open"}
                      /\ r.at = "user" => r.nonce = NoNonce
                      /\ r.at = "upsert" => r.nonce = drawn + 1
    <3> DEFINE r == [Idle EXCEPT !.at = "find", !.wallet = w, !.nonce = n]
    <3>1. r.at = "find"
      BY DEF Idle
    <3>2. Begin(q, r) /\ drawn' = drawn
      BY <2>3 DEF BeginVerify
    <3> HIDE DEF r
    <3> QED BY <3>1, <3>2
  <2>4. ASSUME NEW i \in DOMAIN signIns, BeginWithCookie(q, i)
        PROVE  \E r : /\ Begin(q, r) /\ drawn' \in {drawn, drawn + 1}
                      /\ r.at \notin {"insert", "delete", "open"}
                      /\ r.at = "user" => r.nonce = NoNonce
                      /\ r.at = "upsert" => r.nonce = drawn + 1
    <3> DEFINE r == [Idle EXCEPT !.at = "session", !.id = i]
    <3>1. r.at = "session"
      BY DEF Idle
    <3>2. Begin(q, r) /\ drawn' = drawn
      BY <2>4 DEF BeginWithCookie
    <3> HIDE DEF r
    <3> QED BY <3>1, <3>2
  <2> QED BY <2>1, <2>2, <2>3, <2>4
<1>2. /\ req'[q] = r /\ \A p \in Requests : p # q => req'[p] = req[p]
      /\ UNCHANGED <<now, nonces, users, sessions, signIns, waiting, history>> /\ req[q] = Idle
  BY <1>0, <1>1 DEF Begin
<1>3. drawn' \in Nat /\ drawn <= drawn'
  BY <1>0, <1>1
<1> QED BY <1>0, <1>1, <1>2, <1>3

\* Every nonce there is has been drawn.
LEMMA Drawn ==
  ASSUME StateInv, NEW q \in Requests, req[q].at \in NonceSteps
  PROVE  req[q].nonce \in Nonces /\ req[q].nonce <= drawn /\ drawn \in Nat /\ req[q].wallet \in Wallets
<1>1. req[q].nonce \in 1..drawn /\ req[q].at \notin {"idle", "session"}
  BY DEF StateInv, HandlerInv, NonceSteps
<1>2. drawn \in Nat /\ drawn <= MaxNonces /\ MaxNonces \in Nat
  BY Bounds DEF StateInv, TypeOK
<1> QED BY <1>1, <1>2 DEF StateInv, HandlerInv, Nonces

\* What the steps do to the nonces: a request writes its own, a sign-in deletes one.
LEMMA Writes ==
  ASSUME StateInv, NEW q \in Requests, Continue(q) \/ HandlerDies(q)
  PROVE  /\ \/ nonces' \subseteq nonces
            \/ /\ ReplaceNonce(q) \/ InsertNonce(q)
               /\ req[q].at \in {"upsert", "insert"} /\ req'[q].at = "idle"
               /\ \A m \in nonces' : m \in nonces \/ m = NonceOf(req[q])
         /\ NonceOf(req[q]).wallet = req[q].wallet /\ NonceOf(req[q]).nonce = req[q].nonce
         /\ doubled \subseteq doubled' /\ contested \subseteq contested'
<1>1. req \in [Requests -> Handlers]
  BY DEF StateInv, TypeOK, Handlers
<1>2. CASE ReplaceNonce(q) \/ InsertNonce(q)
  BY <1>1, <1>2, Ends, IdleType DEF ReplaceNonce, InsertNonce, Written, NonceOf
<1>3. CASE ~(ReplaceNonce(q) \/ InsertNonce(q))
  BY <1>3 DEF Continue, NoNonceYet, AcceptNonce, RejectNonce, DeleteNonce, UpsertUser, OpenSession,
     FindSession, FindUser, ClearSession, HandlerDies, NonceOf, history
<1> QED BY <1>2, <1>3

LEMMA IssueInvStep == StateInv /\ DrawnInv /\ IssueInv /\ [Next]_vars => IssueInv'
<1> SUFFICES ASSUME StateInv, DrawnInv, IssueInv, [Next]_vars,
                    NEW o \in Requests, NEW n \in Nonces, Issuing(o, n)'
             PROVE  /\ \A p \in Requests : Issuing(p, n)' => p = o
                    /\ \A m \in nonces' : m.nonce # n
                    /\ \A p \in Requests : req'[p].at = "delete" => req'[p].nonce # n
  BY DEF IssueInv
<1>1. CASE UNCHANGED vars \/ Tick
  BY <1>1 DEF vars, Tick, IssueInv, Issuing
<1>2. ASSUME NEW q \in Requests,
             \/ \E w \in Wallets : BeginIssue(q, w) \/ BeginTestLogin(q, w)
             \/ \E w \in Wallets, k \in 1..drawn : BeginVerify(q, w, k)
             \/ \E id \in DOMAIN signIns : BeginWithCookie(q, id)
      PROVE  /\ \A p \in Requests : Issuing(p, n)' => p = o
             /\ \A m \in nonces' : m.nonce # n
             /\ \A p \in Requests : req'[p].at = "delete" => req'[p].nonce # n
  <2>1. /\ \A p \in Requests : p # q => req'[p] = req[p]
        /\ nonces' = nonces /\ req'[q].at \notin {"insert", "delete"} /\ drawn \in Nat
        /\ req'[q].at = "upsert" => req'[q].nonce = drawn + 1
    BY <1>2, Begun
  <2>2. \A p \in Requests : req[p].at \in {"upsert", "insert", "delete"} => req[p].nonce # drawn + 1
    <3>1. ASSUME NEW p \in Requests, req[p].at \in {"upsert", "insert", "delete"}
          PROVE  req[p].nonce # drawn + 1
      <4>1. req[p].nonce \in Nonces /\ req[p].nonce <= drawn
        BY <3>1, Drawn DEF NonceSteps
      <4>2. \A k \in Nonces : k \in Nat
        BY DEF Nonces
      <4> QED BY <2>1, <4>1, <4>2
    <3> QED BY <3>1
  <2>3. \A m \in nonces : m.nonce # drawn + 1
    BY <2>1 DEF DrawnInv
  <2>4. CASE o = q
    BY <2>1, <2>2, <2>3, <2>4 DEF Issuing
  <2>5. CASE o # q
    <3>1. Issuing(o, n) /\ n # drawn + 1
      BY <2>1, <2>2, <2>5 DEF Issuing
    <3> QED BY <2>1, <3>1 DEF IssueInv, Issuing
  <2> QED BY <2>4, <2>5
<1>3. ASSUME NEW q \in Requests, Continue(q) \/ HandlerDies(q)
      PROVE  /\ \A p \in Requests : Issuing(p, n)' => p = o
             /\ \A m \in nonces' : m.nonce # n
             /\ \A p \in Requests : req'[p].at = "delete" => req'[p].nonce # n
  <2>1. \A p \in Requests : Issuing(p, n)' => Issuing(p, n)
    <3>1. \A p \in Requests : p # q => req'[p] = req[p]
      BY <1>3, Continued
    <3>2. Issuing(q, n)' => Issuing(q, n)
      BY <1>3, Continued DEF Issuing, NoNonceYet, NonceSteps
    <3> QED BY <3>1, <3>2 DEF Issuing
  <2>2. /\ Issuing(o, n)
        /\ \A p \in Requests : Issuing(p, n) => p = o
        /\ \A m \in nonces : m.nonce # n
        /\ \A p \in Requests : req[p].at = "delete" => req[p].nonce # n
    BY <2>1 DEF IssueInv
  <2>3. \A m \in nonces' : m.nonce # n
    BY <1>3, <2>2, Writes DEF Issuing
  <2>4. req'[q].at = "delete" => req'[q].nonce # n
    BY <1>3, <2>2, Continued DEF AcceptNonce, NoncesOf, Matches, NonceSteps
  <2>5. \A p \in Requests : p # q => req'[p] = req[p]
    BY <1>3, Continued
  <2> QED BY <2>1, <2>2, <2>3, <2>4, <2>5
<1> QED BY <1>1, <1>2, <1>3 DEF Next

LEMMA DrawnStep == StateInv /\ DrawnInv /\ [Next]_vars => DrawnInv'
<1> SUFFICES ASSUME StateInv, DrawnInv, [Next]_vars, NEW m \in nonces'
             PROVE  m.nonce <= drawn'
  BY DEF DrawnInv
<1>1. CASE UNCHANGED vars \/ Tick
  BY <1>1 DEF vars, Tick, DrawnInv
<1>2. ASSUME NEW q \in Requests,
             \/ \E w \in Wallets : BeginIssue(q, w) \/ BeginTestLogin(q, w)
             \/ \E w \in Wallets, k \in 1..drawn : BeginVerify(q, w, k)
             \/ \E id \in DOMAIN signIns : BeginWithCookie(q, id)
      PROVE  m.nonce <= drawn'
  <2>1. m \in nonces /\ drawn \in Nat /\ drawn' \in Nat /\ drawn <= drawn'
    BY <1>2, Begun
  <2>2. m.nonce \in Nat /\ m.nonce <= drawn
    BY <2>1 DEF DrawnInv, StateInv, TypeOK, NonceRecords, Nonces
  <2> QED BY <2>1, <2>2
<1>3. ASSUME NEW q \in Requests, Continue(q) \/ HandlerDies(q) PROVE m.nonce <= drawn'
  <2>1. drawn' = drawn
    BY <1>3, Continued
  <2>2. CASE m \in nonces
    BY <2>1, <2>2 DEF DrawnInv
  <2>3. CASE m \notin nonces
    <3>1. m.nonce = req[q].nonce /\ req[q].at \in NonceSteps
      BY <1>3, <2>3, Writes DEF NonceSteps
    <3> QED BY <2>1, <3>1, Drawn
  <2> QED BY <2>2, <2>3
<1> QED BY <1>1, <1>2, <1>3 DEF Next

\* What is to be shown of a step, without helpers.
LEMMA RecordOn ==
  ASSUME \A m, n \in nonces' : m.wallet = n.wallet /\ m.wallet \notin doubled' => m = n,
         \A p \in Requests : req'[p].at = "insert" /\ req'[p].wallet \notin doubled' =>
           /\ \A m \in nonces' : m.wallet # req'[p].wallet
           /\ \A o \in Requests : req'[o].at = "insert" /\ req'[o].wallet = req'[p].wallet => o = p
  PROVE  RecordInv'
BY DEF RecordInv, NoncesOf, At

LEMMA RecordStep == StateInv /\ RecordInv /\ [Next]_vars => RecordInv'
<1> SUFFICES ASSUME StateInv, RecordInv, [Next]_vars PROVE RecordInv'
  OBVIOUS
<1>0. req \in [Requests -> Handlers]
  BY DEF StateInv, TypeOK, Handlers
<1>1. ASSUME nonces' \subseteq nonces, doubled' = doubled,
             \A p \in Requests : req'[p].at = "insert" => req'[p] = req[p]
      PROVE  RecordInv'
  BY <1>1 DEF RecordInv, NoncesOf, At
<1>2. CASE UNCHANGED vars \/ Tick
  BY <1>1, <1>2 DEF vars, Tick, history
<1>3. ASSUME NEW q \in Requests,
             \/ \E w \in Wallets : BeginIssue(q, w) \/ BeginTestLogin(q, w)
             \/ \E w \in Wallets, k \in 1..drawn : BeginVerify(q, w, k)
             \/ \E id \in DOMAIN signIns : BeginWithCookie(q, id)
      PROVE  RecordInv'
  BY <1>1, <1>3, Begun DEF history
<1>4. ASSUME NEW q \in Requests, Continue(q) \/ HandlerDies(q) PROVE RecordInv'
  <2>0. \A p \in Requests : p # q => req'[p] = req[p]
    BY <1>4, Continued
  <2>1. CASE NoNonceYet(q)
    <3> DEFINE w == req[q].wallet
    <3>1. /\ nonces' = nonces /\ NoncesOf(w) = {} /\ doubled \subseteq doubled'
          /\ At("insert", w) # {} => w \in doubled'
          /\ req[q].at = "upsert" /\ req'[q].at = "insert" /\ req'[q].wallet = w
      <4>1. "insert" \in Steps
        BY DEF Steps, NonceSteps
      <4> QED BY <1>0, <2>1, <4>1, Moves DEF NoNonceYet
    <3>2. \A m, n \in nonces' : m.wallet = n.wallet /\ m.wallet \notin doubled' => m = n
      BY <3>1 DEF RecordInv
    <3>3. \A p \in Requests : req'[p].at = "insert" =>
            \/ p = q /\ req'[p].wallet = w
            \/ p # q /\ req[p].at = "insert" /\ req'[p].wallet = req[p].wallet
      BY <2>0, <3>1
    <3>4. ASSUME NEW p \in Requests, req'[p].at = "insert", req'[p].wallet \notin doubled'
          PROVE  /\ \A m \in nonces' : m.wallet # req'[p].wallet
                 /\ \A o \in Requests : req'[o].at = "insert" /\ req'[o].wallet = req'[p].wallet => o = p
      <4>2. CASE p = q
        <5>1. At("insert", w) = {} /\ req'[p].wallet = w
          BY <3>1, <3>4, <4>2
        <5> QED BY <3>1, <3>3, <4>2, <5>1 DEF At, NoncesOf
      <4>3. CASE p # q
        <5>1. req[p].at = "insert" /\ req'[p].wallet = req[p].wallet /\ req[p].wallet \notin doubled
          BY <3>1, <3>3, <3>4, <4>3
        <5>2. req[p].wallet # w
          BY <3>1, <3>4, <5>1 DEF At
        <5> QED BY <3>1, <3>3, <5>1, <5>2 DEF At, NoncesOf, RecordInv
      <4> QED BY <4>2, <4>3
    <3> QED BY <3>2, <3>4, RecordOn
  <2>2. CASE ReplaceNonce(q) \/ InsertNonce(q)
    <3> DEFINE w == req[q].wallet
               r == NonceOf(req[q])
    <3>1. /\ req'[q] = Idle /\ doubled' = doubled /\ r.wallet = w
          /\ InsertNonce(q) => req[q].at = "insert" /\ nonces' = nonces \cup {r}
          /\ ReplaceNonce(q) => \E n \in NoncesOf(w) : nonces' = (nonces \ {n}) \cup {r}
      BY <1>0, <2>2, Ends, IdleType DEF ReplaceNonce, InsertNonce, Written, NonceOf
    <3> HIDE DEF r
    <3>2. /\ \A m \in nonces' : m \in nonces \/ m = r
          /\ w \notin doubled => \A m \in nonces' : m.wallet = w => m = r
      BY <2>2, <3>1 DEF RecordInv, NoncesOf
    <3>3. \A m, n \in nonces' : m.wallet = n.wallet /\ m.wallet \notin doubled' => m = n
      BY <3>1, <3>2 DEF RecordInv
    <3>4. ASSUME NEW p \in Requests, req'[p].at = "insert", req'[p].wallet \notin doubled'
          PROVE  /\ \A m \in nonces' : m.wallet # req'[p].wallet
                 /\ \A o \in Requests : req'[o].at = "insert" /\ req'[o].wallet = req'[p].wallet => o = p
      <4>1. p # q /\ req'[p] = req[p] /\ req[p].at = "insert" /\ req[p].wallet \notin doubled
        BY <2>0, <3>1, <3>4, IdleType
      <4>2. /\ NoncesOf(req[p].wallet) = {}
            /\ \A o \in Requests : req[o].at = "insert" /\ req[o].wallet = req[p].wallet => o = p
        BY <4>1 DEF RecordInv, At
      <4>3. req[p].wallet # w
        BY <2>2, <3>1, <4>1, <4>2
      <4>4. \A o \in Requests : req'[o].at = "insert" => req'[o] = req[o]
        BY <2>0, <3>1, IdleType
      <4>5. \A m \in nonces' : m.wallet # req'[p].wallet
        BY <3>1, <3>2, <4>1, <4>2, <4>3 DEF NoncesOf
      <4> QED BY <4>1, <4>2, <4>4, <4>5
    <3> QED BY <3>3, <3>4, RecordOn
  <2>3. CASE ~(NoNonceYet(q) \/ ReplaceNonce(q) \/ InsertNonce(q))
    <3>1. nonces' \subseteq nonces /\ doubled' = doubled
      BY <1>4, <2>3 DEF Continue, AcceptNonce, RejectNonce, DeleteNonce, UpsertUser, OpenSession,
         FindSession, FindUser, ClearSession, HandlerDies, history
    <3>2. req'[q].at # "insert"
      BY <1>4, <2>3, Continued
    <3> QED BY <1>1, <2>0, <3>1, <3>2
  <2> QED BY <2>1, <2>2, <2>3
<1> QED BY <1>2, <1>3, <1>4 DEF Next

\* A step that disturbs the nonces of one wallet.
LEMMA WaitOn ==
  ASSUME StateInv, WaitInv, NEW q \in Requests, NEW w \in Wallets,
         \A p \in Requests : p # q => req'[p] = req[p],
         req'[q].at = "delete" => req'[q].wallet = w,
         doubled \subseteq doubled', overtaken' \cup {w} = overtaken \cup {w},
         \A m : m.wallet # w => (m \in nonces' <=> m \in nonces),
         \A v \in Wallets : v # w => waiting'[v] = waiting[v],
         w \notin doubled' \cup overtaken' /\ waiting'[w] # NoRecord =>
           NoncesOf(w)' = {waiting'[w]} /\ At("delete", w)' = {}
  PROVE  WaitInv'
<1> SUFFICES ASSUME NEW v \in Wallets, v \notin doubled' \cup overtaken', waiting'[v] # NoRecord
             PROVE  NoncesOf(v)' = {waiting'[v]} /\ At("delete", v)' = {}
  BY DEF WaitInv
<1>1. CASE v = w
  BY <1>1
<1>2. CASE v # w
  <2>1. v \notin doubled \cup overtaken /\ waiting[v] # NoRecord /\ waiting'[v] = waiting[v]
    BY <1>2
  <2>2. NoncesOf(v) = {waiting[v]} /\ At("delete", v) = {}
    BY <2>1 DEF WaitInv
  <2>3. NoncesOf(v)' = NoncesOf(v)
    BY <1>2 DEF NoncesOf
  <2>4. At("delete", v)' = {}
    BY <1>2, <2>2 DEF At
  <2> QED BY <2>1, <2>2, <2>3, <2>4
<1> QED BY <1>1, <1>2

LEMMA WaitStep == StateInv /\ RecordInv /\ WaitInv /\ [Next]_vars => WaitInv'
<1> SUFFICES ASSUME StateInv, RecordInv, WaitInv, [Next]_vars PROVE WaitInv'
  OBVIOUS
<1>0. /\ req \in [Requests -> Handlers] /\ nonces \subseteq NonceRecords
      /\ waiting \in [Wallets -> NonceRecords \cup {NoRecord}]
  BY DEF StateInv, TypeOK, Handlers
<1>1. ASSUME UNCHANGED <<nonces, waiting, overtaken>>, doubled \subseteq doubled',
             \A p \in Requests : req'[p].at = "delete" => req'[p] = req[p]
      PROVE  WaitInv'
  BY <1>1 DEF WaitInv, NoncesOf, At
<1>2. CASE UNCHANGED vars \/ Tick
  BY <1>1, <1>2 DEF vars, Tick, history
<1>3. ASSUME NEW q \in Requests,
             \/ \E w \in Wallets : BeginIssue(q, w) \/ BeginTestLogin(q, w)
             \/ \E w \in Wallets, k \in 1..drawn : BeginVerify(q, w, k)
             \/ \E id \in DOMAIN signIns : BeginWithCookie(q, id)
      PROVE  WaitInv'
  BY <1>1, <1>3, Begun DEF history
<1>4. ASSUME NEW q \in Requests, Continue(q) \/ HandlerDies(q) PROVE WaitInv'
  <2>0. \A p \in Requests : p # q => req'[p] = req[p]
    BY <1>4, Continued
  <2>1. CASE ReplaceNonce(q) \/ InsertNonce(q)
    <3>1. PICK w \in Wallets, r \in {NonceOf(req[q])} : w = req[q].wallet /\ r = NonceOf(req[q]) /\ r.wallet = w
      <4>1. NonceOf(req[q]).wallet = req[q].wallet
        BY DEF NonceOf
      <4>2. req[q].wallet \in Wallets
        BY <2>1, Drawn DEF ReplaceNonce, InsertNonce, NonceSteps
      <4> QED BY <4>1, <4>2
    <3>2. /\ req'[q] = Idle /\ doubled' = doubled
          /\ waiting' = [waiting EXCEPT ![w] = r]
          /\ overtaken' \cup {w} = overtaken \cup {w}
          /\ At("delete", w) # {} => w \in overtaken'
          /\ InsertNonce(q) => req[q].at = "insert" /\ nonces' = nonces \cup {r}
          /\ ReplaceNonce(q) => \E n \in NoncesOf(w) : nonces' = (nonces \ {n}) \cup {r}
      <4>1. req' = [req EXCEPT ![q] = Idle] /\ Written(q)
        BY <2>1 DEF ReplaceNonce, InsertNonce, Written
      <4>2. req'[q] = Idle
        BY <1>0, <4>1, Ends
      <4>3. /\ doubled' = doubled /\ waiting' = [waiting EXCEPT ![w] = r]
            /\ overtaken' = IF At("delete", w) # {} THEN overtaken \cup {w} ELSE overtaken \ {w}
        BY <3>1, <4>1 DEF Written
      <4>4. /\ overtaken' \cup {w} = overtaken \cup {w}
            /\ At("delete", w) # {} => w \in overtaken'
        BY <4>3
      <4>5. /\ InsertNonce(q) => req[q].at = "insert" /\ nonces' = nonces \cup {r}
            /\ ReplaceNonce(q) => \E n \in NoncesOf(w) : nonces' = (nonces \ {n}) \cup {r}
        BY <3>1 DEF InsertNonce, ReplaceNonce
      <4> QED BY <4>2, <4>3, <4>4, <4>5
    <3>3. w \notin doubled' => NoncesOf(w)' = {r}
      <4>1. r \in nonces'
        BY <2>1, <3>2
      <4>2. w \notin doubled => \A m \in nonces' : m.wallet = w => m = r
        BY <2>1, <3>1, <3>2 DEF RecordInv, NoncesOf
      <4> QED BY <3>1, <3>2, <4>1, <4>2 DEF NoncesOf
    <3>4. w \notin overtaken' => At("delete", w)' = {}
      BY <2>0, <3>2, IdleType DEF At
    <3>5. waiting'[w] = r /\ \A v \in Wallets : v # w => waiting'[v] = waiting[v]
      BY <1>0, <3>2
    <3>6. \A m : m.wallet # w => (m \in nonces' <=> m \in nonces)
      BY <2>1, <3>1, <3>2 DEF NoncesOf
    <3> QED BY <2>0, <3>1, <3>2, <3>3, <3>4, <3>5, <3>6, WaitOn, IdleType
  <2>2. CASE AcceptNonce(q)
    <3>1. PICK w \in Wallets : w = req[q].wallet
      BY <2>2, Drawn DEF AcceptNonce, NonceSteps
    <3>2. /\ nonces' = nonces /\ doubled' = doubled /\ overtaken' = overtaken
          /\ waiting' = [waiting EXCEPT ![w] = IF @.nonce = req[q].nonce THEN NoRecord ELSE @]
          /\ \E n \in NoncesOf(w) : n.nonce = req[q].nonce
      BY <2>2, <3>1 DEF AcceptNonce, Matches
    <3>3. /\ waiting'[w] = IF waiting[w].nonce = req[q].nonce THEN NoRecord ELSE waiting[w]
          /\ \A v \in Wallets : v # w => waiting'[v] = waiting[v]
      BY <1>0, <3>1, <3>2
    <3>4. w \notin doubled \cup overtaken => waiting'[w] = NoRecord
      BY <3>1, <3>2, <3>3 DEF WaitInv
    <3>5. req'[q].at = "delete" => req'[q].wallet = w
      BY <1>4, <3>1, Continued DEF NonceSteps
    <3> QED BY <2>0, <3>1, <3>2, <3>3, <3>4, <3>5, WaitOn
  <2>3. CASE DeleteNonce(q)
    <3>1. PICK w \in Wallets : w = req[q].wallet
      BY <2>3, Drawn DEF DeleteNonce, NonceSteps
    <3>2. /\ waiting' = waiting /\ doubled' = doubled /\ overtaken' = overtaken
          /\ \A m : m.wallet # w => (m \in nonces' <=> m \in nonces)
          /\ q \in At("delete", w)
      BY <2>3, <3>1 DEF DeleteNonce, NoncesOf, At, history
    <3>3. w \notin doubled \cup overtaken => waiting[w] = NoRecord
      BY <3>1, <3>2 DEF WaitInv
    <3>4. req'[q].at = "delete" => req'[q].wallet = w
      BY <1>4, <3>1, Continued DEF NonceSteps
    <3> QED BY <2>0, <3>1, <3>2, <3>3, <3>4, WaitOn
  <2>4. CASE ~(ReplaceNonce(q) \/ InsertNonce(q) \/ AcceptNonce(q) \/ DeleteNonce(q))
    <3>1. UNCHANGED <<nonces, waiting, overtaken>> /\ doubled \subseteq doubled'
      BY <1>4, <2>4 DEF Continue, NoNonceYet, RejectNonce, UpsertUser, OpenSession,
         FindSession, FindUser, ClearSession, HandlerDies, history
    <3>2. req'[q].at # "delete"
      BY <1>4, <2>4, Continued
    <3> QED BY <1>1, <2>0, <3>1, <3>2
  <2> QED BY <2>1, <2>2, <2>3, <2>4
<1> QED BY <1>2, <1>3, <1>4 DEF Next

-----------------------------------------------------------------------------
(* The nonces that signed in *)

\* A step after which no nonce is used or about to be deleted that was not before, and
\* none on record or issued but by who issued it already, or a new one.
LEMMA SpentKept ==
  ASSUME StateInv, SpentInv, doubled \subseteq doubled', contested \subseteq contested',
         drawn \in Nat, drawn' \in Nat, drawn <= drawn', signIns' = signIns,
         \A p \in Requests : req'[p].at = "delete" =>
           \/ req'[p] = req[p]
           \/ AcceptNonce(p) /\ req'[p].wallet = req[p].wallet /\ req'[p].nonce = req[p].nonce
                /\ \A o \in Requests : o # p => req'[o] = req[o],
         \A p \in Requests : req'[p].at \in SigningIn /\ req'[p].nonce \in Nonces =>
           /\ req[p].at \in SigningIn
           /\ req'[p].wallet = req[p].wallet /\ req'[p].nonce = req[p].nonce,
         \A m \in nonces' : \/ m \in nonces
           \/ \E p \in Requests : Issuing(p, m.nonce),
         \A p \in Requests : req'[p].at \in {"upsert", "insert"} =>
           \/ req'[p].nonce = drawn + 1
           \/ req[p].at \in {"upsert", "insert"} /\ req'[p].nonce = req[p].nonce
  PROVE  SpentInv'
<1>1. \A q \in Requests, w \in Wallets, n \in Nonces : Signing(q, w, n)' => Signing(q, w, n)
  BY DEF Signing
<1>2. \A w \in Wallets, n \in Nonces :
        (Signed(w, n)' => Signed(w, n)) /\ (Used(w, n)' => Used(w, n))
  BY <1>1 DEF Signed, Used
<1>3. ASSUME NEW q \in Requests, NEW w \in Wallets, NEW n \in Nonces, Deleting(q, w, n)',
             w \notin doubled', n \notin contested'
      PROVE  /\ ~Used(w, n)
             /\ \A p \in Requests : Deleting(p, w, n)' => p = q
  <2>0. w \notin doubled /\ n \notin contested
    BY <1>3
  <2>1. ASSUME NEW o \in Requests, AcceptNonce(o), req[o].wallet = w, req[o].nonce = n
        PROVE  /\ ~Used(w, n)
               /\ \A p \in Requests : ~Deleting(p, w, n)
    <3>1. /\ \E m \in NoncesOf(w) : m.nonce = n
          /\ (\E p \in At("delete", w) : req[p].nonce = n) => n \in contested'
      BY <2>1 DEF AcceptNonce, Matches
    <3>2. \A p \in Requests : ~Deleting(p, w, n)
      BY <1>3, <3>1 DEF At, Deleting
    <3> QED BY <2>0, <3>1, <3>2 DEF SpentInv
  <2>2. ASSUME NEW p \in Requests, Deleting(p, w, n)'
        PROVE  Deleting(p, w, n) \/ (AcceptNonce(p) /\ req[p].wallet = w /\ req[p].nonce = n
                                       /\ \A o \in Requests : o # p => req'[o] = req[o])
    BY <2>2 DEF Deleting
  <2>3. CASE \E o \in Requests : AcceptNonce(o) /\ req[o].wallet = w /\ req[o].nonce = n
    BY <1>3, <2>1, <2>2, <2>3 DEF Deleting
  <2>4. CASE ~ \E o \in Requests : AcceptNonce(o) /\ req[o].wallet = w /\ req[o].nonce = n
    <3>1. \A p \in Requests : Deleting(p, w, n)' => Deleting(p, w, n)
      BY <2>2, <2>4
    <3> QED BY <1>3, <2>0, <3>1 DEF SpentInv
  <2> QED BY <2>3, <2>4
<1>4. ASSUME NEW w \in Wallets \ doubled', NEW n \in Nonces \ contested', Used(w, n)'
      PROVE  /\ n <= drawn'
             /\ \A m \in NoncesOf(w)' : m.nonce # n
             /\ \A q \in Requests : ~Issuing(q, n)' /\ ~Deleting(q, w, n)'
  <2>1. /\ w \notin doubled /\ n \notin contested /\ Used(w, n) /\ n <= drawn /\ n \in Nat
        /\ \A m \in NoncesOf(w) : m.nonce # n
        /\ \A q \in Requests : ~Issuing(q, n)
    BY <1>2, <1>4 DEF SpentInv, Nonces
  <2>2. n # drawn + 1 /\ n <= drawn'
    BY <2>1
  <2>3. \A m \in NoncesOf(w)' : m.nonce # n
    BY <2>1 DEF NoncesOf
  <2>4. \A q \in Requests : ~Issuing(q, n)'
    BY <2>1, <2>2 DEF Issuing
  <2>5. \A q \in Requests : ~Deleting(q, w, n)'
    BY <1>3, <1>4, <2>1
  <2> QED BY <2>2, <2>3, <2>4, <2>5
<1>5. \A w \in Wallets \ doubled', n \in Nonces \ contested', p, q \in Requests :
        \/ Deleting(p, w, n)' /\ Deleting(q, w, n)'
        \/ Signing(p, w, n)' /\ Signing(q, w, n)'
        => p = q
  BY <1>1, <1>3 DEF SpentInv
<1>6. \A w \in Wallets \ doubled', n \in Nonces \ contested', q \in Requests :
        Signing(q, w, n)' => ~Signed(w, n)'
  BY <1>1, <1>2 DEF SpentInv
<1>7. NonceUsedOnce'
  BY DEF SpentInv, NonceUsedOnce
<1> QED BY <1>4, <1>5, <1>6, <1>7 DEF SpentInv

\* A nonce that is deleted signs in: its record was the wallet's only one, and nobody
\* else had accepted it.
LEMMA DeleteSpends ==
  ASSUME StateInv, IssueInv, RecordInv, SpentInv, NEW q \in Requests, DeleteNonce(q)
  PROVE  SpentInv'
<1>0. req \in [Requests -> Handlers]
  BY DEF StateInv, TypeOK, Handlers
<1>1. PICK w \in Wallets, n \in Nonces :
        w = req[q].wallet /\ n = req[q].nonce /\ n <= drawn /\ Deleting(q, w, n)
  BY Drawn DEF DeleteNonce, NonceSteps, Deleting
<1>2. /\ UNCHANGED <<drawn, signIns, doubled, contested>> /\ req[q].at = "delete"
      /\ nonces' \subseteq nonces
      /\ NoncesOf(w) = {} \/ \E m \in NoncesOf(w) : nonces' = nonces \ {m}
  BY <1>1 DEF DeleteNonce, history
<1>3. /\ req'[q].at = "user" /\ req'[q].wallet = w /\ req'[q].nonce = n
      /\ \A p \in Requests : p # q => req'[p] = req[p]
  <2>1. "user" \in Steps
    BY DEF Steps
  <2> QED BY <1>0, <1>1, <2>1, Moves DEF DeleteNonce
<1>4. w \notin doubled => NoncesOf(w)' = {}
  <2>1. w \notin doubled => \A l, m \in NoncesOf(w) : l = m
    BY DEF RecordInv, NoncesOf
  <2> QED BY <1>2, <2>1 DEF NoncesOf
<1>5. /\ \A p \in Requests : \A k : Issuing(p, k)' => Issuing(p, k)
      /\ \A p \in Requests : \A v, k : Deleting(p, v, k)' => Deleting(p, v, k) /\ p # q
      /\ \A p \in Requests : \A v, k : Signing(p, v, k)' => Signing(p, v, k) \/ (p = q /\ v = w /\ k = n)
  BY <1>3 DEF Issuing, Deleting, Signing
<1>6. w \notin doubled /\ n \notin contested =>
        /\ ~Used(w, n)
        /\ \A p \in Requests : ~Issuing(p, n) /\ ~Deleting(p, w, n)'
  BY <1>1, <1>2, <1>5 DEF SpentInv, IssueInv
<1>7. \A v \in Wallets, k \in Nonces :
        /\ Signed(v, k)' => Signed(v, k)
        /\ Used(v, k)' => Used(v, k) \/ (v = w /\ k = n)
  BY <1>2, <1>5 DEF Signed, Used
<1>8. ASSUME NEW v \in Wallets \ doubled', NEW k \in Nonces \ contested', Used(v, k)'
      PROVE  /\ k <= drawn'
             /\ \A m \in NoncesOf(v)' : m.nonce # k
             /\ \A p \in Requests : ~Issuing(p, k)' /\ ~Deleting(p, v, k)'
  <2>1. CASE v = w /\ k = n
    BY <1>1, <1>2, <1>4, <1>5, <1>6, <2>1
  <2>2. CASE ~(v = w /\ k = n)
    <3>1. Used(v, k) /\ v \notin doubled /\ k \notin contested
      BY <1>2, <1>7, <1>8, <2>2
    <3>2. \A m \in NoncesOf(v)' : m \in NoncesOf(v)
      BY <1>2 DEF NoncesOf
    <3> QED BY <1>2, <1>5, <3>1, <3>2 DEF SpentInv
  <2> QED BY <2>1, <2>2
<1>9. ASSUME NEW v \in Wallets \ doubled', NEW k \in Nonces \ contested',
             NEW p \in Requests, NEW o \in Requests
      PROVE  /\ Deleting(p, v, k)' /\ Deleting(o, v, k)' => p = o
             /\ Signing(p, v, k)' /\ Signing(o, v, k)' => p = o
             /\ Signing(p, v, k)' => ~Signed(v, k)'
  <2>1. CASE v = w /\ k = n
    BY <1>2, <1>5, <1>6, <1>7, <2>1 DEF Used
  <2>2. CASE ~(v = w /\ k = n)
    BY <1>2, <1>5, <1>7, <2>2 DEF SpentInv
  <2> QED BY <2>1, <2>2
<1>10. NonceUsedOnce'
  BY <1>2 DEF SpentInv, NonceUsedOnce
<1> QED BY <1>8, <1>9, <1>10 DEF SpentInv

\* The sign-in that used a nonce becomes the session it opened.
LEMMA OpenSigns ==
  ASSUME StateInv, SpentInv, NEW q \in Requests, OpenSession(q)
  PROVE  SpentInv'
<1>0. req \in [Requests -> Handlers]
  BY DEF StateInv, TypeOK, Handlers
<1>1. PICK w \in Wallets, n \in Nonces \cup {NoNonce} : w = req[q].wallet /\ n = req[q].nonce
  BY <1>0 DEF OpenSession, StateInv, HandlerInv, Handlers
<1>2. /\ UNCHANGED <<nonces, drawn, doubled, contested>> /\ req[q].at = "open"
      /\ signIns' = Append(signIns, [wallet |-> w, nonce |-> n])
      /\ req'[q].at = "idle" /\ \A p \in Requests : p # q => req'[p] = req[p]
  BY <1>0, <1>1, Ends, IdleType DEF OpenSession, history
<1>3. Signing(q, w, n) /\ 0 \notin Nonces
  BY <1>1, <1>2 DEF Signing, SigningIn, Nonces
<1>4. /\ DOMAIN signIns' = 1..(Len(signIns) + 1) /\ Len(signIns) \in Nat
      /\ \A i \in 1..Len(signIns) : signIns'[i] = signIns[i]
      /\ signIns'[Len(signIns) + 1] = [wallet |-> w, nonce |-> n]
      /\ DOMAIN signIns = 1..Len(signIns)
      /\ \A i \in 1..(Len(signIns) + 1) : i \in 1..Len(signIns) \/ i = Len(signIns) + 1
  BY <1>2 DEF StateInv, TypeOK
<1>5. /\ \A p \in Requests, v \in Wallets, k \in Nonces : Signing(p, v, k)' => Signing(p, v, k) /\ p # q
      /\ \A p \in Requests : \A k : Issuing(p, k)' => Issuing(p, k)
      /\ \A p \in Requests : \A v, k : Deleting(p, v, k)' => Deleting(p, v, k)
  BY <1>2 DEF Signing, Issuing, Deleting, SigningIn
<1>6. \A v \in Wallets, k \in Nonces :
        /\ Signed(v, k)' => Signed(v, k) \/ (v = w /\ k = n)
        /\ Used(v, k)' => Used(v, k)
  BY <1>3, <1>4, <1>5 DEF Signed, Used
<1>7. \A v \in Wallets \ doubled', k \in Nonces \ contested', p, o \in Requests :
        \/ Deleting(p, v, k)' /\ Deleting(o, v, k)'
        \/ Signing(p, v, k)' /\ Signing(o, v, k)'
        => p = o
  BY <1>2, <1>5 DEF SpentInv
<1>8. \A v \in Wallets \ doubled', k \in Nonces \ contested', p \in Requests :
        Signing(p, v, k)' => ~Signed(v, k)'
  BY <1>2, <1>3, <1>5, <1>6 DEF SpentInv
<1>9. NonceUsedOnce'
  <2>1. n # NoNonce /\ w \notin doubled /\ n \notin contested => ~Signed(w, n)
    BY <1>1, <1>3 DEF SpentInv
  <2> QED BY <1>2, <1>4, <2>1 DEF SpentInv, NonceUsedOnce, Signed
<1>10. ASSUME NEW v \in Wallets \ doubled', NEW k \in Nonces \ contested', Used(v, k)'
      PROVE  /\ k <= drawn'
             /\ \A m \in NoncesOf(v)' : m.nonce # k
             /\ \A p \in Requests : ~Issuing(p, k)' /\ ~Deleting(p, v, k)'
  <2>1. Used(v, k) /\ v \notin doubled /\ k \notin contested
    BY <1>2, <1>6, <1>10
  <2>2. \A m \in NoncesOf(v)' : m \in NoncesOf(v)
    BY <1>2 DEF NoncesOf
  <2> QED BY <1>2, <1>5, <2>1, <2>2 DEF SpentInv
<1> QED BY <1>7, <1>8, <1>9, <1>10 DEF SpentInv

LEMMA SpentStep == StateInv /\ IssueInv /\ RecordInv /\ SpentInv /\ [Next]_vars => SpentInv'
<1> SUFFICES ASSUME StateInv, IssueInv, RecordInv, SpentInv, [Next]_vars PROVE SpentInv'
  OBVIOUS
<1>0. req \in [Requests -> Handlers] /\ drawn \in Nat /\ NoNonce \notin Nonces
  BY Bounds DEF StateInv, TypeOK, Handlers, Nonces, NoNonce
<1>1. CASE UNCHANGED vars \/ Tick
  BY <1>0, <1>1, SpentKept DEF vars, Tick, history
<1>2. ASSUME NEW q \in Requests,
             \/ \E w \in Wallets : BeginIssue(q, w) \/ BeginTestLogin(q, w)
             \/ \E w \in Wallets, n \in 1..drawn : BeginVerify(q, w, n)
             \/ \E id \in DOMAIN signIns : BeginWithCookie(q, id)
      PROVE  SpentInv'
  <2>1. /\ \A p \in Requests : p # q => req'[p] = req[p]
        /\ nonces' = nonces /\ signIns' = signIns /\ doubled' = doubled /\ contested' = contested
        /\ drawn' \in Nat /\ drawn <= drawn'
        /\ req'[q].at \notin {"insert", "delete", "open"}
        /\ req'[q].at = "user" => req'[q].nonce = NoNonce
        /\ req'[q].at = "upsert" => req'[q].nonce = drawn + 1
    BY <1>2, Begun DEF history
  <2> QED BY <1>0, <2>1, SpentKept DEF SigningIn
<1>3. ASSUME NEW q \in Requests, Continue(q) \/ HandlerDies(q), ~DeleteNonce(q), ~OpenSession(q)
      PROVE  SpentInv'
  <2>1. /\ drawn' = drawn /\ \A p \in Requests : p # q => req'[p] = req[p]
        /\ req'[q].at \in NonceSteps \cup SigningIn =>
              req'[q].wallet = req[q].wallet /\ req'[q].nonce = req[q].nonce
        /\ req'[q].at \in {"upsert", "insert"} => req[q].at \in {"upsert", "insert"}
        /\ req'[q].at = "delete" => AcceptNonce(q)
        /\ req'[q].at \in SigningIn => req[q].at \in SigningIn
    BY <1>3, Continued DEF NoNonceYet
  <2>2. signIns' = signIns
    BY <1>3 DEF Continue, ReplaceNonce, NoNonceYet, InsertNonce, Written, AcceptNonce, RejectNonce,
       UpsertUser, FindSession, FindUser, ClearSession, HandlerDies
  <2>3. /\ \A m \in nonces' : m \in nonces \/ Issuing(q, m.nonce)
        /\ doubled \subseteq doubled' /\ contested \subseteq contested'
    BY <1>3, Writes DEF Issuing
  <2>4. \A p \in Requests : req'[p].at = "delete" =>
          \/ req'[p] = req[p]
          \/ AcceptNonce(p) /\ req'[p].wallet = req[p].wallet /\ req'[p].nonce = req[p].nonce
               /\ \A o \in Requests : o # p => req'[o] = req[o]
    BY <2>1 DEF NonceSteps
  <2>5. \A p \in Requests : req'[p].at \in SigningIn =>
          /\ req[p].at \in SigningIn
          /\ req'[p].wallet = req[p].wallet /\ req'[p].nonce = req[p].nonce
    BY <2>1
  <2>6. \A p \in Requests : req'[p].at \in {"upsert", "insert"} =>
          req[p].at \in {"upsert", "insert"} /\ req'[p].nonce = req[p].nonce
    BY <2>1 DEF NonceSteps
  <2> QED BY <1>0, <2>1, <2>2, <2>3, <2>4, <2>5, <2>6, SpentKept
<1> QED BY <1>1, <1>2, <1>3, DeleteSpends, OpenSigns DEF Next

LEMMA NonceInit == Init => NonceInv
<1> SUFFICES ASSUME Init PROVE NonceInv
  OBVIOUS
<1>1. (\A q \in Requests : req[q] = Idle) /\ nonces = {} /\ signIns = << >>
  BY DEF Init
<1>2. DrawnInv /\ IssueInv /\ RecordInv
  BY <1>1, IdleType DEF DrawnInv, IssueInv, RecordInv, Issuing
<1>3. WaitInv
  BY <1>1, IdleType DEF Init, WaitInv
<1>4. \A w \in Wallets, n \in Nonces :
        ~Used(w, n) /\ \A q \in Requests : ~Signing(q, w, n) /\ ~Deleting(q, w, n)
  BY <1>1, IdleType DEF Used, Signed, Signing, Deleting, SigningIn
<1>5. SpentInv
  BY <1>1, <1>4 DEF SpentInv, NonceUsedOnce
<1> QED BY <1>2, <1>3, <1>5 DEF NonceInv

LEMMA NonceAlways == Spec => []NonceInv
<1>1. StateInv /\ NonceInv /\ [Next]_vars => NonceInv'
  BY DrawnStep, IssueInvStep, RecordStep, WaitStep, SpentStep DEF NonceInv
<1> QED BY <1>1, StateAlways, NonceInit, PTL DEF Spec

\* No signed message opens two sessions, whichever handlers interleave or die, unless two
\* sign-ins accepted its nonce before either had deleted it, or two handlers were
\* inserting a nonce of its wallet at once.
THEOREM NoncesAreUsedOnce == Spec => []NonceUsedOnce
<1>1. NonceInv => NonceUsedOnce
  BY DEF NonceInv, SpentInv
<1> QED BY <1>1, NonceAlways, PTL

\* The nonce written for a wallet last stays on record, alone, until it is spent, unless
\* it was written while a sign-in was about to delete the one before, or two handlers
\* were inserting a nonce of the wallet at once.
THEOREM TheLastNonceWaits == Spec => []LastNonceWaits
<1>1. NonceInv => LastNonceWaits
  BY DEF NonceInv, WaitInv, LastNonceWaits
<1> QED BY <1>1, NonceAlways, PTL

=============================================================================
