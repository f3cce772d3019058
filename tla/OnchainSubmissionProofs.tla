----------------------- MODULE OnchainSubmissionProofs -----------------------
(***************************************************************************)
(* Proofs about OnchainSubmission, for any bundles, handlers and number of *)
(* transactions: what the application says of a bundle is what the chain   *)
(* made of it, a submission alone on its bundle is never undone, and what  *)
(* an observer sees is a behaviour of SubmissionPromise.                   *)
(***************************************************************************)
EXTENDS OnchainSubmission, TLAPS

\* The transactions that wait are accepted ones, each in one place, and pending; the
\* ones that succeeded have left a receipt.
ChainInv ==
  /\ \A i \in 1..Len(pool) : pool[i] \in 1..Sent
  /\ \A i, j \in 1..Len(pool) : pool[i] = pool[j] => i = j
  /\ \A i \in 1..Len(pool) : mined < i => outcome[pool[i]] = "pending"
  /\ \A t \in 1..Sent : outcome[t] = "ok" => bundleOf[t] \in registered

AfterSend == {"bundle", "document", "wait", "record"}

\* A handler has a bundle while it runs, a nonce of the pool or the next one until it
\* sends, and then a transaction of its bundle whose outcome it tells.
HandlerInv ==
  \A q \in Handlers :
    /\ req[q].at = "idle" => req[q].bundle = NoBundle
    /\ req[q].at # "idle" => req[q].bundle \in Bundles
    /\ req[q].at \in {"estimate", "send"} => req[q].nonce \in 1..(Len(pool) + 1)
    /\ req[q].at \in AfterSend =>
         /\ req[q].tx \in 1..Sent
         /\ bundleOf[req[q].tx] = req[q].bundle
         /\ req[q].write = "confirmed" => outcome[req[q].tx] = "ok"
         /\ req[q].write = "failed" => outcome[req[q].tx] = "reverted"
    /\ req[q].at \in {"nonce", "estimate", "send", "wait"} => req[q].write = "submitted"
    /\ req[q].at = "record" => req[q].write = "confirmed"

StateInv == TypeOK /\ ChainInv /\ HandlerInv /\ OutcomeIsReal

-----------------------------------------------------------------------------

HandlerRecords == [at : Steps, bundle : Bundles \cup {NoBundle},
                   nonce : 0..(MaxSends + 1), tx : Txs \cup {NoTx}, write : Writes]

LEMMA IdleType == Idle \in HandlerRecords /\ Idle.at = "idle" /\ Idle.bundle = NoBundle
BY OnchainAssumption DEF Idle, Steps, HandlerRecords, Writes, NoTx

\* The numbers of the transactions there are.
LEMMA Numbers ==
  ASSUME TypeOK
  PROVE  /\ Sent \in Nat /\ Sent <= MaxSends /\ Len(pool) \in Nat /\ mined \in Nat
         /\ mined <= Len(pool) /\ Len(pool) <= Sent /\ MaxSends \in Nat
         /\ \A t \in 1..Sent : t \in Txs /\ t \in Nat
         /\ bundleOf \in [1..Sent -> Bundles] /\ pool \in [1..Len(pool) -> Txs]
BY OnchainAssumption DEF TypeOK, Sent, Txs

\* What the steps that leave the chain alone have in common: the handlers' records and
\* the database are all there is to look at.
LEMMA ChainStays ==
  ASSUME StateInv, UNCHANGED chainVars
  PROVE  ChainInv' /\ Sent' = Sent
BY DEF StateInv, ChainInv, chainVars, Sent

\* A handler that ends, or goes on with what it carries.
LEMMA IdleHandler ==
  ASSUME StateInv, UNCHANGED <<chainVars, onchain, docStatus, timeline>>, NEW q \in Handlers,
         req' = [req EXCEPT ![q] = Idle],
         overlapped' \subseteq Bundles, cut' \subseteq Bundles
  PROVE  StateInv'
<1>1. TypeOK'
  BY IdleType DEF StateInv, TypeOK, chainVars, HandlerRecords, Sent
<1>2. ChainInv'
  BY ChainStays
<1>3. HandlerInv'
  BY IdleType DEF StateInv, TypeOK, HandlerInv, chainVars, Sent, AfterSend
<1>4. OutcomeIsReal'
  BY DEF StateInv, OutcomeIsReal, chainVars, Sent
<1> QED BY <1>1, <1>2, <1>3, <1>4 DEF StateInv

LEMMA BeginStep ==
  ASSUME StateInv, NEW q \in Handlers, NEW b \in Bundles, Begin(q, b)
  PROVE  StateInv'
<1>1. TypeOK'
  <2>1. [Idle EXCEPT !.at = "nonce", !.bundle = b] \in HandlerRecords
    BY IdleType DEF HandlerRecords, Steps
  <2>2. req' \in [Handlers -> HandlerRecords]
    BY <2>1 DEF Begin, StateInv, TypeOK, HandlerRecords
  <2>3. overlapped' \subseteq Bundles /\ cut' \subseteq Bundles
    BY DEF Begin, StateInv, TypeOK
  <2> QED BY <2>2, <2>3 DEF Begin, StateInv, TypeOK, HandlerRecords, Sent, dbVars, chainVars
<1>2. ChainInv'
  BY ChainStays DEF Begin
<1>3. HandlerInv'
  BY DEF Begin, StateInv, TypeOK, HandlerInv, chainVars, Sent, AfterSend, Idle
<1>4. OutcomeIsReal'
  BY DEF Begin, StateInv, OutcomeIsReal, dbVars, chainVars, Sent
<1> QED BY <1>1, <1>2, <1>3, <1>4 DEF StateInv

LEMMA ReadNonceStep ==
  ASSUME StateInv, NEW q \in Handlers, ReadNonce(q)
  PROVE  StateInv'
<1>1. TypeOK'
  <2>1. Len(pool) + 1 \in 0..(MaxSends + 1)
    BY Numbers DEF StateInv
  <2>2. req' \in [Handlers -> HandlerRecords]
    <3>1. req \in [Handlers -> HandlerRecords]
      BY DEF StateInv, TypeOK, HandlerRecords
    <3>2. [req[q] EXCEPT !.at = "estimate", !.nonce = Len(pool) + 1] \in HandlerRecords
      BY <2>1, <3>1 DEF HandlerRecords, Steps
    <3>3. req' = [req EXCEPT ![q] = [req[q] EXCEPT !.at = "estimate", !.nonce = Len(pool) + 1]]
      BY <3>1 DEF ReadNonce
    <3> QED BY <3>1, <3>2, <3>3
  <2> QED BY <2>2 DEF ReadNonce, StateInv, TypeOK, HandlerRecords, Sent, dbVars, chainVars, history
<1>2. ChainInv'
  BY ChainStays DEF ReadNonce
<1>3. HandlerInv'
  <2>1. Len(pool) + 1 \in 1..(Len(pool) + 1)
    BY Numbers DEF StateInv
  <2> QED BY <2>1 DEF ReadNonce, StateInv, TypeOK, HandlerInv, chainVars, Sent, AfterSend
<1>4. OutcomeIsReal'
  BY DEF ReadNonce, StateInv, OutcomeIsReal, dbVars, chainVars, Sent
<1> QED BY <1>1, <1>2, <1>3, <1>4 DEF StateInv

LEMMA EstimateStep ==
  ASSUME StateInv, NEW q \in Handlers, EstimateGas(q)
  PROVE  StateInv'
<1>1. CASE req' = [req EXCEPT ![q] = Idle]
  BY <1>1, IdleHandler DEF EstimateGas, dbVars, history, StateInv, TypeOK
<1>2. CASE req' = [req EXCEPT ![q].at = "send"]
  <2>1. TypeOK'
    <3>1. req \in [Handlers -> HandlerRecords]
      BY DEF StateInv, TypeOK, HandlerRecords
    <3>2. [req[q] EXCEPT !.at = "send"] \in HandlerRecords
      BY <3>1 DEF HandlerRecords, Steps
    <3>3. req' = [req EXCEPT ![q] = [req[q] EXCEPT !.at = "send"]]
      BY <1>2
    <3>4. req' \in [Handlers -> HandlerRecords]
      BY <3>1, <3>2, <3>3
    <3> QED BY <3>4 DEF EstimateGas, StateInv, TypeOK, HandlerRecords, Sent, dbVars, chainVars, history
  <2>2. ChainInv'
    BY ChainStays DEF EstimateGas
  <2>3. HandlerInv'
    BY <1>2 DEF EstimateGas, StateInv, TypeOK, HandlerInv, chainVars, Sent, AfterSend
  <2>4. OutcomeIsReal'
    BY DEF EstimateGas, StateInv, OutcomeIsReal, dbVars, chainVars, Sent
  <2> QED BY <2>1, <2>2, <2>3, <2>4 DEF StateInv
<1> QED BY <1>1, <1>2 DEF EstimateGas

\* The node takes a transaction: it is a new one, and pending.
LEMMA AcceptedStep ==
  ASSUME StateInv, NEW q \in Handlers, req[q].at = "send", Accepted(q)
  PROVE  /\ bundleOf' \in Seq(Bundles) /\ Sent' = Sent + 1 /\ Sent' <= MaxSends
         /\ pool' \in Seq(Txs) /\ Len(pool') <= Sent' /\ Len(pool) <= Len(pool')
         /\ mined' = mined /\ mined' \in 0..Len(pool')
         /\ outcome' \in [Txs -> {"none", "pending", "ok", "reverted"}]
         /\ Sent + 1 \in Txs /\ bundleOf'[Sent + 1] = req[q].bundle
         /\ outcome'[Sent + 1] = "pending"
         /\ \A t \in 1..Sent : bundleOf'[t] = bundleOf[t] /\ outcome'[t] = outcome[t]
         /\ \A t \in 1..Sent' : t \in 1..Sent \/ t = Sent + 1
         /\ ChainInv'
<1>1. /\ Sent \in Nat /\ Sent <= MaxSends /\ Len(pool) \in Nat /\ mined \in Nat
      /\ mined <= Len(pool) /\ Len(pool) <= Sent /\ MaxSends \in Nat
      /\ \A t \in 1..Sent : t \in Txs /\ t \in Nat
      /\ bundleOf \in [1..Sent -> Bundles] /\ pool \in [1..Len(pool) -> Txs]
  BY Numbers DEF StateInv
<1>2. Sent < MaxSends /\ req[q].nonce > mined /\ req[q].nonce \in 1..(Len(pool) + 1)
      /\ req[q].bundle \in Bundles
  BY DEF Accepted, Acceptable, StateInv, HandlerInv
<1>3. Sent + 1 \in Txs
  BY <1>1, <1>2 DEF Txs
<1>4. /\ bundleOf' \in Seq(Bundles) /\ Sent' = Sent + 1
      /\ bundleOf'[Sent + 1] = req[q].bundle
      /\ \A t \in 1..Sent : bundleOf'[t] = bundleOf[t]
  BY <1>1, <1>2 DEF Accepted, Sent, StateInv, TypeOK
<1>5. /\ outcome' \in [Txs -> {"none", "pending", "ok", "reverted"}]
      /\ outcome'[Sent + 1] = "pending"
      /\ \A t \in 1..Sent : outcome'[t] = outcome[t]
  BY <1>1, <1>3 DEF Accepted, StateInv, TypeOK
<1>6. /\ pool' \in Seq(Txs) /\ Len(pool) <= Len(pool') /\ Len(pool') <= Sent + 1
      /\ pool'[req[q].nonce] = Sent + 1
      /\ \A i \in 1..Len(pool') : i = req[q].nonce \/ (i \in 1..Len(pool) /\ pool'[i] = pool[i])
  <2>1. CASE req[q].nonce = Len(pool) + 1
    <3>1. pool' = Append(pool, Sent + 1)
      BY <2>1 DEF Accepted
    <3> QED BY <1>1, <1>2, <1>3, <2>1, <3>1 DEF StateInv, TypeOK
  <2>2. CASE req[q].nonce \in 1..Len(pool)
    <3>0. req[q].nonce # Len(pool) + 1
      BY <1>1, <2>2
    <3>1. pool' = [pool EXCEPT ![req[q].nonce] = Sent + 1]
      BY <3>0 DEF Accepted
    <3>2. pool' \in Seq(Txs) /\ Len(pool') = Len(pool)
      BY <1>1, <1>3, <2>2, <3>1 DEF StateInv, TypeOK
    <3> QED BY <1>1, <2>2, <3>1, <3>2
  <2> QED BY <1>1, <1>2, <2>1, <2>2
<1>7. mined' = mined /\ mined' \in 0..Len(pool') /\ Len(pool') \in Nat
  BY <1>1, <1>6 DEF Accepted
<1>8. \A t \in 1..(Sent + 1) : t \in 1..Sent \/ t = Sent + 1
  BY <1>1
<1>9. \A t \in 1..Sent : t # Sent + 1
  BY <1>1
<1>10. ChainInv'
  <2>1. \A i \in 1..Len(pool') : pool'[i] \in 1..Sent'
    BY <1>1, <1>4, <1>6 DEF StateInv, ChainInv
  <2>2. \A i, j \in 1..Len(pool') : pool'[i] = pool'[j] => i = j
    BY <1>6, <1>9 DEF StateInv, ChainInv
  <2>3. \A i \in 1..Len(pool') : mined' < i => outcome'[pool'[i]] = "pending"
    BY <1>5, <1>6, <1>7 DEF StateInv, ChainInv
  <2>4. \A t \in 1..Sent' : outcome'[t] = "ok" => bundleOf'[t] \in registered'
    BY <1>4, <1>5, <1>8 DEF Accepted, StateInv, ChainInv
  <2> QED BY <2>1, <2>2, <2>3, <2>4 DEF ChainInv
<1> QED BY <1>1, <1>2, <1>3, <1>4, <1>5, <1>6, <1>7, <1>8, <1>10

LEMMA SendStep ==
  ASSUME StateInv, NEW q \in Handlers, Send(q)
  PROVE  StateInv'
<1>1. req[q].at = "send" /\ Accepted(q) /\ req[q].bundle \in Bundles /\ req[q].write = "submitted"
  BY DEF Send, StateInv, HandlerInv
<1>2. /\ bundleOf' \in Seq(Bundles) /\ Sent' = Sent + 1 /\ Sent' <= MaxSends
      /\ pool' \in Seq(Txs) /\ Len(pool') <= Sent' /\ Len(pool) <= Len(pool')
      /\ mined' = mined /\ mined' \in 0..Len(pool')
      /\ outcome' \in [Txs -> {"none", "pending", "ok", "reverted"}]
      /\ Sent + 1 \in Txs /\ bundleOf'[Sent + 1] = req[q].bundle
      /\ \A t \in 1..Sent : bundleOf'[t] = bundleOf[t] /\ outcome'[t] = outcome[t]
      /\ \A t \in 1..Sent' : t \in 1..Sent \/ t = Sent + 1
      /\ ChainInv'
  BY <1>1, AcceptedStep
<1>3. Sent \in Nat /\ Len(pool) \in Nat /\ Len(pool') \in Nat
  BY <1>2, Numbers DEF StateInv
<1>4. \A t \in 1..Sent : t \in 1..Sent'
  BY <1>2, <1>3
<1>5. OutcomeIsReal'
  <2>1. UNCHANGED <<onchain, docStatus, timeline, registered>>
    BY <1>1 DEF Send, Accepted, dbVars
  <2> SUFFICES ASSUME NEW b \in Bundles
               PROVE  /\ "confirmed" \in {onchain[b].status, docStatus[b]} \/ b \in timeline
                           => b \in registered
                      /\ onchain[b].status \in Writes =>
                           /\ onchain[b].tx \in 1..Sent'
                           /\ bundleOf'[onchain[b].tx] = b
                           /\ onchain[b].status = "confirmed" => outcome'[onchain[b].tx] = "ok"
                           /\ onchain[b].status = "failed" => outcome'[onchain[b].tx] = "reverted"
    BY <2>1 DEF OutcomeIsReal
  <2> QED BY <1>2, <1>4 DEF StateInv, OutcomeIsReal
<1>6. \/ req' = [req EXCEPT ![q] = [req[q] EXCEPT !.at = "bundle", !.tx = Sent + 1]]
      \/ req' = [req EXCEPT ![q] = Idle]
  BY DEF Send, StateInv, TypeOK
<1>7. TypeOK'
  <2>1. req \in [Handlers -> HandlerRecords]
    BY DEF StateInv, TypeOK, HandlerRecords
  <2>2. [req[q] EXCEPT !.at = "bundle", !.tx = Sent + 1] \in HandlerRecords
    BY <1>2, <2>1 DEF HandlerRecords, Steps
  <2>3. req' \in [Handlers -> HandlerRecords]
    BY <1>6, <2>1, <2>2, IdleType
  <2> QED BY <1>1, <1>2, <2>3 DEF Send, Accepted, StateInv, TypeOK, HandlerRecords, dbVars, history
<1>8. HandlerInv'
  <2> SUFFICES ASSUME NEW p \in Handlers
               PROVE  /\ req'[p].at = "idle" => req'[p].bundle = NoBundle
                      /\ req'[p].at # "idle" => req'[p].bundle \in Bundles
                      /\ req'[p].at \in {"estimate", "send"} => req'[p].nonce \in 1..(Len(pool') + 1)
                      /\ req'[p].at \in AfterSend =>
                           /\ req'[p].tx \in 1..Sent'
                           /\ bundleOf'[req'[p].tx] = req'[p].bundle
                           /\ req'[p].write = "confirmed" => outcome'[req'[p].tx] = "ok"
                           /\ req'[p].write = "failed" => outcome'[req'[p].tx] = "reverted"
                      /\ req'[p].at \in {"nonce", "estimate", "send", "wait"} =>
                           req'[p].write = "submitted"
                      /\ req'[p].at = "record" => req'[p].write = "confirmed"
    BY DEF HandlerInv
  <2>1. CASE req'[p] = req[p]
    <3>1. req[p].at \in {"estimate", "send"} => req[p].nonce \in 1..(Len(pool') + 1)
      BY <1>2, <1>3 DEF StateInv, HandlerInv
    <3> QED BY <1>2, <1>4, <2>1, <3>1 DEF StateInv, HandlerInv
  <2>2. CASE p = q /\ req'[q] = [req[q] EXCEPT !.at = "bundle", !.tx = Sent + 1]
    <3>1. req'[q].at = "bundle" /\ req'[q].tx = Sent + 1 /\ req'[q].bundle = req[q].bundle
          /\ req'[q].write = "submitted" /\ Sent + 1 \in 1..Sent'
      BY <1>1, <1>2, <1>3, <2>2 DEF StateInv, TypeOK
    <3> QED BY <1>1, <1>2, <2>2, <3>1
  <2>3. CASE p = q /\ req'[q] = Idle
    BY <2>3, IdleType DEF AfterSend
  <2> QED BY <1>6, <2>1, <2>2, <2>3 DEF StateInv, TypeOK
<1> QED BY <1>2, <1>5, <1>7, <1>8 DEF StateInv

\* What a handler writes is what its transaction has become.
LEMMA WriteStep ==
  ASSUME StateInv, NEW q \in Handlers, WriteBundle(q) \/ WriteDocument(q) \/ RecordConfirmed(q)
  PROVE  StateInv'
<1>1. /\ req[q].bundle \in Bundles /\ req[q].tx \in 1..Sent /\ req[q].tx \in Txs
      /\ req[q].write \in Writes /\ bundleOf[req[q].tx] = req[q].bundle
      /\ req[q].write = "confirmed" => outcome[req[q].tx] = "ok" /\ req[q].bundle \in registered
      /\ req[q].write = "failed" => outcome[req[q].tx] = "reverted"
      /\ req[q].at = "record" => req[q].bundle \in registered
  <2>1. req[q].at \in AfterSend
    BY DEF WriteBundle, WriteDocument, RecordConfirmed, AfterSend
  <2>2. /\ req[q].bundle \in Bundles /\ req[q].tx \in 1..Sent /\ req[q].write \in Writes
        /\ bundleOf[req[q].tx] = req[q].bundle
        /\ req[q].write = "confirmed" => outcome[req[q].tx] = "ok"
        /\ req[q].write = "failed" => outcome[req[q].tx] = "reverted"
        /\ req[q].at = "record" => req[q].write = "confirmed"
    BY <2>1 DEF StateInv, TypeOK, HandlerInv, AfterSend
  <2> QED BY <2>2, Numbers DEF StateInv, ChainInv
<1>2. ChainInv' /\ Sent' = Sent
  BY ChainStays DEF WriteBundle, WriteDocument, RecordConfirmed
<1>3. UNCHANGED <<chainVars, history>>
  BY DEF WriteBundle, WriteDocument, RecordConfirmed
<1>4. /\ req' \in [Handlers -> HandlerRecords]
      /\ HandlerInv'
  <2>1. req \in [Handlers -> HandlerRecords]
    BY DEF StateInv, TypeOK, HandlerRecords
  <2>2. PICK h \in HandlerRecords :
          /\ req' = [req EXCEPT ![q] = h]
          /\ h = Idle \/ (/\ h.at \in {"document", "wait", "record"}
                          /\ h.bundle = req[q].bundle /\ h.tx = req[q].tx /\ h.write = req[q].write
                          /\ h.at = "wait" => h.write = "submitted"
                          /\ h.at = "record" => h.write = "confirmed")
    <3>1. CASE WriteBundle(q)
      <4>1. req' = [req EXCEPT ![q] = [req[q] EXCEPT !.at = "document"]]
        BY <2>1, <3>1 DEF WriteBundle
      <4>2. [req[q] EXCEPT !.at = "document"] \in HandlerRecords
        BY <2>1 DEF HandlerRecords, Steps
      <4> DEFINE h == [req[q] EXCEPT !.at = "document"]
      <4>3. h.at = "document" /\ h.bundle = req[q].bundle /\ h.tx = req[q].tx /\ h.write = req[q].write
        BY <2>1 DEF HandlerRecords
      <4>4. req' = [req EXCEPT ![q] = h] /\ h \in HandlerRecords
        BY <4>1, <4>2
      <4> HIDE DEF h
      <4> QED BY <4>3, <4>4
    <3>2. CASE WriteDocument(q)
      <4>1. req' = [req EXCEPT ![q] = AfterDocument(q)]
        BY <3>2 DEF WriteDocument
      <4>2. CASE req[q].write = "submitted"
        <5>1. AfterDocument(q) = [req[q] EXCEPT !.at = "wait"]
          BY <4>2 DEF AfterDocument
        <5> DEFINE h == [req[q] EXCEPT !.at = "wait"]
        <5>2. h \in HandlerRecords /\ h.at = "wait" /\ h.bundle = req[q].bundle /\ h.tx = req[q].tx
              /\ h.write = req[q].write
          BY <2>1 DEF HandlerRecords, Steps
        <5>3. req' = [req EXCEPT ![q] = h]
          BY <4>1, <5>1
        <5> HIDE DEF h
        <5> QED BY <4>2, <5>2, <5>3
      <4>3. CASE req[q].write = "confirmed"
        <5>1. AfterDocument(q) = [req[q] EXCEPT !.at = "record"]
          BY <4>3 DEF AfterDocument
        <5> DEFINE h == [req[q] EXCEPT !.at = "record"]
        <5>2. h \in HandlerRecords /\ h.at = "record" /\ h.bundle = req[q].bundle /\ h.tx = req[q].tx
              /\ h.write = req[q].write
          BY <2>1 DEF HandlerRecords, Steps
        <5>3. req' = [req EXCEPT ![q] = h]
          BY <4>1, <5>1
        <5> HIDE DEF h
        <5> QED BY <4>3, <5>2, <5>3
      <4>4. CASE req[q].write = "failed"
        <5>1. AfterDocument(q) = Idle
          BY <4>4 DEF AfterDocument
        <5> QED BY <4>1, <5>1, IdleType
      <4> QED BY <1>1, <4>2, <4>3, <4>4 DEF Writes
    <3>3. CASE RecordConfirmed(q)
      BY <3>3, IdleType DEF RecordConfirmed
    <3> QED BY <3>1, <3>2, <3>3
  <2>3. req' \in [Handlers -> HandlerRecords]
    BY <2>1, <2>2
  <2>4. HandlerInv'
    BY <1>1, <1>2, <1>3, <2>1, <2>2, IdleType, OnchainAssumption
       DEF StateInv, HandlerInv, AfterSend, chainVars
  <2> QED BY <2>3, <2>4
<1>5. TypeOK' /\ OutcomeIsReal'
  <2>1. CASE WriteBundle(q)
    <3>1. onchain' = [onchain EXCEPT ![req[q].bundle] = [status |-> req[q].write, tx |-> req[q].tx]]
          /\ UNCHANGED <<docStatus, timeline>>
      BY <2>1 DEF WriteBundle
    <3>2. TypeOK'
      BY <1>1, <1>2, <1>3, <1>4, <3>1 DEF StateInv, TypeOK, chainVars, history, HandlerRecords
    <3>3. OutcomeIsReal'
      BY <1>1, <1>2, <1>3, <3>1 DEF StateInv, TypeOK, OutcomeIsReal, chainVars, Writes
    <3> QED BY <3>2, <3>3
  <2>2. CASE WriteDocument(q)
    <3>1. /\ docStatus' = [docStatus EXCEPT ![req[q].bundle] =
                            IF @ = "absent" THEN @ ELSE req[q].write]
          /\ UNCHANGED <<onchain, timeline>>
      BY <2>2 DEF WriteDocument
    <3>2. TypeOK'
      BY <1>1, <1>2, <1>3, <1>4, <3>1 DEF StateInv, TypeOK, chainVars, history, HandlerRecords
    <3>3. OutcomeIsReal'
      BY <1>1, <1>2, <1>3, <3>1 DEF StateInv, TypeOK, OutcomeIsReal, chainVars, Writes
    <3> QED BY <3>2, <3>3
  <2>3. CASE RecordConfirmed(q)
    <3>1. timeline' = timeline \cup {req[q].bundle} /\ req[q].at = "record"
          /\ UNCHANGED <<onchain, docStatus>>
      BY <2>3 DEF RecordConfirmed
    <3>2. TypeOK'
      BY <1>1, <1>2, <1>3, <1>4, <3>1 DEF StateInv, TypeOK, chainVars, history, HandlerRecords
    <3>3. OutcomeIsReal'
      BY <1>1, <1>2, <1>3, <3>1 DEF StateInv, OutcomeIsReal, chainVars
    <3> QED BY <3>2, <3>3
  <2> QED BY <2>1, <2>2, <2>3
<1> QED BY <1>2, <1>4, <1>5 DEF StateInv

LEMMA ReceiptStep ==
  ASSUME StateInv, NEW q \in Handlers, ReadReceipt(q)
  PROVE  StateInv'
<1> DEFINE w == IF outcome[req[q].tx] = "ok" THEN "confirmed" ELSE "failed"
<1>1. /\ req \in [Handlers -> HandlerRecords]
      /\ req' = [req EXCEPT ![q] = [req[q] EXCEPT !.at = "bundle", !.write = w]]
      /\ w = "confirmed" => outcome[req[q].tx] = "ok"
      /\ w = "failed" => outcome[req[q].tx] = "reverted"
      /\ w \in Writes
  BY DEF ReadReceipt, StateInv, TypeOK, HandlerRecords, Writes
<1> HIDE DEF w
<1>2. ChainInv' /\ Sent' = Sent
  BY ChainStays DEF ReadReceipt
<1>3. TypeOK'
  <2>1. [req[q] EXCEPT !.at = "bundle", !.write = w] \in HandlerRecords
    BY <1>1 DEF HandlerRecords, Steps
  <2>2. req' \in [Handlers -> HandlerRecords]
    BY <1>1, <2>1
  <2> QED BY <1>2, <2>2 DEF ReadReceipt, StateInv, TypeOK, HandlerRecords, dbVars, chainVars, history
<1>4. HandlerInv'
  <2>1. req[q].at = "wait" /\ UNCHANGED chainVars
    BY DEF ReadReceipt
  <2> QED BY <1>1, <1>2, <2>1 DEF StateInv, HandlerInv, AfterSend, HandlerRecords, chainVars
<1>5. OutcomeIsReal'
  BY DEF ReadReceipt, StateInv, OutcomeIsReal, dbVars, chainVars, Sent
<1> QED BY <1>2, <1>3, <1>4, <1>5 DEF StateInv

LEMMA InsertStep ==
  ASSUME StateInv, NEW b \in Bundles, InsertResult(b)
  PROVE  StateInv'
<1>1. PICK s \in {"not_submitted", "unsupported"} : docStatus' = [docStatus EXCEPT ![b] = s]
  BY DEF InsertResult, DefaultStatus
<1>2. ChainInv' /\ Sent' = Sent
  BY ChainStays DEF InsertResult
<1>3. TypeOK'
  BY <1>1, <1>2 DEF InsertResult, StateInv, TypeOK, chainVars, history
<1>4. HandlerInv'
  BY <1>2 DEF InsertResult, StateInv, HandlerInv, chainVars
<1>5. OutcomeIsReal'
  BY <1>1, <1>2 DEF InsertResult, StateInv, TypeOK, OutcomeIsReal, chainVars
<1> QED BY <1>2, <1>3, <1>4, <1>5 DEF StateInv

LEMMA MineStep ==
  ASSUME StateInv, MineNext
  PROVE  StateInv'
<1> DEFINE t == pool[mined + 1]
<1>1. /\ Sent \in Nat /\ Len(pool) \in Nat /\ mined \in Nat /\ mined' = mined + 1
      /\ mined + 1 \in 1..Len(pool) /\ mined' \in 0..Len(pool)
      /\ \A u \in 1..Sent : u \in Txs
  BY Numbers DEF MineNext, StateInv
<1>2. t \in 1..Sent /\ t \in Txs /\ outcome[t] = "pending" /\ bundleOf[t] \in Bundles
  <2>1. t \in 1..Sent /\ outcome[t] = "pending"
    BY <1>1 DEF StateInv, ChainInv
  <2> QED BY <1>1, <2>1, Numbers DEF StateInv
<1>3. PICK o \in {"ok", "reverted"} :
        /\ outcome' = [outcome EXCEPT ![t] = o]
        /\ o = "ok" => registered' = registered \cup {bundleOf[t]}
        /\ o = "reverted" => registered' = registered
  BY DEF MineNext
<1>4. UNCHANGED <<dbVars, req, bundleOf, pool, history>> /\ Sent' = Sent
  BY DEF MineNext, Sent
<1> HIDE DEF t
<1>5. /\ \A u \in Txs : outcome'[u] = IF u = t THEN o ELSE outcome[u]
      /\ registered \subseteq registered'
  BY <1>3 DEF StateInv, TypeOK
<1>6. TypeOK'
  BY <1>1, <1>2, <1>3, <1>4 DEF StateInv, TypeOK, dbVars, history
<1>7. ChainInv'
  <2>1. \A i \in 1..Len(pool) : mined' < i => outcome'[pool[i]] = "pending"
    <3> SUFFICES ASSUME NEW i \in 1..Len(pool), mined' < i PROVE outcome'[pool[i]] = "pending"
      OBVIOUS
    <3>1. mined < i /\ i # mined + 1
      BY <1>1
    <3>2. pool[i] # t /\ outcome[pool[i]] = "pending" /\ pool[i] \in Txs
      BY <1>1, <3>1 DEF StateInv, ChainInv, t
    <3> QED BY <1>5, <3>2
  <2>2. \A u \in 1..Sent : outcome'[u] = "ok" => bundleOf[u] \in registered'
    BY <1>1, <1>3, <1>5 DEF StateInv, ChainInv
  <2> QED BY <1>4, <2>1, <2>2 DEF StateInv, ChainInv
<1>8. HandlerInv'
  <2>1. \A u \in 1..Sent : outcome[u] \in {"ok", "reverted"} => outcome'[u] = outcome[u]
    BY <1>1, <1>2, <1>5
  <2> QED BY <1>4, <2>1 DEF StateInv, HandlerInv
<1>9. OutcomeIsReal'
  <2>1. \A u \in 1..Sent : outcome[u] \in {"ok", "reverted"} => outcome'[u] = outcome[u]
    BY <1>1, <1>2, <1>5
  <2> QED BY <1>4, <1>5, <2>1 DEF StateInv, OutcomeIsReal, dbVars
<1> QED BY <1>6, <1>7, <1>8, <1>9 DEF StateInv

LEMMA StateStep ==
  ASSUME StateInv, [Next]_vars
  PROVE  StateInv'
<1>1. ASSUME NEW q \in Handlers,
             SendRefused(q) \/ ReceiptTimeout(q) \/ RpcRaises(q) \/ HandlerDies(q)
      PROVE  StateInv'
  <2>1. /\ UNCHANGED <<chainVars, onchain, docStatus, timeline>>
        /\ req' = [req EXCEPT ![q] = Idle]
    BY <1>1 DEF SendRefused, ReceiptTimeout, RpcRaises, HandlerDies, dbVars
  <2>2. overlapped' \subseteq Bundles /\ cut' \subseteq Bundles
    BY <1>1 DEF SendRefused, ReceiptTimeout, RpcRaises, HandlerDies, history, StateInv, TypeOK, HandlerInv
  <2> QED BY <2>1, <2>2, IdleHandler
<1>2. CASE UNCHANGED vars
  BY <1>2 DEF vars, dbVars, chainVars, history, StateInv, TypeOK, ChainInv, HandlerInv, OutcomeIsReal, Sent
<1> QED BY <1>1, <1>2, BeginStep, ReadNonceStep, EstimateStep, SendStep, WriteStep, ReceiptStep,
           InsertStep, MineStep DEF Next, Handle

LEMMA StateInvariant == Spec => []StateInv
<1>1. Init => StateInv
  <2> SUFFICES ASSUME Init PROVE StateInv
    OBVIOUS
  <2>1. Sent = 0 /\ Len(pool) = 0
    BY DEF Init, Sent
  <2>2. TypeOK
    BY <2>1, IdleType, OnchainAssumption
       DEF Init, TypeOK, HandlerRecords, DefaultStatus, NoTx, Writes
  <2>3. ChainInv /\ HandlerInv
    BY <2>1, IdleType DEF Init, ChainInv, HandlerInv, AfterSend
  <2>4. OutcomeIsReal
    BY DEF Init, OutcomeIsReal, DefaultStatus, Writes
  <2> QED BY <2>2, <2>3, <2>4 DEF StateInv
<1> QED BY <1>1, StateStep, PTL DEF Spec

\* Bundles, documents, handlers and the chain are well typed.
THEOREM SubmissionTypeCorrect == Spec => []TypeOK
BY StateInvariant, PTL DEF StateInv

\* Nothing the application says of a submission is untrue of the chain, whatever
\* handlers interleave, give up or die.
THEOREM OutcomesAreReal == Spec => []OutcomeIsReal
BY StateInvariant, PTL DEF StateInv

-----------------------------------------------------------------------------
(* Submissions that are alone on their bundle *)

AloneInv ==
  \A p, q \in Handlers :
    p # q /\ req[p].bundle = req[q].bundle /\ req[p].bundle # NoBundle
      => req[p].bundle \in overlapped

\* A handler that has something other than a confirmation to write, past the estimate.
Unconfirmed(q) ==
  \/ req[q].at \in {"send", "wait"}
  \/ req[q].at = "bundle" /\ req[q].write # "confirmed"
  \/ req[q].at = "document" /\ req[q].write = "submitted"

\* It is the estimate that kept it out if its bundle was confirmed.
FinalInv ==
  \A q \in Handlers :
    Unconfirmed(q) /\ req[q].bundle \notin overlapped
      => onchain[req[q].bundle].status # "confirmed"

\* Where the handler of a bundle has come with its two updates and the event.
AgreeInv ==
  \A b \in Bundles \ (overlapped \cup cut) :
    /\ onchain[b].status \in Writes \/ (\E q \in Handlers : req[q].bundle = b)
         => docStatus[b] # "absent"
    /\ onchain[b].status \in Writes =>
         \/ docStatus[b] = onchain[b].status
         \/ \E q \in Handlers : req[q].bundle = b /\ req[q].at = "document"
    /\ \A q \in Handlers : req[q].bundle = b /\ req[q].at = "document"
         => onchain[b].status = req[q].write
    /\ onchain[b].status = "confirmed" =>
         \/ b \in timeline
         \/ \E q \in Handlers : /\ req[q].bundle = b /\ req[q].at \in {"document", "record"}
                               /\ req[q].write = "confirmed"

SoloInv == StateInv /\ AloneInv /\ FinalInv /\ AgreeInv

\* A handler that ends, or moves on without a write.
QuietStep(q) ==
  \/ ReadNonce(q) \/ EstimateGas(q) \/ Send(q) \/ SendRefused(q)
  \/ ReadReceipt(q) \/ ReceiptTimeout(q) \/ RpcRaises(q)

LEMMA QuietSolo ==
  ASSUME SoloInv, NEW q \in Handlers, QuietStep(q)
  PROVE  AloneInv' /\ FinalInv' /\ AgreeInv'
<1>1. /\ req[q].at \in {"nonce", "estimate", "send", "wait"}
      /\ UNCHANGED <<dbVars, history>>
      /\ req' \in [Handlers -> HandlerRecords]
      /\ \A p \in Handlers : p # q => req'[p] = req[p]
      /\ req'[q].bundle \in {req[q].bundle, NoBundle}
      /\ req'[q].at \notin {"document", "record", "wait"}
      /\ req'[q].at = "send" => req[q].bundle \notin registered /\ req'[q].bundle = req[q].bundle
      /\ req'[q].at = "bundle" =>
           /\ req'[q].bundle = req[q].bundle
           /\ req'[q].write # "confirmed" => req[q].at \in {"send", "wait"}
  <2>1. StateInv /\ StateInv'
    <3>1. [Next]_vars
      BY DEF QuietStep, Next, Handle
    <3> QED BY <3>1, StateStep DEF SoloInv
  <2>2. req \in [Handlers -> HandlerRecords] /\ req' \in [Handlers -> HandlerRecords]
    BY <2>1 DEF StateInv, TypeOK, HandlerRecords
  <2>3. CASE ReadNonce(q)
    BY <2>2, <2>3 DEF ReadNonce, HandlerRecords, dbVars
  <2>4. CASE EstimateGas(q)
    BY <2>2, <2>4, IdleType DEF EstimateGas, HandlerRecords, dbVars
  <2>5. CASE Send(q)
    BY <2>2, <2>5, IdleType DEF Send, HandlerRecords, dbVars
  <2>6. CASE SendRefused(q) \/ ReceiptTimeout(q) \/ RpcRaises(q)
    BY <2>2, <2>6, IdleType DEF SendRefused, ReceiptTimeout, RpcRaises, dbVars
  <2>7. CASE ReadReceipt(q)
    BY <2>2, <2>7 DEF ReadReceipt, HandlerRecords, dbVars
  <2> QED BY <2>3, <2>4, <2>5, <2>6, <2>7 DEF QuietStep
<1>2. req[q].bundle \in Bundles /\ req[q].bundle # NoBundle
  BY <1>1, OnchainAssumption DEF SoloInv, StateInv, HandlerInv
<1>3. \A b \in Bundles : onchain[b].status = "confirmed" => b \in registered
  BY DEF SoloInv, StateInv, OutcomeIsReal
<1>4. AloneInv'
  BY <1>1, <1>2 DEF SoloInv, AloneInv, history
<1>5. FinalInv'
  <2> SUFFICES ASSUME NEW p \in Handlers, Unconfirmed(p)', req'[p].bundle \notin overlapped'
               PROVE  onchain'[req'[p].bundle].status # "confirmed"
    BY DEF FinalInv
  <2>1. CASE p # q
    BY <1>1, <2>1 DEF SoloInv, FinalInv, Unconfirmed, dbVars, history
  <2>2. CASE p = q /\ req'[q].at = "send"
    BY <1>1, <1>2, <1>3, <2>2 DEF dbVars
  <2>3. CASE p = q /\ req'[q].at = "bundle"
    <3>1. Unconfirmed(q)
      BY <1>1, <2>3 DEF Unconfirmed
    <3> QED BY <1>1, <2>3, <3>1 DEF SoloInv, FinalInv, dbVars, history
  <2> QED BY <1>1, <2>1, <2>2, <2>3 DEF Unconfirmed
<1>6. AgreeInv'
  <2>1. \A p \in Handlers :
          /\ req'[p].at \in {"document", "record"} => req'[p] = req[p]
          /\ req[p].at \in {"document", "record"} => req'[p] = req[p]
          /\ req'[p].bundle \in Bundles => req'[p].bundle = req[p].bundle
    BY <1>1, OnchainAssumption
  <2> QED BY <1>1, <2>1 DEF SoloInv, AgreeInv, dbVars, history
<1> QED BY <1>4, <1>5, <1>6

LEMMA BeginSolo ==
  ASSUME SoloInv, NEW q \in Handlers, NEW b \in Bundles, Begin(q, b)
  PROVE  AloneInv' /\ FinalInv' /\ AgreeInv'
<1>1. /\ req[q].bundle = NoBundle /\ req[q].at = "idle" /\ b # NoBundle
      /\ req \in [Handlers -> HandlerRecords]
      /\ UNCHANGED dbVars
  BY IdleType, OnchainAssumption DEF Begin, SoloInv, StateInv, TypeOK, HandlerRecords
<1>2. /\ req'[q].at = "nonce" /\ req'[q].bundle = b
      /\ \A p \in Handlers : p # q => req'[p] = req[p]
  BY <1>1 DEF Begin, Idle
<1>3. /\ overlapped \subseteq overlapped' /\ cut \subseteq cut'
      /\ \A p \in Handlers : req[p].bundle = b => b \in overlapped'
      /\ docStatus[b] = "absent" => b \in cut'
  BY DEF Begin
<1>4. AloneInv'
  BY <1>1, <1>2, <1>3 DEF SoloInv, AloneInv
<1>5. FinalInv'
  BY <1>1, <1>2, <1>3 DEF SoloInv, FinalInv, Unconfirmed, dbVars
<1>6. AgreeInv'
  <2>1. \A p \in Handlers :
          /\ req'[p].at \in {"document", "record"} => req'[p] = req[p]
          /\ req[p].at \in {"document", "record"} => req'[p] = req[p]
          /\ req'[p].bundle # b => req'[p].bundle = req[p].bundle
    BY <1>1, <1>2
  <2> QED BY <1>1, <1>3, <2>1 DEF SoloInv, AgreeInv, dbVars
<1> QED BY <1>4, <1>5, <1>6

LEMMA WriteBundleSolo ==
  ASSUME SoloInv, NEW q \in Handlers, WriteBundle(q)
  PROVE  AloneInv' /\ FinalInv' /\ AgreeInv'
<1> DEFINE c == req[q].bundle
<1>1. /\ req[q].at = "bundle" /\ c \in Bundles /\ c # NoBundle /\ req[q].write \in Writes
      /\ onchain \in [Bundles -> [status : {"unsupported", "not_submitted"} \cup Writes,
                                 tx : Txs \cup {NoTx}]]
      /\ UNCHANGED <<docStatus, timeline, overlapped, cut>>
  BY OnchainAssumption DEF WriteBundle, SoloInv, StateInv, TypeOK, HandlerInv, history
<1>2. /\ req'[q].at = "document" /\ req'[q].bundle = c /\ req'[q].write = req[q].write
      /\ \A p \in Handlers : p # q => req'[p] = req[p]
  BY DEF WriteBundle, SoloInv, StateInv, TypeOK
<1>3. /\ onchain'[c].status = req[q].write
      /\ \A b \in Bundles : b # c => onchain'[b] = onchain[b]
  BY <1>1 DEF WriteBundle
<1>4. \A p \in Handlers : req'[p].bundle = req[p].bundle
  BY <1>2
<1>5. AloneInv'
  BY <1>1, <1>4 DEF SoloInv, AloneInv
<1>6. \A p \in Handlers : p # q /\ req[p].bundle = c => c \in overlapped
  BY <1>1 DEF SoloInv, AloneInv
<1>7. FinalInv'
  <2> SUFFICES ASSUME NEW p \in Handlers, Unconfirmed(p)', req'[p].bundle \notin overlapped
               PROVE  onchain'[req'[p].bundle].status # "confirmed"
    BY <1>1 DEF FinalInv
  <2>1. CASE p = q
    BY <1>2, <1>3, <2>1 DEF Unconfirmed
  <2>2. CASE p # q
    <3>1. req'[p] = req[p] /\ req[p].bundle # c /\ req[p].at # "idle"
      BY <1>2, <1>6, <2>2 DEF Unconfirmed
    <3>2. req[p].bundle \in Bundles /\ Unconfirmed(p)
      BY <3>1 DEF SoloInv, StateInv, HandlerInv, Unconfirmed
    <3> QED BY <1>3, <3>1, <3>2 DEF SoloInv, FinalInv
  <2> QED BY <2>1, <2>2
<1>8. AgreeInv'
  <2> SUFFICES ASSUME NEW b \in Bundles, b \notin overlapped, b \notin cut
               PROVE  /\ onchain'[b].status \in Writes \/ (\E p \in Handlers : req'[p].bundle = b)
                           => docStatus[b] # "absent"
                      /\ onchain'[b].status \in Writes =>
                           \/ docStatus[b] = onchain'[b].status
                           \/ \E p \in Handlers : req'[p].bundle = b /\ req'[p].at = "document"
                      /\ \A p \in Handlers : req'[p].bundle = b /\ req'[p].at = "document"
                           => onchain'[b].status = req'[p].write
                      /\ onchain'[b].status = "confirmed" =>
                           \/ b \in timeline
                           \/ \E p \in Handlers :
                                /\ req'[p].bundle = b /\ req'[p].at \in {"document", "record"}
                                /\ req'[p].write = "confirmed"
    BY <1>1 DEF AgreeInv
  <2>1. CASE b = c
    <3>1. docStatus[c] # "absent"
      BY <1>1, <2>1 DEF SoloInv, AgreeInv
    <3>2. \A p \in Handlers : req'[p].bundle = c => p = q
      BY <1>4, <1>6, <2>1
    <3> QED BY <1>2, <1>3, <2>1, <3>1, <3>2
  <2>2. CASE b # c
    <3>1. onchain'[b] = onchain[b]
      BY <1>3, <2>2
    <3>2. \A p \in Handlers : req'[p].bundle = b \/ req[p].bundle = b => req'[p] = req[p]
      BY <1>2, <2>2
    <3> QED BY <3>1, <3>2, <1>4 DEF SoloInv, AgreeInv
  <2> QED BY <2>1, <2>2
<1> QED BY <1>5, <1>7, <1>8

LEMMA WriteDocumentSolo ==
  ASSUME SoloInv, NEW q \in Handlers, WriteDocument(q)
  PROVE  AloneInv' /\ FinalInv' /\ AgreeInv'
<1> DEFINE c == req[q].bundle
<1>1. /\ req[q].at = "document" /\ c \in Bundles /\ c # NoBundle /\ req[q].write \in Writes
      /\ UNCHANGED <<onchain, timeline, overlapped, cut>>
      /\ req \in [Handlers -> HandlerRecords]
      /\ docStatus \in [Bundles -> {"absent", "unsupported", "not_submitted"} \cup Writes]
  BY OnchainAssumption
     DEF WriteDocument, SoloInv, StateInv, TypeOK, HandlerInv, history, HandlerRecords
<1>2. /\ req'[q] = AfterDocument(q)
      /\ \A p \in Handlers : p # q => req'[p] = req[p]
  BY <1>1 DEF WriteDocument
<1>3. /\ req[q].write = "submitted" =>
           req'[q].at = "wait" /\ req'[q].bundle = c /\ req'[q].write = "submitted"
      /\ req[q].write = "confirmed" =>
           req'[q].at = "record" /\ req'[q].bundle = c /\ req'[q].write = "confirmed"
      /\ req[q].write = "failed" => req'[q].at = "idle" /\ req'[q].bundle = NoBundle
  BY <1>1, <1>2, IdleType DEF AfterDocument, HandlerRecords
<1>4. /\ docStatus'[c] = IF docStatus[c] = "absent" THEN "absent" ELSE req[q].write
      /\ \A b \in Bundles : b # c => docStatus'[b] = docStatus[b]
  BY <1>1 DEF WriteDocument
<1>5. \A p \in Handlers : req'[p].bundle # NoBundle => req'[p].bundle = req[p].bundle
  BY <1>1, <1>2, <1>3 DEF Writes
<1>6. AloneInv'
  BY <1>1, <1>5 DEF SoloInv, AloneInv
<1>7. \A p \in Handlers : p # q /\ req[p].bundle = c => c \in overlapped
  BY <1>1 DEF SoloInv, AloneInv
<1>8. FinalInv'
  <2> SUFFICES ASSUME NEW p \in Handlers, Unconfirmed(p)', req'[p].bundle \notin overlapped
               PROVE  onchain[req'[p].bundle].status # "confirmed"
    BY <1>1 DEF FinalInv
  <2>1. CASE p = q
    <3>1. req[q].write = "submitted" /\ req'[q].bundle = c /\ Unconfirmed(q)
      BY <1>1, <1>3, <2>1 DEF Unconfirmed, Writes
    <3> QED BY <2>1, <3>1 DEF SoloInv, FinalInv
  <2>2. CASE p # q
    BY <1>2, <2>2 DEF SoloInv, FinalInv, Unconfirmed
  <2> QED BY <2>1, <2>2
<1>9. AgreeInv'
  <2> SUFFICES ASSUME NEW b \in Bundles, b \notin overlapped, b \notin cut
               PROVE  /\ onchain[b].status \in Writes \/ (\E p \in Handlers : req'[p].bundle = b)
                           => docStatus'[b] # "absent"
                      /\ onchain[b].status \in Writes =>
                           \/ docStatus'[b] = onchain[b].status
                           \/ \E p \in Handlers : req'[p].bundle = b /\ req'[p].at = "document"
                      /\ \A p \in Handlers : req'[p].bundle = b /\ req'[p].at = "document"
                           => onchain[b].status = req'[p].write
                      /\ onchain[b].status = "confirmed" =>
                           \/ b \in timeline
                           \/ \E p \in Handlers :
                                /\ req'[p].bundle = b /\ req'[p].at \in {"document", "record"}
                                /\ req'[p].write = "confirmed"
    BY <1>1 DEF AgreeInv
  <2>1. CASE b = c
    <3>1. docStatus[c] # "absent" /\ onchain[c].status = req[q].write
      BY <1>1, <2>1 DEF SoloInv, AgreeInv
    <3>2. \A p \in Handlers : req'[p].bundle = c => p = q
      BY <1>1, <1>2, <1>7, <2>1
    <3>3. docStatus'[c] = req[q].write /\ docStatus'[c] # "absent"
      BY <1>1, <1>4, <3>1 DEF Writes
    <3>4. onchain[c].status = "confirmed" =>
            req'[q].bundle = c /\ req'[q].at = "record" /\ req'[q].write = "confirmed"
      BY <1>3, <3>1
    <3>5. req'[q].at # "document"
      BY <1>1, <1>3 DEF Writes
    <3> QED BY <2>1, <3>1, <3>2, <3>3, <3>4, <3>5
  <2>2. CASE b # c
    <3>1. docStatus'[b] = docStatus[b]
      BY <1>4, <2>2
    <3>2. \A p \in Handlers : req'[p].bundle = b \/ req[p].bundle = b => req'[p] = req[p]
      BY <1>1, <1>2, <1>5, <2>2, OnchainAssumption
    <3> QED BY <3>1, <3>2 DEF SoloInv, AgreeInv
  <2> QED BY <2>1, <2>2
<1> QED BY <1>6, <1>8, <1>9

\* The last steps of a handler: the event, or its death.
LEMMA EndSolo ==
  ASSUME SoloInv, NEW q \in Handlers, RecordConfirmed(q) \/ HandlerDies(q)
  PROVE  AloneInv' /\ FinalInv' /\ AgreeInv'
<1>1. /\ req'[q] = Idle /\ \A p \in Handlers : p # q => req'[p] = req[p]
      /\ req[q].bundle \in Bundles /\ req[q].bundle # NoBundle
      /\ UNCHANGED <<onchain, docStatus, overlapped>> /\ cut \subseteq cut'
      /\ timeline \subseteq timeline'
      /\ \/ req[q].bundle \in cut'
         \/ req[q].at = "record" /\ req[q].bundle \in timeline'
  BY OnchainAssumption
     DEF RecordConfirmed, HandlerDies, SoloInv, StateInv, TypeOK, HandlerInv, history, dbVars
<1>2. Idle.bundle = NoBundle /\ Idle.at = "idle"
  BY IdleType
<1>3. AloneInv'
  BY <1>1, <1>2 DEF SoloInv, AloneInv
<1>4. FinalInv'
  BY <1>1, <1>2 DEF SoloInv, FinalInv, Unconfirmed
<1>5. AgreeInv'
  <2> SUFFICES ASSUME NEW b \in Bundles, b \notin overlapped, b \notin cut'
               PROVE  /\ onchain[b].status \in Writes \/ (\E p \in Handlers : req'[p].bundle = b)
                           => docStatus[b] # "absent"
                      /\ onchain[b].status \in Writes =>
                           \/ docStatus[b] = onchain[b].status
                           \/ \E p \in Handlers : req'[p].bundle = b /\ req'[p].at = "document"
                      /\ \A p \in Handlers : req'[p].bundle = b /\ req'[p].at = "document"
                           => onchain[b].status = req'[p].write
                      /\ onchain[b].status = "confirmed" =>
                           \/ b \in timeline'
                           \/ \E p \in Handlers :
                                /\ req'[p].bundle = b /\ req'[p].at \in {"document", "record"}
                                /\ req'[p].write = "confirmed"
    BY <1>1 DEF AgreeInv
  <2>1. \A p \in Handlers : req'[p].bundle = b => req'[p] = req[p]
    BY <1>1, <1>2, OnchainAssumption
  <2>2. \A p \in Handlers : req[p].bundle = b /\ req[p].at = "document" => req'[p] = req[p]
    BY <1>1
  <2>3. b \in timeline' \/ \A p \in Handlers : req[p].bundle = b => req'[p] = req[p]
    BY <1>1
  <2>4. b \notin cut
    BY <1>1
  <2>5. b \in timeline => b \in timeline'
    BY <1>1
  <2> QED BY <2>1, <2>2, <2>3, <2>4, <2>5 DEF SoloInv, AgreeInv
<1> QED BY <1>3, <1>4, <1>5

LEMMA InsertSolo ==
  ASSUME SoloInv, NEW b \in Bundles, InsertResult(b)
  PROVE  AloneInv' /\ FinalInv' /\ AgreeInv'
<1>1. /\ docStatus[b] = "absent" /\ UNCHANGED <<onchain, timeline, req, overlapped, cut>>
      /\ \A c \in Bundles : c # b => docStatus'[c] = docStatus[c]
  BY DEF InsertResult, history, SoloInv, StateInv, TypeOK
<1>2. AloneInv' /\ FinalInv'
  BY <1>1 DEF SoloInv, AloneInv, FinalInv, Unconfirmed
<1>3. b \in overlapped \cup cut \/
        (onchain[b].status \notin Writes /\ \A q \in Handlers : req[q].bundle # b)
  BY <1>1 DEF SoloInv, AgreeInv
<1>4. AgreeInv'
  <2> SUFFICES ASSUME NEW c \in Bundles, c \notin overlapped, c \notin cut
               PROVE  /\ onchain[c].status \in Writes \/ (\E p \in Handlers : req[p].bundle = c)
                           => docStatus'[c] # "absent"
                      /\ onchain[c].status \in Writes =>
                           \/ docStatus'[c] = onchain[c].status
                           \/ \E p \in Handlers : req[p].bundle = c /\ req[p].at = "document"
                      /\ \A p \in Handlers : req[p].bundle = c /\ req[p].at = "document"
                           => onchain[c].status = req[p].write
                      /\ onchain[c].status = "confirmed" =>
                           \/ c \in timeline
                           \/ \E p \in Handlers :
                                /\ req[p].bundle = c /\ req[p].at \in {"document", "record"}
                                /\ req[p].write = "confirmed"
    BY <1>1 DEF AgreeInv
  <2>1. CASE c # b
    BY <1>1, <2>1 DEF SoloInv, AgreeInv
  <2>2. CASE c = b
    BY <1>3, <2>2 DEF Writes
  <2> QED BY <2>1, <2>2
<1> QED BY <1>2, <1>4

LEMMA SoloStep ==
  ASSUME SoloInv, [Next]_vars
  PROVE  SoloInv'
<1>1. StateInv'
  BY StateStep DEF SoloInv
<1>2. CASE MineNext \/ UNCHANGED vars
  <2>1. UNCHANGED <<dbVars, req, history>>
    BY <1>2 DEF MineNext, vars
  <2>2. AloneInv' /\ FinalInv' /\ AgreeInv'
    BY <2>1 DEF SoloInv, AloneInv, FinalInv, AgreeInv, Unconfirmed, dbVars, history
  <2> QED BY <1>1, <2>2 DEF SoloInv
<1>3. CASE ~ (MineNext \/ UNCHANGED vars)
  <2>1. \/ \E q \in Handlers, b \in Bundles : Begin(q, b)
        \/ \E q \in Handlers : QuietStep(q) \/ WriteBundle(q) \/ WriteDocument(q)
                               \/ RecordConfirmed(q) \/ HandlerDies(q)
        \/ \E b \in Bundles : InsertResult(b)
    BY <1>3 DEF Next, Handle, QuietStep
  <2>2. AloneInv' /\ FinalInv' /\ AgreeInv'
    BY <2>1, BeginSolo, QuietSolo, WriteBundleSolo, WriteDocumentSolo, EndSolo, InsertSolo
  <2> QED BY <1>1, <2>2 DEF SoloInv
<1> QED BY <1>2, <1>3

LEMMA SoloInvariant == Spec => []SoloInv
<1>1. Init /\ StateInv => SoloInv
  <2> SUFFICES ASSUME Init, StateInv PROVE AloneInv /\ FinalInv /\ AgreeInv
    BY DEF SoloInv
  <2>1. \A q \in Handlers : req[q].at = "idle" /\ req[q].bundle = NoBundle
    BY IdleType DEF Init
  <2>2. \A b \in Bundles : onchain[b].status \notin Writes
    BY DEF Init, DefaultStatus, Writes
  <2>3. AloneInv /\ FinalInv
    BY <2>1 DEF AloneInv, FinalInv, Unconfirmed
  <2>4. AgreeInv
    BY <2>1, <2>2, OnchainAssumption DEF AgreeInv, Writes
  <2> QED BY <2>3, <2>4
<1> QED BY <1>1, StateInvariant, SoloStep, PTL DEF Spec

\* A bundle and its document agree after every submission that was alone and complete.
THEOREM DocumentsAgree == Spec => []DocumentAgrees
<1>1. SoloInv => DocumentAgrees
  BY DEF SoloInv, AgreeInv, DocumentAgrees, Writes
<1> QED BY <1>1, SoloInvariant, PTL

\* No submission that is alone on its bundle undoes a confirmation, for any number of
\* bundles and handlers that share the relayer's nonces.
THEOREM ConfirmationsAreFinal == Spec => ConfirmedIsFinal
<1> DEFINE Final == \A b \in Bundles \ overlapped' :
              onchain[b].status = "confirmed" => onchain'[b].status = "confirmed"
<1>1. ASSUME SoloInv, [Next]_vars PROVE [Final]_vars
  <2>1. CASE UNCHANGED onchain
    BY <2>1
  <2>2. ASSUME NEW q \in Handlers, WriteBundle(q) PROVE Final
    <3>1. /\ onchain' = [onchain EXCEPT ![req[q].bundle] =
                           [status |-> req[q].write, tx |-> req[q].tx]]
          /\ overlapped' = overlapped /\ req[q].at = "bundle"
      BY <2>2 DEF WriteBundle, history
    <3>2. req[q].bundle \notin overlapped /\ req[q].write # "confirmed"
             => onchain[req[q].bundle].status # "confirmed"
      BY <1>1, <3>1 DEF SoloInv, FinalInv, Unconfirmed
    <3>3. onchain \in [Bundles -> [status : {"unsupported", "not_submitted"} \cup Writes,
                                  tx : Txs \cup {NoTx}]]
      BY <1>1 DEF SoloInv, StateInv, TypeOK
    <3> QED BY <3>1, <3>2, <3>3
  <2>3. UNCHANGED onchain \/ \E q \in Handlers : WriteBundle(q)
    BY <1>1 DEF Next, Handle, vars, dbVars, Begin, ReadNonce, EstimateGas, Send, SendRefused,
                WriteDocument, ReadReceipt, ReceiptTimeout, RecordConfirmed, RpcRaises,
                HandlerDies, InsertResult, MineNext
  <2> QED BY <2>1, <2>2, <2>3
<1>2. SoloInv /\ [Next]_vars => [Final]_vars
  BY <1>1
<1> QED BY <1>2, SoloInvariant, PTL DEF Spec, ConfirmedIsFinal

-----------------------------------------------------------------------------
(* Refinement: the handlers and the chain keep the promise of                *)
(* SubmissionPromise.                                                        *)

\* The contract's receipts are one per bundle ...
ReceiptInv ==
  \A t, u \in 1..Sent :
    outcome[t] = "ok" /\ outcome[u] = "ok" /\ bundleOf[t] = bundleOf[u] => t = u

\* ... and a bundle that was never contended for shows what its handler is about to
\* write to the document and to the timeline.
ShownInv ==
  /\ \A q \in Handlers : req[q].bundle \notin overlapped =>
       /\ req[q].at = "document" => onchain[req[q].bundle].status = req[q].write
       /\ req[q].at = "record" => onchain[req[q].bundle].status = "confirmed"
  /\ \A b \in Bundles \ overlapped :
       docStatus[b] = "confirmed" => onchain[b].status = "confirmed"

PromiseInv == SoloInv /\ ReceiptInv /\ ShownInv

\* The steps that are seen, from outside, on the chain, on the bundle and on the document.
LEMMA SeenStep ==
  ASSUME [Next]_vars
  PROVE  /\ \/ UNCHANGED <<bundleOf, outcome>> \/ MineNext
            \/ \E q \in Handlers : Send(q)
         /\ UNCHANGED onchain \/ \E q \in Handlers : WriteBundle(q)
         /\ \/ UNCHANGED docStatus \/ \E q \in Handlers : WriteDocument(q)
            \/ \E b \in Bundles : InsertResult(b)
         /\ UNCHANGED timeline \/ \E q \in Handlers : RecordConfirmed(q)
         /\ UNCHANGED overlapped \/ \E q \in Handlers, b \in Bundles : Begin(q, b)
BY DEF Next, Handle, vars, dbVars, chainVars, history, Begin, ReadNonce, EstimateGas, Send,
       SendRefused, WriteBundle, WriteDocument, ReadReceipt, ReceiptTimeout, RecordConfirmed,
       RpcRaises, HandlerDies, InsertResult, MineNext

\* What the two steps on the chain make of outcomes.
LEMMA SendOutcome ==
  ASSUME StateInv, NEW q \in Handlers, Send(q)
  PROVE  /\ Sent \in Nat /\ Sent' = Sent + 1 /\ outcome'[Sent + 1] = "pending"
         /\ \A t \in 1..Sent : bundleOf'[t] = bundleOf[t] /\ outcome'[t] = outcome[t]
BY AcceptedStep, Numbers DEF Send, StateInv

LEMMA MineOutcome ==
  ASSUME StateInv, MineNext
  PROVE  \E t \in 1..Sent :
           /\ outcome[t] = "pending" /\ t \in Txs /\ bundleOf[t] \in Bundles
           /\ \/ /\ bundleOf[t] \notin registered
                 /\ outcome' = [outcome EXCEPT ![t] = "ok"]
              \/ outcome' = [outcome EXCEPT ![t] = "reverted"]
           /\ outcome \in [Txs -> {"none", "pending", "ok", "reverted"}]
           /\ UNCHANGED <<bundleOf, Sent>>
<1>1. /\ Sent \in Nat /\ Len(pool) \in Nat /\ mined \in Nat /\ mined < Len(pool)
      /\ \A u \in 1..Sent : u \in Txs
  BY Numbers DEF MineNext, StateInv
<1>2. mined + 1 \in 1..Len(pool) /\ mined < mined + 1
  BY <1>1
<1>3. pool[mined + 1] \in 1..Sent /\ outcome[pool[mined + 1]] = "pending"
  BY <1>2 DEF StateInv, ChainInv
<1>4. bundleOf[pool[mined + 1]] \in Bundles
  BY <1>3, Numbers DEF StateInv
<1> QED BY <1>1, <1>3, <1>4 DEF MineNext, Sent, StateInv, TypeOK

LEMMA UniqueStep ==
  ASSUME StateInv, ReceiptInv, [Next]_vars
  PROVE  ReceiptInv'
<1>1. CASE UNCHANGED <<bundleOf, outcome>>
  BY <1>1 DEF ReceiptInv, Sent
<1>2. CASE MineNext
  <2>1. PICK t \in 1..Sent :
           /\ outcome[t] = "pending" /\ t \in Txs
           /\ \/ /\ bundleOf[t] \notin registered
                 /\ outcome' = [outcome EXCEPT ![t] = "ok"]
              \/ outcome' = [outcome EXCEPT ![t] = "reverted"]
           /\ outcome \in [Txs -> {"none", "pending", "ok", "reverted"}]
           /\ UNCHANGED <<bundleOf, Sent>>
    BY <1>2, MineOutcome
  <2>2. \A u \in 1..Sent : u \in Txs
    BY Numbers DEF StateInv
  <2>3. \A u \in 1..Sent : u # t => outcome'[u] = outcome[u]
    BY <2>1, <2>2
  <2>4. \A u \in 1..Sent : outcome[u] = "ok" => bundleOf[u] \in registered
    BY DEF StateInv, ChainInv
  <2>5. outcome'[t] = "ok" => bundleOf[t] \notin registered
    BY <2>1
  <2> QED BY <2>1, <2>3, <2>4, <2>5 DEF ReceiptInv
<1>3. ASSUME NEW q \in Handlers, Send(q) PROVE ReceiptInv'
  <2>1. /\ Sent \in Nat /\ Sent' = Sent + 1 /\ outcome'[Sent + 1] = "pending"
        /\ \A t \in 1..Sent : bundleOf'[t] = bundleOf[t] /\ outcome'[t] = outcome[t]
    BY <1>3, SendOutcome
  <2>2. \A t \in 1..Sent' : t \in 1..Sent \/ t = Sent + 1
    BY <2>1
  <2>3. \A t \in 1..Sent' : outcome'[t] = "ok" =>
          t \in 1..Sent /\ outcome[t] = "ok" /\ bundleOf'[t] = bundleOf[t]
    BY <2>1, <2>2
  <2> QED BY <2>3 DEF ReceiptInv
<1> QED BY <1>1, <1>2, <1>3, SeenStep

LEMMA ShownStep ==
  ASSUME SoloInv, ShownInv, [Next]_vars
  PROVE  ShownInv'
<1>0. req \in [Handlers -> HandlerRecords]
  BY DEF SoloInv, StateInv, TypeOK, HandlerRecords
<1>1. ASSUME NEW q \in Handlers, NEW b \in Bundles, Begin(q, b) PROVE ShownInv'
  <2>1. /\ UNCHANGED <<onchain, docStatus>> /\ overlapped \subseteq overlapped'
        /\ \A p \in Handlers : req'[p].at \in {"document", "record"} => req'[p] = req[p]
    BY <1>0, <1>1 DEF Begin, dbVars, Idle
  <2> QED BY <2>1 DEF ShownInv
<1>2. ASSUME NEW q \in Handlers, QuietStep(q) \/ RecordConfirmed(q) \/ HandlerDies(q)
      PROVE  ShownInv'
  <2>1. /\ UNCHANGED <<onchain, docStatus, overlapped>>
        /\ \A p \in Handlers : p # q => req'[p] = req[p]
        /\ req'[q].at \notin {"document", "record"}
    BY <1>0, <1>2, IdleType
       DEF QuietStep, ReadNonce, EstimateGas, Send, SendRefused, ReadReceipt, ReceiptTimeout,
           RpcRaises, RecordConfirmed, HandlerDies, dbVars, history, HandlerRecords
  <2> QED BY <2>1 DEF ShownInv
<1>3. ASSUME NEW q \in Handlers, WriteBundle(q) PROVE ShownInv'
  <2>1. /\ req[q].at = "bundle" /\ req[q].bundle \in Bundles /\ req[q].bundle # NoBundle
        /\ UNCHANGED <<docStatus, overlapped>>
        /\ onchain'[req[q].bundle].status = req[q].write
        /\ \A b \in Bundles : b # req[q].bundle => onchain'[b] = onchain[b]
        /\ \A p \in Handlers : p # q => req'[p] = req[p]
        /\ req'[q].at = "document" /\ req'[q].bundle = req[q].bundle
        /\ req'[q].write = req[q].write
    BY <1>0, <1>3, OnchainAssumption
       DEF WriteBundle, SoloInv, StateInv, TypeOK, HandlerInv, history, HandlerRecords
  <2>2. req[q].bundle \notin overlapped =>
           \A p \in Handlers : p # q => req[p].bundle # req[q].bundle
    BY <2>1 DEF SoloInv, AloneInv
  <2>3. req[q].bundle \notin overlapped /\ req[q].write # "confirmed" =>
           onchain[req[q].bundle].status # "confirmed"
    BY <2>1 DEF SoloInv, FinalInv, Unconfirmed
  <2>4. \A p \in Handlers : req[p].at \in {"document", "record"} => req[p].bundle \in Bundles
    BY DEF SoloInv, StateInv, HandlerInv
  <2>5. ASSUME NEW p \in Handlers, req'[p].bundle \notin overlapped
        PROVE  /\ req'[p].at = "document" => onchain'[req'[p].bundle].status = req'[p].write
               /\ req'[p].at = "record" => onchain'[req'[p].bundle].status = "confirmed"
    <3>1. CASE p = q
      BY <2>1, <3>1
    <3>2. CASE p # q
      BY <2>1, <2>2, <2>4, <2>5, <3>2 DEF ShownInv
    <3> QED BY <3>1, <3>2
  <2>6. ASSUME NEW b \in Bundles \ overlapped, docStatus[b] = "confirmed"
        PROVE  onchain'[b].status = "confirmed"
    BY <2>1, <2>3, <2>6 DEF ShownInv
  <2> QED BY <2>1, <2>5, <2>6 DEF ShownInv
<1>4. ASSUME NEW q \in Handlers, WriteDocument(q) PROVE ShownInv'
  <2>1. /\ req[q].at = "document" /\ UNCHANGED <<onchain, overlapped>>
        /\ req[q].bundle \in Bundles
        /\ docStatus'[req[q].bundle] \in {"absent", req[q].write}
        /\ \A b \in Bundles : b # req[q].bundle => docStatus'[b] = docStatus[b]
        /\ \A p \in Handlers : p # q => req'[p] = req[p]
        /\ req'[q] = AfterDocument(q) /\ req[q].write \in Writes
    BY <1>0, <1>4
       DEF WriteDocument, SoloInv, StateInv, TypeOK, HandlerInv, history, HandlerRecords
  <2>2. /\ req'[q].at # "document"
        /\ req'[q].at = "record" =>
             req[q].write = "confirmed" /\ req'[q].bundle = req[q].bundle
    BY <1>0, <2>1, IdleType DEF AfterDocument, HandlerRecords, Writes
  <2>3. req[q].bundle \notin overlapped => onchain[req[q].bundle].status = req[q].write
    BY <2>1 DEF ShownInv
  <2> QED BY <2>1, <2>2, <2>3 DEF ShownInv
<1>5. ASSUME NEW b \in Bundles, InsertResult(b) PROVE ShownInv'
  <2>1. /\ UNCHANGED <<onchain, overlapped, req>> /\ docStatus'[b] # "confirmed"
        /\ \A c \in Bundles : c # b => docStatus'[c] = docStatus[c]
    BY <1>5 DEF InsertResult, history, SoloInv, StateInv, TypeOK, DefaultStatus
  <2> QED BY <2>1 DEF ShownInv
<1>6. CASE MineNext \/ UNCHANGED vars
  BY <1>6 DEF MineNext, vars, dbVars, history, ShownInv
<1> QED BY <1>1, <1>2, <1>3, <1>4, <1>5, <1>6 DEF Next, Handle, QuietStep

LEMMA PromiseInvariant == Spec => []PromiseInv
<1>1. Init => ReceiptInv /\ ShownInv
  BY IdleType DEF Init, ReceiptInv, ShownInv, DefaultStatus, Sent
<1>2. SoloInv /\ ReceiptInv /\ ShownInv /\ [Next]_vars => ReceiptInv' /\ ShownInv'
  BY UniqueStep, ShownStep DEF SoloInv
<1> QED BY <1>1, <1>2, SoloInvariant, PTL DEF Spec, PromiseInv

\* The state of SubmissionPromise, as the mapping makes it.
Receipts   == {<<bundleOf[t], t>> : t \in {u \in 1..Sent : outcome[u] = "ok"}}
Claims     == {<<b, onchain[b].tx>> : b \in {c \in Bundles : onchain[c].status = "confirmed"}}
Documented == {b \in Bundles : docStatus[b] = "confirmed"}

LEMMA ReceiptsMove ==
  ASSUME PromiseInv, [Next]_vars
  PROVE  \/ Receipts' = Receipts
         \/ \E t \in Txs : \E b \in Bundles :
              /\ MineNext
              /\ \A r \in Receipts : r[1] # b /\ r[2] # t
              /\ Receipts' = Receipts \cup {<<b, t>>}
<1>0. StateInv
  BY DEF PromiseInv, SoloInv
<1>1. CASE UNCHANGED <<bundleOf, outcome>>
  BY <1>1 DEF Receipts, Sent
<1>2. ASSUME NEW q \in Handlers, Send(q) PROVE Receipts' = Receipts
  <2>1. /\ Sent \in Nat /\ Sent' = Sent + 1 /\ outcome'[Sent + 1] = "pending"
        /\ \A t \in 1..Sent : bundleOf'[t] = bundleOf[t] /\ outcome'[t] = outcome[t]
    BY <1>0, <1>2, SendOutcome
  <2>2. \A t \in 1..Sent' : t \in 1..Sent \/ t = Sent + 1
    BY <2>1
  <2>3. \A t \in 1..Sent : t \in 1..Sent'
    BY <2>1
  <2>4. {u \in 1..Sent' : outcome'[u] = "ok"} = {u \in 1..Sent : outcome[u] = "ok"}
    BY <2>1, <2>2, <2>3
  <2> QED BY <2>1, <2>4 DEF Receipts
<1>3. ASSUME MineNext
      PROVE  \/ Receipts' = Receipts
             \/ \E t \in Txs : \E b \in Bundles :
                  /\ \A r \in Receipts : r[1] # b /\ r[2] # t
                  /\ Receipts' = Receipts \cup {<<b, t>>}
  <2>1. PICK t \in 1..Sent :
           /\ outcome[t] = "pending" /\ t \in Txs /\ bundleOf[t] \in Bundles
           /\ \/ /\ bundleOf[t] \notin registered
                 /\ outcome' = [outcome EXCEPT ![t] = "ok"]
              \/ outcome' = [outcome EXCEPT ![t] = "reverted"]
           /\ outcome \in [Txs -> {"none", "pending", "ok", "reverted"}]
           /\ UNCHANGED <<bundleOf, Sent>>
    BY <1>0, <1>3, MineOutcome
  <2>2. \A u \in 1..Sent : u \in Txs
    BY <1>0, Numbers DEF StateInv
  <2>3. CASE outcome' = [outcome EXCEPT ![t] = "reverted"]
    <3>1. {u \in 1..Sent : outcome'[u] = "ok"} = {u \in 1..Sent : outcome[u] = "ok"}
      BY <2>1, <2>2, <2>3
    <3> QED BY <2>1, <3>1 DEF Receipts
  <2>4. CASE bundleOf[t] \notin registered /\ outcome' = [outcome EXCEPT ![t] = "ok"]
    <3>1. {u \in 1..Sent : outcome'[u] = "ok"} = {u \in 1..Sent : outcome[u] = "ok"} \cup {t}
      BY <2>1, <2>2, <2>4
    <3>2. Receipts' = Receipts \cup {<<bundleOf[t], t>>}
      BY <2>1, <3>1 DEF Receipts
    <3>3. \A r \in Receipts : r[1] # bundleOf[t] /\ r[2] # t
      BY <1>0, <2>1, <2>4 DEF Receipts, StateInv, ChainInv
    <3> QED BY <2>1, <3>2, <3>3
  <2> QED BY <2>1, <2>3, <2>4
<1> QED BY <1>1, <1>2, <1>3, SeenStep

LEMMA ClaimsMove ==
  ASSUME PromiseInv, NEW q \in Handlers, WriteBundle(q)
  PROVE  LET b == req[q].bundle IN
         /\ b \in Bundles
         /\ \/ /\ req[q].tx \in Txs /\ <<b, req[q].tx>> \in Receipts
               /\ Claims' = Claims \cup {<<b, req[q].tx>>}
            \/ b \in overlapped /\ Claims' = {c \in Claims : c[1] # b}
            \/ Claims' = Claims
<1> DEFINE b == req[q].bundle
           t == req[q].tx
<1>0. StateInv /\ SoloInv
  BY DEF PromiseInv, SoloInv
<1>1. /\ req[q].at = "bundle" /\ b \in Bundles
      /\ t \in 1..Sent /\ t \in Txs /\ bundleOf[t] = b
      /\ req[q].write = "confirmed" => outcome[t] = "ok"
      /\ onchain'[b] = [status |-> req[q].write, tx |-> t]
      /\ \A c \in Bundles : c # b => onchain'[c] = onchain[c]
  BY <1>0, Numbers DEF WriteBundle, StateInv, TypeOK, HandlerInv, AfterSend
<1> HIDE DEF b, t
<1>2. CASE req[q].write = "confirmed"
  <2>1. <<b, t>> \in Receipts
    BY <1>1, <1>2 DEF Receipts
  <2>2. onchain[b].status = "confirmed" => onchain[b].tx = t
    <3>1. onchain[b].status = "confirmed" =>
             /\ onchain[b].tx \in 1..Sent /\ bundleOf[onchain[b].tx] = b
             /\ outcome[onchain[b].tx] = "ok"
      BY <1>0, <1>1 DEF StateInv, OutcomeIsReal, Writes
    <3> QED BY <1>1, <1>2, <3>1 DEF PromiseInv, ReceiptInv
  <2>3. Claims' = Claims \cup {<<b, t>>}
    BY <1>1, <1>2, <2>2 DEF Claims
  <2> QED BY <1>1, <2>1, <2>3 DEF b, t
<1>3. CASE req[q].write # "confirmed" /\ onchain[b].status = "confirmed"
  <2>1. b \in overlapped
    BY <1>0, <1>1, <1>3 DEF SoloInv, FinalInv, Unconfirmed, b
  <2>2. Claims' = {c \in Claims : c[1] # b}
    BY <1>1, <1>3 DEF Claims
  <2> QED BY <1>1, <2>1, <2>2 DEF b
<1>4. CASE req[q].write # "confirmed" /\ onchain[b].status # "confirmed"
  <2>1. Claims' = Claims
    BY <1>1, <1>4 DEF Claims
  <2> QED BY <1>1, <2>1 DEF b
<1> QED BY <1>2, <1>3, <1>4

\* A claim that stands names its transaction; a bundle the chain has registered has
\* a receipt.
LEMMA ClaimNames ==
  ASSUME PromiseInv, NEW b \in Bundles, onchain[b].status = "confirmed"
  PROVE  \E t \in Txs : <<b, t>> \in Claims
<1>1. onchain[b].tx \in Txs
  BY Numbers DEF PromiseInv, SoloInv, StateInv, OutcomeIsReal, Writes
<1> QED BY <1>1 DEF Claims

LEMMA DocumentMoves ==
  ASSUME PromiseInv, NEW q \in Handlers, WriteDocument(q)
  PROVE  LET b == req[q].bundle IN
         /\ b \in Bundles
         /\ \/ /\ req[q].write = "confirmed"
               /\ b \in overlapped \/ \E t \in Txs : <<b, t>> \in Claims
               /\ \E t \in Txs : <<b, t>> \in Receipts
               /\ Documented' = Documented \cup {b}
            \/ b \in overlapped /\ Documented' = Documented \ {b}
            \/ Documented' = Documented
<1> DEFINE b == req[q].bundle
<1>0. StateInv /\ ShownInv
  BY DEF PromiseInv, SoloInv
<1>1. /\ req[q].at = "document" /\ b \in Bundles /\ req[q].write \in Writes
      /\ req[q].tx \in Txs /\ req[q].tx \in 1..Sent /\ bundleOf[req[q].tx] = b
      /\ req[q].write = "confirmed" => outcome[req[q].tx] = "ok"
      /\ docStatus'[b] = IF docStatus[b] = "absent" THEN "absent" ELSE req[q].write
      /\ \A c \in Bundles : c # b => docStatus'[c] = docStatus[c]
  BY <1>0, Numbers DEF WriteDocument, StateInv, TypeOK, HandlerInv, AfterSend
<1> HIDE DEF b
<1>2. b \notin overlapped => onchain[b].status = req[q].write
  BY <1>0, <1>1 DEF ShownInv, b
<1>3. CASE req[q].write = "confirmed" /\ docStatus[b] # "absent"
  <2>1. Documented' = Documented \cup {b}
    BY <1>1, <1>3 DEF Documented
  <2>2. <<b, req[q].tx>> \in Receipts
    BY <1>1, <1>3 DEF Receipts
  <2>3. b \in overlapped \/ \E t \in Txs : <<b, t>> \in Claims
    BY <1>1, <1>2, <1>3, ClaimNames
  <2> QED BY <1>1, <1>3, <2>1, <2>2, <2>3 DEF b
<1>4. CASE docStatus[b] = "absent"
  <2>1. Documented' = Documented
    BY <1>1, <1>4 DEF Documented
  <2> QED BY <1>1, <2>1 DEF b
<1>5. CASE req[q].write # "confirmed" /\ docStatus[b] # "absent"
  <2>1. Documented' = Documented \ {b}
    BY <1>1, <1>5 DEF Documented
  <2>2. b \notin overlapped => docStatus[b] # "confirmed"
    BY <1>0, <1>1, <1>2, <1>5 DEF ShownInv
  <2>3. b \notin overlapped => Documented \ {b} = Documented
    BY <2>2 DEF Documented
  <2> QED BY <1>1, <2>1, <2>3 DEF b
<1> QED BY <1>3, <1>4, <1>5

\* The promise is kept: a bundle has one receipt at most and for good, only its hash is
\* ever shown as a confirmation, on the bundle first, and it is taken back only where
\* two submissions contended, for any number of bundles, handlers and transactions.
THEOREM SubmissionsKeepPromise == Spec => PromiseSpec
<1> USE DEF Receipts, Claims, Documented
<1>1. Init => Promise!Init
  <2> SUFFICES ASSUME Init PROVE Promise!Init
    OBVIOUS
  <2>1. Receipts = {} /\ Claims = {} /\ Documented = {}
    BY DEF Init, Sent, DefaultStatus
  <2> QED BY <2>1 DEF Init, Promise!Init
<1>2. PromiseInv /\ [Next]_vars => [Promise!Next]_(Promise!vars)
  <2> SUFFICES ASSUME PromiseInv, [Next]_vars PROVE [Promise!Next]_(Promise!vars)
    OBVIOUS
  <2>0. StateInv
    BY DEF PromiseInv, SoloInv
  <2>1. CASE UNCHANGED <<Receipts, Claims, Documented, timeline, overlapped>>
    BY <2>1 DEF Promise!vars
  <2>2. CASE MineNext
    <3>1. UNCHANGED <<onchain, docStatus, timeline, overlapped>>
      BY <2>2 DEF MineNext, dbVars, history
    <3>2. UNCHANGED <<Claims, Documented>>
      BY <3>1
    <3>3. CASE Receipts' = Receipts
      BY <2>1, <3>1, <3>2, <3>3
    <3>4. ASSUME NEW t \in Txs, NEW b \in Bundles,
                 \A r \in Receipts : r[1] # b /\ r[2] # t,
                 Receipts' = Receipts \cup {<<b, t>>}
          PROVE  Promise!Next
      <4>1. Promise!Settle(b, t)
        BY <3>1, <3>2, <3>4 DEF Promise!Settle
      <4> QED BY <4>1 DEF Promise!Next
    <3> QED BY <3>3, <3>4, ReceiptsMove
  <2>3. ASSUME NEW q \in Handlers, WriteBundle(q) PROVE [Promise!Next]_(Promise!vars)
    <3>1. UNCHANGED <<Receipts, Documented, timeline, overlapped>>
      BY <2>3 DEF WriteBundle, chainVars, history, Sent
    <3>2. PICK b \in Bundles : b = req[q].bundle
      BY <2>3, ClaimsMove
    <3>3. ASSUME NEW t \in Txs, <<b, t>> \in Receipts, Claims' = Claims \cup {<<b, t>>}
          PROVE  Promise!Next
      <4>1. Promise!Claim(b, t)
        BY <3>1, <3>3 DEF Promise!Claim
      <4> QED BY <4>1 DEF Promise!Next
    <3>4. ASSUME b \in overlapped, Claims' = {c \in Claims : c[1] # b}
          PROVE  Promise!Next
      <4>1. Promise!Retract(b)
        BY <3>1, <3>4 DEF Promise!Retract
      <4> QED BY <4>1 DEF Promise!Next
    <3> QED BY <2>1, <2>3, <3>1, <3>2, <3>3, <3>4, ClaimsMove
  <2>4. ASSUME NEW q \in Handlers, WriteDocument(q) PROVE [Promise!Next]_(Promise!vars)
    <3>1. UNCHANGED <<Receipts, Claims, timeline, overlapped>>
      BY <2>4 DEF WriteDocument, chainVars, history, Sent
    <3>2. PICK b \in Bundles : b = req[q].bundle
      BY <2>4, DocumentMoves
    <3>3. ASSUME b \in overlapped \/ \E t \in Txs : <<b, t>> \in Claims,
                 \E t \in Txs : <<b, t>> \in Receipts,
                 Documented' = Documented \cup {b}
          PROVE  Promise!Next
      <4>1. Promise!Known(b)
        BY <3>3 DEF Promise!Known
      <4>2. Promise!Document(b)
        BY <3>1, <3>3, <4>1 DEF Promise!Document
      <4> QED BY <4>2 DEF Promise!Next
    <3>4. ASSUME b \in overlapped, Documented' = Documented \ {b}
          PROVE  Promise!Next
      <4>1. Promise!Undocument(b)
        BY <3>1, <3>4 DEF Promise!Undocument
      <4> QED BY <4>1 DEF Promise!Next
    <3> QED BY <2>1, <2>4, <3>1, <3>2, <3>3, <3>4, DocumentMoves
  <2>5. ASSUME NEW q \in Handlers, RecordConfirmed(q) PROVE [Promise!Next]_(Promise!vars)
    <3> DEFINE b == req[q].bundle
    <3>1. /\ UNCHANGED <<onchain, docStatus, bundleOf, outcome, overlapped>>
          /\ timeline' = timeline \cup {b}
      BY <2>5 DEF RecordConfirmed, chainVars, history
    <3>2. UNCHANGED <<Receipts, Claims, Documented>>
      BY <3>1 DEF Sent
    <3>3. /\ req[q].at = "record" /\ b \in Bundles
          /\ req[q].tx \in 1..Sent /\ req[q].tx \in Txs
          /\ bundleOf[req[q].tx] = b /\ outcome[req[q].tx] = "ok"
      BY <2>0, <2>5, Numbers DEF RecordConfirmed, StateInv, HandlerInv, AfterSend
    <3>4. <<b, req[q].tx>> \in Receipts
      BY <3>3
    <3>5. b \notin overlapped => \E t \in Txs : <<b, t>> \in Claims
      <4>1. b \notin overlapped => onchain[b].status = "confirmed"
        BY <3>3 DEF PromiseInv, ShownInv
      <4> QED BY <3>3, <4>1, ClaimNames
    <3>6. Promise!Known(b)
      BY <3>3, <3>4, <3>5 DEF Promise!Known
    <3>7. Promise!Record(b)
      BY <3>1, <3>2, <3>6 DEF Promise!Record
    <3> QED BY <3>3, <3>7 DEF Promise!Next
  <2>6. ASSUME NEW q \in Handlers, NEW b \in Bundles, Begin(q, b)
        PROVE  [Promise!Next]_(Promise!vars)
    <3>1. UNCHANGED <<onchain, docStatus, timeline, bundleOf, outcome>>
      BY <2>6 DEF Begin, dbVars, chainVars
    <3>2. UNCHANGED <<Receipts, Claims, Documented>>
      BY <3>1 DEF Sent
    <3>3. overlapped' = overlapped \cup {b} \/ overlapped' = overlapped
      BY <2>6 DEF Begin
    <3>4. CASE overlapped' = overlapped \cup {b}
      <4>1. Promise!Contend(b)
        BY <3>1, <3>2, <3>4 DEF Promise!Contend
      <4> QED BY <4>1 DEF Promise!Next
    <3> QED BY <2>1, <3>1, <3>2, <3>3, <3>4
  <2>7. ASSUME NEW b \in Bundles, InsertResult(b)
        PROVE  UNCHANGED <<Receipts, Claims, Documented, timeline, overlapped>>
    <3>1. /\ UNCHANGED <<onchain, timeline, bundleOf, outcome, overlapped>>
          /\ docStatus[b] = "absent" /\ docStatus'[b] # "confirmed"
          /\ \A c \in Bundles : c # b => docStatus'[c] = docStatus[c]
      BY <2>0, <2>7 DEF InsertResult, chainVars, history, StateInv, TypeOK, DefaultStatus
    <3>2. UNCHANGED <<Receipts, Claims>>
      BY <3>1 DEF Sent
    <3>3. Documented' = Documented
      BY <3>1
    <3> QED BY <3>1, <3>2, <3>3
  <2>8. CASE UNCHANGED <<onchain, docStatus, timeline, overlapped>> /\ ~ MineNext
    <3>1. UNCHANGED <<Claims, Documented>>
      BY <2>8
    <3> QED BY <2>1, <2>8, <3>1, ReceiptsMove
  <2> QED BY <2>2, <2>3, <2>4, <2>5, <2>6, <2>7, <2>8, <2>1, SeenStep
<1> QED BY <1>1, <1>2, PromiseInvariant, PTL DEF Spec, PromiseSpec, Promise!Spec

=============================================================================
