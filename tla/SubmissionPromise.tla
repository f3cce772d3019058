-------------------------- MODULE SubmissionPromise --------------------------
(***************************************************************************)
(* What submitting bundles promises, whatever handlers and transactions    *)
(* do: the registry gives a bundle at most one receipt, for good; only a   *)
(* receipt is ever shown as a confirmation, by its own hash, and shown by  *)
(* the bundle before the document and the timeline tell it; and it is      *)
(* taken back only from a bundle two submissions contended for.            *)
(***************************************************************************)
CONSTANTS Bundles, Txs

VARIABLES
  receipts,   \* the registry: pairs of a bundle and the transaction that registered it
  claims,     \* the same pairs, as the bundles show them: a confirmation and its hash
  documented, \* bundles whose document says "confirmed"
  recorded,   \* bundles whose confirmation the timeline has
  contended   \* bundles two submissions of which were in progress at once

vars == <<receipts, claims, documented, recorded, contended>>

Init ==
  /\ receipts = {} /\ claims = {}
  /\ documented = {} /\ recorded = {}
  /\ contended = {}

Settle(b, t) ==
  /\ \A r \in receipts : r[1] # b /\ r[2] # t
  /\ receipts' = receipts \cup {<<b, t>>}
  /\ UNCHANGED <<claims, documented, recorded, contended>>

Claim(b, t) ==
  /\ <<b, t>> \in receipts
  /\ claims' = claims \cup {<<b, t>>}
  /\ UNCHANGED <<receipts, documented, recorded, contended>>

\* The others follow the bundle: its claim stands, or it was contended for and there
\* is at least the receipt.
Known(b) ==
  \/ \E t \in Txs : <<b, t>> \in claims
  \/ b \in contended /\ \E t \in Txs : <<b, t>> \in receipts

Document(b) ==
  /\ Known(b)
  /\ documented' = documented \cup {b}
  /\ UNCHANGED <<receipts, claims, recorded, contended>>

Record(b) ==
  /\ Known(b)
  /\ recorded' = recorded \cup {b}
  /\ UNCHANGED <<receipts, claims, documented, contended>>

Contend(b) ==
  /\ contended' = contended \cup {b}
  /\ UNCHANGED <<receipts, claims, documented, recorded>>

Retract(b) ==
  /\ b \in contended
  /\ claims' = {c \in claims : c[1] # b}
  /\ UNCHANGED <<receipts, documented, recorded, contended>>

Undocument(b) ==
  /\ b \in contended
  /\ documented' = documented \ {b}
  /\ UNCHANGED <<receipts, claims, recorded, contended>>

Next ==
  \E b \in Bundles :
    \/ \E t \in Txs : Settle(b, t) \/ Claim(b, t)
    \/ Document(b) \/ Record(b)
    \/ Contend(b) \/ Retract(b) \/ Undocument(b)

Spec == Init /\ [][Next]_vars

=============================================================================
