------------------------ MODULE RedactionPublication ------------------------
(***************************************************************************)
(* What the redaction pipeline promises, whatever its threads, processes   *)
(* and retries do: a proof is durable before a result claims it, a result  *)
(* is durable, with its verdict settled, before a job publishes it, and    *)
(* what a job has published is never taken back.                           *)
(***************************************************************************)
CONSTANTS Jobs, Attempts, NoRun

Runs == Jobs \X Attempts

VARIABLES
  proven,    \* runs whose verified bundle is in zkpt_bundles
  results,   \* runs whose result document is inserted
  attested,  \* runs whose result document says "verified"
  published  \* job -> the result and the bundle its record points to

vars == <<proven, results, attested, published>>

Unpublished == [result |-> NoRun, bundle |-> NoRun]

Init ==
  /\ proven = {} /\ results = {} /\ attested = {}
  /\ published = [j \in Jobs |-> Unpublished]

Prove(r) ==
  /\ proven' = proven \cup {r}
  /\ UNCHANGED <<results, attested, published>>

\* A result is stored once, and attests only a proof that exists.
Store(r) ==
  /\ r \notin results
  /\ results' = results \cup {r}
  /\ \/ r \in proven /\ attested' = attested \cup {r}
     \/ UNCHANGED attested
  /\ UNCHANGED <<proven, published>>

\* A job publishes a stored result of its own, with the bundle it attests.
Publish(r) ==
  /\ r \in results
  /\ published' = [published EXCEPT ![r[1]] =
       [result |-> r, bundle |-> IF r \in attested THEN r ELSE NoRun]]
  /\ UNCHANGED <<proven, results, attested>>

Next == \E r \in Runs : Prove(r) \/ Store(r) \/ Publish(r)

Spec == Init /\ [][Next]_vars

=============================================================================
