---------------------------- MODULE ProofThread ----------------------------
(***************************************************************************)
(* The promise of the thread that proves one redaction, which ShardProving *)
(* implements: it ends once, with one verdict, "verified" only after its   *)
(* bundle was inserted, and inserts at most one bundle; or it dies with    *)
(* its process, and leaves what it has inserted.                           *)
(***************************************************************************)
VARIABLES
  proof,  \* where the thread is, or the verdict it ended with
  stored  \* whether its bundle is in zkpt_bundles

vars == <<proof, stored>>

Init == proof = "none" /\ stored = FALSE

Start ==
  /\ proof = "none" /\ proof' = "proving"
  /\ UNCHANGED stored

ProofFails ==
  /\ proof = "proving" /\ proof' \in {"failed", "unsupported"}
  /\ UNCHANGED stored

InsertBundle ==
  /\ proof = "proving" /\ proof' = "bundled"
  /\ stored' = TRUE

Return ==
  /\ proof = "bundled" /\ proof' \in {"verified", "failed"}
  /\ UNCHANGED stored

Dies ==
  /\ proof \in {"proving", "bundled"} /\ proof' = "killed"
  /\ UNCHANGED stored

Next == Start \/ ProofFails \/ InsertBundle \/ Return \/ Dies

Spec == Init /\ [][Next]_vars

=============================================================================
