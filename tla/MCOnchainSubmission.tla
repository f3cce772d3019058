------------------------- MODULE MCOnchainSubmission -------------------------
(* Instances of OnchainSubmission for TLC.  Handlers are interchangeable, and *)
(* so are bundles when every one of them is eligible.                         *)
EXTENDS OnchainSubmission, TLC

SubmissionSymmetry == Permutations(Handlers) \cup Permutations(Bundles)
=============================================================================
