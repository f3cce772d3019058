--------------------------- MODULE MCRedactionJobs ---------------------------
(* Instances of RedactionJobs for TLC: every job is a submission for one of  *)
(* the documents, all of them for the same one when there is only one.       *)
EXTENDS RedactionJobs, TLC

CONSTANTS j1, d1

OnOneDocument == [j \in Jobs |-> d1]

=============================================================================
