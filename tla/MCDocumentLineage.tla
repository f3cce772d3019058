-------------------------- MODULE MCDocumentLineage --------------------------
(* Instances of DocumentLineage for TLC.  Documents and requests are drawn    *)
(* from sets no definition tells apart: the order of documents is created.    *)
EXTENDS DocumentLineage, TLC

LineageSymmetry == Permutations(Docs) \cup Permutations(Requests)

=============================================================================
