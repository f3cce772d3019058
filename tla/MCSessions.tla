----------------------------- MODULE MCSessions -----------------------------
(* Instances of Sessions for TLC.  Wallets and handlers are interchangeable. *)
EXTENDS Sessions, TLC

SessionsSymmetry == Permutations(Wallets) \cup Permutations(Requests)
=============================================================================
