------------------------------- MODULE MCVault -------------------------------
(* Instances of Vault for TLC: files, recipients and requests are drawn from  *)
(* sets no definition tells apart.                                            *)
EXTENDS Vault, TLC

VaultSymmetry ==
  Permutations(Files) \cup Permutations(Recipients) \cup Permutations(Requests)
=============================================================================
