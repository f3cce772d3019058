--------------------------- MODULE MCShardProving ---------------------------
(* Instances of ShardProving for TLC: the projection is any of up to          *)
(* MaxSegments segments, with any of them changed; a sparse profile, the      *)
(* on-chain safe one, and one that is neither, each with a circuit of its own. *)
EXTENDS ShardProving, TLC

SmallCapacity == [p \in Profiles |-> IF p = "v2" THEN 4 ELSE 3]
SmallLeaves   == [p \in Profiles |-> IF p = "v4_sparse" THEN 6 ELSE 4]

TwoToAShard == [p \in Profiles |-> 2]
FourLeaves  == [p \in Profiles |-> 4]

=============================================================================
