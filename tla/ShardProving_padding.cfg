\* The padding of a shard that is not full.
SPECIFICATION Spec
CONSTANTS
  MaxSegments = 4
  Profiles = {"v4_sparse", "v3a"}
  Sparse = {"v4_sparse"}
  Legacy = {}
  OnchainSafe = "v3a"
  Capacity <- TwoToAShard
  Leaves <- FourLeaves
  MaxParallel = 2
  MaxSupported = 2
  Single = 1
  Multi = 3
  ProofTimeout = 2
INVARIANTS
  PlannedShardsAreProvable
CHECK_DEADLOCK FALSE
