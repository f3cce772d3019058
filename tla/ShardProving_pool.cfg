\* Every projection of up to seven segments, three or four to a shard: up to three shards,
\* one after the other or in a pool of two, and projections of seven segments, which do
\* not fit the tree of a sparse proof.
SPECIFICATION Spec
CONSTANTS
  MaxSegments = 7
  Profiles = {"v4_sparse", "v3a", "v2"}
  Sparse = {"v4_sparse"}
  Legacy = {"v2"}
  OnchainSafe = "v3a"
  Capacity <- SmallCapacity
  Leaves <- SmallLeaves
  MaxParallel = 2
  MaxSupported = 2
  Single = 1
  Multi = 3
  ProofTimeout = 2
INVARIANTS
  TypeOK
  BundleCoversChanges
  NothingOutlivesProof
  EstimateHolds
  DeadlineCoversPlan
  PaddingDecidesProof
PROPERTIES
  ProofThreadSpec
  ProofEnds
CHECK_DEADLOCK FALSE
