------------------------- MODULE ShardProvingProofs -------------------------
(***************************************************************************)
(* Theorems of ShardProving for projections, circuits and pools of every   *)
(* size.  The first part is arithmetic: cutting the units of a profile     *)
(* into chunks of the capacity leaves none out and puts none in two, and   *)
(* leaves no chunk empty or too large.  The second is the invariant, the   *)
(* third what the circuits can prove of a shard, the fourth what the       *)
(* project claims of them.                                                 *)
(***************************************************************************)
EXTENDS ShardProving, Integers, FiniteSetTheorems, WellFoundedInduction, TLAPS

-----------------------------------------------------------------------------
(* Chunks *)

\* What \div is, for a divisor that is not zero.
LEMMA Quotient ==
  ASSUME NEW k \in Nat, NEW c \in Nat \ {0}
  PROVE  /\ k \div c \in Nat
         /\ (k \div c) * c <= k /\ k < (k \div c) * c + c
  BY Z3

\* A rank below n falls in one of the chunks n makes.
LEMMA ChunkOfRank ==
  ASSUME NEW n \in Nat, NEW c \in Nat \ {0}, NEW k \in Nat, k < n
  PROVE  k \div c < (n + c - 1) \div c
<1> DEFINE q == k \div c
           m == (n + c - 1) \div c
<1>1. q \in Nat /\ q * c <= k
  BY Quotient
<1>2. m \in Nat /\ n + c - 1 < m * c + c
  <2>1. n + c - 1 \in Nat
    OBVIOUS
  <2> QED BY <2>1, Quotient
<1>3. q * c < m * c
  BY <1>1, <1>2
<1> QED BY <1>1, <1>2, <1>3, Z3

\* n units make at most n chunks.
LEMMA ChunksAtMost ==
  ASSUME NEW n \in Nat, NEW c \in Nat \ {0}
  PROVE  (n + c - 1) \div c \in 0..n
  BY Z3

\* The positions below k are k.
LEMMA PositionsBelow ==
  ASSUME NEW k \in Nat
  PROVE  IsFiniteSet(0..(k - 1)) /\ Cardinality(0..(k - 1)) = k
<1>1. 0 \in Int /\ k - 1 \in Int
  OBVIOUS
<1> QED BY <1>1, FS_Interval

\* A set of naturals that is not empty has a least one.
LEMMA LeastOf ==
  ASSUME NEW S \in SUBSET Nat, S # {}
  PROVE  \E m \in S : \A s \in S : m <= s
<1> DEFINE R == OpToRel(<, Nat)
<1>1. IsWellFoundedOn(R, Nat)
  BY NatLessThanWellFounded
<1>2. \A x, y \in Nat : x < y => <<x, y>> \in R
  BY DEF OpToRel
<1>3. \E x \in S : \A y \in S : ~ (<<y, x>> \in R)
  <2> HIDE DEF R
  <2> QED BY <1>1, WFMin
<1> HIDE DEF R
<1>4. PICK m \in S : \A y \in S : ~ (<<y, m>> \in R)
  BY <1>3
<1>5. \A s \in S : ~ (s < m)
  BY <1>2, <1>4
<1> QED BY <1>4, <1>5

\* A set of naturals has at least as many members below a later place.
LEMMA RankGrows ==
  ASSUME NEW S, IsFiniteSet(S), S \subseteq Nat, NEW a \in Nat, NEW b \in Nat, a <= b
  PROVE  Rank(S, a) \in Nat /\ Rank(S, b) \in Nat /\ Rank(S, a) <= Rank(S, b)
<1> DEFINE A == {t \in S : t < a}
           B == {t \in S : t < b}
<1>1. A \subseteq B /\ B \subseteq S
  <2>1. \A t \in Nat : t < a => t < b
    OBVIOUS
  <2>2. \A t \in S : t < a => t < b
    BY <2>1
  <2> QED BY <2>2, Zenon
<1>2. IsFiniteSet(B) /\ IsFiniteSet(A) /\ Cardinality(A) <= Cardinality(B)
  BY <1>1, FS_Subset
<1>3. Cardinality(A) \in Nat /\ Cardinality(B) \in Nat
  BY <1>2, FS_CardinalityType
<1> QED BY <1>2, <1>3 DEF Rank

\* Of two members of a set of naturals the later has the higher rank.
LEMMA RankOrders ==
  ASSUME NEW S, IsFiniteSet(S), S \subseteq Nat, NEW a \in S, NEW b \in Nat, a < b
  PROVE  Rank(S, a) < Rank(S, b)
<1> DEFINE A == {t \in S : t < a}
           B == {t \in S : t < b}
<1>1. Rank(S, a) \in Nat /\ Rank(S, b) \in Nat /\ Rank(S, a) <= Rank(S, b)
  <2>1. a \in Nat /\ a <= b
    OBVIOUS
  <2> QED BY <2>1, RankGrows
<1>2. \A t \in Nat : t < a => t < b
  OBVIOUS
<1>3. A \subseteq B /\ a \in B /\ a \notin A /\ B \subseteq S
  <2>1. \A t \in S : t < a => t < b
    BY <1>2
  <2>2. ~ (a < a)
    OBVIOUS
  <2> QED BY <2>1, <2>2, Zenon
<1>4. IsFiniteSet(B)
  BY <1>3, FS_Subset
<1>5. Cardinality(A) # Cardinality(B)
  BY <1>3, <1>4, FS_Subset
<1> QED BY <1>1, <1>5 DEF Rank

\* A rank is a number.
LEMMA RankIsNat ==
  ASSUME NEW S, IsFiniteSet(S), S \subseteq Nat
  PROVE  \A x \in S : Rank(S, x) \in Nat
<1> SUFFICES ASSUME NEW x \in S PROVE Rank(S, x) \in Nat
  OBVIOUS
<1>1. x \in Nat /\ x <= x
  OBVIOUS
<1> QED BY <1>1, RankGrows

\* As many members of a set have a rank below k as k allows.
Slice(S, k) == {x \in S : Rank(S, x) < k}

LEMMA SliceSize ==
  ASSUME NEW S, IsFiniteSet(S), S \subseteq Nat, NEW k \in Nat
  PROVE  /\ IsFiniteSet(Slice(S, k)) /\ Slice(S, k) \subseteq S
         /\ Cardinality(S) \in Nat
         /\ Cardinality(Slice(S, k)) = IF k <= Cardinality(S) THEN k ELSE Cardinality(S)
<1> DEFINE A == Slice(S, k)
           rest == S \ A
<1>1. A \subseteq S /\ \A x \in S : x \in A <=> Rank(S, x) < k
  BY DEF Slice
<1>2. /\ IsFiniteSet(A) /\ Cardinality(A) <= Cardinality(S)
      /\ Cardinality(A) = Cardinality(S) => A = S
  BY <1>1, FS_Subset
<1>3. Cardinality(A) \in Nat /\ Cardinality(S) \in Nat
  BY <1>2, FS_CardinalityType
<1>4. \A x \in S : Rank(S, x) \in Nat
  BY RankIsNat
<1>5. Cardinality(A) <= k
  <2> DEFINE f == [x \in A |-> Rank(S, x)]
  <2>1. f \in [A -> 0..(k - 1)]
    <3>1. \A x \in A : Rank(S, x) \in 0..(k - 1)
      <4> HIDE DEF A
      <4> QED BY <1>1, <1>4
    <3> QED BY <3>1
  <2>2. ASSUME NEW x \in A, NEW y \in A, f[x] = f[y] PROVE x = y
    <3>1. x \in S /\ y \in S /\ x \in Nat /\ y \in Nat /\ Rank(S, x) = Rank(S, y)
      BY <1>1, <2>2
    <3>2. x < y => Rank(S, x) < Rank(S, y)
      BY <3>1, RankOrders
    <3>3. y < x => Rank(S, y) < Rank(S, x)
      BY <3>1, RankOrders
    <3>4. Rank(S, x) \in Nat /\ Rank(S, y) \in Nat
      BY <3>1, <1>4
    <3> QED BY <3>1, <3>2, <3>3, <3>4
  <2>3. f \in Injection(A, 0..(k - 1))
    BY <2>1, <2>2 DEF Injection, IsInjective
  <2>4. IsFiniteSet(0..(k - 1)) /\ Cardinality(0..(k - 1)) = k
    BY FS_Interval
  <2> HIDE DEF f
  <2> QED BY <2>3, <2>4, FS_Injection
<1>6. CASE A = S
  BY <1>3, <1>5, <1>6
<1>7. CASE A # S
  <2>1. PICK m \in rest : \A s \in rest : m <= s
    <3>1. rest \in SUBSET Nat /\ rest # {}
      BY <1>1, <1>7
    <3> QED BY <3>1, LeastOf
  <2>2. m \in S /\ m \in Nat /\ Rank(S, m) \in Nat /\ Rank(S, m) >= k
    BY <1>1, <1>4, <2>1
  <2>3. {t \in S : t < m} \subseteq A
    <3>1. \A t \in Nat : t < m => ~ (m <= t)
      BY <2>2
    <3>2. \A t \in S : t < m => t \in A
      BY <2>1, <3>1
    <3> QED BY <3>2, Zenon
  <2>4. Rank(S, m) <= Cardinality(A)
    BY <1>2, <2>3, FS_Subset DEF Rank
  <2>5. Cardinality(A) = k
    <3> HIDE DEF A
    <3> QED BY <1>3, <1>5, <2>2, <2>4
  <2>6. k <= Cardinality(S)
    BY <1>2, <1>3, <2>5
  <2> QED BY <1>1, <1>2, <1>3, <2>5, <2>6
<1> QED BY <1>1, <1>2, <1>3, <1>6, <1>7

\* The positions below n, in order.
LEMMA RankOfPosition ==
  ASSUME NEW n \in Nat, NEW s \in 0..(n - 1)
  PROVE  Rank(0..(n - 1), s) = s
<1>1. {t \in 0..(n - 1) : t < s} = 0..(s - 1)
  OBVIOUS
<1>2. Cardinality(0..(s - 1)) = s
  <2>1. s \in Nat /\ s - 1 \in Int
    OBVIOUS
  <2> QED BY <2>1, FS_Interval
<1> QED BY <1>1, <1>2 DEF Rank

\* A shard of a plan begins before the last of what is to be proved.
LEMMA ShardBegins ==
  ASSUME NEW n \in Nat, NEW c \in Nat \ {0}, NEW i \in Nat, i < (n + c - 1) \div c
  PROVE  i * c \in Nat /\ i * c < n /\ (i + 1) * c = i * c + c
<1> DEFINE q == (n + c - 1) \div c
<1>1. n + c - 1 \in Nat
  OBVIOUS
<1>2. q \in Nat /\ q * c <= n + c - 1
  BY <1>1, Quotient
<1> HIDE DEF q
<1>3. i < q
  BY DEF q
<1>4. (i + 1) * c <= q * c
  BY <1>2, <1>3, Z3
<1>5. i * c \in Nat /\ (i + 1) * c = i * c + c
  BY Z3
<1> QED BY <1>2, <1>4, <1>5

\* The places of a chunk.
LEMMA PlacesOfChunk ==
  ASSUME NEW c \in Nat \ {0}, NEW i \in Nat, NEW k \in Nat
  PROVE  k \div c = i <=> i * c <= k /\ k < i * c + c
<1> DEFINE q == k \div c
<1>1. q \in Nat /\ q * c <= k /\ k < q * c + c
  BY Quotient
<1> HIDE DEF q
<1>2. ASSUME i * c <= k, k < i * c + c PROVE q = i
  <2>1. ~ (q < i)
    <3>1. q < i => (q + 1) * c <= i * c
      BY <1>1, Z3
    <3>2. (q + 1) * c = q * c + c /\ q * c \in Nat /\ i * c \in Nat
      BY <1>1, Z3
    <3> QED BY <1>1, <1>2, <3>1, <3>2
  <2>2. ~ (i < q)
    <3>1. i < q => (i + 1) * c <= q * c
      BY <1>1, Z3
    <3>2. (i + 1) * c = i * c + c /\ q * c \in Nat /\ i * c \in Nat
      BY <1>1, Z3
    <3> QED BY <1>1, <1>2, <3>1, <3>2
  <2> QED BY <1>1, <2>1, <2>2
<1>3. q = i => i * c <= k /\ k < i * c + c
  BY <1>1
<1> QED BY <1>2, <1>3 DEF q

-----------------------------------------------------------------------------
(* Shards *)

\* The projection is what Init makes it, and no step changes it.
InputInv ==
  /\ active \in Profiles /\ parallel \in 1..MaxParallel
  /\ segments \in 1..MaxSegments
  /\ modified \subseteq 0..(segments - 1)

LEMMA UnitsAreFinite ==
  ASSUME InputInv, NEW p \in Profiles
  PROVE  /\ IsFiniteSet(Units(p)) /\ Units(p) \subseteq 0..(segments - 1)
         /\ Cardinality(Units(p)) \in 0..segments
<1>1. segments \in Nat \ {0} /\ MaxSegments \in Nat
  BY ProvingAssumption DEF InputInv
<1>2. Units(p) \subseteq 0..(segments - 1)
  BY DEF Units, InputInv
<1>3. IsFiniteSet(0..(segments - 1)) /\ Cardinality(0..(segments - 1)) = segments
  BY <1>1, FS_Interval
<1>4. IsFiniteSet(Units(p)) /\ Cardinality(Units(p)) <= segments
  BY <1>2, <1>3, FS_Subset
<1> QED BY <1>1, <1>2, <1>4, FS_CardinalityType

\* How many chunks the units of a profile make.
Chunks(p) == (Cardinality(Units(p)) + Capacity[p] - 1) \div Capacity[p]

LEMMA ShardCount ==
  ASSUME InputInv, NEW p \in Profiles
  PROVE  Chunks(p) \in 0..MaxSegments
<1>1. Cardinality(Units(p)) \in 0..segments /\ segments \in Nat /\ segments <= MaxSegments
  BY UnitsAreFinite, ProvingAssumption DEF InputInv
<1>2. Chunks(p) \in 0..Cardinality(Units(p))
  BY <1>1, ChunksAtMost, ProvingAssumption DEF Chunks
<1> QED BY <1>1, <1>2, ProvingAssumption

\* The split makes the shards the policy estimates, but for the one it estimates of
\* nothing to prove.
LEMMA SplitIsEstimate ==
  ASSUME InputInv, NEW p \in Profiles
  PROVE  /\ Split(p) = 0..(Chunks(p) - 1) /\ Split(p) \subseteq ShardIds
         /\ Chunks(p) \in 0..MaxSegments /\ Cardinality(Split(p)) = Chunks(p)
         /\ Estimate(p) = IF Chunks(p) < 1 THEN 1 ELSE Chunks(p)
<1> DEFINE n == Cardinality(Units(p))
           c == Capacity[p]
           m == Chunks(p)
<1>1. n \in Nat /\ c \in Nat \ {0} /\ m \in Nat /\ m <= MaxSegments /\ MaxSegments \in Nat
      /\ m = (n + c - 1) \div c
  BY UnitsAreFinite, ShardCount, ProvingAssumption DEF Chunks, InputInv
<1>2. Split(p) = {i \in ShardIds : i * c < n}
  BY DEF Split
<1>3. Estimate(p) = IF m < 1 THEN 1 ELSE m
  BY <1>1 DEF Estimate, Larger
<1> HIDE DEF n, c, m
<1>4. ASSUME NEW i \in Nat, i * c < n PROVE i < m
  <2>1. i * c \in Nat /\ i * c < i * c + c
    BY <1>1, Z3
  <2>2. (i * c) \div c = i
    BY <1>1, <2>1, PlacesOfChunk
  <2> QED BY <1>1, <1>4, <2>1, <2>2, ChunkOfRank
<1>5. ASSUME NEW i \in Nat, i < m PROVE i * c < n
  BY <1>1, <1>5, ShardBegins
<1>6. Split(p) = 0..(m - 1)
  <2>1. \A i \in Split(p) : i \in 0..(m - 1)
    BY <1>1, <1>2, <1>4 DEF ShardIds
  <2>2. \A i \in 0..(m - 1) : i \in Split(p)
    BY <1>1, <1>2, <1>5 DEF ShardIds
  <2> QED BY <2>1, <2>2
<1>7. Cardinality(0..(m - 1)) = m
  BY <1>1, FS_Interval
<1> QED BY <1>1, <1>3, <1>6, <1>7 DEF m, ShardIds

\* The unit at any place of a profile's projection is in a shard of the plan.
LEMMA ShardOfUnit ==
  ASSUME InputInv, NEW p \in Profiles, NEW s \in Units(p)
  PROVE  \E i \in 0..(Chunks(p) - 1) : s \in Shard(p, i)
<1> DEFINE U == Units(p)
           below == {t \in U : t < s}
           i == Rank(U, s) \div Capacity[p]
<1>1. IsFiniteSet(U) /\ Cardinality(U) \in Nat /\ U \subseteq Nat
  BY UnitsAreFinite, ProvingAssumption DEF InputInv
<1>2. below \subseteq U /\ s \notin below
  BY <1>1
<1>3. Rank(U, s) \in Nat /\ Rank(U, s) < Cardinality(U)
  <2>1. Cardinality(below) <= Cardinality(U) /\ IsFiniteSet(below)
    BY <1>1, <1>2, FS_Subset
  <2>2. Cardinality(below) # Cardinality(U)
    BY <1>1, <1>2, FS_Subset
  <2>3. Cardinality(below) \in Nat
    BY <2>1, FS_CardinalityType
  <2> QED BY <1>1, <2>1, <2>2, <2>3 DEF Rank
<1>4. i \in Nat /\ i < Chunks(p)
  BY <1>1, <1>3, Quotient, ChunkOfRank, ProvingAssumption DEF Chunks
<1>5. i \in 0..(Chunks(p) - 1)
  BY <1>4, ShardCount, ProvingAssumption
<1> QED BY <1>5 DEF Shard

\* A shard holds as many of the units as are left for it, at most its circuit's capacity.
LEMMA ShardSize ==
  ASSUME InputInv, NEW p \in Profiles, NEW i \in 0..(Chunks(p) - 1)
  PROVE  /\ IsFiniteSet(Shard(p, i))
         /\ Cardinality(Shard(p, i)) \in 1..Capacity[p]
<1> DEFINE U == Units(p)
           n == Cardinality(U)
           lo == Slice(U, i * Capacity[p])
           hi == Slice(U, i * Capacity[p] + Capacity[p])
<1>1. /\ IsFiniteSet(U) /\ U \subseteq Nat /\ n \in Nat /\ Capacity[p] \in Nat \ {0} /\ i \in Nat
      /\ i < Chunks(p)
  BY UnitsAreFinite, ShardCount, ProvingAssumption DEF InputInv
<1>2. i * Capacity[p] \in Nat /\ i * Capacity[p] < n
  BY <1>1, ShardBegins DEF Chunks
<1>3. i * Capacity[p] + Capacity[p] \in Nat
  BY <1>1, <1>2
<1>4. /\ IsFiniteSet(lo) /\ lo \subseteq U /\ Cardinality(lo) = i * Capacity[p]
  BY <1>1, <1>2, SliceSize
<1>5. /\ IsFiniteSet(hi) /\ hi \subseteq U
      /\ Cardinality(hi) = IF i * Capacity[p] + Capacity[p] <= n THEN i * Capacity[p] + Capacity[p] ELSE n
  BY <1>1, <1>3, SliceSize
<1>6. \A x \in U : Rank(U, x) \in Nat
  BY <1>1, RankIsNat
<1>7. Shard(p, i) = hi \ lo /\ lo \subseteq hi
  <2>1. \A x \in U : Rank(U, x) \div Capacity[p] = i <=>
                       i * Capacity[p] <= Rank(U, x) /\ Rank(U, x) < i * Capacity[p] + Capacity[p]
    BY <1>1, <1>6, PlacesOfChunk
  <2>2. \A x \in U : x \in lo <=> Rank(U, x) < i * Capacity[p]
    BY DEF Slice
  <2>3. \A x \in U : x \in hi <=> Rank(U, x) < i * Capacity[p] + Capacity[p]
    BY DEF Slice
  <2>4. \A x \in U : x \in Shard(p, i) <=> x \in hi /\ x \notin lo
    <3> HIDE DEF lo, hi
    <3> QED BY <1>2, <1>6, <2>1, <2>2, <2>3 DEF Shard
  <2>5. lo \subseteq hi
    <3> HIDE DEF lo, hi
    <3> QED BY <1>1, <1>2, <1>4, <1>6, <2>2, <2>3
  <2>6. Shard(p, i) \subseteq U
    BY DEF Shard
  <2> HIDE DEF lo, hi
  <2> QED BY <1>5, <2>4, <2>5, <2>6
<1>8. hi \cap lo = lo
  BY <1>7
<1>9. IsFiniteSet(hi \ lo) /\ Cardinality(hi \ lo) = Cardinality(hi) - Cardinality(lo)
  BY <1>5, <1>8, FS_Difference
<1> DEFINE c == Capacity[p]
           o == i * c
           h == Cardinality(hi)
           l == Cardinality(lo)
<1>10. /\ c \in Nat \ {0} /\ o \in Nat /\ o < n /\ n \in Nat /\ l = o
       /\ h = (IF o + c <= n THEN o + c ELSE n) /\ Cardinality(Shard(p, i)) = h - l
  BY <1>1, <1>2, <1>4, <1>5, <1>7, <1>9
<1>11. IsFiniteSet(Shard(p, i))
  BY <1>7, <1>9
<1> HIDE DEF lo, hi, c, o, h, l, n
<1>12. Cardinality(Shard(p, i)) \in 1..c
  BY <1>10
<1> QED BY <1>11, <1>12 DEF c

\* Whatever is proved of a redaction, there is a first shard to prove.
LEMMA SomeShard ==
  ASSUME InputInv, NEW p \in Profiles, modified # {}
  PROVE  Chunks(p) >= 1
<1>1. PICK s \in modified : TRUE
  OBVIOUS
<1>2. s \in Units(p)
  BY <1>1 DEF Units, InputInv
<1>3. \E i \in 0..(Chunks(p) - 1) : TRUE
  BY <1>2, ShardOfUnit
<1>4. Chunks(p) \in Nat
  BY ShardCount, ProvingAssumption
<1> QED BY <1>3, <1>4

-----------------------------------------------------------------------------
(* The invariant *)

\* Which futures there are, phase by phase, and what is collected of them.
FutureInv ==
  /\ phase \in {"preflight", "planning"} => /\ future = [i \in ShardIds |-> "none"]
                                           /\ collected = {} /\ profile = "none"
  /\ phase \in {"proving", "cancelling", "draining", "benchmark"} =>
       /\ profile \in Profiles
       /\ \A i \in ShardIds \ Planned : future[i] = "none"
  /\ \A i \in collected : future[i] = "proved"

\* The loop that cancels stays within the shards of the plan.
SweepInv ==
  /\ phase \in {"preflight", "planning", "proving"} => sweep = 0
  /\ phase = "cancelling" => sweep < Total

\* Without a pool a shard starts when all before it are collected.
OneByOneInv ==
  phase = "proving" /\ Workers = 1 =>
    \A i \in Planned : future[i] # "pending" => \A j \in Planned : j < i => j \in collected

\* A bundle holds every shard of the plan.
BundleInv ==
  /\ phase = "benchmark" => collected = Planned
  /\ bundle # {} => /\ phase \in {"benchmark", "verified", "failed"}
                    /\ profile \in Profiles /\ bundle = Planned /\ collected = Planned

\* A profile handed over needs one shard, and the deadline covers every plan the thread
\* may still make.
DeadlineInv ==
  /\ phase = "preflight" => chosen = "none"
  /\ chosen # "none" => active \in Sparse /\ Chunks(OnchainSafe) <= 1
  /\ phase # "preflight" => deadline >= Single
  /\ phase # "preflight" /\ chosen = "none" => deadline >= Budget(active)
  /\ profile # "none" =>
       /\ phase \notin {"preflight", "planning"} /\ profile \in Profiles
       /\ \/ Chunks(profile) <= 1 /\ profile \notin Legacy
          \/ profile = active /\ chosen = "none"

\* What the job shows is the plan the thread was handed, and the thread leaves it only
\* for one proof of the on-chain safe profile.
ToldInv ==
  /\ told # NoEstimate =>
       /\ phase # "preflight"
       /\ told.profile = IF chosen = "none" THEN active ELSE chosen
       /\ told.shards = Chunks(told.profile)
       /\ told.classification = "single_proof_ready" =>
            told.profile = OnchainSafe /\ Chunks(OnchainSafe) <= 1
  /\ profile # "none" =>
       /\ modified # {}
       /\ \/ profile = IF chosen = "none" THEN active ELSE chosen
          \/ /\ profile = OnchainSafe /\ classification = "single_proof_ready"
             /\ Chunks(OnchainSafe) <= 1

IInv ==
  /\ TypeOK /\ FutureInv /\ SweepInv /\ OneByOneInv /\ BundleInv /\ DeadlineInv
  /\ NothingOutlivesProof /\ ToldInv

LEMMA TypeGivesInput == TypeOK => InputInv
  BY DEF TypeOK, InputInv

LEMMA InitIInv == Init => IInv
<1> SUFFICES ASSUME Init PROVE IInv
  OBVIOUS
<1>1. TypeOK
  BY ProvingAssumption DEF Init, TypeOK, Ended, Classes, NoEstimate, ShardIds
<1>2. FutureInv /\ SweepInv /\ OneByOneInv /\ BundleInv /\ DeadlineInv
  BY DEF Init, FutureInv, SweepInv, OneByOneInv, BundleInv, DeadlineInv
<1>3. NothingOutlivesProof /\ ToldInv
  BY DEF Init, NothingOutlivesProof, ToldInv, Ended
<1> QED BY <1>1, <1>2, <1>3 DEF IInv

\* A step that keeps the profile keeps the plan.
LEMMA PlanIsFixed ==
  ASSUME UNCHANGED <<input, profile>>
  PROVE  /\ Planned' = Planned /\ Workers' = Workers
         /\ Total' = Total /\ Chunks(profile)' = Chunks(profile)
         /\ Chunks(OnchainSafe)' = Chunks(OnchainSafe)
         /\ Budget(active)' = Budget(active)
  BY DEF input, Planned, Total, Workers, Split, Estimate, Chunks, Units, Budget

\* A step that changes no plan leaves the job told the truth.
LEMMA ToldStays ==
  ASSUME ToldInv, UNCHANGED <<input, plan>>, phase' # "preflight"
  PROVE  ToldInv'
  BY DEF ToldInv, NoEstimate, Chunks, Units, input, plan

\* In a phase with a pool, the plan is a sound one.
LEMMA PoolPlan ==
  ASSUME IInv, phase \in {"proving", "cancelling", "draining", "benchmark"}
  PROVE  /\ profile \in Profiles /\ Chunks(profile) \in 0..MaxSegments
         /\ Planned \subseteq ShardIds /\ Planned = 0..(Chunks(profile) - 1)
         /\ Total = Chunks(profile)
  BY TypeGivesInput, SplitIsEstimate DEF IInv, FutureInv, Planned, Total

-----------------------------------------------------------------------------
(* Every step keeps it *)

\* What is classified as fit for the chain is one proof of the on-chain safe profile.
LEMMA ClassifiedPlan ==
  ASSUME InputInv, NEW p \in Profiles, NEW pace, Classify(p, pace) = "single_proof_ready"
  PROVE  p = OnchainSafe /\ Chunks(p) <= 1
<1>1. p = OnchainSafe /\ ~(Estimate(p) > 1)
  BY DEF Classify
<1> QED BY <1>1, SplitIsEstimate, ProvingAssumption

\* A selected profile that is not the active one needs one shard at most.
LEMMA SelectedPlan ==
  ASSUME TypeOK, NEW pace \in [Profiles -> Paces], NEW p \in Selectable(pace)
  PROVE  /\ p \in Profiles
         /\ p # active => /\ p = OnchainSafe /\ active \in Sparse /\ Chunks(p) <= 1
                          /\ Classify(p, pace[p]) = "single_proof_ready"
<1>1. p \in Profiles
  BY ProvingAssumption DEF Selectable, TypeOK
<1>2. ASSUME p # active
      PROVE  p = OnchainSafe /\ active \in Sparse /\ Classify(p, pace[p]) = "single_proof_ready"
  BY <1>2 DEF Selectable
<1> QED BY <1>1, <1>2, ClassifiedPlan, TypeGivesInput

\* The budgets, of one proof and of several.
LEMMA Budgets ==
  ASSUME InputInv, NEW p \in Profiles
  PROVE  /\ Budget(p) \in Nat /\ Budget(p) >= Single
         /\ Budget(p) <= Larger(ProofTimeout, Multi)
         /\ Chunks(p) > 1 => Budget(p) >= Multi
         /\ Chunks(p) <= 1 /\ p \notin Legacy => Budget(p) = Single
<1>1. Chunks(p) \in Nat /\ (Estimate(p) > 1 <=> Chunks(p) > 1)
  BY SplitIsEstimate, ProvingAssumption
<1> QED BY <1>1, ProvingAssumption DEF Budget, Larger

LEMMA PreflightKeeps == IInv /\ (PreflightRaises \/ Preflight) => IInv'
<1> SUFFICES ASSUME IInv, PreflightRaises \/ Preflight PROVE IInv'
  OBVIOUS
<1>1. /\ phase = "preflight" /\ phase' = "planning" /\ UNCHANGED <<input, profile>>
      /\ UNCHANGED <<classification, pool, bundle>>
  BY DEF PreflightRaises, Preflight
<1>2. TypeOK /\ InputInv /\ chosen = "none" /\ profile = "none" /\ active \in Profiles
      /\ told = NoEstimate
  BY <1>1, TypeGivesInput DEF IInv, FutureInv, DeadlineInv, ToldInv, TypeOK
<1>3. ASSUME deadline' \in Nat, deadline' >= Single, chosen' \in {"none", OnchainSafe},
             chosen' = "none" => deadline' >= Budget(active),
             chosen' # "none" => active \in Sparse /\ Chunks(OnchainSafe) <= 1,
             told' \in [profile : Profiles \cup {"none"}, shards : 0..MaxSegments,
                        classification : Classes],
             ToldInv'
      PROVE  IInv'
  <2>1. TypeOK'
    BY <1>1, <1>2, <1>3 DEF TypeOK, input, pool
  <2>2. FutureInv' /\ SweepInv' /\ OneByOneInv' /\ BundleInv' /\ NothingOutlivesProof'
    BY <1>1, <1>2 DEF IInv, FutureInv, SweepInv, OneByOneInv, BundleInv, NothingOutlivesProof,
                      pool, Ended
  <2>3. DeadlineInv'
    <3>1. active' = active
      BY <1>1 DEF input
    <3> QED BY <1>1, <1>2, <1>3, <3>1, PlanIsFixed DEF DeadlineInv
  <2> QED BY <1>3, <2>1, <2>2, <2>3 DEF IInv
<1>4. CASE PreflightRaises
  <2>1. chosen' = "none" /\ deadline' = Larger(ProofTimeout, Multi) /\ told' = NoEstimate
    BY <1>2, <1>4 DEF PreflightRaises
  <2>2. /\ deadline' \in Nat /\ deadline' >= Single
    BY <2>1, ProvingAssumption DEF Larger
  <2>3. deadline' >= Budget(active)
    BY <1>2, <2>1, <2>2, Budgets
  <2>4. told' \in [profile : Profiles \cup {"none"}, shards : 0..MaxSegments,
                   classification : Classes]
    BY <1>2, <2>1 DEF TypeOK
  <2>5. ToldInv'
    BY <1>1, <1>2, <2>1 DEF ToldInv, NoEstimate
  <2> QED BY <1>3, <2>1, <2>2, <2>3, <2>4, <2>5
<1>5. CASE Preflight
  <2>1. modified # {}
    BY <1>5 DEF Preflight
  <2>2. PICK pace \in [Profiles -> Paces] : \E p \in Selectable(pace) :
          /\ chosen' = (IF p = active THEN "none" ELSE p) /\ deadline' = Budget(p)
          /\ told' \in {NoEstimate, [profile |-> p, shards |-> Cardinality(Split(p)),
                                     classification |-> Classify(p, pace[p])]}
    BY <1>5 DEF Preflight
  <2>3. PICK p \in Selectable(pace) :
          /\ chosen' = (IF p = active THEN "none" ELSE p) /\ deadline' = Budget(p)
          /\ told' \in {NoEstimate, [profile |-> p, shards |-> Cardinality(Split(p)),
                                     classification |-> Classify(p, pace[p])]}
    BY <2>2
  <2>4. p \in Profiles /\ (p # active => p = OnchainSafe /\ active \in Sparse /\ Chunks(p) <= 1)
    BY <1>2, SelectedPlan
  <2>5. /\ deadline' \in Nat /\ deadline' >= Single
        /\ chosen' = "none" => deadline' >= Budget(active)
    BY <1>2, <2>3, <2>4, Budgets, ProvingAssumption
  <2>6. /\ chosen' # "none" => active \in Sparse /\ Chunks(OnchainSafe) <= 1
        /\ chosen' \in {"none", OnchainSafe} /\ p = IF chosen' = "none" THEN active ELSE chosen'
    BY <2>3, <2>4, ProvingAssumption
  <2>7. Cardinality(Split(p)) = Chunks(p) /\ Chunks(p) \in 0..MaxSegments
    BY <1>2, <2>4, SplitIsEstimate
  <2>8. Classify(p, pace[p]) \in Classes
    BY DEF Classify, Classes
  <2>9. told' \in [profile : Profiles \cup {"none"}, shards : 0..MaxSegments,
                   classification : Classes]
    <3>1. CASE told' = NoEstimate
      BY <1>2, <3>1, ProvingAssumption DEF NoEstimate, Classes
    <3>2. CASE told' # NoEstimate
      BY <2>3, <2>4, <2>7, <2>8, <3>2
    <3> QED BY <3>1, <3>2
  <2>10. told' # NoEstimate =>
           /\ told'.profile = p /\ told'.shards = Chunks(p)
           /\ told'.classification = "single_proof_ready" => p = OnchainSafe /\ Chunks(p) <= 1
    BY <1>2, <2>3, <2>4, <2>7, ClassifiedPlan
  <2>11. ToldInv'
    <3>1. Chunks(p)' = Chunks(p) /\ NoEstimate' = NoEstimate /\ active' = active
      BY <1>1 DEF Chunks, Units, input, NoEstimate
    <3>2. ASSUME told' # NoEstimate
          PROVE  /\ told'.profile = IF chosen' = "none" THEN active' ELSE chosen'
                 /\ told'.shards = Chunks(told.profile)'
                 /\ told'.classification = "single_proof_ready" =>
                      told'.profile = OnchainSafe /\ Chunks(OnchainSafe)' <= 1
      BY <1>1, <2>6, <2>10, <3>1, <3>2, PlanIsFixed DEF Chunks, Units
    <3> QED BY <1>1, <1>2, <3>1, <3>2 DEF ToldInv
  <2> QED BY <1>3, <2>5, <2>6, <2>9, <2>11
<1> QED BY <1>4, <1>5

LEMMA PlanKeeps == IInv /\ Plan => IInv'
<1> SUFFICES ASSUME IInv, Plan PROVE IInv'
  OBVIOUS
<1>1. /\ phase = "planning" /\ UNCHANGED <<input, chosen, deadline, told, collected, sweep, bundle>>
      /\ TypeOK /\ InputInv /\ collected = {} /\ future = [i \in ShardIds |-> "none"]
      /\ profile = "none" /\ modified # {}
  BY TypeGivesInput DEF Plan, IInv, FutureInv
<1>2. PICK pace \in [Profiles -> Paces] :
        \E p \in (IF chosen = "none" THEN Selectable(pace) ELSE {chosen}) :
          /\ profile' = p /\ classification' = Classify(p, pace[p])
          /\ IF classification' = "unsupported_until_v4"
               THEN phase' = "unsupported" /\ UNCHANGED future
               ELSE /\ phase' = "proving"
                    /\ future' = [i \in ShardIds |-> IF i \in Split(p) THEN "pending" ELSE "none"]
  BY DEF Plan
<1>3. /\ profile' \in (IF chosen = "none" THEN Selectable(pace) ELSE {chosen})
      /\ classification' = Classify(profile', pace[profile'])
  BY <1>2
<1>4. /\ profile' \in Profiles
      /\ (Chunks(profile') <= 1 /\ profile' \notin Legacy) \/ (profile' = active /\ chosen = "none")
      /\ \/ profile' = IF chosen = "none" THEN active ELSE chosen
         \/ /\ profile' = OnchainSafe /\ classification' = "single_proof_ready"
            /\ Chunks(OnchainSafe) <= 1
  <2>1. CASE chosen = "none"
    BY <1>1, <1>3, <2>1, SelectedPlan, ProvingAssumption
  <2>2. CASE chosen # "none"
    BY <1>1, <1>3, <2>2, ProvingAssumption DEF IInv, TypeOK, DeadlineInv
  <2> QED BY <2>1, <2>2
<1>5. /\ Split(profile') = 0..(Chunks(profile') - 1) /\ Split(profile') \subseteq ShardIds
      /\ Cardinality(Split(profile')) = Chunks(profile') /\ Chunks(profile') \in 0..MaxSegments
  BY <1>1, <1>4, SplitIsEstimate
<1>6. /\ Planned' = Split(profile') /\ Total' = Chunks(profile') /\ Chunks(profile)' = Chunks(profile')
      /\ Chunks(OnchainSafe)' = Chunks(OnchainSafe) /\ Budget(active)' = Budget(active)
      /\ Planned' \subseteq ShardIds
  BY <1>1, <1>5 DEF Planned, Total, Split, Chunks, Estimate, Units, input, Budget
<1>7. ToldInv'
  <2>1. ASSUME told' # NoEstimate
        PROVE  /\ told'.profile = IF chosen' = "none" THEN active' ELSE chosen'
               /\ told'.shards = Chunks(told.profile)'
               /\ told'.classification = "single_proof_ready" =>
                    told'.profile = OnchainSafe /\ Chunks(OnchainSafe)' <= 1
    BY <1>1, <1>6, <2>1 DEF IInv, ToldInv, NoEstimate, Chunks, Units, input
  <2>2. modified' # {} /\ (\/ profile' = IF chosen' = "none" THEN active' ELSE chosen'
                          \/ /\ profile' = OnchainSafe /\ classification' = "single_proof_ready"
                             /\ Chunks(OnchainSafe)' <= 1)
    BY <1>1, <1>4, <1>6 DEF input
  <2>3. phase' # "preflight"
    BY <1>2
  <2> QED BY <2>1, <2>2, <2>3 DEF ToldInv, NoEstimate
<1>8. DeadlineInv'
  <2>1. phase' \notin {"preflight", "planning"} /\ active' = active /\ chosen' = chosen
        /\ deadline' = deadline
    BY <1>1, <1>2 DEF input
  <2> QED BY <1>1, <1>4, <1>6, <2>1 DEF IInv, DeadlineInv
<1>9. CASE phase' = "proving"
  <2>1. future' = [i \in ShardIds |-> IF i \in Split(profile') THEN "pending" ELSE "none"]
    BY <1>2, <1>9
  <2>2. TypeOK'
    BY <1>1, <1>3, <1>4, <1>9, <2>1 DEF TypeOK, input, Classify, Classes
  <2>3. FutureInv' /\ OneByOneInv'
    BY <1>1, <1>4, <1>6, <1>9, <2>1 DEF FutureInv, OneByOneInv
  <2>4. SweepInv' /\ BundleInv' /\ NothingOutlivesProof'
    BY <1>1, <1>4, <1>9 DEF IInv, SweepInv, BundleInv, NothingOutlivesProof, Ended
  <2> QED BY <1>7, <1>8, <2>2, <2>3, <2>4 DEF IInv
<1>10. CASE phase' = "unsupported"
  <2>1. UNCHANGED future /\ classification' = "unsupported_until_v4"
    BY <1>2, <1>10
  <2>2. TypeOK'
    BY <1>1, <1>4, <1>10, <2>1 DEF TypeOK, input, Ended, Classes
  <2>3. FutureInv' /\ OneByOneInv' /\ SweepInv' /\ BundleInv'
    BY <1>1, <1>4, <1>10, <2>1 DEF IInv, FutureInv, OneByOneInv, SweepInv, BundleInv
  <2>4. NothingOutlivesProof'
    BY <1>1, <2>1 DEF NothingOutlivesProof, Running
  <2> QED BY <1>7, <1>8, <2>2, <2>3, <2>4 DEF IInv
<1> QED BY <1>2, <1>9, <1>10

LEMMA PlanRaisesKeeps ==
  ASSUME NEW outcome \in {"failed", "unsupported"}, IInv, PlanRaises(outcome)
  PROVE  IInv'
<1>1. /\ phase = "planning" /\ phase' = outcome /\ UNCHANGED <<input, plan, pool, bundle>>
      /\ TypeOK /\ future = [i \in ShardIds |-> "none"] /\ profile = "none"
  BY DEF PlanRaises, IInv, FutureInv
<1>2. UNCHANGED <<input, profile>>
  BY <1>1 DEF plan
<1> QED BY <1>1, <1>2, PlanIsFixed, ToldStays
        DEF IInv, TypeOK, FutureInv, SweepInv, OneByOneInv, BundleInv, DeadlineInv, Running,
            NothingOutlivesProof, input, plan, pool, Ended

\* The states of a shard that one step of it leads to.
Advance ==
  {<<"witness", "proving">>, <<"witness", "failed">>, <<"proving", "proved">>,
   <<"proving", "failed">>}

\* A shard that is running moves on.
LEMMA AdvanceKeeps ==
  ASSUME IInv, NEW i \in ShardIds, NEW to, <<future[i], to>> \in Advance, Becomes(i, to),
         UNCHANGED <<input, phase, plan, collected, sweep, bundle>>
  PROVE  IInv'
<1>1. TypeOK /\ UNCHANGED <<input, profile>> /\ future[i] \in {"witness", "proving"}
  BY DEF IInv, plan, Advance
<1>2. /\ future' \in [ShardIds -> {"none", "pending", "witness", "proving", "proved", "failed",
                                    "cancelled"}]
      /\ \A j \in ShardIds \ {i} : future'[j] = future[j]
      /\ future'[i] = to /\ to \notin {"none", "pending"}
  BY <1>1 DEF Becomes, TypeOK, Advance
<1>3. TypeOK'
  BY <1>1, <1>2 DEF TypeOK, input, plan
<1>4. FutureInv'
  <2>1. i \notin collected /\ collected \subseteq ShardIds
    BY <1>1 DEF IInv, FutureInv, TypeOK
  <2>2. phase \notin {"preflight", "planning"}
    BY <1>1 DEF IInv, FutureInv
  <2>3. phase \in {"proving", "cancelling", "draining", "benchmark"} => i \in Planned
    BY <1>1 DEF IInv, FutureInv
  <2> QED BY <1>1, <1>2, <2>1, <2>2, <2>3, PlanIsFixed DEF IInv, FutureInv
<1>5. OneByOneInv'
  <2>1. phase = "proving" => i \in Planned /\ Planned \subseteq ShardIds
    BY <1>1, PoolPlan DEF IInv, FutureInv
  <2> QED BY <1>1, <1>2, <2>1, PlanIsFixed DEF IInv, OneByOneInv
<1>6. SweepInv' /\ BundleInv' /\ DeadlineInv' /\ ToldInv'
  BY <1>1, PlanIsFixed, ToldStays
  DEF IInv, FutureInv, SweepInv, BundleInv, DeadlineInv, input, plan
<1>7. NothingOutlivesProof'
  BY <1>1 DEF IInv, NothingOutlivesProof, Running
<1> QED BY <1>3, <1>4, <1>5, <1>6, <1>7 DEF IInv

LEMMA StartShardKeeps ==
  ASSUME IInv, NEW i \in ShardIds, StartShard(i)
  PROVE  IInv'
<1>1. /\ TypeOK /\ UNCHANGED <<input, phase, plan, collected, sweep, bundle>>
      /\ UNCHANGED <<input, profile>> /\ future[i] = "pending"
      /\ phase \in {"proving", "cancelling", "draining"}
  BY DEF IInv, StartShard, plan, PoolOpen
<1>2. /\ future' \in [ShardIds -> {"none", "pending", "witness", "proving", "proved", "failed",
                                    "cancelled"}]
      /\ \A j \in ShardIds \ {i} : future'[j] = future[j]
      /\ future'[i] = "witness"
  BY <1>1 DEF StartShard, Becomes, TypeOK
<1>3. TypeOK'
  BY <1>1, <1>2 DEF TypeOK, input, plan
<1>4. i \in Planned /\ Planned \subseteq ShardIds /\ i \notin collected /\ collected \subseteq ShardIds
  BY <1>1, PoolPlan DEF IInv, FutureInv, TypeOK
<1>5. FutureInv'
  BY <1>1, <1>2, <1>4, PlanIsFixed DEF IInv, FutureInv
<1>6. OneByOneInv'
  <2>1. Workers = 1 => \A j \in Planned : j < i => j \in collected
    BY DEF StartShard
  <2> QED BY <1>1, <1>2, <1>4, <2>1, PlanIsFixed DEF IInv, OneByOneInv
<1>7. SweepInv' /\ BundleInv' /\ DeadlineInv' /\ ToldInv'
  BY <1>1, PlanIsFixed, ToldStays
  DEF IInv, FutureInv, SweepInv, BundleInv, DeadlineInv, input, plan
<1>8. NothingOutlivesProof'
  BY <1>1 DEF NothingOutlivesProof, Ended
<1> QED BY <1>3, <1>5, <1>6, <1>7, <1>8 DEF IInv

\* Whether the thread collects a proof or goes on to a later phase, the shards stay.
LEMMA CollectProofKeeps ==
  ASSUME IInv, NEW i \in ShardIds, CollectProof(i)
  PROVE  IInv'
<1>1. /\ TypeOK /\ UNCHANGED <<input, phase, plan, future, sweep, bundle>>
      /\ UNCHANGED <<input, profile>> /\ future[i] = "proved" /\ phase = "proving"
      /\ collected' = collected \cup {i}
  BY DEF IInv, CollectProof, plan
<1>2. TypeOK' /\ bundle = {}
  BY <1>1 DEF IInv, BundleInv, TypeOK, input, plan
<1>3. FutureInv' /\ OneByOneInv'
  BY <1>1, PlanIsFixed DEF IInv, FutureInv, OneByOneInv
<1>4. SweepInv' /\ BundleInv' /\ DeadlineInv' /\ ToldInv' /\ NothingOutlivesProof'
  BY <1>1, <1>2, PlanIsFixed, ToldStays
  DEF IInv, FutureInv, SweepInv, BundleInv, DeadlineInv, input, plan,
      NothingOutlivesProof, Ended
<1> QED BY <1>2, <1>3, <1>4 DEF IInv

\* Without a pool nothing runs beside the shard that failed.
LEMMA FailedAlone ==
  ASSUME IInv, NEW i \in ShardIds, CollectFailure(i), Workers <= 1
  PROVE  Running = {}
<1>1. /\ TypeOK /\ phase = "proving" /\ future[i] = "failed"
      /\ Chunks(profile) \in 0..MaxSegments /\ MaxSegments \in Nat /\ Total = Chunks(profile)
      /\ Planned = 0..(Chunks(profile) - 1) /\ i \in Planned
  BY PoolPlan, ProvingAssumption DEF CollectFailure, IInv, FutureInv
<1>2. Workers = 1
  <2>1. Total \in Nat /\ Total >= 1 /\ parallel \in Nat /\ parallel >= 1
    BY <1>1, ProvingAssumption DEF TypeOK
  <2> QED BY <2>1 DEF Workers
<1>3. SUFFICES ASSUME NEW j \in Running PROVE FALSE
  OBVIOUS
<1>4. j \in Planned /\ future[j] \in {"witness", "proving"} /\ j # i
  BY <1>1 DEF Running, IInv, FutureInv
<1>5. i < j => i \in collected
  BY <1>1, <1>2, <1>4 DEF IInv, OneByOneInv
<1>6. j < i => j \in collected
  BY <1>1, <1>2, <1>4 DEF IInv, OneByOneInv
<1>7. i < j \/ j < i
  BY <1>1, <1>4
<1> QED BY <1>1, <1>4, <1>5, <1>6, <1>7 DEF IInv, FutureInv

LEMMA CollectFailureKeeps ==
  ASSUME IInv, NEW i \in ShardIds, CollectFailure(i)
  PROVE  IInv'
<1>1. /\ TypeOK /\ UNCHANGED <<input, plan, pool, bundle>> /\ UNCHANGED <<input, profile>>
      /\ phase = "proving" /\ phase' = IF Workers > 1 THEN "cancelling" ELSE "failed"
  BY DEF IInv, CollectFailure, plan
<1>2. Workers \in Nat /\ Total \in Nat /\ (Workers > 1 => Total > 1)
  BY <1>1, PoolPlan, ProvingAssumption DEF Workers, TypeOK
<1>3. TypeOK' /\ bundle = {} /\ sweep = 0
  BY <1>1 DEF IInv, BundleInv, SweepInv, TypeOK, input, plan, pool, Ended
<1>4. FutureInv' /\ OneByOneInv' /\ SweepInv' /\ BundleInv' /\ DeadlineInv' /\ ToldInv'
  BY <1>1, <1>2, <1>3, PlanIsFixed, ToldStays
  DEF IInv, FutureInv, OneByOneInv, SweepInv, BundleInv, DeadlineInv,
      input, plan, pool
<1>5. NothingOutlivesProof'
  BY <1>1, <1>2, FailedAlone DEF NothingOutlivesProof, Running, Ended, pool
<1> QED BY <1>3, <1>4, <1>5 DEF IInv

LEMMA CancelKeeps == IInv /\ Cancel => IInv'
<1> SUFFICES ASSUME IInv, Cancel PROVE IInv'
  OBVIOUS
<1>1. /\ TypeOK /\ UNCHANGED <<input, plan, collected, bundle>> /\ UNCHANGED <<input, profile>>
      /\ phase = "cancelling" /\ sweep' = sweep + 1 /\ phase' \in {"cancelling", "draining"}
      /\ phase' = IF sweep' = Total THEN "draining" ELSE phase
  BY DEF IInv, Cancel, plan
<1>2. /\ Total \in 0..MaxSegments /\ sweep \in Nat /\ sweep < Total
      /\ Planned \subseteq ShardIds /\ sweep \in ShardIds /\ MaxSegments \in Nat
  BY <1>1, PoolPlan, ProvingAssumption DEF IInv, SweepInv, TypeOK, ShardIds
<1>3. /\ future' \in [ShardIds -> {"none", "pending", "witness", "proving", "proved", "failed",
                                    "cancelled"}]
      /\ \A j \in ShardIds : future'[j] = future[j] \/ future[j] = "pending"
  BY <1>1, <1>2 DEF Cancel, TypeOK
<1>4. TypeOK'
  BY <1>1, <1>2, <1>3 DEF TypeOK, input, plan
<1>5. FutureInv' /\ OneByOneInv'
  BY <1>1, <1>2, <1>3, PlanIsFixed DEF IInv, FutureInv, OneByOneInv, TypeOK
<1>6. SweepInv' /\ BundleInv' /\ DeadlineInv' /\ ToldInv' /\ NothingOutlivesProof'
  BY <1>1, <1>2, PlanIsFixed, ToldStays
  DEF IInv, FutureInv, SweepInv, BundleInv, DeadlineInv, input, plan,
      NothingOutlivesProof, Ended
<1> QED BY <1>4, <1>5, <1>6 DEF IInv

LEMMA ThreadEndsKeeps ==
  IInv /\ (ShutDown \/ InsertBundle \/ InsertRaises \/ RecordBenchmark) => IInv'
<1> SUFFICES ASSUME IInv, ShutDown \/ InsertBundle \/ InsertRaises \/ RecordBenchmark
             PROVE  IInv'
  OBVIOUS
<1>1. /\ TypeOK /\ UNCHANGED <<input, plan, pool>> /\ UNCHANGED <<input, profile>>
      /\ phase \in {"proving", "draining", "benchmark"}
      /\ phase' \in {"benchmark", "verified", "failed"}
  BY DEF IInv, plan, ShutDown, InsertBundle, InsertRaises, RecordBenchmark
<1>2. profile \in Profiles /\ Planned \subseteq ShardIds
  BY <1>1, PoolPlan
<1>3. /\ ShutDown => Running = {} /\ phase' = "failed" /\ bundle' = bundle /\ phase = "draining"
      /\ ~ShutDown => collected = Planned
  BY DEF ShutDown, InsertBundle, InsertRaises, RecordBenchmark, IInv, BundleInv
<1>4. /\ bundle' # {} => bundle' = Planned /\ collected = Planned
      /\ bundle' \subseteq ShardIds
  BY <1>1, <1>2 DEF IInv, BundleInv, TypeOK, ShutDown, InsertBundle, InsertRaises, RecordBenchmark
<1>5. TypeOK'
  BY <1>1, <1>4 DEF TypeOK, input, plan, pool, Ended
<1>6. FutureInv' /\ OneByOneInv' /\ SweepInv' /\ DeadlineInv' /\ ToldInv'
  BY <1>1, <1>2, PlanIsFixed, ToldStays
  DEF IInv, FutureInv, OneByOneInv, SweepInv, DeadlineInv, input, plan, pool
<1>7. BundleInv'
  BY <1>1, <1>2, <1>3, <1>4, PlanIsFixed DEF BundleInv, pool
<1>8. NothingOutlivesProof'
  <2>1. collected = Planned => Running = {}
    BY <1>1, <1>2 DEF IInv, FutureInv, Running
  <2> QED BY <1>1, <1>3, <2>1 DEF NothingOutlivesProof, Running, pool
<1> QED BY <1>5, <1>6, <1>7, <1>8 DEF IInv

LEMMA NextKeepsIInv == IInv /\ [Next]_vars => IInv'
<1> SUFFICES ASSUME IInv, [Next]_vars PROVE IInv'
  OBVIOUS
<1>1. ASSUME UNCHANGED vars PROVE IInv'
  <2>1. /\ UNCHANGED <<input, profile>>
        /\ UNCHANGED <<active, parallel, segments, modified, phase, chosen, deadline, told,
                       classification, future, collected, sweep, bundle>>
    BY <1>1 DEF vars, input, plan, pool
  <2>2. (TypeOK /\ FutureInv /\ SweepInv /\ OneByOneInv /\ BundleInv /\ DeadlineInv
           /\ NothingOutlivesProof)'
    BY <2>1, PlanIsFixed
    DEF IInv, TypeOK, FutureInv, SweepInv, OneByOneInv, BundleInv, DeadlineInv, Running,
        NothingOutlivesProof
  <2>3. ToldInv'
    BY <2>1 DEF IInv, ToldInv, NoEstimate, Chunks, Units
  <2> QED BY <2>2, <2>3 DEF IInv
<1>2. ASSUME Attempt PROVE IInv'
  BY <1>2, PreflightKeeps, PlanKeeps, PlanRaisesKeeps, CollectProofKeeps, CollectFailureKeeps,
     CancelKeeps, ThreadEndsKeeps DEF Attempt
<1>3. ASSUME NEW i \in ShardIds, ProveShard(i) PROVE IInv'
  <2>1. CASE StartShard(i)
    BY <2>1, StartShardKeeps
  <2>2. CASE DeriveWitness(i)
    BY <2>2, AdvanceKeeps DEF DeriveWitness, Advance
  <2>3. CASE WitnessRaises(i)
    BY <2>3, AdvanceKeeps DEF WitnessRaises, Advance
  <2>4. CASE ProverVerifies(i)
    BY <2>4, AdvanceKeeps DEF ProverVerifies, Advance
  <2>5. CASE ProverStops(i)
    BY <2>5, AdvanceKeeps DEF ProverStops, Advance
  <2> QED BY <1>3, <2>1, <2>2, <2>3, <2>4, <2>5 DEF ProveShard
<1> QED BY <1>1, <1>2, <1>3 DEF Next

-----------------------------------------------------------------------------
(* What the circuits can prove of a shard *)

\* What a sparse plan's shard selects are changed segments, as the projection numbers them.
LEMMA SparseSelects ==
  ASSUME InputInv, profile \in Profiles, profile \in Sparse, NEW i \in Nat
  PROVE  /\ Selected(i) = {s \in modified : Rank(modified, s) \div Capacity[profile] = i}
         /\ Selected(i) \subseteq modified /\ modified \subseteq Nat
         /\ IsFiniteSet(modified) /\ IsFiniteSet(Selected(i))
         /\ Cardinality(Selected(i)) \in Nat
<1>1. modified \subseteq Nat /\ IsFiniteSet(modified) /\ Units(profile) = modified
  BY UnitsAreFinite, ProvingAssumption DEF InputInv, Units
<1>2. Shard(profile, i) = {s \in modified : Rank(modified, s) \div Capacity[profile] = i}
  BY <1>1, Zenon DEF Shard
<1>3. Selected(i) = Shard(profile, i)
  <2>1. Offset(i) = 0
    BY DEF Offset
  <2>2. \A s \in Nat : s - 0 = s
    OBVIOUS
  <2>3. \A s \in Shard(profile, i) : s - Offset(i) = s
    BY <1>1, <1>2, <2>1, <2>2
  <2> QED BY <2>3, Zenon DEF Selected
<1>4. Selected(i) \subseteq modified
  BY <1>2, <1>3
<1>5. IsFiniteSet(Selected(i))
  BY <1>1, <1>4, FS_Subset
<1> QED BY <1>1, <1>2, <1>3, <1>4, <1>5, FS_CardinalityType

\* The first shard of a sparse plan is full or selects all that has changed.
LEMMA FirstShard ==
  ASSUME InputInv, profile \in Profiles, profile \in Sparse, ~ (modified \subseteq Selected(0))
  PROVE  Cardinality(Selected(0)) >= Capacity[profile]
<1> DEFINE rest == modified \ Selected(0)
<1>1. /\ Selected(0) = {s \in modified : Rank(modified, s) \div Capacity[profile] = 0}
      /\ modified \subseteq Nat /\ IsFiniteSet(modified) /\ IsFiniteSet(Selected(0))
      /\ Cardinality(Selected(0)) \in Nat
  BY SparseSelects
<1>2. PICK m \in rest : \A s \in rest : m <= s
  <2>1. rest \in SUBSET Nat /\ rest # {}
    BY <1>1
  <2> QED BY <2>1, LeastOf
<1>3. Rank(modified, m) \in Nat /\ Capacity[profile] \in Nat \ {0}
  BY <1>1, <1>2, RankGrows, ProvingAssumption
<1>4. Rank(modified, m) >= Capacity[profile]
  <2>1. Rank(modified, m) \div Capacity[profile] # 0
    BY <1>1, <1>2
  <2>2. \A k \in Nat, c \in Nat \ {0} : k < c => k \div c = 0
    BY Z3
  <2> QED BY <1>3, <2>1, <2>2
<1>5. {t \in modified : t < m} \subseteq Selected(0)
  <2>1. \A t \in Nat : t < m => ~ (m <= t)
    BY <1>1, <1>2
  <2>2. \A t \in modified : t < m => t \in Selected(0)
    BY <1>1, <1>2, <2>1
  <2> QED BY <2>2, Zenon
<1>6. Rank(modified, m) <= Cardinality(Selected(0))
  BY <1>1, <1>5, FS_Subset DEF Rank
<1> QED BY <1>1, <1>3, <1>4, <1>6

\* The padding of a later shard of a sparse plan spares the changed segments exactly when
\* it ends below the first of them.
LEMMA LaterPadding ==
  ASSUME InputInv, profile \in Profiles, profile \in Sparse, segments <= Leaves[profile], NEW i \in Nat \ {0}
  PROVE  Padding(Selected(i)) \cap modified = {} <=>
           \A s \in modified : Cardinality(Selected(i)) + s >= Capacity[profile]
<1> DEFINE S == Selected(i)
           free == (0..(Leaves[profile] - 1)) \ S
           n == Cardinality(S)
<1>0. /\ S = {s \in modified : Rank(modified, s) \div Capacity[profile] = i}
      /\ S \subseteq modified /\ modified \subseteq Nat /\ IsFiniteSet(modified) /\ n \in Nat
      /\ Capacity[profile] \in Nat \ {0} /\ Leaves[profile] \in Nat /\ modified \subseteq 0..(Leaves[profile] - 1)
  BY SparseSelects, ProvingAssumption DEF InputInv
<1>1. CASE modified = {}
  BY <1>1
<1>2. CASE modified # {}
  <2>1. PICK m \in modified : \A s \in modified : m <= s
    BY <1>0, <1>2, LeastOf
  <2>2. m \notin S
    <3>1. {t \in modified : t < m} = {}
      <4>1. \A t \in Nat : t < m => ~ (m <= t)
        BY <1>0, <2>1
      <4>2. \A t \in modified : ~ (t < m)
        BY <1>0, <2>1, <4>1
      <4> QED BY <4>2, Zenon
    <3>2. Rank(modified, m) = 0
      BY <3>1, FS_EmptySet DEF Rank
    <3>3. 0 \div Capacity[profile] = 0
      BY <1>0, Z3
    <3> QED BY <1>0, <3>2, <3>3
  <2>3. Rank(free, m) = m
    <3>1. {t \in free : t < m} = 0..(m - 1)
      BY <1>0, <2>1
    <3>2. m \in Nat /\ Cardinality(0..(m - 1)) = m
      <4>1. m \in Nat /\ 0 \in Int /\ m - 1 \in Int
        BY <1>0, <2>1
      <4> QED BY <4>1, FS_Interval
    <3> QED BY <3>1, <3>2 DEF Rank
  <2>4. IsFiniteSet(free) /\ free \subseteq Nat
    <3>1. IsFiniteSet(0..(Leaves[profile] - 1))
      BY <1>0, PositionsBelow
    <3> QED BY <1>0, <3>1, FS_Subset
  <2>5. Padding(S) = {x \in free : Rank(free, x) < Capacity[profile] - n}
    BY Zenon DEF Padding
  <2>6. CASE n + m >= Capacity[profile]
    <3>1. ASSUME NEW x \in modified, x \in free PROVE ~ (Rank(free, x) < Capacity[profile] - n)
      <4>1. m <= x /\ m \in Nat /\ x \in Nat
        BY <1>0, <2>1, <3>1
      <4>2. Rank(free, m) <= Rank(free, x) /\ Rank(free, x) \in Nat
        BY <2>4, <4>1, RankGrows
      <4> QED BY <1>0, <2>3, <2>6, <4>1, <4>2
    <3>2. \A s \in modified : n + s >= Capacity[profile]
      BY <1>0, <2>1, <2>6
    <3> QED BY <2>5, <3>1, <3>2
  <2>7. CASE ~ (n + m >= Capacity[profile])
    <3>1. m \in free /\ Rank(free, m) < Capacity[profile] - n
      BY <1>0, <2>1, <2>2, <2>3, <2>7
    <3>2. m \in Padding(S)
      BY <2>5, <3>1
    <3> QED BY <2>1, <2>7, <3>2
  <2> QED BY <2>6, <2>7
<1> QED BY <1>1, <1>2

\* What a shard selects: some positions of its tree, at most its circuit's capacity.
LEMMA ShardSelects ==
  ASSUME InputInv, profile \in Profiles, FitsTree, NEW i \in Planned
  PROVE  /\ IsFiniteSet(Selected(i)) /\ Selected(i) \subseteq 0..(Leaves[profile] - 1)
         /\ Cardinality(Selected(i)) \in 1..Capacity[profile]
<1>1. /\ IsFiniteSet(Shard(profile, i)) /\ Cardinality(Shard(profile, i)) \in 1..Capacity[profile]
      /\ i \in Nat /\ Capacity[profile] \in Nat \ {0} /\ Leaves[profile] \in Nat
      /\ Capacity[profile] <= Leaves[profile] /\ segments \in Nat
      /\ Chunks(profile) \in Nat /\ i < Chunks(profile)
  <2>1. i \in 0..(Chunks(profile) - 1) /\ Chunks(profile) \in Nat
    BY SplitIsEstimate, ProvingAssumption DEF Planned
  <2> QED BY <2>1, ShardSize, ProvingAssumption DEF InputInv
<1>2. CASE profile \in Sparse
  <2>1. /\ Selected(i) = {s \in modified : Rank(modified, s) \div Capacity[profile] = i}
        /\ Selected(i) \subseteq modified
    BY <1>1, <1>2, SparseSelects
  <2>2. Shard(profile, i) = {s \in modified : Rank(modified, s) \div Capacity[profile] = i}
    BY <1>2, Zenon DEF Shard, Units
  <2>3. modified \subseteq 0..(Leaves[profile] - 1)
    BY <1>1, <1>2 DEF InputInv, FitsTree
  <2> QED BY <1>1, <2>1, <2>2, <2>3
<1>3. CASE profile \notin Sparse
  <2> DEFINE n == segments
             size == IF n - i * Capacity[profile] <= Capacity[profile] THEN n - i * Capacity[profile] ELSE Capacity[profile]
  <2>1. Units(profile) = 0..(n - 1) /\ Offset(i) = i * Capacity[profile]
    BY <1>3 DEF Units, Offset
  <2>2. Cardinality(0..(n - 1)) = n
    BY <1>1, PositionsBelow
  <2>3. i * Capacity[profile] \in Nat /\ i * Capacity[profile] < n
    <3>1. Chunks(profile) = (n + Capacity[profile] - 1) \div Capacity[profile]
      BY <2>1, <2>2 DEF Chunks
    <3> QED BY <1>1, <3>1, ShardBegins
  <2>4. \A s \in 0..(n - 1) : s \in Shard(profile, i) <=>
                                i * Capacity[profile] <= s /\ s < i * Capacity[profile] + Capacity[profile]
    <3>1. \A s \in 0..(n - 1) : Rank(0..(n - 1), s) = s
      BY <1>1, RankOfPosition
    <3>2. \A s \in 0..(n - 1) : s \div Capacity[profile] = i <=>
                                  i * Capacity[profile] <= s /\ s < i * Capacity[profile] + Capacity[profile]
      <4> TAKE s \in 0..(n - 1)
      <4>1. s \in Nat /\ i \in Nat /\ Capacity[profile] \in Nat \ {0}
        BY <1>1
      <4> QED BY <4>1, PlacesOfChunk
    <3> QED BY <2>1, <3>1, <3>2 DEF Shard
  <2>5. Shard(profile, i) = (i * Capacity[profile])..(i * Capacity[profile] + size - 1)
    <3>1. Shard(profile, i) \subseteq 0..(n - 1)
      BY <2>1 DEF Shard
    <3> DEFINE o == i * Capacity[profile]
               H == Shard(profile, i)
    <3>2. o \in Nat /\ o < n /\ n \in Nat /\ size \in Nat
          /\ (size = n - o \/ size = Capacity[profile]) /\ size <= n - o /\ size <= Capacity[profile]
      BY <1>1, <2>3
    <3>3. \A s \in 0..(n - 1) : s \in H <=> o <= s /\ s < o + Capacity[profile]
      BY <2>4
    <3>4. H \subseteq 0..(n - 1)
      BY <3>1
    <3> HIDE DEF o, H, size, n
    <3>5. \A s \in H : s \in o..(o + size - 1)
      BY <1>1, <3>2, <3>3, <3>4
    <3>6. \A s \in o..(o + size - 1) : s \in H
      BY <1>1, <3>2, <3>3
    <3>7. H = o..(o + size - 1)
      BY <3>5, <3>6
    <3> QED BY <3>7 DEF o, H
  <2>6. Selected(i) = 0..(size - 1)
    <3> DEFINE o == i * Capacity[profile]
    <3>1. Selected(i) = {s - o : s \in o..(o + size - 1)}
      BY <2>1, <2>5 DEF Selected
    <3>2. o \in Nat /\ size \in Nat
      BY <1>1, <2>3
    <3> HIDE DEF o, size
    <3>3. \A s \in o..(o + size - 1) : s - o \in 0..(size - 1)
      BY <3>2
    <3>4. \A x \in 0..(size - 1) : x + o \in o..(o + size - 1) /\ (x + o) - o = x
      BY <3>2
    <3> QED BY <3>1, <3>3, <3>4
  <2>7. size \in 1..Capacity[profile]
    BY <1>1, <2>3
  <2> HIDE DEF size
  <2>8. IsFiniteSet(0..(size - 1)) /\ Cardinality(0..(size - 1)) = size
    BY <1>1, <2>7, PositionsBelow
  <2>9. 0..(size - 1) \subseteq 0..(Leaves[profile] - 1)
    BY <1>1, <2>7
  <2> QED BY <2>6, <2>7, <2>8, <2>9
<1> QED BY <1>2, <1>3

\* The padding fills the circuit with positions of the tree that differ.
LEMMA InputsFill ==
  ASSUME InputInv, profile \in Profiles, FitsTree, NEW i \in Planned
  PROVE  /\ Selected(i) # {}
         /\ Inputs(i) \subseteq 0..(Leaves[profile] - 1) /\ Cardinality(Inputs(i)) = Capacity[profile]
<1> DEFINE S == Selected(i)
           tree == 0..(Leaves[profile] - 1)
           free == tree \ S
           n == Cardinality(S)
<1>1. IsFiniteSet(S) /\ S \subseteq tree /\ n \in 1..Capacity[profile]
  BY ShardSelects
<1>2. Capacity[profile] \in Nat \ {0} /\ Leaves[profile] \in Nat /\ Capacity[profile] <= Leaves[profile]
  BY ProvingAssumption
<1>3. IsFiniteSet(tree) /\ Cardinality(tree) = Leaves[profile]
  BY <1>2, PositionsBelow
<1>4. tree \cap S = S /\ free \cap S = {} /\ free \subseteq Nat
  BY <1>1, <1>2
<1>5. IsFiniteSet(free) /\ Cardinality(free) = Leaves[profile] - n
  BY <1>3, <1>4, FS_Difference
<1>6. Capacity[profile] - n \in Nat /\ Capacity[profile] - n <= Cardinality(free)
  BY <1>1, <1>2, <1>5
<1>7. /\ IsFiniteSet(Slice(free, Capacity[profile] - n)) /\ Slice(free, Capacity[profile] - n) \subseteq free
      /\ Cardinality(Slice(free, Capacity[profile] - n)) = Capacity[profile] - n
  BY <1>4, <1>5, <1>6, SliceSize
<1>8. Padding(S) = Slice(free, Capacity[profile] - n)
  BY Zenon DEF Padding, Slice
<1>9. Inputs(i) = S \cup Padding(S)
  BY DEF Inputs
<1>10. S \cap Padding(S) = {}
  BY <1>4, <1>7, <1>8
<1>11. Cardinality(S \cup Padding(S)) = n + (Capacity[profile] - n) - 0
  <2> DEFINE P == Slice(free, Capacity[profile] - n)
  <2>1. IsFiniteSet(S) /\ IsFiniteSet(P) /\ S \cap P = {}
    BY <1>1, <1>7, <1>8, <1>10
  <2>2. Cardinality(S \cup P) = Cardinality(S) + Cardinality(P) - Cardinality(S \cap P)
    BY <2>1, FS_Union
  <2>3. Cardinality(S \cap P) = 0
    BY <2>1, FS_EmptySet
  <2> QED BY <1>7, <1>8, <2>2, <2>3
<1>12. Cardinality(Inputs(i)) = Capacity[profile]
  BY <1>1, <1>2, <1>9, <1>11
<1>13. Inputs(i) \subseteq tree
  BY <1>1, <1>7, <1>8, <1>9
<1>14. S # {}
  BY <1>1, FS_EmptySet
<1> QED BY <1>12, <1>13, <1>14

-----------------------------------------------------------------------------
(* Theorems *)

LEMMA Invariant == Spec => []IInv
<1> QED BY InitIInv, NextKeepsIInv, PTL DEF Spec

\* Every variable keeps its type, for every number of segments and every capacity.
THEOREM TypeCorrect == Spec => []TypeOK
<1>1. IInv => TypeOK
  BY DEF IInv
<1> QED BY <1>1, Invariant, PTL

\* The executor's exit lets no shard outlive the proof of its redaction.
THEOREM NothingOutlives == Spec => []NothingOutlivesProof
<1>1. IInv => NothingOutlivesProof
  BY DEF IInv
<1> QED BY <1>1, Invariant, PTL

\* Whatever benchmarks are recorded between the two plans, the thread takes no more shards
\* than the job shows, and one proof of the right profile where it shows one for the chain.
THEOREM EstimatesHold == Spec => []EstimateHolds
<1>1. IInv => EstimateHolds
  <2> SUFFICES ASSUME IInv, profile # "none", told # NoEstimate PROVE EstimateHolds
    BY DEF EstimateHolds
  <2>1. /\ InputInv /\ profile \in Profiles /\ modified # {}
        /\ told.profile = (IF chosen = "none" THEN active ELSE chosen)
        /\ told.shards = Chunks(told.profile)
        /\ told.classification = "single_proof_ready" =>
             told.profile = OnchainSafe /\ Chunks(OnchainSafe) <= 1
        /\ \/ profile = told.profile
           \/ /\ profile = OnchainSafe /\ classification = "single_proof_ready"
              /\ Chunks(OnchainSafe) <= 1
    BY TypeGivesInput DEF IInv, ToldInv, DeadlineInv
  <2>2. told.profile \in Profiles
    BY <2>1, ProvingAssumption DEF IInv, TypeOK, InputInv
  <2>3. /\ Total = Chunks(profile) /\ Chunks(profile) \in Nat /\ Chunks(profile) >= 1
        /\ Chunks(told.profile) \in Nat /\ Chunks(told.profile) >= 1
    BY <2>1, <2>2, SplitIsEstimate, SomeShard, ProvingAssumption DEF Total, Planned
  <2> QED BY <2>1, <2>3 DEF EstimateHolds
<1> QED BY <1>1, Invariant, PTL

\* Benchmarks recorded between the two plans never leave a plan less than its budget.
THEOREM DeadlineCovers == Spec => []DeadlineCoversPlan
<1>1. IInv => DeadlineCoversPlan
  <2> SUFFICES ASSUME IInv, phase \notin {"preflight", "planning"}, profile # "none"
               PROVE  deadline >= Budget(profile) /\ (Total > 1 => deadline >= Multi)
    BY DEF DeadlineCoversPlan
  <2>1. /\ InputInv /\ profile \in Profiles /\ deadline \in Nat /\ deadline >= Single
        /\ \/ Chunks(profile) <= 1 /\ profile \notin Legacy
           \/ profile = active /\ chosen = "none"
        /\ chosen = "none" => deadline >= Budget(active)
    BY TypeGivesInput DEF IInv, DeadlineInv, TypeOK
  <2>2. Total = Chunks(profile) /\ Chunks(profile) \in Nat
    BY <2>1, SplitIsEstimate, ProvingAssumption DEF Total, Planned
  <2>3. /\ Budget(profile) \in Nat /\ (Chunks(profile) > 1 => Budget(profile) >= Multi)
        /\ Chunks(profile) <= 1 /\ profile \notin Legacy => Budget(profile) = Single
    BY <2>1, Budgets
  <2> QED BY <2>1, <2>2, <2>3, ProvingAssumption
<1> QED BY <1>1, Invariant, PTL

\* In a bundle every segment the redaction changed is an update of exactly one shard,
\* each of them proved: whatever the size of the projection and the capacity.
THEOREM BundlesCoverChanges == Spec => []BundleCoversChanges
<1>1. IInv => BundleCoversChanges
  <2> SUFFICES ASSUME IInv, bundle # {} PROVE BundleCoversChanges
    BY DEF BundleCoversChanges
  <2>1. InputInv /\ profile \in Profiles /\ bundle = Planned /\ collected = Planned
    BY TypeGivesInput DEF IInv, BundleInv
  <2>2. ASSUME NEW i \in bundle PROVE future[i] = "proved"
    BY <2>1, <2>2 DEF IInv, FutureInv
  <2>3. ASSUME NEW i \in bundle PROVE Mask(i) = Changed(i) \cap Selected(i)
    <3>1. CASE profile \in Sparse
      <4>1. i \in Nat
        BY <2>1, <2>3, ProvingAssumption DEF Planned, Split, ShardIds
      <4>2. Selected(i) \subseteq modified
        BY <2>1, <3>1, <4>1, SparseSelects
      <4> QED BY <3>1, <4>2 DEF Mask, Changed
    <3>2. CASE profile \notin Sparse
      <4>1. Changed(i) \subseteq Selected(i)
        BY <3>2 DEF Changed, Selected, Updates
      <4>2. Padding(Selected(i)) \cap Selected(i) = {}
        BY DEF Padding
      <4> QED BY <3>2, <4>1, <4>2 DEF Mask, Inputs
    <3> QED BY <3>1, <3>2
  <2>4. ASSUME NEW s \in modified
        PROVE  \E i \in bundle : /\ s \in Updates(profile, i)
                                /\ \A j \in bundle \ {i} : s \notin Updates(profile, j)
    <3>1. s \in Units(profile)
      BY <2>1 DEF Units, InputInv
    <3>2. PICK i \in Planned : s \in Shard(profile, i)
      BY <2>1, <3>1, ShardOfUnit, SplitIsEstimate DEF Planned
    <3>3. \A j \in Planned \ {i} : s \notin Shard(profile, j)
      BY <3>2 DEF Shard
    <3> QED BY <2>1, <3>2, <3>3 DEF Updates
  <2> QED BY <2>2, <2>3, <2>4 DEF BundleCoversChanges
<1> QED BY <1>1, Invariant, PTL

\* Where the pipeline sees the thread.
View == IF phase = "preflight" THEN "none"
        ELSE IF phase = "benchmark" THEN "bundled"
        ELSE IF phase \in Ended THEN phase
        ELSE "proving"

LEMMA StepOfTheView ==
  ASSUME IInv, [Next]_vars
  PROVE  PipelineView!Next \/ (View' = View /\ (bundle' # {}) = (bundle # {}))
<1> DEFINE Same == bundle' = bundle
           Stay == {phase, phase'} \subseteq {"planning", "proving", "cancelling", "draining"}
<1>1. ASSUME Same, phase' = phase \/ Stay
      PROVE  View' = View /\ (bundle' # {}) = (bundle # {})
  BY <1>1 DEF View, Ended
<1>2. CASE InsertBundle
  <2>1. /\ phase = "proving" /\ phase' = "benchmark" /\ bundle' = Planned
    BY <1>2 DEF InsertBundle
  <2>2. profile \in Profiles /\ modified # {}
    BY <2>1, PoolPlan, ProvingAssumption DEF IInv, ToldInv
  <2>3. Chunks(profile) >= 1 /\ Chunks(profile) \in Nat
    BY <2>2, SomeShard, TypeGivesInput, ShardCount, ProvingAssumption DEF IInv
  <2>4. 0 \in Planned
    BY <2>1, <2>3, PoolPlan
  <2>5. (bundle' # {}) = TRUE
    BY <2>1, <2>4
  <2>6. PipelineView!InsertBundle
    BY <2>1, <2>5 DEF PipelineView!InsertBundle, Ended
  <2> QED BY <2>6 DEF PipelineView!Next
<1>3. ASSUME Same PROVE (bundle' # {}) = (bundle # {})
  BY <1>3
<1>4. ASSUME Same, phase = "preflight", phase' = "planning" PROVE PipelineView!Next
  BY <1>3, <1>4 DEF PipelineView!Next, PipelineView!Start, Ended
<1>5. ASSUME Same, phase \in {"planning", "proving", "draining"}, phase' \in {"failed", "unsupported"}
      PROVE  PipelineView!Next
  BY <1>3, <1>5 DEF PipelineView!Next, PipelineView!ProofFails, Ended
<1>6. ASSUME Same, phase = "benchmark", phase' \in {"verified", "failed"}
      PROVE  PipelineView!Next
  BY <1>3, <1>6 DEF PipelineView!Next, PipelineView!Return, Ended
<1>7. CASE UNCHANGED vars
  BY <1>1, <1>7 DEF vars
<1>8. CASE PreflightRaises \/ Preflight
  BY <1>4, <1>8 DEF PreflightRaises, Preflight
<1>9. CASE Plan \/ PlanRaises("failed") \/ PlanRaises("unsupported")
  <2>1. Same /\ phase = "planning" /\ phase' \in {"proving", "failed", "unsupported"}
    BY <1>9 DEF Plan, PlanRaises
  <2> QED BY <1>1, <1>5, <2>1
<1>10. ASSUME NEW i \in ShardIds, CollectProof(i) \/ CollectFailure(i) \/ ProveShard(i)
       PROVE  PipelineView!Next \/ (View' = View /\ (bundle' # {}) = (bundle # {}))
  <2>1. CASE CollectFailure(i)
    <3>1. Same /\ phase = "proving" /\ phase' \in {"cancelling", "failed"}
      BY <2>1 DEF CollectFailure
    <3> QED BY <1>1, <1>5, <3>1
  <2>2. CASE CollectProof(i) \/ ProveShard(i)
    BY <1>1, <2>2 DEF CollectProof, ProveShard, StartShard, DeriveWitness, WitnessRaises,
                      ProverVerifies, ProverStops
  <2> QED BY <1>10, <2>1, <2>2
<1>11. CASE Cancel \/ ShutDown
  <2>1. Same /\ phase \in {"cancelling", "draining"} /\ (phase' = phase \/ phase' = "draining" \/
                (phase = "draining" /\ phase' = "failed"))
    BY <1>11 DEF Cancel, ShutDown
  <2> QED BY <1>1, <1>5, <2>1
<1>12. CASE InsertRaises \/ RecordBenchmark
  BY <1>5, <1>6, <1>12 DEF InsertRaises, RecordBenchmark
<1> QED BY <1>2, <1>7, <1>8, <1>9, <1>10, <1>11, <1>12 DEF Next, Attempt

\* Whatever its plans, its pool and its child processes do, the thread ends once, with
\* "verified" only after the one bundle it inserts.
THEOREM ThreadImplementsProofThread == Spec => ProofThreadSpec
<1>1. Init => PipelineView!Init
  <2>1. ASSUME Init PROVE (bundle # {}) = FALSE
    BY <2>1 DEF Init
  <2> QED BY <2>1 DEF Init, PipelineView!Init
<1>2. IInv /\ [Next]_vars => [PipelineView!Next]_(PipelineView!vars)
  BY StepOfTheView DEF PipelineView!vars, View
<1> QED BY <1>1, <1>2, Invariant, PTL DEF Spec, ProofThreadSpec, PipelineView!Spec

\* For every projection, capacity and tree: each shard of a plan fills its circuit with
\* different positions of its tree, and the circuits can prove a window always; of a
\* sparse plan the first shard, and a later one exactly when its padding ends below every
\* changed segment.
THEOREM PaddingDecides == Spec => []PaddingDecidesProof
<1>1. IInv => PaddingDecidesProof
  <2> SUFFICES ASSUME IInv, phase = "proving", FitsTree, NEW i \in Planned
               PROVE  /\ Selected(i) # {}
                      /\ Inputs(i) \subseteq 0..(Leaves[profile] - 1) /\ Cardinality(Inputs(i)) = Capacity[profile]
                      /\ Satisfiable(i) <=>
                           \/ profile \notin Sparse \/ i = 0
                           \/ \A s \in modified : Cardinality(Selected(i)) + s >= Capacity[profile]
    BY DEF PaddingDecidesProof
  <2>1. InputInv /\ profile \in Profiles /\ i \in Nat
    BY TypeGivesInput, PoolPlan, ProvingAssumption DEF IInv, Planned
  <2> SUFFICES Satisfiable(i) <=>
                 \/ profile \notin Sparse \/ i = 0
                 \/ \A s \in modified : Cardinality(Selected(i)) + s >= Capacity[profile]
    BY <2>1, InputsFill
  <2>2. CASE profile \notin Sparse
    BY <2>2 DEF Satisfiable, Mask
  <2>3. CASE profile \in Sparse
    <3>1. /\ Changed(i) = modified /\ Mask(i) = Selected(i)
          /\ Padding(Selected(i)) \cap Selected(i) = {}
      BY <2>3 DEF Changed, Mask, Padding
    <3>2. Satisfiable(i) <=> Padding(Selected(i)) \cap modified = {}
      BY <3>1 DEF Satisfiable, Inputs
    <3>3. CASE i = 0
      <4>1. CASE modified \subseteq Selected(0)
        BY <3>1, <3>2, <3>3, <4>1
      <4>2. CASE ~ (modified \subseteq Selected(0))
        <5>1. Cardinality(Selected(0)) >= Capacity[profile] /\ Cardinality(Selected(0)) \in Nat
          BY <2>1, <2>3, <4>2, FirstShard, SparseSelects
        <5>2. \A x \in (0..(Leaves[profile] - 1)) \ Selected(0) :
                Rank((0..(Leaves[profile] - 1)) \ Selected(0), x) \in Nat
          <6>1. IsFiniteSet(0..(Leaves[profile] - 1))
            BY <2>1, ProvingAssumption, PositionsBelow
          <6>2. IsFiniteSet((0..(Leaves[profile] - 1)) \ Selected(0))
            BY <6>1, FS_Subset
          <6>3. (0..(Leaves[profile] - 1)) \ Selected(0) \subseteq Nat
            BY <2>1, ProvingAssumption
          <6> QED BY <6>2, <6>3, RankIsNat
        <5>3. Padding(Selected(0)) = {}
          <6>1. Capacity[profile] \in Nat /\ \A k \in Nat : ~ (k < Capacity[profile] - Cardinality(Selected(0)))
            BY <2>1, <5>1, ProvingAssumption
          <6> QED BY <5>2, <6>1 DEF Padding
        <5> QED BY <3>2, <3>3, <5>3
      <4> QED BY <4>1, <4>2
    <3>4. CASE i # 0
      BY <2>1, <2>3, <3>2, <3>4, LaterPadding DEF FitsTree
    <3> QED BY <3>3, <3>4
  <2> QED BY <2>2, <2>3
<1> QED BY <1>1, Invariant, PTL

=============================================================================
