---------------------------- MODULE ShardProving ----------------------------
(***************************************************************************)
(* The authoritative proof of one redaction: a plan is estimated for the   *)
(* job, made again by the proof thread, which splits the projection into   *)
(* shards, proves them one after the other or in a pool of threads, and    *)
(* inserts a bundle when every shard is proved.                            *)
(*                                                                         *)
(* A projection is a number of segments and the set of those the redaction *)
(* changed, numbered as the active profile cuts the text; a sparse profile *)
(* and the on-chain safe one cut it alike.  A sparse profile proves the    *)
(* changed segments against trees of the whole projection, any other every *)
(* segment, each window against trees of its own.                          *)
(***************************************************************************)
EXTENDS Naturals, FiniteSets

CONSTANTS
  MaxSegments,   \* bound: segments of a projection
  Profiles,      \* the artifact profiles
  Sparse,        \* those whose proof_model is sparse_update
  Legacy,        \* "v2", whose budget is not counted by shards
  OnchainSafe,   \* zkpt_onchain_safe_profile
  Capacity,      \* config.num_segments of each: what one proof of its circuit holds
  Leaves,        \* 2 ** config.tree_depth of each
  MaxParallel,   \* bound: zkpt_max_parallel_shards, as deployed
  MaxSupported,  \* zkpt_preflight_max_supported_shards
  Single, Multi, \* zkpt_single_proof_timeout_seconds, zkpt_multi_shard_...
  ProofTimeout   \* zkpt_proof_timeout_seconds

Larger(a, b) == IF a > b THEN a ELSE b

ASSUME ProvingAssumption ==
  /\ MaxSegments \in Nat \ {0}
  /\ Sparse \subseteq Profiles /\ OnchainSafe \in Profiles \ Legacy /\ "none" \notin Profiles
  /\ Capacity \in [Profiles -> Nat \ {0}] /\ Leaves \in [Profiles -> Nat]
  /\ \A p \in Profiles : Capacity[p] <= Leaves[p]
  /\ MaxParallel \in Nat /\ MaxSupported \in Nat
  /\ Single \in Nat /\ Multi \in Nat /\ ProofTimeout \in Nat
  /\ Single <= Larger(ProofTimeout, Multi)

ShardIds == 0..(MaxSegments - 1)

VARIABLES
  active, parallel,   \* the deployment's profile, and zkpt_max_parallel_shards
  segments, modified, \* the projection
  phase,     \* where the run and its proof thread are
  chosen,    \* artifact_profile_id handed to the thread, or "none"
  deadline,  \* timeout_seconds handed to the thread
  told,      \* what the job shows of its proof from the preflight on
  profile, classification,  \* the plan the thread made
  future,    \* of each shard
  collected, \* shards whose proof as_completed has yielded
  sweep,     \* the next future to cancel
  bundle     \* shards of the bundle inserted

input == <<active, parallel, segments, modified>>
plan  == <<chosen, deadline, told, profile, classification>>
pool  == <<future, collected, sweep>>
vars  == <<input, phase, plan, pool, bundle>>

-----------------------------------------------------------------------------
(* Planning *)

Rank(S, s) == Cardinality({t \in S : t < s})

\* The segments a profile proves.
Units(p) == IF p \in Sparse THEN modified ELSE 0..(segments - 1)

\* How many proofs the policy estimates.
Estimate(p) == Larger(1, (Cardinality(Units(p)) + Capacity[p] - 1) \div Capacity[p])

\* How the units are cut into shards: a shard begins at every multiple of the capacity.
Split(p) == {i \in ShardIds : i * Capacity[p] < Cardinality(Units(p))}
Shard(p, i) == {s \in Units(p) : Rank(Units(p), s) \div Capacity[p] = i}

\* What a shard updates: modified_indices in the projection's own numbering.
Updates(p, i) == Shard(p, i) \cap modified

Budget(p) ==
  IF p \in Legacy THEN Larger(ProofTimeout, Multi)
  ELSE IF Estimate(p) > 1 THEN Larger(Multi, Single)
  ELSE Single

\* How long the recent benchmarks of a profile predict: within the target of a
\* single proof, over it, or over the budget of a multi-shard proof as well.
Paces == {"fast", "slow", "over"}

\* The estimate of the preflight, and its demotion for every profile but one.
Classify(p, pace) ==
  IF Estimate(p) > MaxSupported /\ pace = "over" THEN "unsupported_until_v4"
  ELSE IF Estimate(p) > 1 \/ pace # "fast" \/ p # OnchainSafe THEN "verified_bundle_only"
  ELSE "single_proof_ready"

\* The plans that may be selected: the active profile's, or that of the on-chain safe
\* profile when it needs one fast proof (and its artifact is there).
Selectable(pace) ==
  {active} \cup {p \in {OnchainSafe} :
    active \in Sparse /\ Classify(p, pace[p]) = "single_proof_ready"}

NoEstimate == [profile |-> "none", shards |-> 0, classification |-> "none"]

Init ==
  /\ active \in Profiles /\ parallel \in 1..MaxParallel
  /\ segments \in 1..MaxSegments
  /\ modified \in SUBSET (0..(segments - 1))
  /\ phase = "preflight"
  /\ chosen = "none" /\ deadline = 0 /\ told = NoEstimate
  /\ profile = "none" /\ classification = "none"
  /\ future = [i \in ShardIds |-> "none"]
  /\ collected = {} /\ sweep = 0
  /\ bundle = {}

\* Faulty variant of PreflightRaises: the thread gets the timeout of one command.
PreflightRaisesShort ==
  /\ phase = "preflight"
  /\ phase' = "planning"
  /\ deadline' = Single
  /\ UNCHANGED <<input, chosen, told, profile, classification, pool, bundle>>

\* run_redaction_job estimates a plan; whatever goes wrong, it goes on without one.
PreflightRaises ==
  /\ phase = "preflight"
  /\ phase' = "planning"
  /\ deadline' = Larger(ProofTimeout, Multi)
  /\ UNCHANGED <<input, chosen, told, profile, classification, pool, bundle>>

\* The plan is shown on the job; when that update fails the thread has it all the same.
Preflight ==
  /\ phase = "preflight"
  /\ modified # {}
  /\ \E pace \in [Profiles -> Paces] : \E p \in Selectable(pace) :
       /\ chosen' = IF p = active THEN "none" ELSE p
       /\ deadline' = Budget(p)
       /\ told' \in {NoEstimate, [profile |-> p, shards |-> Cardinality(Split(p)),
                                  classification |-> Classify(p, pace[p])]}
  /\ phase' = "planning"
  /\ UNCHANGED <<input, profile, classification, pool, bundle>>

\* Faulty variant of Plan: the profile handed over is reconsidered.
PlanAfresh ==
  /\ phase = "planning"
  /\ modified # {}
  /\ \E pace \in [Profiles -> Paces] : \E p \in Selectable(pace) :
       /\ profile' = p
       /\ classification' = Classify(p, pace[p])
       /\ IF classification' = "unsupported_until_v4"
            THEN phase' = "unsupported" /\ UNCHANGED future
            ELSE /\ phase' = "proving"
                 /\ future' = [i \in ShardIds |-> IF i \in Split(p) THEN "pending" ELSE "none"]
  /\ UNCHANGED <<input, chosen, deadline, told, collected, sweep, bundle>>

\* attempt_authoritative_proof selects again: other redactions may have recorded
\* benchmarks in between.  A profile that was handed over is not reconsidered.
Plan ==
  /\ phase = "planning"
  /\ modified # {}
  /\ \E pace \in [Profiles -> Paces] :
     \E p \in IF chosen = "none" THEN Selectable(pace) ELSE {chosen} :
       /\ profile' = p
       /\ classification' = Classify(p, pace[p])
       /\ IF classification' = "unsupported_until_v4"
            THEN phase' = "unsupported" /\ UNCHANGED future
            ELSE /\ phase' = "proving"
                 /\ future' = [i \in ShardIds |-> IF i \in Split(p) THEN "pending" ELSE "none"]
  /\ UNCHANGED <<input, chosen, deadline, told, collected, sweep, bundle>>

\* No segment matched a term, an artifact is invalid, a profile unsupported.
PlanRaises(outcome) ==
  /\ phase = "planning"
  /\ phase' = outcome
  /\ UNCHANGED <<input, plan, pool, bundle>>

-----------------------------------------------------------------------------
(* A shard: its witness, then the prover's child processes *)

Planned == Split(profile)
Total   == Cardinality(Planned)
Workers == IF Total < parallel THEN Total ELSE parallel
Running == {i \in ShardIds : future[i] \in {"witness", "proving"}}
PoolOpen == phase \in {"proving", "cancelling", "draining"}

\* The trees of a shard: the positions it selects, and those whose leaves differ.
Offset(i) == IF profile \in Sparse THEN 0 ELSE i * Capacity[profile]
Selected(i) == {s - Offset(i) : s \in Shard(profile, i)}
Changed(i) == IF profile \in Sparse THEN modified ELSE {s - Offset(i) : s \in Updates(profile, i)}

\* Faulty variant of Padding: the highest positions not selected.
PaddingHighest(S) ==
  LET free == (0..(Leaves[profile] - 1)) \ S IN
  {x \in free : Cardinality({t \in free : t > x}) < Capacity[profile] - Cardinality(S)}

\* The lowest positions not selected fill the inputs left.
Padding(S) ==
  LET free == (0..(Leaves[profile] - 1)) \ S IN
  {x \in free : Rank(free, x) < Capacity[profile] - Cardinality(S)}

Inputs(i) == Selected(i) \cup Padding(Selected(i))

Mask(i) == IF profile \in Sparse THEN Selected(i) ELSE Inputs(i) \cap Changed(i)

\* The circuits' constraint: an input that is not masked has the same leaf in both trees.
Satisfiable(i) == Inputs(i) \cap Changed(i) \subseteq Mask(i)

\* The whole projection must fit the tree of a sparse proof.
FitsTree == profile \in Sparse => segments <= Leaves[profile]

Becomes(i, state) == future' = [future EXCEPT ![i] = state]

\* A thread of the pool, or the proof thread itself, takes the next shard.
StartShard(i) ==
  /\ PoolOpen
  /\ future[i] = "pending"
  /\ \A j \in Planned : j < i => future[j] # "pending"
  /\ Cardinality(Running) < Workers
  /\ Workers = 1 => \A j \in Planned : j < i => j \in collected
  /\ Becomes(i, "witness")
  /\ UNCHANGED <<input, phase, plan, collected, sweep, bundle>>

\* The Merkle helper is a child process without a timeout.
DeriveWitness(i) ==
  /\ future[i] = "witness"
  /\ FitsTree
  /\ Becomes(i, "proving")
  /\ UNCHANGED <<input, phase, plan, collected, sweep, bundle>>

WitnessRaises(i) ==
  /\ future[i] = "witness"
  /\ Becomes(i, "failed")
  /\ UNCHANGED <<input, phase, plan, collected, sweep, bundle>>

ProverVerifies(i) ==
  /\ future[i] = "proving"
  /\ Satisfiable(i)
  /\ Becomes(i, "proved")
  /\ UNCHANGED <<input, phase, plan, collected, sweep, bundle>>

\* Faulty variants of ProverStops: a command is given no timeout; a state no one reads.
ProverNeverStops(i) == FALSE /\ UNCHANGED vars

ProverStopsOddly(i) ==
  /\ future[i] = "proving"
  /\ Becomes(i, "timeout")
  /\ UNCHANGED <<input, phase, plan, collected, sweep, bundle>>

\* A command exits with an error, or is killed at its timeout.
ProverStops(i) ==
  /\ future[i] = "proving"
  /\ Becomes(i, "failed")
  /\ UNCHANGED <<input, phase, plan, collected, sweep, bundle>>

-----------------------------------------------------------------------------
(* The proof thread *)

CollectProof(i) ==
  /\ phase = "proving"
  /\ future[i] = "proved" /\ i \notin collected
  /\ collected' = collected \cup {i}
  /\ UNCHANGED <<input, phase, plan, future, sweep, bundle>>

\* future.result() raises: the pool is cleared; without one the error goes on.
CollectFailure(i) ==
  /\ phase = "proving"
  /\ future[i] = "failed"
  /\ phase' = IF Workers > 1 THEN "cancelling" ELSE "failed"
  /\ UNCHANGED <<input, plan, pool, bundle>>

\* future.cancel() one after the other, while the pool goes on taking shards.
Cancel ==
  /\ phase = "cancelling"
  /\ future' = [future EXCEPT ![sweep] = IF @ = "pending" THEN "cancelled" ELSE @]
  /\ sweep' = sweep + 1
  /\ phase' = IF sweep' = Total THEN "draining" ELSE phase
  /\ UNCHANGED <<input, plan, collected, bundle>>

\* Faulty variant of ShutDown: it does not wait.
ShutDownNow ==
  /\ phase = "draining"
  /\ phase' = "failed"
  /\ UNCHANGED <<input, plan, pool, bundle>>

\* The executor's exit waits for the shards that were running.
ShutDown ==
  /\ phase = "draining"
  /\ Running = {}
  /\ phase' = "failed"
  /\ UNCHANGED <<input, plan, pool, bundle>>

\* Faulty variant of InsertBundle: the first proof collected is enough.
InsertFirst ==
  /\ phase = "proving"
  /\ collected # {}
  /\ bundle' = collected
  /\ phase' = "benchmark"
  /\ UNCHANGED <<input, plan, pool>>

InsertBundle ==
  /\ phase = "proving"
  /\ collected = Planned
  /\ bundle' = collected
  /\ phase' = "benchmark"
  /\ UNCHANGED <<input, plan, pool>>

\* The verification key cannot be read, or the database is away.
InsertRaises ==
  /\ phase = "proving"
  /\ collected = Planned
  /\ phase' = "failed"
  /\ UNCHANGED <<input, plan, pool, bundle>>

\* Faulty variant of RecordBenchmark: an error has the bundle inserted again.
RecordBenchmarkAgain ==
  /\ phase = "benchmark"
  /\ phase' \in {"verified", "proving"}
  /\ UNCHANGED <<input, plan, pool, bundle>>

\* An error here is reported as a failed proof, though the bundle is there.
RecordBenchmark ==
  /\ phase = "benchmark"
  /\ phase' \in {"verified", "failed"}
  /\ UNCHANGED <<input, plan, pool, bundle>>

-----------------------------------------------------------------------------

Ended == {"verified", "failed", "unsupported"}

ProveShard(i) ==
  StartShard(i) \/ DeriveWitness(i) \/ WitnessRaises(i) \/ ProverVerifies(i) \/ ProverStops(i)

Attempt ==
  \/ PreflightRaises \/ Preflight
  \/ Plan \/ PlanRaises("failed") \/ PlanRaises("unsupported")
  \/ \E i \in ShardIds : CollectProof(i) \/ CollectFailure(i)
  \/ Cancel \/ ShutDown
  \/ InsertBundle \/ InsertRaises \/ RecordBenchmark

Next == Attempt \/ \E i \in ShardIds : ProveShard(i)

\* Threads are scheduled, and a command of the prover ends at its timeout at last.
\* Nothing is assumed of the Merkle helper, and nothing of what the prover says.
Fairness ==
  /\ WF_vars(Attempt)
  /\ \A i \in ShardIds : WF_vars(StartShard(i)) /\ WF_vars(ProverStops(i))

Spec == Init /\ [][Next]_vars /\ Fairness

-----------------------------------------------------------------------------
(* Properties *)

Classes == {"none", "single_proof_ready", "verified_bundle_only", "unsupported_until_v4"}

TypeOK ==
  /\ active \in Profiles /\ parallel \in 1..MaxParallel
  /\ segments \in 1..MaxSegments
  /\ modified \subseteq 0..(segments - 1)
  /\ phase \in Ended \cup {"preflight", "planning", "proving", "cancelling", "draining", "benchmark"}
  /\ chosen \in {"none", OnchainSafe}
  /\ deadline \in Nat
  /\ told \in [profile : Profiles \cup {"none"}, shards : 0..MaxSegments,
              classification : Classes]
  /\ profile \in Profiles \cup {"none"}
  /\ classification \in Classes
  /\ future \in [ShardIds -> {"none", "pending", "witness", "proving", "proved", "failed", "cancelled"}]
  /\ collected \subseteq ShardIds
  /\ sweep \in 0..MaxSegments
  /\ bundle \subseteq ShardIds

\* A bundle vouches for the whole redaction: every segment it changed is an update of
\* exactly one of the bundle's shards, each proved, and none updates anything else.
BundleCoversChanges ==
  bundle # {} =>
    /\ \A i \in bundle : future[i] = "proved" /\ Mask(i) = Changed(i) \cap Selected(i)
    /\ \A s \in modified : \E i \in bundle :
         /\ s \in Updates(profile, i)
         /\ \A j \in bundle \ {i} : s \notin Updates(profile, j)

\* When the thread has its verdict no shard is still running: none outlives the
\* proof that a failure of another has ended.
NothingOutlivesProof == phase \in Ended => Running = {}

\* The job keeps to what it showed of its proof, although the thread plans again on
\* other benchmarks: it takes no more shards, of the profile shown, or moves to one that
\* turns out fit for the chain; and a proof shown as fit for the chain is one proof of
\* the profile the contract verifies.  (Only its classification may be taken back.)
EstimateHolds ==
  profile # "none" /\ told # NoEstimate =>
    /\ Total <= told.shards
    /\ \/ profile = told.profile
       \/ profile = OnchainSafe /\ classification = "single_proof_ready"
    /\ told.classification = "single_proof_ready" => profile = OnchainSafe /\ Total = 1

\* The deadline set from the job's plan leaves the thread's own plan its budget, and that
\* of several proofs whenever the split makes more than one.
DeadlineCoversPlan ==
  phase \notin {"preflight", "planning"} /\ profile # "none" =>
    /\ deadline >= Budget(profile)
    /\ Total > 1 => deadline >= Multi

\* Whatever its plans, its pool and its child processes do, the thread keeps the promise
\* of ProofThread: one verdict, "verified" only after the one bundle it has inserted.
PipelineView == INSTANCE ProofThread WITH
  proof  <- IF phase = "preflight" THEN "none"
            ELSE IF phase = "benchmark" THEN "bundled"
            ELSE IF phase \in Ended THEN phase
            ELSE "proving",
  stored <- bundle # {}

ProofThreadSpec == PipelineView!Spec

\* The thread ends, or it waits for ever for the Merkle helper of some shard.
ProofEnds ==
  <>(phase \in Ended) \/ []<>(\E i \in ShardIds : future[i] = "witness")

\* Every shard of a plan can be proved: what README.md says larger documents get from
\* shards, for every projection that fits the profile's tree.
PlannedShardsAreProvable ==
  phase = "proving" /\ FitsTree => \A i \in Planned : Satisfiable(i)

\* What they are instead.  Every shard of a plan has segments to prove, and fills its
\* circuit with as many different positions of its tree as the circuit holds: neither
\* error of _pad_selected_indices is ever raised.  It can be proved if it is a window, or
\* the first of a sparse plan, or a later one whose padding ends below the first segment
\* the redaction changed; and only then.  (Padding that reaches a changed segment shows
\* the circuit a changed leaf without its mask.)
PaddingDecidesProof ==
  phase = "proving" /\ FitsTree =>
    \A i \in Planned :
      /\ Selected(i) # {}
      /\ Inputs(i) \subseteq 0..(Leaves[profile] - 1)
      /\ Cardinality(Inputs(i)) = Capacity[profile]
      /\ Satisfiable(i) <=>
           \/ profile \notin Sparse \/ i = 0
           \/ \A s \in modified : Cardinality(Selected(i)) + s >= Capacity[profile]

=============================================================================
