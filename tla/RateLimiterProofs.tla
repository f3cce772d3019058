-------------------------- MODULE RateLimiterProofs --------------------------
(***************************************************************************)
(* Proofs about RateLimiter, for any threads, limit, window and lag: the   *)
(* deque never forgets an admission that still counts, and never holds one *)
(* back long after it has stopped counting.                                *)
(***************************************************************************)
EXTENDS RateLimiter, FiniteSetTheorems, FunctionTheorems, SequenceTheorems, TLAPS

\* A time a thread has read is at most MaxLag old.
LagInv ==
  \A t \in Threads : stamp[t] # NoTime => stamp[t] <= now /\ now <= stamp[t] + MaxLag

\* Admissions are numbered one after the other, and judged by a time that has been.
AdmittedInv ==
  /\ IsFiniteSet(admitted)
  /\ \A e \in admitted : e.no <= Cardinality(admitted) /\ e.at <= now

\* The deque holds admissions, each once, and no two of them out of order by more
\* than the lag; it never exceeds the limit.
BucketInv ==
  /\ Len(bucket) <= Limit
  /\ \A i \in 1..Len(bucket) : bucket[i] \in admitted
  /\ \A i, j \in 1..Len(bucket) : bucket[i] = bucket[j] => i = j
  /\ \A i, j \in 1..Len(bucket) : i < j => bucket[i].at <= bucket[j].at + MaxLag

\* What has left the deque was too old for the newest time there has been.
ForgottenInv ==
  \A e \in admitted : e.at > newest - Window => \E i \in 1..Len(bucket) : bucket[i] = e

LimiterInv == TypeOK /\ LagInv /\ AdmittedInv /\ BucketInv /\ ForgottenInv

-----------------------------------------------------------------------------
(* What expiry leaves of the deque *)

LEMMA LeastIndex ==
  ASSUME NEW S \in SUBSET Nat, S # {}
  PROVE  \E i \in S : \A j \in S : i <= j
<1>1. PICK i \in S : \A j \in S : <<j, i>> \notin OpToRel(<, Nat)
  BY WFMin, NatLessThanWellFounded, Zenon
<1>2. \A j \in S : ~ (j < i)
  BY <1>1 DEF OpToRel
<1> QED BY <1>2

\* The first m entries leave, all of them expired; the first that stays has not.
LEMMA KeptIsSuffix ==
  ASSUME LimiterInv, NEW s \in Times
  PROVE  /\ Kept(s) \in Seq(Entries)
         /\ \E m \in 0..Len(bucket) :
              /\ Len(Kept(s)) = Len(bucket) - m
              /\ \A i \in 1..(Len(bucket) - m) : Kept(s)[i] = bucket[m + i]
              /\ \A i \in 1..m : bucket[i].at <= s - Window
              /\ m < Len(bucket) => bucket[m + 1].at > s - Window
<1>1. /\ bucket \in Seq(Entries) /\ Len(bucket) \in Nat /\ DOMAIN bucket = 1..Len(bucket)
      /\ \A i \in 1..Len(bucket) : bucket[i] \in Entries /\ bucket[i].at \in Int
      /\ s \in Int /\ Window \in Int
  <2>1. bucket \in Seq(Entries) /\ MaxTime \in Int /\ Window \in Int
    BY LimiterAssumption DEF LimiterInv, TypeOK
  <2>2. Len(bucket) \in Nat /\ bucket \in [1..Len(bucket) -> Entries] /\ DOMAIN bucket = 1..Len(bucket)
    BY <2>1, LenProperties
  <2>3. s \in Int /\ \A e \in Entries : e.at \in Int
    BY <2>1 DEF Times, Entries
  <2> QED BY <2>1, <2>2, <2>3
<1>2. CASE Fresh(s) = {}
  <2>1. Kept(s) = << >>
    BY <1>2 DEF Kept
  <2>2. \A i \in 1..Len(bucket) : bucket[i].at <= s - Window
    BY <1>1, <1>2 DEF Fresh
  <2>3. Kept(s) \in Seq(Entries) /\ Len(Kept(s)) = Len(bucket) - Len(bucket)
    BY <2>1, <1>1
  <2> DEFINE m == Len(bucket)
  <2>4. /\ m \in 0..Len(bucket) /\ ~ (m < Len(bucket))
        /\ \A i \in 1..(Len(bucket) - m) : Kept(s)[i] = bucket[m + i]
    BY <1>1
  <2>5. Len(Kept(s)) = Len(bucket) - m /\ \A i \in 1..m : bucket[i].at <= s - Window
    BY <2>2, <2>3
  <2>6. m < Len(bucket) => bucket[m + 1].at > s - Window
    BY <2>4
  <2> HIDE DEF m
  <2> QED BY <2>3, <2>4, <2>5, <2>6, Zenon
<1>3. CASE Fresh(s) # {}
  <2> DEFINE f == CHOOSE i \in Fresh(s) : \A j \in Fresh(s) : i <= j
  <2>1. Fresh(s) \in SUBSET Nat /\ Fresh(s) \subseteq 1..Len(bucket)
    BY <1>1 DEF Fresh
  <2>2. f \in Fresh(s) /\ \A j \in Fresh(s) : f <= j
    BY <1>3, <2>1, LeastIndex
  <2>3. Kept(s) = SubSeq(bucket, f, Len(bucket))
    BY <1>3 DEF Kept
  <2> HIDE DEF f
  <2>4. f \in 1..Len(bucket)
    BY <2>1, <2>2
  <2>5. \A i \in f..Len(bucket) : bucket[i] \in Entries
    BY <1>1, <2>4
  <2>6. /\ SubSeq(bucket, f, Len(bucket)) \in Seq(Entries)
        /\ Len(SubSeq(bucket, f, Len(bucket))) =
             IF f <= Len(bucket) THEN Len(bucket) - f + 1 ELSE 0
        /\ \A i \in 1..(Len(bucket) - f + 1) :
             SubSeq(bucket, f, Len(bucket))[i] = bucket[f + i - 1]
    <3>1. f \in Int /\ Len(bucket) \in Int
      BY <1>1, <2>4
    <3> QED BY <2>5, <3>1, SubSeqProperties
  <2>7. bucket[f].at > s - Window
    BY <2>2 DEF Fresh
  <2>8. \A i \in 1..(f - 1) : bucket[i].at <= s - Window
    <3> SUFFICES ASSUME NEW i \in 1..(f - 1) PROVE bucket[i].at <= s - Window
      OBVIOUS
    <3>1. i \in 1..Len(bucket) /\ i \notin Fresh(s)
      BY <1>1, <2>2, <2>4
    <3> QED BY <1>1, <3>1 DEF Fresh
  <2>9. f - 1 \in 0..Len(bucket) /\ (f - 1) + 1 = f
    BY <1>1, <2>4
  <2>10. /\ Len(Kept(s)) = Len(bucket) - (f - 1)
         /\ \A i \in 1..(Len(bucket) - (f - 1)) : Kept(s)[i] = bucket[(f - 1) + i]
    BY <1>1, <2>3, <2>4, <2>6
  <2> QED BY <2>3, <2>6, <2>7, <2>8, <2>9, <2>10
<1> QED BY <1>2, <1>3

\* Expiry forgets nothing that is younger than the window at the newest time.
LEMMA KeptRemembers ==
  ASSUME LimiterInv, NEW t \in Threads, Judge(t)
  PROVE  \A e \in admitted : e.at > newest' - Window =>
           \E i \in 1..Len(Kept(stamp[t])) : Kept(stamp[t])[i] = e
<1> DEFINE s == stamp[t]
<1>1. s \in Times /\ newest \in Int /\ Window \in Int /\ newest' \in Int
      /\ s <= newest' /\ newest <= newest'
  BY LimiterAssumption DEF LimiterInv, TypeOK, Times, NoTime, Judge
<1>2. PICK m \in 0..Len(bucket) :
        /\ Len(Kept(s)) = Len(bucket) - m
        /\ \A i \in 1..(Len(bucket) - m) : Kept(s)[i] = bucket[m + i]
        /\ \A i \in 1..m : bucket[i].at <= s - Window
  BY <1>1, KeptIsSuffix
<1> SUFFICES ASSUME NEW e \in admitted, e.at > newest' - Window
             PROVE  \E i \in 1..Len(Kept(s)) : Kept(s)[i] = e
  OBVIOUS
<1>3. e.at \in Int /\ s \in Int /\ Len(bucket) \in Nat
  <2>1. bucket \in Seq(Entries) /\ e \in Entries
    BY DEF LimiterInv, TypeOK
  <2> QED BY <1>1, <2>1, LimiterAssumption DEF Entries, Times
<1>4. PICK j \in 1..Len(bucket) : bucket[j] = e
  BY <1>1, <1>3 DEF LimiterInv, ForgottenInv
<1>5. ~ (j \in 1..m)
  BY <1>1, <1>2, <1>3, <1>4
<1>6. j - m \in 1..(Len(bucket) - m) /\ m + (j - m) = j
  BY <1>2, <1>3, <1>4, <1>5
<1>7. Kept(s)[j - m] = bucket[m + (j - m)] /\ j - m \in 1..Len(Kept(s))
  BY <1>2, <1>6
<1>8. Kept(s)[j - m] = e
  BY <1>4, <1>6, <1>7
<1> QED BY <1>7, <1>8, Zenon

\* What expiry leaves is what the deque held, in its order.
LEMMA KeptIsBucket ==
  ASSUME LimiterInv, NEW s \in Times
  PROVE  /\ Kept(s) \in Seq(Entries) /\ Len(Kept(s)) <= Limit
         /\ \A i \in 1..Len(Kept(s)) : Kept(s)[i] \in admitted
         /\ \A i, j \in 1..Len(Kept(s)) : Kept(s)[i] = Kept(s)[j] => i = j
         /\ \A i, j \in 1..Len(Kept(s)) :
              i < j => Kept(s)[i].at <= Kept(s)[j].at + MaxLag
         /\ \A i \in 1..Len(Kept(s)) : Kept(s)[i].at > s - Window - MaxLag
<1>1. PICK m \in 0..Len(bucket) :
        /\ Len(Kept(s)) = Len(bucket) - m
        /\ \A i \in 1..(Len(bucket) - m) : Kept(s)[i] = bucket[m + i]
        /\ m < Len(bucket) => bucket[m + 1].at > s - Window
  BY KeptIsSuffix
<1>2. Kept(s) \in Seq(Entries)
  BY KeptIsSuffix
<1>3. /\ Len(bucket) \in Nat /\ Limit \in Nat /\ Window \in Nat /\ MaxLag \in Nat /\ s \in Int
      /\ Len(bucket) <= Limit
      /\ \A i \in 1..Len(bucket) : bucket[i] \in admitted /\ bucket[i].at \in Int
  BY LimiterAssumption DEF LimiterInv, TypeOK, BucketInv, Entries, Times
<1>4. \A i \in 1..Len(Kept(s)) : m + i \in 1..Len(bucket) /\ Kept(s)[i] = bucket[m + i]
  BY <1>1, <1>3
<1>5. \A i, j \in 1..Len(Kept(s)) : Kept(s)[i] = Kept(s)[j] => i = j
  <2> SUFFICES ASSUME NEW i \in 1..Len(Kept(s)), NEW j \in 1..Len(Kept(s)),
                      Kept(s)[i] = Kept(s)[j]
               PROVE  i = j
    OBVIOUS
  <2>1. m + i \in 1..Len(bucket) /\ m + j \in 1..Len(bucket) /\ bucket[m + i] = bucket[m + j]
    BY <1>4
  <2>2. m + i = m + j
    BY <2>1 DEF LimiterInv, BucketInv
  <2> QED BY <1>1, <1>3, <2>2
<1>6. \A i, j \in 1..Len(Kept(s)) : i < j => Kept(s)[i].at <= Kept(s)[j].at + MaxLag
  <2> SUFFICES ASSUME NEW i \in 1..Len(Kept(s)), NEW j \in 1..Len(Kept(s)), i < j
               PROVE  Kept(s)[i].at <= Kept(s)[j].at + MaxLag
    OBVIOUS
  <2>1. m + i \in 1..Len(bucket) /\ m + j \in 1..Len(bucket) /\ m + i < m + j
    BY <1>1, <1>3, <1>4
  <2>2. bucket[m + i].at <= bucket[m + j].at + MaxLag
    BY <2>1 DEF LimiterInv, BucketInv
  <2> QED BY <1>4, <2>2
<1>7. \A i \in 1..Len(Kept(s)) : Kept(s)[i].at > s - Window - MaxLag
  <2> SUFFICES ASSUME NEW i \in 1..Len(Kept(s))
               PROVE  Kept(s)[i].at > s - Window - MaxLag
    OBVIOUS
  <2>1. m < Len(bucket) /\ 1 \in 1..Len(Kept(s)) /\ m + 1 \in 1..Len(bucket)
    BY <1>1, <1>3
  <2>2. Kept(s)[1].at > s - Window /\ Kept(s)[1].at \in Int /\ Kept(s)[i].at \in Int
    BY <1>1, <1>3, <1>4, <2>1
  <2>3. i = 1 \/ 1 < i
    BY <1>1, <1>3
  <2>4. Kept(s)[1].at <= Kept(s)[i].at + MaxLag
    BY <1>3, <1>6, <2>1, <2>2, <2>3
  <2> QED BY <1>3, <2>2, <2>4
<1>8. Len(Kept(s)) <= Limit
  BY <1>1, <1>3
<1>9. \A i \in 1..Len(Kept(s)) : Kept(s)[i] \in admitted
  BY <1>3, <1>4
<1> QED BY <1>2, <1>5, <1>6, <1>7, <1>8, <1>9

-----------------------------------------------------------------------------
(* The invariant *)

LEMMA InitLimiter == Init => LimiterInv
<1> SUFFICES ASSUME Init PROVE LimiterInv
  OBVIOUS
<1>1. TypeOK
  BY LimiterAssumption DEF Init, TypeOK, Times, NoTime
<1>2. AdmittedInv
  BY FS_EmptySet DEF Init, AdmittedInv
<1>3. LagInv /\ BucketInv /\ ForgottenInv
  BY LimiterAssumption DEF Init, LagInv, BucketInv, ForgottenInv, NoTime
<1> QED BY <1>1, <1>2, <1>3 DEF LimiterInv

\* What Judge does, whatever becomes of the request.
LEMMA JudgeStep ==
  ASSUME LimiterInv, NEW t \in Threads, Judge(t)
  PROVE  /\ stamp[t] \in Times /\ stamp[t] <= now /\ now <= stamp[t] + MaxLag
         /\ stamp' \in [Threads -> Times \cup {NoTime}] /\ now' = now /\ now \in Times
         /\ newest' \in 0..now' /\ stamp[t] <= newest'
         /\ LagInv'
BY LimiterAssumption DEF LimiterInv, TypeOK, LagInv, Judge, Times, NoTime

LEMMA EntryIsNew ==
  ASSUME LimiterInv, NEW t \in Threads, stamp[t] \in Times
  PROVE  /\ Entry(t) \in Entries /\ Entry(t) \notin admitted
         /\ Entry(t).at = stamp[t] /\ Entry(t).no = Cardinality(admitted) + 1
         /\ IsFiniteSet(admitted \cup {Entry(t)})
         /\ Cardinality(admitted \cup {Entry(t)}) = Cardinality(admitted) + 1
<1>1. IsFiniteSet(admitted) /\ Cardinality(admitted) \in Nat
  BY FS_CardinalityType DEF LimiterInv, AdmittedInv
<1>2. /\ Entry(t) \in Entries
      /\ Entry(t).at = stamp[t] /\ Entry(t).no = Cardinality(admitted) + 1
  BY <1>1 DEF Entry, Entries
<1>3. Entry(t) \notin admitted
  BY <1>1, <1>2 DEF LimiterInv, AdmittedInv
<1> QED BY <1>1, <1>2, <1>3, FS_AddElement

LEMMA AdmitStep ==
  ASSUME LimiterInv, NEW t \in Threads, Admit(t)
  PROVE  LimiterInv'
<1> DEFINE s == stamp[t]
           K == Kept(s)
           e == Entry(t)
<1>1. Judge(t) /\ Len(K) < Limit /\ bucket' = Append(K, e) /\ admitted' = admitted \cup {e}
  BY DEF Admit
<1>2. /\ s \in Times /\ s <= now /\ now <= s + MaxLag
      /\ stamp' \in [Threads -> Times \cup {NoTime}] /\ now' = now /\ now \in Times
      /\ newest' \in 0..now' /\ s <= newest'
      /\ LagInv'
  BY <1>1, JudgeStep
<1>3. /\ e \in Entries /\ e \notin admitted /\ e.at = s /\ e.no = Cardinality(admitted) + 1
      /\ IsFiniteSet(admitted') /\ Cardinality(admitted') = Cardinality(admitted) + 1
  BY <1>1, <1>2, EntryIsNew
<1>4. /\ K \in Seq(Entries)
      /\ \A i \in 1..Len(K) : K[i] \in admitted
      /\ \A i, j \in 1..Len(K) : K[i] = K[j] => i = j
      /\ \A i, j \in 1..Len(K) : i < j => K[i].at <= K[j].at + MaxLag
  BY <1>2, KeptIsBucket
<1>5. \A f \in admitted : f.at > newest' - Window => \E i \in 1..Len(K) : K[i] = f
  BY <1>1, KeptRemembers
<1>6. /\ Cardinality(admitted) \in Nat /\ Len(K) \in Nat /\ Limit \in Nat /\ MaxLag \in Nat
      /\ \A f \in admitted : f \in Entries /\ f.at \in Int /\ f.no \in Int
                            /\ f.no <= Cardinality(admitted) /\ f.at <= now
      /\ s \in Int /\ now \in Int
  <2>1. Cardinality(admitted) \in Nat
    BY FS_CardinalityType DEF LimiterInv, AdmittedInv
  <2>2. \A f \in admitted : f \in Entries /\ f.no <= Cardinality(admitted) /\ f.at <= now
    BY DEF LimiterInv, AdmittedInv, TypeOK
  <2>3. \A f \in Entries : f.at \in Int /\ f.no \in Int
    BY LimiterAssumption DEF Entries, Times
  <2>4. s \in Int /\ now \in Int
    BY <1>2, LimiterAssumption DEF Times
  <2> QED BY <1>4, <2>1, <2>2, <2>3, <2>4, LimiterAssumption
<1> HIDE DEF s, K, e
<1>7. /\ bucket' \in Seq(Entries) /\ Len(bucket') = Len(K) + 1
      /\ \A i \in 1..Len(K) : bucket'[i] = K[i]
      /\ bucket'[Len(K) + 1] = e
  BY <1>1, <1>3, <1>4, AppendProperties
<1>8. TypeOK'
  BY <1>1, <1>2, <1>3, <1>7 DEF TypeOK, LimiterInv
<1>9. AdmittedInv'
  <2>1. \A f \in admitted : f.no <= Cardinality(admitted') /\ f.at <= now'
    BY <1>2, <1>3, <1>6
  <2>2. e.no <= Cardinality(admitted') /\ e.at <= now'
    BY <1>2, <1>3, <1>6
  <2> QED BY <1>1, <1>3, <2>1, <2>2 DEF AdmittedInv
<1>10. BucketInv'
  <2>1. \A i \in 1..Len(bucket') : i \in 1..Len(K) \/ i = Len(K) + 1
    BY <1>6, <1>7
  <2>2. Len(bucket') <= Limit
    BY <1>1, <1>6, <1>7
  <2>3. \A i \in 1..Len(bucket') : bucket'[i] \in admitted'
    BY <1>1, <1>4, <1>7, <2>1
  <2>4. \A i, j \in 1..Len(bucket') : bucket'[i] = bucket'[j] => i = j
    BY <1>3, <1>4, <1>7, <2>1
  <2>5. ASSUME NEW i \in 1..Len(bucket'), NEW j \in 1..Len(bucket'), i < j
        PROVE  bucket'[i].at <= bucket'[j].at + MaxLag
    <3>1. i \in 1..Len(K)
      BY <1>6, <1>7, <2>5
    <3>2. CASE j \in 1..Len(K)
      BY <1>4, <1>7, <2>5, <3>1, <3>2
    <3>3. CASE j = Len(K) + 1
      <4>1. bucket'[i].at <= now /\ bucket'[i].at \in Int /\ bucket'[j].at = s
        BY <1>3, <1>4, <1>6, <1>7, <3>1, <3>3
      <4> QED BY <1>2, <1>6, <4>1
    <3> QED BY <2>1, <3>2, <3>3
  <2> QED BY <2>2, <2>3, <2>4, <2>5 DEF BucketInv
<1>11. ForgottenInv'
  <2>1. \A i \in 1..Len(K) : i \in 1..Len(bucket')
    BY <1>6, <1>7
  <2>2. Len(K) + 1 \in 1..Len(bucket')
    BY <1>6, <1>7
  <2> SUFFICES ASSUME NEW f \in admitted', f.at > newest' - Window
               PROVE  \E i \in 1..Len(bucket') : bucket'[i] = f
    BY Zenon DEF ForgottenInv
  <2>3. CASE f = e
    BY <1>7, <2>2, <2>3
  <2>4. CASE f \in admitted
    BY <1>5, <1>7, <2>1, <2>4
  <2> QED BY <1>1, <2>3, <2>4
<1> QED BY <1>2, <1>8, <1>9, <1>10, <1>11 DEF LimiterInv

LEMMA RefuseStep ==
  ASSUME LimiterInv, NEW t \in Threads, Refuse(t)
  PROVE  LimiterInv'
<1> DEFINE s == stamp[t]
           K == Kept(s)
<1>1. Judge(t) /\ bucket' = K /\ admitted' = admitted
  BY DEF Refuse
<1>2. /\ s \in Times /\ stamp' \in [Threads -> Times \cup {NoTime}] /\ now' = now /\ now \in Times
      /\ newest' \in 0..now' /\ LagInv'
  BY <1>1, JudgeStep
<1>3. /\ K \in Seq(Entries) /\ Len(K) <= Limit
      /\ \A i \in 1..Len(K) : K[i] \in admitted
      /\ \A i, j \in 1..Len(K) : K[i] = K[j] => i = j
      /\ \A i, j \in 1..Len(K) : i < j => K[i].at <= K[j].at + MaxLag
  BY <1>2, KeptIsBucket
<1>4. \A f \in admitted : f.at > newest' - Window => \E i \in 1..Len(K) : K[i] = f
  BY <1>1, KeptRemembers
<1> HIDE DEF s, K
<1>5. TypeOK'
  BY <1>1, <1>2, <1>3 DEF TypeOK, LimiterInv
<1>6. AdmittedInv'
  BY <1>1, <1>2 DEF AdmittedInv, LimiterInv
<1>7. BucketInv'
  BY <1>1, <1>3 DEF BucketInv
<1>8. ForgottenInv'
  BY <1>1, <1>4 DEF ForgottenInv
<1> QED BY <1>2, <1>5, <1>6, <1>7, <1>8 DEF LimiterInv

LEMMA LimiterStep ==
  ASSUME LimiterInv, [Next]_vars
  PROVE  LimiterInv'
<1>1. CASE Tick
  <2>1. TypeOK'
    BY <1>1, LimiterAssumption DEF Tick, LimiterInv, TypeOK, Times
  <2>2. LagInv'
    BY <1>1, LimiterAssumption DEF Tick, LimiterInv, TypeOK, LagInv, Times, NoTime
  <2>3. AdmittedInv'
    <3>1. \A e \in admitted : e.at \in Int /\ e.at <= now /\ now' = now + 1 /\ now \in Int
      BY <1>1, LimiterAssumption DEF Tick, LimiterInv, TypeOK, AdmittedInv, Entries, Times
    <3> QED BY <1>1, <3>1 DEF Tick, LimiterInv, AdmittedInv
  <2>4. BucketInv' /\ ForgottenInv'
    BY <1>1 DEF Tick, LimiterInv, BucketInv, ForgottenInv
  <2> QED BY <2>1, <2>2, <2>3, <2>4 DEF LimiterInv
<1>2. ASSUME NEW t \in Threads, ReadClock(t) PROVE LimiterInv'
  <2>1. TypeOK' /\ LagInv'
    BY <1>2, LimiterAssumption DEF ReadClock, LimiterInv, TypeOK, LagInv, Times, NoTime
  <2>2. AdmittedInv' /\ BucketInv' /\ ForgottenInv'
    BY <1>2 DEF ReadClock, LimiterInv, AdmittedInv, BucketInv, ForgottenInv
  <2> QED BY <2>1, <2>2 DEF LimiterInv
<1>3. CASE UNCHANGED vars
  BY <1>3 DEF vars, LimiterInv, TypeOK, LagInv, AdmittedInv, BucketInv, ForgottenInv
<1> QED BY <1>1, <1>2, <1>3, AdmitStep, RefuseStep DEF Next

LEMMA LimiterInvariant == Spec => []LimiterInv
BY InitLimiter, LimiterStep, PTL DEF Spec

\* The limiter's state is well typed.
THEOREM LimiterTypeCorrect == Spec => []TypeOK
BY LimiterInvariant, PTL DEF LimiterInv

-----------------------------------------------------------------------------
(* Windows *)

LEMMA Shifted ==
  \A n, to, w, l \in Int :
    /\ to - (w - l) \in Int
    /\ n <= to + l => n - w <= to - (w - l)
OBVIOUS

\* The admissions of a window that ends at a time some thread is judged by are in
\* the deque; so is the one of that thread.
LEMMA WindowStep ==
  ASSUME LimiterInv, WindowRespected, [Next]_vars
  PROVE  WindowRespected'
<1> SUFFICES ASSUME NEW to \in Times
             PROVE  Cardinality(AdmittedWithin(to - (Window - MaxLag), to)') <= Limit
  BY DEF WindowRespected
<1> DEFINE from == to - (Window - MaxLag)
           W    == AdmittedWithin(from, to)
<1>1. Cardinality(W) <= Limit
  BY DEF WindowRespected
<1>2. CASE W' = W
  BY <1>1, <1>2
<1>3. CASE admitted' = admitted
  BY <1>1, <1>3 DEF AdmittedWithin
<1>4. ASSUME NEW t \in Threads, Admit(t), W' # W PROVE Cardinality(W') <= Limit
  <2> DEFINE s == stamp[t]
  <2>1. /\ s \in Times /\ s <= now /\ now <= s + MaxLag /\ newest' \in 0..now
        /\ now \in Times
    BY <1>4, JudgeStep DEF Admit
  <2>2. admitted' = admitted \cup {Entry(t)} /\ Entry(t).at = s
    BY <1>4, <2>1, EntryIsNew DEF Admit
  <2>3. LimiterInv'
    BY <1>4, AdmitStep
  <2>4. from < s /\ s <= to
    BY <1>4, <2>2 DEF AdmittedWithin
  <2>5. /\ from \in Int /\ s \in Int /\ newest' \in Int /\ Window \in Int /\ MaxLag \in Int
        /\ newest' - Window <= from
    <3>1. /\ to \in Int /\ s \in Int /\ now \in Int /\ newest' \in Int /\ newest' <= now
          /\ Window \in Int /\ MaxLag \in Int
      <4>1. \A i \in Times : i \in Int
        BY LimiterAssumption DEF Times
      <4> QED BY <2>1, <4>1, LimiterAssumption, JudgeStep, <1>4 DEF Admit
    <3>2. newest' <= to + MaxLag
      BY <2>1, <2>4, <3>1
    <3> QED BY <3>1, <3>2, Shifted
  <2>6. \A f \in W' : f \in admitted' /\ f.at > newest' - Window
    <3> SUFFICES ASSUME NEW f \in W' PROVE f \in admitted' /\ f.at > newest' - Window
      OBVIOUS
    <3>1. f \in admitted' /\ from < f.at
      BY DEF AdmittedWithin
    <3>2. f.at \in Int
      BY <2>3, <3>1, LimiterAssumption DEF LimiterInv, TypeOK, Entries, Times
    <3> QED BY <2>5, <3>1, <3>2
  <2>7. \A f \in W' : \E i \in 1..Len(bucket') : bucket'[i] = f
    BY <2>3, <2>6 DEF LimiterInv, ForgottenInv
  <2>8. /\ bucket' \in [1..Len(bucket') -> Entries] /\ Len(bucket') \in Nat /\ Len(bucket') <= Limit
    BY <2>3, LenProperties DEF LimiterInv, TypeOK, BucketInv
  <2> DEFINE R == Range(bucket')
  <2>9. bucket' \in Surjection(1..Len(bucket'), R)
    BY <2>8, Fun_RangeProperties
  <2>10. IsFiniteSet(R) /\ Cardinality(R) <= Len(bucket') /\ Cardinality(R) \in Nat
    <3>1. ExistsSurjection(1..Len(bucket'), R)
      BY <2>9 DEF ExistsSurjection
    <3>2. IsFiniteSet(R)
      BY <2>8, <3>1, FS_NatSurjection
    <3> QED BY <2>8, <3>1, <3>2, FS_SurjCardinalityBound, FS_CardinalityType
  <2>11. W' \subseteq R
    BY <2>7, <2>8 DEF Range
  <2>12. Cardinality(W') <= Cardinality(R) /\ Cardinality(W') \in Nat
    BY <2>10, <2>11, FS_Subset, FS_CardinalityType
  <2> QED BY <2>8, <2>10, <2>12, LimiterAssumption
<1>5. \/ admitted' = admitted
      \/ \E t \in Threads : Admit(t)
  BY DEF Next, Tick, ReadClock, Refuse, vars
<1> QED BY <1>2, <1>3, <1>4, <1>5

\* At most Limit requests pass in any window shortened by the lag, for any number of
\* threads and however their times interleave.
THEOREM WindowIsRespected == Spec => []WindowRespected
<1>1. Init => WindowRespected
  <2> SUFFICES ASSUME Init, NEW to \in Times
               PROVE  Cardinality(AdmittedWithin(to - (Window - MaxLag), to)) <= Limit
    BY DEF WindowRespected
  <2>1. AdmittedWithin(to - (Window - MaxLag), to) = {}
    BY DEF Init, AdmittedWithin
  <2> QED BY <2>1, FS_EmptySet, LimiterAssumption
<1> QED BY <1>1, LimiterInvariant, WindowStep, PTL DEF Spec

LEMMA RefusalStep ==
  ASSUME LimiterInv, NEW t \in Threads, Refuse(t)
  PROVE  Cardinality(AdmittedWithin(stamp[t] - (Window + MaxLag), now)) >= Limit
<1> DEFINE s == stamp[t]
           K == Kept(s)
           W == AdmittedWithin(s - (Window + MaxLag), now)
<1>1. s \in Times /\ now \in Times
  BY JudgeStep DEF Refuse
<1>2. /\ K \in Seq(Entries)
      /\ \A i \in 1..Len(K) : K[i] \in admitted
      /\ \A i, j \in 1..Len(K) : K[i] = K[j] => i = j
      /\ \A i \in 1..Len(K) : K[i].at > s - Window - MaxLag
  BY <1>1, KeptIsBucket
<1>3. Len(K) >= Limit
  BY DEF Refuse
<1>4. \A i \in 1..Len(K) : K[i].at \in Int /\ K[i].at <= now
  BY <1>2, LimiterAssumption DEF LimiterInv, TypeOK, AdmittedInv, Entries, Times
<1> HIDE DEF K
<1>5. \A i \in 1..Len(K) : K[i] \in W
  <2> SUFFICES ASSUME NEW i \in 1..Len(K) PROVE K[i] \in W
    OBVIOUS
  <2>1. s - (Window + MaxLag) < K[i].at
    BY <1>1, <1>2, <1>4, LimiterAssumption DEF Times
  <2> QED BY <1>2, <1>4, <2>1 DEF AdmittedWithin
<1> HIDE DEF W
<1>6. Len(K) \in Nat /\ K \in [1..Len(K) -> Entries] /\ DOMAIN K = 1..Len(K)
  BY <1>2, LenProperties
<1>7. K \in [1..Len(K) -> W]
  BY <1>5, <1>6
<1>8. K \in Injection(1..Len(K), W)
  BY <1>2, <1>7, Fun_IsInj
<1>9. IsFiniteSet(W) /\ Cardinality(W) \in Nat
  BY FS_Subset, FS_CardinalityType DEF LimiterInv, AdmittedInv, W, AdmittedWithin
<1>10. Cardinality(1..Len(K)) <= Cardinality(W)
  BY <1>8, <1>9, FS_Injection
<1>11. Cardinality(1..Len(K)) = Len(K)
  BY <1>6, FS_Interval
<1> QED BY <1>3, <1>6, <1>9, <1>10, <1>11, LimiterAssumption DEF W

\* A request is refused for Limit others, none older than the window and the lag.
THEOREM RefusalsAreEarned == Spec => RefusalIsEarned
<1> DEFINE Earned == \A t \in Threads :
             stamp[t] # NoTime /\ stamp'[t] = NoTime /\ admitted' = admitted
               => Cardinality(AdmittedWithin(stamp[t] - (Window + MaxLag), now)) >= Limit
<1>1. ASSUME LimiterInv, [Next]_vars PROVE [Earned]_vars
  <2> SUFFICES ASSUME NEW t \in Threads, stamp[t] # NoTime, stamp'[t] = NoTime,
                      admitted' = admitted
               PROVE  Refuse(t)
    BY <1>1, RefusalStep
  <2>1. stamp \in [Threads -> Times \cup {NoTime}] /\ now # NoTime
    BY <1>1, LimiterAssumption DEF LimiterInv, TypeOK, Times, NoTime
  <2>2. ~ Tick /\ ~ UNCHANGED vars /\ \A u \in Threads : ~ ReadClock(u)
    BY <2>1 DEF Tick, ReadClock, vars
  <2>3. PICK u \in Threads : Admit(u) \/ Refuse(u)
    BY <1>1, <2>2 DEF Next
  <2>4. u = t
    BY <2>1, <2>3 DEF Admit, Refuse, Judge
  <2>5. stamp[t] \in Times
    BY <2>1
  <2>6. ~ Admit(t)
    BY <1>1, <2>5, EntryIsNew DEF Admit
  <2> QED BY <2>3, <2>4, <2>6
<1>2. LimiterInv /\ [Next]_vars => [Earned]_vars
  BY <1>1
<1> QED BY <1>2, LimiterInvariant, PTL DEF Spec, RefusalIsEarned

=============================================================================
