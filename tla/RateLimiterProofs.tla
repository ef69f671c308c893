------------------------- MODULE RateLimiterProofs --------------------------
(***************************************************************************)
(* The rate limiter keeps its promise for every limit and window, however  *)
(* often the bucket is pruned and refilled.                                *)
(***************************************************************************)
EXTENDS RateLimiter, TLAPS

\* The sizes involved, as numbers.
LEMMA Sizes ==
    ASSUME LimiterTypeOK, BucketIsTail
    PROVE  /\ Len(bucket) \in Nat /\ Len(hits) \in Nat /\ Forgotten \in Nat
           /\ Len(hits) = Forgotten + Len(bucket)
  BY DEF LimiterTypeOK, BucketIsTail, Forgotten

\* What is left of the bucket after k hits were popped.
LEMMA WithoutPopped ==
    ASSUME LimiterTypeOK, NEW k \in Popped
    PROVE  /\ k \in 0..Len(bucket)
           /\ \A i \in 1..k : Old(bucket[i])
           /\ k < Len(bucket) => ~Old(bucket[k + 1])
           /\ Without(k) \in Seq(Nat)
           /\ Len(Without(k)) = Len(bucket) - k
           /\ \A j \in 1..Len(bucket) - k : Without(k)[j] = bucket[k + j]
<1>1. k \in 0..Len(bucket) /\ (\A i \in 1..k : Old(bucket[i]))
      /\ (k < Len(bucket) => ~Old(bucket[k + 1]))
  BY DEF Popped
<1> QED BY <1>1 DEF Without, LimiterTypeOK

\* All that is forgotten, the popped hits included, is too old to count.
LEMMA OldPrefix ==
    ASSUME LimiterTypeOK, BucketIsTail, NEW k \in Popped
    PROVE  \A i \in 1..Forgotten + k : Old(hits[i])
<1> SUFFICES ASSUME NEW i \in 1..Forgotten + k PROVE Old(hits[i])
  OBVIOUS
<1>1. k \in Nat /\ k <= Len(bucket)
  BY WithoutPopped, Sizes
<1>2. CASE i <= Forgotten
  BY <1>1, <1>2, Sizes DEF BucketIsTail
<1>3. CASE i > Forgotten
  <2> DEFINE j == i - Forgotten
  <2>1. j \in 1..k /\ j \in 1..Len(bucket) /\ Forgotten + j = i
    BY <1>1, <1>3, Sizes
  <2> HIDE DEF j
  <2>2. Old(bucket[j])
    BY <2>1, WithoutPopped
  <2>3. bucket[j] = hits[Forgotten + j]
    BY <2>1 DEF BucketIsTail
  <2> QED BY <2>1, <2>2, <2>3
<1> QED BY <1>1, <1>2, <1>3, Sizes

\* What stays in the bucket is still the end of the admissions.
LEMMA KeptIsTail ==
    ASSUME LimiterTypeOK, BucketIsTail, NEW k \in Popped,
           NEW j \in 1..Len(bucket) - k
    PROVE  /\ Forgotten + k + j \in 1..Len(hits)
           /\ Without(k)[j] = hits[Forgotten + k + j]
<1>1. k \in 0..Len(bucket)
  BY WithoutPopped
<1>2. k + j \in 1..Len(bucket) /\ Forgotten + k + j = Forgotten + (k + j)
  BY <1>1, Sizes
<1>3. Without(k)[j] = bucket[k + j]
  BY WithoutPopped
<1>4. bucket[k + j] = hits[Forgotten + (k + j)]
  BY <1>2 DEF BucketIsTail
<1>5. Forgotten + k + j \in 1..Len(hits)
  BY <1>2, Sizes
<1> QED BY <1>2, <1>3, <1>4, <1>5

\* An admission keeps the invariant: MaxPerMinute hits ago is in the part popped.
LEMMA AdmitKeeps ==
    ASSUME LimiterInv, Admit
    PROVE  LimiterInv'
<1> USE LimiterAssumption DEF LimiterInv
<1>1. PICK k \in Popped :
        /\ Len(bucket) - k < MaxPerMinute
        /\ bucket' = Append(Without(k), clock)
        /\ hits' = Append(hits, clock)
        /\ UNCHANGED clock
  BY DEF Admit
<1> DEFINE n == Len(hits)
           m == Len(bucket) - k
<1>2. m \in Nat /\ n \in Nat /\ k \in Nat /\ m < MaxPerMinute /\ n = Forgotten + k + m /\ Forgotten \in Nat
  BY <1>1, WithoutPopped, Sizes
<1>3. LimiterTypeOK'
  BY <1>1, WithoutPopped DEF LimiterTypeOK
<1>4. /\ Len(hits') = n + 1 /\ hits'[n + 1] = clock
      /\ \A i \in 1..n : hits'[i] = hits[i]
  BY <1>1 DEF LimiterTypeOK
<1>5. /\ Len(bucket') = m + 1 /\ bucket'[m + 1] = clock
      /\ \A j \in 1..m : bucket'[j] = Without(k)[j]
  BY <1>1, WithoutPopped DEF LimiterTypeOK
<1>6. \A i \in 1..Forgotten + k : Old(hits[i]) /\ i \in 1..n
  BY <1>2, OldPrefix
<1>7. Forgotten' = Forgotten + k
  BY SMTT(30), <1>2, <1>4, <1>5 DEF Forgotten
<1> HIDE DEF n, m
<1>8. BucketIsTail'
  <2>1. Len(bucket') <= Len(hits') /\ Len(bucket') <= MaxPerMinute
    BY <1>2, <1>4, <1>5
  <2>2. ASSUME NEW j \in 1..Len(bucket') PROVE bucket'[j] = hits'[Forgotten' + j]
    <3>1. CASE j = m + 1
      <4>1. Forgotten' + j = n + 1
        BY <1>2, <1>7, <3>1
      <4> QED BY <1>4, <1>5, <3>1, <4>1
    <3>2. CASE j \in 1..m
      <4>1. Forgotten + k + j \in 1..n /\ Without(k)[j] = hits[Forgotten + k + j]
        BY <3>2, KeptIsTail DEF n, m
      <4> QED BY <1>4, <1>5, <1>7, <3>2, <4>1
    <3> QED BY <1>2, <1>5, <3>1, <3>2
  <2>3. ASSUME NEW i \in 1..Forgotten' PROVE hits'[i] + Window < clock'
    BY <1>1, <1>4, <1>6, <1>7 DEF Old
  <2>4. ASSUME NEW i \in 1..Len(hits') PROVE hits'[i] <= clock'
    <3>1. CASE i = n + 1
      BY <1>1, <1>3, <1>4, <3>1 DEF LimiterTypeOK
    <3>2. CASE i \in 1..n
      BY <1>1, <1>4, <3>2 DEF BucketIsTail, n
    <3> QED BY <1>2, <1>4, <3>1, <3>2
  <2> QED BY <2>1, <2>2, <2>3, <2>4 DEF BucketIsTail, Old
<1>9. WindowBound'
  <2> SUFFICES ASSUME NEW i \in 1..Len(hits'), i + MaxPerMinute <= Len(hits')
               PROVE  hits'[i] + Window < hits'[i + MaxPerMinute]
    BY DEF WindowBound
  <2>1. i \in 1..n /\ hits'[i] = hits[i]
    BY <1>2, <1>4
  <2>2. CASE i + MaxPerMinute <= n
    <3>1. i + MaxPerMinute \in 1..n
      BY <1>2, <2>2
    <3>2. hits[i] + Window < hits[i + MaxPerMinute]
      BY <2>1, <2>2 DEF WindowBound, n
    <3> QED BY <1>4, <2>1, <3>1, <3>2
  <2>3. CASE i + MaxPerMinute = n + 1
    <3>1. i \in 1..Forgotten + k
      BY <1>2, <2>3
    <3> QED BY <1>4, <1>6, <2>1, <2>3, <3>1 DEF Old
  <2> QED BY <1>2, <1>4, <2>2, <2>3
<1> QED BY <1>3, <1>8, <1>9

\* A refusal only drops what is old.
LEMMA RefuseKeeps ==
    ASSUME LimiterInv, Refuse
    PROVE  LimiterInv'
<1> USE LimiterAssumption DEF LimiterInv
<1>1. PICK k \in Popped : bucket' = Without(k) /\ UNCHANGED <<clock, hits>>
  BY DEF Refuse
<1>2. k \in Nat /\ k <= Len(bucket) /\ Len(bucket') = Len(bucket) - k /\ bucket' \in Seq(Nat)
  BY <1>1, WithoutPopped, Sizes
<1>3. Forgotten' = Forgotten + k
  BY <1>1, <1>2, Sizes DEF Forgotten
<1>4. BucketIsTail'
  <2>1. ASSUME NEW j \in 1..Len(bucket') PROVE bucket'[j] = hits'[Forgotten' + j]
    BY <1>1, <1>2, <1>3, KeptIsTail
  <2>2. ASSUME NEW i \in 1..Forgotten' PROVE Old(hits[i])
    BY <1>3, OldPrefix
  <2>3. Len(bucket') <= Len(hits) /\ Len(bucket') <= MaxPerMinute
    BY <1>2, Sizes DEF BucketIsTail
  <2> QED BY <1>1, <2>1, <2>2, <2>3 DEF BucketIsTail, Old
<1> QED BY <1>1, <1>2, <1>4 DEF LimiterTypeOK, WindowBound

LEMMA LimiterInitInv == LimiterInit => LimiterInv
  BY LimiterAssumption DEF LimiterInit, LimiterInv, LimiterTypeOK, BucketIsTail, Forgotten, WindowBound

\* Every step of the limiter keeps the invariant.
LEMMA LimiterKeeps == LimiterInv /\ [LimiterNext]_limiterVars => LimiterInv'
<1> SUFFICES ASSUME LimiterInv, [LimiterNext]_limiterVars PROVE LimiterInv'
  OBVIOUS
<1> USE LimiterAssumption
<1>1. CASE Admit
  BY <1>1, AdmitKeeps
<1>2. CASE Refuse
  BY <1>2, RefuseKeeps
<1>3. CASE Restart
  BY <1>3 DEF Restart, LimiterInv, LimiterTypeOK, BucketIsTail, Forgotten, WindowBound
<1>4. CASE Tick
  BY SMTT(30), <1>4 DEF Tick, LimiterInv, LimiterTypeOK, BucketIsTail, Forgotten, WindowBound, Old
<1>5. CASE UNCHANGED limiterVars
  BY <1>5 DEF limiterVars, LimiterInv, LimiterTypeOK, BucketIsTail, Forgotten, WindowBound, Old
<1> QED BY <1>1, <1>2, <1>3, <1>4, <1>5 DEF LimiterNext

\* A refusal means that the window that ends now is full.
LEMMA RefusalIsFull ==
    ASSUME LimiterInv, Refuse
    PROVE  WindowFull
<1> USE LimiterAssumption DEF LimiterInv
<1>1. PICK k \in Popped : Len(bucket) - k >= MaxPerMinute
  BY DEF Refuse
<1>2. k = 0 /\ Len(bucket) = MaxPerMinute
  BY <1>1, WithoutPopped, Sizes DEF BucketIsTail
<1>3. bucket[1] = hits[Forgotten + 1] /\ ~Old(bucket[1]) /\ hits[Forgotten + 1] \in Nat
  BY SMTT(30), <1>2, WithoutPopped, Sizes DEF BucketIsTail, LimiterTypeOK
<1>4. Forgotten = Len(hits) - MaxPerMinute /\ Len(hits) >= MaxPerMinute
  BY <1>2, Sizes
<1> QED BY SMTT(30), <1>3, <1>4 DEF WindowFull, Old, LimiterTypeOK

\* No window, of any length the configuration gives, admits more calls than the limit.
THEOREM WindowNeverExceeded == LimiterSpec => []WindowBound
<1>1. LimiterInv => WindowBound
  BY DEF LimiterInv
<1> QED BY <1>1, LimiterInitInv, LimiterKeeps, PTL DEF LimiterSpec

=============================================================================
