----------------------------- MODULE QuotaProofs ------------------------------
(***************************************************************************)
(* Proofs about what is counted and watched: Quota, Metrics, RateLimit,    *)
(* Breakers, Doctor and Health, for all values of their constants.         *)
(***************************************************************************)
EXTENDS Quota, Metrics, RateLimit, Breakers, Doctor, Health,
        SequenceTheorems, FiniteSetTheorems, TLAPS

-----------------------------------------------------------------------------
(***************************************************************************)
(* Proofs about Quota: its types, and that racing calls overshoot a limit  *)
(* by a bounded amount, for any number of callers, limit and amount.       *)
(***************************************************************************)

-----------------------------------------------------------------------------
(* Arithmetic of the bound. n stands for the number of callers.            *)

\* The most a counter may read that s unenforced calls are part of.
Bound(n, s) == Limit + Amount * (n - 1) + Amount * s

LEMMA Products ==
  ASSUME NEW m \in Nat, NEW n \in Nat, m <= n
  PROVE  /\ Amount * m \in Nat
         /\ Amount * m <= Amount * n
         /\ Amount * (m + 1) = Amount * m + Amount
<1>1. Amount \in Nat
  BY QuotaAssumption
<1>2. PICK k \in Nat : n = m + k
  <2>1. n - m \in Nat /\ n = m + (n - m)
    OBVIOUS
  <2> QED
    BY <2>1
<1>3. Amount * n = Amount * m + Amount * k
  BY <1>1, <1>2
<1>4. Amount * m \in Nat /\ Amount * k \in Nat
  BY <1>1, <1>2
<1> QED
  BY <1>1, <1>3, <1>4

\* There is room for every caller when nothing is counted yet.
LEMMA Room ==
  ASSUME NEW m \in Nat, NEW n \in Nat \ {0}, NEW s \in Nat, m <= n,
         m # 0 => Amount <= Limit
  PROVE  Amount * m <= Bound(n, s)
<1>1. Amount \in Nat /\ Limit \in Nat
  BY QuotaAssumption
<1>2. n - 1 \in Nat /\ (n - 1) + 1 = n
  OBVIOUS
<1>3. /\ Amount * (n - 1) \in Nat
      /\ Amount * n = Amount * (n - 1) + Amount
      /\ Amount * s \in Nat
  BY <1>2, Products
<1>4. CASE m = 0
  BY <1>1, <1>3, <1>4 DEF Bound
<1>5. CASE m # 0
  <2>1. Amount * m <= Amount * n /\ Amount * m \in Nat
    BY Products
  <2> QED
    BY <1>1, <1>3, <1>5, <2>1 DEF Bound
<1> QED
  BY <1>4, <1>5

\* One more unenforced call raises the bound by one amount.
LEMMA SoftBound ==
  ASSUME NEW n \in Nat \ {0}, NEW s \in Nat
  PROVE  Bound(n, s) \in Nat /\ Bound(n, s + 1) = Bound(n, s) + Amount
<1>1. Amount \in Nat /\ Limit \in Nat
  BY QuotaAssumption
<1>2. n - 1 \in Nat
  OBVIOUS
<1>3. /\ Amount * (n - 1) \in Nat
      /\ Amount * s \in Nat
      /\ Amount * (s + 1) = Amount * s + Amount
  BY <1>2, Products
<1> QED
  BY <1>1, <1>3 DEF Bound

\* A counter that has room for one more amount is at most Limit - Amount.
LEMMA RoomForOneMore ==
  ASSUME NEW m \in Nat, NEW n \in Nat \ {0}, NEW s \in Nat, NEW k \in Nat,
         m + 1 <= n, k + Amount <= Limit
  PROVE  k + Amount * (m + 1) <= Bound(n, s)
<1>1. Amount \in Nat /\ Limit \in Nat
  BY QuotaAssumption
<1>2. n - 1 \in Nat /\ m <= n - 1
  OBVIOUS
<1>3. /\ Amount * m \in Nat
      /\ Amount * m <= Amount * (n - 1)
      /\ Amount * (m + 1) = Amount * m + Amount
      /\ Amount * (n - 1) \in Nat
      /\ Amount * s \in Nat
  BY <1>2, Products
<1> QED
  BY <1>1, <1>3 DEF Bound

-----------------------------------------------------------------------------
(* The callers whose call will count.                                      *)

N == Cardinality(Callers)

LEMMA CallersCount == N \in Nat \ {0}
<1>1. N \in Nat
  BY QuotaAssumption, FS_CardinalityType DEF N
<1>2. N # 0
  BY QuotaAssumption, FS_EmptySet DEF N
<1> QED
  BY <1>1, <1>2

LEMMA CountOf ==
  ASSUME NEW P \in SUBSET Callers
  PROVE  /\ IsFiniteSet(P)
         /\ Cardinality(P) \in Nat
         /\ Cardinality(P) <= N
         /\ (Cardinality(P) = 0) <=> (P = {})
<1>1. IsFiniteSet(P) /\ Cardinality(P) <= N
  BY QuotaAssumption, FS_Subset DEF N
<1> QED
  BY <1>1, FS_CardinalityType, FS_EmptySet

LEMMA PendingCallers == Pending \in SUBSET Callers
  BY DEF Pending

-----------------------------------------------------------------------------
(* Types.                                                                  *)

LEMMA DeleteCountersType ==
  ASSUME TypeOK, NEW ds \in SUBSET Days, DeleteCounters(ds)
  PROVE  /\ count' \in [Days -> Nat]
         /\ ttl' \in [Days -> BOOLEAN]
         /\ soft' \in [Days -> Nat]
         /\ \A d \in Days : \/ count'[d] = count[d] /\ soft'[d] = soft[d]
                           \/ count'[d] = 0
  BY DEF TypeOK, DeleteCounters

LEMMA CallType ==
  ASSUME TypeOK, NEW c \in Callers, NEW new \in Calls
  PROVE  [call EXCEPT ![c] = new] \in [Callers -> Calls]
  BY DEF TypeOK

LEMMA CallsMade ==
  ASSUME TypeOK
  PROVE  /\ \A step \in Steps : At(step) \in Calls
         /\ \A usage : Decide(usage) \in Calls
         /\ ExpireNext \in Calls
<1>1. 0 \in Days
  BY QuotaAssumption DEF Days
<1>2. \A step \in Steps : At(step) \in Calls
  BY <1>1 DEF At, Calls
<1>3. \A usage : Decide(usage) \in Calls
  BY <1>2 DEF Decide, Steps
<1>4. ExpireNext \in Calls
  BY DEF ExpireNext, Calls, TypeOK, Steps
<1> QED
  BY <1>2, <1>3, <1>4

LEMMA CountType ==
  ASSUME TypeOK
  PROVE  [count EXCEPT ![day] = @ + Amount] \in [Days -> Nat]
<1>1. count[day] + Amount \in Nat
  BY QuotaAssumption DEF TypeOK
<1> QED
  BY <1>1 DEF TypeOK

\* Every step of a caller keeps the types.
LEMMA CallerType ==
  ASSUME TypeOK, NEW c \in Callers,
         \/ ReadRolling(c) \/ ReadSnapshot(c) \/ Track(c) \/ TrackSoftly(c) \/ SetExpiry(c)
         \/ ResetRolling(c) \/ ResetSnapshot(c) \/ ScanKeys(c) \/ DeleteKeys(c) \/ Fail(c)
  PROVE  TypeOK'
<1> USE CallsMade, CallType
<1>1. CASE ReadRolling(c)
  <2>1. call' \in [Callers -> Calls]
    BY <1>1 DEF ReadRolling, Steps
  <2> QED
    BY <1>1, <2>1 DEF ReadRolling, TypeOK
<1>2. CASE ReadSnapshot(c)
  <2>1. call' \in [Callers -> Calls]
    BY <1>2 DEF ReadSnapshot
  <2> QED
    BY <1>2, <2>1 DEF ReadSnapshot, TypeOK
<1>3. CASE Track(c)
  <2>1. call' \in [Callers -> Calls]
    BY <1>3 DEF Track
  <2> QED
    BY <1>3, <2>1, CountType DEF Track, TypeOK
<1>4. CASE TrackSoftly(c)
  <2>1. call' \in [Callers -> Calls]
    BY <1>4 DEF TrackSoftly
  <2>2. soft' \in [Days -> Nat]
    <3>1. soft[day] + 1 \in Nat
      BY DEF TypeOK
    <3> QED
      BY <1>4, <3>1 DEF TrackSoftly, TypeOK
  <2> QED
    BY <1>4, <2>1, <2>2, CountType DEF TrackSoftly, TypeOK
<1>5. CASE SetExpiry(c)
  <2>1. call' \in [Callers -> Calls]
    BY <1>5 DEF SetExpiry, Steps
  <2>2. ttl' \in [Days -> BOOLEAN]
    BY <1>5 DEF SetExpiry, TypeOK, Calls
  <2> QED
    BY <1>5, <2>1, <2>2 DEF SetExpiry, TypeOK
<1>6. CASE ResetRolling(c)
  <2>1. call' \in [Callers -> Calls]
    BY <1>6 DEF ResetRolling, Steps
  <2>2. {day} \in SUBSET Days
    BY DEF TypeOK
  <2> QED
    BY <1>6, <2>1, <2>2, DeleteCountersType DEF ResetRolling, TypeOK
<1>7. CASE ResetSnapshot(c)
  <2>1. call' \in [Callers -> Calls]
    BY <1>7 DEF ResetSnapshot, Steps
  <2> QED
    BY <1>7, <2>1 DEF ResetSnapshot, TypeOK
<1>8. CASE ScanKeys(c)
  <2>1. [step |-> "deleteKeys", day |-> 0,
         keys |-> {d \in Days : count[d] > 0}, snap |-> snapshot > 0] \in Calls
    BY QuotaAssumption DEF Calls, Steps, Days, TypeOK
  <2>2. call' \in [Callers -> Calls]
    BY <1>8, <2>1 DEF ScanKeys
  <2> QED
    BY <1>8, <2>2 DEF ScanKeys, TypeOK
<1>9. CASE DeleteKeys(c)
  <2>1. call' \in [Callers -> Calls]
    BY <1>9 DEF DeleteKeys, Steps
  <2>2. call[c].keys \in SUBSET Days
    BY DEF TypeOK, Calls
  <2>3. snapshot' \in Nat
    BY <1>9 DEF DeleteKeys, TypeOK
  <2> QED
    BY <1>9, <2>1, <2>2, <2>3, DeleteCountersType DEF DeleteKeys, TypeOK
<1>10. CASE Fail(c)
  <2>1. call' \in [Callers -> Calls]
    BY <1>10 DEF Fail, Steps
  <2> QED
    BY <1>10, <2>1 DEF Fail, TypeOK
<1> QED
  BY <1>1, <1>2, <1>3, <1>4, <1>5, <1>6, <1>7, <1>8, <1>9, <1>10

LEMMA NextType ==
  ASSUME TypeOK, [Next]_vars
  PROVE  TypeOK'
<1>1. ASSUME NEW value \in 0..Limit, SetUsage(value)
      PROVE  TypeOK'
  BY <1>1, QuotaAssumption DEF SetUsage, TypeOK
<1>2. CASE Midnight
  <2>1. day' \in Days
    BY <1>2, QuotaAssumption DEF Midnight, TypeOK, Days
  <2> QED
    BY <1>2, <2>1 DEF Midnight, TypeOK
<1>3. ASSUME NEW d \in Days, ExpireCounter(d)
      PROVE  TypeOK'
  BY <1>3, DeleteCountersType DEF ExpireCounter, TypeOK
<1>4. CASE UNCHANGED vars
  BY <1>4 DEF vars, TypeOK
<1> QED
  BY <1>1, <1>2, <1>3, <1>4, CallerType DEF Next

LEMMA InitType ==
  ASSUME Init
  PROVE  TypeOK
<1>1. 0 \in Days
  BY QuotaAssumption DEF Days
<1>2. At("idle") \in Calls
  BY <1>1 DEF At, Calls, Steps
<1> QED
  BY <1>1, <1>2 DEF Init, TypeOK

\* Every variable keeps its type.
THEOREM TypeCorrect == Spec => []TypeOK
  BY InitType, NextType, PTL DEF Spec

-----------------------------------------------------------------------------
(* The overshoot.                                                          *)

\* What Quota!OvershootInv says, with the bound named.
LEMMA InvParts ==
  OvershootInv <=> /\ \A d \in Days : count[d] <= Bound(N, soft[d])
                   /\ Pending # {} => Amount <= Limit
                   /\ count[day] + Amount * Cardinality(Pending) <= Bound(N, soft[day])
                   /\ \A d \in Days : d > day => count[d] = 0
  BY DEF OvershootInv, BoundedOvershoot, Bound, N

\* A step that adds no pending call and only deletes counters keeps it.
LEMMA FewerPending ==
  ASSUME TypeOK, TypeOK', OvershootInv, day' = day,
         Pending' \subseteq Pending,
         \A d \in Days : \/ count'[d] = count[d] /\ soft'[d] = soft[d]
                       \/ count'[d] = 0
  PROVE  OvershootInv'
<1> DEFINE m == Cardinality(Pending)
           k == Cardinality(Pending')
<1>1. m \in Nat /\ k \in Nat /\ k <= m /\ k <= N /\ (k # 0 => Pending # {})
  <2>1. Pending \in SUBSET Callers /\ Pending' \in SUBSET Callers
    BY PendingCallers
  <2>2. k <= m
    BY <2>1, CountOf, FS_Subset
  <2> QED
    BY <2>1, <2>2, CountOf
<1>2. Pending' # {} => Amount <= Limit
  BY InvParts
<1>3. Amount * k \in Nat /\ Amount * k <= Amount * m /\ Amount * m \in Nat
  BY <1>1, Products
<1>4. \A d \in Days : /\ count'[d] \in Nat /\ soft'[d] \in Nat
                     /\ Bound(N, soft'[d]) \in Nat
                     /\ count[d] \in Nat /\ soft[d] \in Nat
  BY CallersCount, SoftBound DEF TypeOK
<1>5. \A d \in Days : count'[d] <= Bound(N, soft'[d])
  BY <1>4, InvParts
<1>6. count'[day] + Amount * k <= Bound(N, soft'[day])
  <2>1. day \in Days
    BY DEF TypeOK
  <2>2. CASE count'[day] = count[day] /\ soft'[day] = soft[day]
    <3>1. count[day] + Amount * m <= Bound(N, soft[day])
      BY InvParts
    <3> HIDE DEF m, k
    <3> QED
      BY <1>3, <1>4, <2>1, <2>2, <3>1
  <2>3. CASE count'[day] = 0
    <3>1. k # 0 => Amount <= Limit
      BY <1>1, InvParts
    <3> HIDE DEF k
    <3>2. Amount * k <= Bound(N, soft'[day])
      BY <1>1, <1>4, <2>1, <3>1, Room, CallersCount
    <3> QED
      BY <1>3, <2>3, <3>2
  <2> QED
    BY <2>1, <2>2, <2>3
<1>7. \A d \in Days : d > day => count'[d] = 0
  BY InvParts
<1>8. (OvershootInv)'
  <2>1. /\ \A d \in Days : count'[d] <= Bound(N, soft'[d])
        /\ Pending' # {} => Amount <= Limit
        /\ count'[day'] + Amount * Cardinality(Pending') <= Bound(N, soft'[day'])
        /\ \A d \in Days : d > day' => count'[d] = 0
    BY <1>2, <1>5, <1>6, <1>7
  <2> QED
    BY <2>1 DEF OvershootInv, BoundedOvershoot, Bound, N
<1> QED
  BY <1>8

\* A step of one caller decides only whether that caller is pending.
LEMMA OneCaller ==
  ASSUME TypeOK, NEW c \in Callers, NEW new \in Calls, call' = [call EXCEPT ![c] = new]
  PROVE  Pending' = IF \/ new.step = "allowed"
                       \/ new.step = "fallback" /\ Amount <= Limit
                    THEN Pending \cup {c} ELSE Pending \ {c}
<1>1. /\ call'[c] = new
      /\ \A x \in Callers \ {c} : call'[x] = call[x]
  BY DEF TypeOK
<1> QED
  BY <1>1 DEF Pending

\* What a decision leads to.
LEMMA DecideStep ==
  ASSUME NEW usage \in Nat
  PROVE  /\ Decide(usage).step \in {"allowed", "idle"}
         /\ Decide(usage).step = "allowed" => usage + Amount <= Limit /\ Amount <= Limit
<1>1. Amount \in Nat /\ Limit \in Nat
  BY QuotaAssumption
<1> QED
  BY <1>1 DEF Decide, At

LEMMA ReadRollingInv ==
  ASSUME TypeOK, TypeOK', OvershootInv, NEW c \in Callers, ReadRolling(c)
  PROVE  OvershootInv'
<1> DEFINE m == Cardinality(Pending)
           new == IF count[day] > 0 THEN Decide(count[day]) ELSE At("fallback")
<1>1. /\ call' = [call EXCEPT ![c] = new]
      /\ day' = day /\ count' = count /\ soft' = soft
      /\ new \in Calls
      /\ c \notin Pending
      /\ day \in Days /\ count[day] \in Nat /\ soft[day] \in Nat
  BY CallsMade DEF ReadRolling, Pending, Steps, TypeOK
<1>2. CASE Pending' \subseteq Pending
  BY <1>1, <1>2, FewerPending
<1>3. CASE ~(Pending' \subseteq Pending)
  <2>1. /\ Pending' = Pending \cup {c}
        /\ \/ new.step = "allowed"
           \/ new.step = "fallback" /\ Amount <= Limit
    BY <1>1, <1>3, OneCaller
  <2>2. m \in Nat /\ Cardinality(Pending') = m + 1 /\ m + 1 <= N
    BY <1>1, <2>1, PendingCallers, CountOf, FS_AddElement
  <2>3. Amount <= Limit
    BY <1>1, <2>1, DecideStep DEF At
  <2>4. count[day] + Amount * (m + 1) <= Bound(N, soft[day])
    <3> HIDE DEF m
    <3>1. CASE count[day] > 0
      <4>1. count[day] + Amount <= Limit
        BY <1>1, <2>1, <3>1, DecideStep
      <4> QED
        BY <1>1, <2>2, <4>1, CallersCount, RoomForOneMore
    <3>2. CASE ~(count[day] > 0)
      <4>1. count[day] = 0
        BY <1>1, <3>2
      <4>2. count[day] + Amount <= Limit
        BY <2>3, <4>1, QuotaAssumption
      <4> QED
        BY <1>1, <2>2, <4>2, CallersCount, RoomForOneMore
    <3> QED
      BY <3>1, <3>2
  <2>5. /\ \A d \in Days : count'[d] <= Bound(N, soft'[d])
        /\ Pending' # {} => Amount <= Limit
        /\ count'[day'] + Amount * Cardinality(Pending') <= Bound(N, soft'[day'])
        /\ \A d \in Days : d > day' => count'[d] = 0
    BY <1>1, <2>2, <2>3, <2>4, InvParts
  <2> QED
    BY <2>5 DEF OvershootInv, BoundedOvershoot, Bound, N
<1> QED
  BY <1>2, <1>3

LEMMA ReadSnapshotInv ==
  ASSUME TypeOK, TypeOK', OvershootInv, NEW c \in Callers, ReadSnapshot(c)
  PROVE  OvershootInv'
<1>1. /\ call' = [call EXCEPT ![c] = Decide(snapshot)]
      /\ day' = day /\ count' = count /\ soft' = soft
      /\ Decide(snapshot) \in Calls
      /\ snapshot \in Nat
      /\ Amount <= Limit => c \in Pending
  <2>1. Decide(snapshot) \in Calls
    BY CallsMade
  <2> QED
    BY <2>1 DEF ReadSnapshot, Pending, TypeOK
<1>2. Decide(snapshot).step = "allowed" => c \in Pending
  BY <1>1, DecideStep
<1>3. Decide(snapshot).step # "fallback"
  <2>1. Decide(snapshot).step \in {"allowed", "idle"}
    BY <1>1, DecideStep
  <2> QED
    BY <2>1
<1>4. Pending' \subseteq Pending
  BY <1>1, <1>2, <1>3, OneCaller
<1> QED
  BY <1>1, <1>4, FewerPending DEF TypeOK

LEMMA TrackInv ==
  ASSUME TypeOK, TypeOK', OvershootInv, NEW c \in Callers, Track(c)
  PROVE  OvershootInv'
<1> DEFINE k == Cardinality(Pending')
<1>1. /\ call' = [call EXCEPT ![c] = ExpireNext]
      /\ day' = day /\ soft' = soft
      /\ count' = [count EXCEPT ![day] = count[day] + Amount]
      /\ ExpireNext \in Calls /\ ExpireNext.step = "expire"
      /\ c \in Pending
      /\ day \in Days /\ count[day] \in Nat /\ soft[day] \in Nat
  BY CallsMade DEF Track, Pending, TypeOK, ExpireNext
<1>2. Pending' = Pending \ {c}
  BY <1>1, OneCaller
<1>3. k \in Nat /\ Cardinality(Pending) = k + 1
  <2>1. Pending' \in SUBSET Callers /\ Pending \in SUBSET Callers
    BY <1>2, PendingCallers
  <2>2. k \in Nat /\ Cardinality(Pending) \in Nat /\ IsFiniteSet(Pending)
    BY <2>1, CountOf
  <2>3. Cardinality(Pending \ {c}) = Cardinality(Pending) - 1
    BY <1>1, <2>2, FS_RemoveElement
  <2>4. k = Cardinality(Pending \ {c})
    BY <1>2
  <2> HIDE DEF k
  <2> QED
    BY <2>2, <2>3, <2>4
<1>4. /\ Amount \in Nat
      /\ Amount * k \in Nat
      /\ Amount * (k + 1) = Amount * k + Amount
      /\ Bound(N, soft[day]) \in Nat
  <2> HIDE DEF k
  <2>1. Amount * k \in Nat /\ Amount * (k + 1) = Amount * k + Amount
    BY <1>3, k <= k, Products
  <2>2. Bound(N, soft[day]) \in Nat
    BY <1>1, CallersCount, SoftBound
  <2> QED
    BY <2>1, <2>2, QuotaAssumption
<1>5. count[day] + Amount + Amount * k <= Bound(N, soft[day])
  <2>1. count[day] + Amount * (k + 1) <= Bound(N, soft[day])
    BY <1>3, InvParts
  <2> HIDE DEF k
  <2> QED
    BY <1>1, <1>4, <2>1
<1>6. count'[day] = count[day] + Amount /\ \A d \in Days \ {day} : count'[d] = count[d]
  BY <1>1 DEF TypeOK
<1>7. \A d \in Days : count'[d] <= Bound(N, soft'[d])
  <2>1. count'[day] <= Bound(N, soft[day])
    <3> HIDE DEF k
    <3> QED
      BY <1>1, <1>4, <1>5, <1>6
  <2> QED
    BY <1>1, <1>6, <2>1, InvParts
<1>8. \A d \in Days : d > day => count'[d] = 0
  <2>1. \A d \in Days : d > day => d # day
    BY <1>1 DEF Days
  <2> QED
    BY <1>6, <2>1, InvParts
<1>9. /\ \A d \in Days : count'[d] <= Bound(N, soft'[d])
      /\ Pending' # {} => Amount <= Limit
      /\ count'[day'] + Amount * Cardinality(Pending') <= Bound(N, soft'[day'])
      /\ \A d \in Days : d > day' => count'[d] = 0
  <2>1. Pending # {} => Amount <= Limit
    BY InvParts
  <2>2. count'[day'] + Amount * k <= Bound(N, soft'[day'])
    BY <1>1, <1>5, <1>6
  <2> QED
    BY <1>1, <1>2, <1>7, <1>8, <2>1, <2>2
<1> QED
  BY <1>9 DEF OvershootInv, BoundedOvershoot, Bound, N

LEMMA TrackSoftlyInv ==
  ASSUME TypeOK, TypeOK', OvershootInv, NEW c \in Callers, TrackSoftly(c)
  PROVE  OvershootInv'
<1> DEFINE m == Cardinality(Pending)
<1>1. /\ call' = [call EXCEPT ![c] = ExpireNext]
      /\ day' = day
      /\ ExpireNext \in Calls /\ ExpireNext.step = "expire"
      /\ c \notin Pending
      /\ day \in Days /\ count[day] \in Nat /\ soft[day] \in Nat
  BY CallsMade DEF TrackSoftly, Pending, TypeOK, ExpireNext
<1>2. Pending' = Pending
  BY <1>1, OneCaller
<1>3. /\ count'[day] = count[day] + Amount /\ soft'[day] = soft[day] + 1
      /\ \A d \in Days \ {day} : count'[d] = count[d] /\ soft'[d] = soft[d]
  BY <1>1 DEF TrackSoftly, TypeOK
<1>4. /\ m \in Nat /\ Amount \in Nat /\ Amount * m \in Nat
      /\ Bound(N, soft[day]) \in Nat
      /\ Bound(N, soft[day] + 1) = Bound(N, soft[day]) + Amount
  <2>1. m \in Nat
    BY PendingCallers, CountOf
  <2> HIDE DEF m
  <2>2. Amount * m \in Nat
    BY <2>1, m <= m, Products
  <2> QED
    BY <1>1, <2>1, <2>2, QuotaAssumption, CallersCount, SoftBound
<1>5. count'[day] + Amount * m <= Bound(N, soft'[day])
  <2>1. count[day] + Amount * m <= Bound(N, soft[day])
    BY InvParts
  <2> HIDE DEF m
  <2> QED
    BY <1>1, <1>3, <1>4, <2>1
<1>6. \A d \in Days : count'[d] <= Bound(N, soft'[d])
  <2>1. count[day] <= Bound(N, soft[day])
    BY <1>1, InvParts
  <2>2. count'[day] <= Bound(N, soft'[day])
    BY <1>1, <1>3, <1>4, <2>1
  <2> QED
    BY <1>3, <2>2, InvParts
<1>7. \A d \in Days : d > day => count'[d] = 0
  <2>1. \A d \in Days : d > day => d # day
    BY <1>1 DEF Days
  <2> QED
    BY <1>3, <2>1, InvParts
<1>8. /\ \A d \in Days : count'[d] <= Bound(N, soft'[d])
      /\ Pending' # {} => Amount <= Limit
      /\ count'[day'] + Amount * Cardinality(Pending') <= Bound(N, soft'[day'])
      /\ \A d \in Days : d > day' => count'[d] = 0
  BY <1>1, <1>2, <1>5, <1>6, <1>7, InvParts
<1> QED
  BY <1>8 DEF OvershootInv, BoundedOvershoot, Bound, N

\* At midnight the pending calls move to a counter that nobody has touched.
LEMMA MidnightInv ==
  ASSUME TypeOK, TypeOK', OvershootInv, Midnight
  PROVE  OvershootInv'
<1> DEFINE m == Cardinality(Pending)
<1>1. /\ day' = day + 1 /\ count' = count /\ soft' = soft
      /\ day \in Nat /\ day' \in Days /\ soft[day'] \in Nat
  BY QuotaAssumption DEF Midnight, TypeOK, Days
<1>2. Pending' = Pending
  BY DEF Midnight, Pending
<1>3. count[day'] = 0
  BY <1>1, InvParts
<1>4. m \in Nat /\ m <= N /\ (m # 0 => Amount <= Limit)
  BY PendingCallers, CountOf, InvParts
<1>5. Amount * m \in Nat /\ Amount * m <= Bound(N, soft[day'])
  <2> HIDE DEF m
  <2> QED
    BY <1>1, <1>4, CallersCount, Room, Products
<1>6. \A d \in Days : d > day' => count'[d] = 0
  <2>1. \A d \in Days : d > day' => d > day
    BY <1>1 DEF Days
  <2> QED
    BY <1>1, <2>1, InvParts
<1>7. /\ \A d \in Days : count'[d] <= Bound(N, soft'[d])
      /\ Pending' # {} => Amount <= Limit
      /\ count'[day'] + Amount * Cardinality(Pending') <= Bound(N, soft'[day'])
      /\ \A d \in Days : d > day' => count'[d] = 0
  <2>1. 0 + Amount * m <= Bound(N, soft[day'])
    <3> HIDE DEF m
    <3> QED
      BY <1>5
  <2> QED
    BY <1>1, <1>2, <1>3, <1>6, <2>1, InvParts
<1> QED
  BY <1>7 DEF OvershootInv, BoundedOvershoot, Bound, N

\* A step that takes one caller to a step that is not pending, and deletes at
\* most counters.
LEMMA CallerLeaves ==
  ASSUME TypeOK, TypeOK', OvershootInv, day' = day, NEW c \in Callers,
         NEW new \in Calls, call' = [call EXCEPT ![c] = new],
         new.step \notin {"allowed", "fallback"},
         \A d \in Days : \/ count'[d] = count[d] /\ soft'[d] = soft[d]
                       \/ count'[d] = 0
  PROVE  OvershootInv'
<1>1. Pending' \subseteq Pending
  BY OneCaller
<1> QED
  BY <1>1, FewerPending

LEMMA CallerInv ==
  ASSUME TypeOK, TypeOK', OvershootInv, NEW c \in Callers,
         \/ SetExpiry(c) \/ ResetRolling(c) \/ ResetSnapshot(c)
         \/ ScanKeys(c) \/ DeleteKeys(c) \/ Fail(c)
  PROVE  OvershootInv'
<1> DEFINE found == [step |-> "deleteKeys", day |-> 0,
                     keys |-> {d \in Days : count[d] > 0}, snap |-> snapshot > 0]
<1>1. /\ At("idle") \in Calls /\ At("idle").step = "idle"
      /\ At("resetSnapshot") \in Calls /\ At("resetSnapshot").step = "resetSnapshot"
      /\ found \in Calls /\ found.step = "deleteKeys"
  <2>1. At("idle") \in Calls /\ At("resetSnapshot") \in Calls
    BY CallsMade DEF Steps
  <2>2. found \in Calls
    BY QuotaAssumption DEF Calls, Steps, Days
  <2> QED
    BY <2>1, <2>2 DEF At
<1>2. {day} \in SUBSET Days /\ call[c].keys \in SUBSET Days
  BY DEF TypeOK, Calls
<1>3. CASE SetExpiry(c)
  BY <1>1, <1>3, CallerLeaves DEF SetExpiry
<1>4. CASE ResetRolling(c)
  BY <1>1, <1>2, <1>4, DeleteCountersType, CallerLeaves DEF ResetRolling
<1>5. CASE ResetSnapshot(c)
  BY <1>1, <1>5, CallerLeaves DEF ResetSnapshot
<1>6. CASE ScanKeys(c)
  BY <1>1, <1>6, CallerLeaves DEF ScanKeys
<1>7. CASE DeleteKeys(c)
  BY <1>1, <1>2, <1>7, DeleteCountersType, CallerLeaves DEF DeleteKeys
<1>8. CASE Fail(c)
  BY <1>1, <1>8, CallerLeaves DEF Fail
<1> QED
  BY <1>3, <1>4, <1>5, <1>6, <1>7, <1>8

LEMMA NextOvershoot ==
  ASSUME TypeOK, OvershootInv, [Next]_vars
  PROVE  OvershootInv'
<1>1. TypeOK'
  BY NextType
<1>2. ASSUME call' = call, day' = day,
             \A d \in Days : \/ count'[d] = count[d] /\ soft'[d] = soft[d]
                           \/ count'[d] = 0
      PROVE  OvershootInv'
  <2>1. Pending' = Pending
    BY <1>2 DEF Pending
  <2> QED
    BY <1>1, <1>2, <2>1, FewerPending
<1>3. ASSUME NEW value \in 0..Limit, SetUsage(value)
      PROVE  OvershootInv'
  BY <1>2, <1>3 DEF SetUsage
<1>4. ASSUME NEW d \in Days, ExpireCounter(d)
      PROVE  OvershootInv'
  BY <1>2, <1>4, DeleteCountersType DEF ExpireCounter
<1>5. CASE UNCHANGED vars
  BY <1>2, <1>5 DEF vars
<1>6. ASSUME NEW c \in Callers,
             ReadRolling(c) \/ ReadSnapshot(c) \/ Track(c) \/ TrackSoftly(c)
      PROVE  OvershootInv'
  BY <1>1, <1>6, ReadRollingInv, ReadSnapshotInv, TrackInv, TrackSoftlyInv
<1> QED
  BY <1>1, <1>3, <1>4, <1>5, <1>6, CallerInv, MidnightInv DEF Next

LEMMA InitOvershoot ==
  ASSUME Init
  PROVE  OvershootInv
<1>1. Pending = {}
  BY DEF Init, Pending, At
<1>2. Cardinality(Pending) = 0
  BY <1>1, FS_EmptySet
<1>3. \A d \in Days : count[d] = 0 /\ soft[d] = 0
  BY DEF Init
<1>4. 0 \in Days /\ day = 0
  BY QuotaAssumption DEF Init, Days
<1>5. Bound(N, 0) \in Nat
  BY CallersCount, SoftBound
<1>6. Amount * 0 = 0
  BY QuotaAssumption
<1> QED
  BY <1>1, <1>2, <1>3, <1>4, <1>5, <1>6, InvParts

\* However many calls race the gap between check and track, and whatever
\* midnights, resets, expiries and faults come in between, no counter exceeds
\* the limit by more than one amount per racing call but one.
THEOREM OvershootIsBounded == Spec => []BoundedOvershoot
<1>1. Init => TypeOK /\ OvershootInv
  BY InitType, InitOvershoot
<1>2. TypeOK /\ OvershootInv /\ [Next]_vars => (TypeOK /\ OvershootInv)'
  BY NextType, NextOvershoot
<1>3. OvershootInv => BoundedOvershoot
  BY DEF OvershootInv
<1> QED
  BY <1>1, <1>2, <1>3, PTL DEF Spec

-----------------------------------------------------------------------------
(* Expiries.                                                               *)

\* Caller c has yet to set the expiry of the counter of day d.
Owes(c, d) == call[c].step = "expire" /\ call[c].day = d

\* CountersExpire, caller by caller.
ExpiryInv == \A d \in Days : count[d] > 0 => ttl[d] \/ \E c \in Callers : Owes(c, d)

\* A caller that owes no expiry moves on: whoever owes one still does.
LEMMA OthersOwe ==
  ASSUME TypeOK, NEW c \in Callers, call[c].step # "expire", NEW new \in Calls,
         call' = [call EXCEPT ![c] = new], NEW d \in Days, NEW b \in Callers, Owes(b, d)
  PROVE  Owes(b, d)'
BY DEF TypeOK, Owes

\* A counter that DEL leaves is as it was.
LEMMA CountersKept ==
  ASSUME NEW ds \in SUBSET Days, DeleteCounters(ds), NEW d \in Days, count'[d] > 0
  PROVE  count[d] > 0 /\ ttl'[d] = ttl[d]
<1>1. d \notin ds /\ count[d] > 0
  BY DEF DeleteCounters
<1>2. ttl' = [e \in Days |-> IF e \in ds THEN FALSE ELSE ttl[e]]
  BY DEF DeleteCounters
<1>3. ttl'[d] = ttl[d]
  BY <1>1, <1>2, Zenon
<1> QED
  BY <1>1, <1>3

LEMMA ExpiryStep ==
  ASSUME TypeOK, ExpiryInv, [Next]_vars, faults' = 0
  PROVE  ExpiryInv'
<1> SUFFICES ASSUME NEW d \in Days, count'[d] > 0
             PROVE  ttl'[d] \/ \E c \in Callers : Owes(c, d)'
  BY DEF ExpiryInv
<1> DEFINE Expires == ttl'[d] \/ \E c \in Callers : Owes(c, d)'
<1>0. /\ count[d] > 0 => ttl[d] \/ \E c \in Callers : Owes(c, d)
      /\ day \in Days /\ count \in [Days -> Nat] /\ ttl \in [Days -> BOOLEAN]
      /\ At("idle") \in Calls /\ ExpireNext \in Calls
  BY CallsMade DEF ExpiryInv, TypeOK, Steps
<1>1. ASSUME NEW c \in Callers, ReadRolling(c) \/ ReadSnapshot(c) \/ ScanKeys(c) \/ ResetSnapshot(c)
      PROVE  Expires
  <2>1. call[c].step # "expire" /\ UNCHANGED <<count, ttl>>
    BY <1>1 DEF ReadRolling, ReadSnapshot, ScanKeys, ResetSnapshot
  <2>2. \E new \in Calls : call' = [call EXCEPT ![c] = new]
    <3>1. /\ \A usage : Decide(usage) \in Calls
          /\ At("fallback") \in Calls
      BY CallsMade DEF Steps
    <3>2. [step |-> "deleteKeys", day |-> 0,
           keys |-> {e \in Days : count[e] > 0}, snap |-> snapshot > 0] \in Calls
      BY QuotaAssumption DEF Calls, Steps, Days
    <3> QED
      BY <1>0, <1>1, <3>1, <3>2 DEF ReadRolling, ReadSnapshot, ScanKeys, ResetSnapshot
  <2> QED
    BY <1>0, <2>1, <2>2, OthersOwe
<1>2. ASSUME NEW c \in Callers, Track(c) \/ TrackSoftly(c) PROVE Expires
  <2>1. /\ call[c].step # "expire" /\ call' = [call EXCEPT ![c] = ExpireNext] /\ ttl' = ttl
        /\ \A e \in Days \ {day} : count'[e] = count[e]
    BY <1>0, <1>2 DEF Track, TrackSoftly
  <2>2. CASE d = day
    <3>1. Owes(c, d)'
      BY <2>1, <2>2 DEF Owes, ExpireNext, TypeOK
    <3> QED
      BY <3>1
  <2>3. CASE d # day
    BY <1>0, <2>1, <2>3, OthersOwe
  <2> QED
    BY <2>2, <2>3
<1>3. ASSUME NEW c \in Callers, SetExpiry(c) PROVE Expires
  <2>1. /\ call' = [call EXCEPT ![c] = At("idle")] /\ count' = count
        /\ ttl' = [ttl EXCEPT ![call[c].day] = @ \/ count[call[c].day] > 0]
    BY <1>3 DEF SetExpiry
  <2>2. CASE d = call[c].day
    BY <1>0, <2>1, <2>2
  <2>3. CASE d # call[c].day
    <3>1. ttl'[d] = ttl[d] /\ \A b \in Callers : Owes(b, d) => Owes(b, d)'
      BY <1>0, <2>1, <2>3 DEF Owes, TypeOK
    <3> QED
      BY <1>0, <2>1, <3>1
  <2> QED
    BY <2>2, <2>3
<1>4. ASSUME NEW c \in Callers, ResetRolling(c) \/ DeleteKeys(c) PROVE Expires
  <2>1. PICK ds \in SUBSET Days, new \in Calls :
          /\ DeleteCounters(ds) /\ call[c].step # "expire" /\ call' = [call EXCEPT ![c] = new]
    <3>1. {day} \in SUBSET Days /\ call[c].keys \in SUBSET Days /\ At("resetSnapshot") \in Calls
      BY CallsMade DEF TypeOK, Calls, Steps
    <3> QED
      BY <1>0, <1>4, <3>1 DEF ResetRolling, DeleteKeys
  <2>2. count[d] > 0 /\ ttl'[d] = ttl[d]
    BY <2>1, CountersKept
  <2> QED
    BY <1>0, <2>1, <2>2, OthersOwe
<1>5. ASSUME NEW e \in Days, ExpireCounter(e) PROVE Expires
  <2>1. count[d] > 0 /\ ttl'[d] = ttl[d] /\ call' = call
    BY <1>5, CountersKept DEF ExpireCounter
  <2> QED
    BY <1>0, <2>1 DEF Owes
<1>6. ASSUME NEW c \in Callers, Fail(c) PROVE Expires
  BY <1>6 DEF Fail, TypeOK
<1>7. CASE (\E value \in 0..Limit : SetUsage(value)) \/ Midnight \/ UNCHANGED vars
  BY <1>0, <1>7 DEF SetUsage, Midnight, vars, Owes
<1> QED
  BY <1>1, <1>2, <1>3, <1>4, <1>5, <1>6, <1>7 DEF Next

\* Faults are never taken back.
LEMMA FaultsStay == TypeOK /\ [Next]_vars /\ faults' = 0 => faults = 0
<1> SUFFICES ASSUME TypeOK, [Next]_vars, faults' = 0 PROVE faults = 0
  OBVIOUS
<1>1. faults' = faults \/ faults' = faults + 1
  BY DEF Next, vars, ReadRolling, ReadSnapshot, Track, TrackSoftly, SetExpiry, ResetRolling,
         ResetSnapshot, ScanKeys, DeleteKeys, Fail, SetUsage, Midnight, ExpireCounter
<1> QED
  BY <1>1 DEF TypeOK

\* Only a call that dies between INCRBY and EXPIRE leaves a counter without an expiry, for
\* any number of calls, days and resets.
THEOREM CountersGetExpiries == Spec => []OnlyFaultsLeak
<1>1. Init => (faults = 0 => ExpiryInv)
  BY DEF Init, ExpiryInv
<1>2. TypeOK /\ (faults = 0 => ExpiryInv) /\ [Next]_vars => (faults = 0 => ExpiryInv)'
  BY ExpiryStep, FaultsStay
<1>3. (faults = 0 => ExpiryInv) => OnlyFaultsLeak
  BY DEF ExpiryInv, OnlyFaultsLeak, CountersExpire, Expiring, Owes
<1> QED
  BY <1>1, <1>2, <1>3, TypeCorrect, PTL DEF Spec

-----------------------------------------------------------------------------
(***************************************************************************)
(* Metrics, for any trackers, flushers, days and counts: a flush on a day  *)
(* of its own carries, from the moment it begins, no less than the last    *)
(* one left.                                                               *)
(***************************************************************************)

MetricTenants == {k[1] : k \in MetricKeys}
MetricCounts == [MetricKeys -> Nat]
DailyCounts == [MetricDays -> MetricCounts]

TrackerType == [step : {"idle"}] \cup [step : {"count", "expire"}, day : MetricDays, key : MetricKeys]

FlusherType == [step : {"idle", "read"}, day : MetricDays, keys : SUBSET MetricKeys, values : MetricCounts,
                rest : SUBSET MetricTenants, since : MetricCounts]

MetricTypes ==
  /\ metricDay \in MetricDays
  /\ counter \in DailyCounts /\ row \in DailyCounts /\ total \in DailyCounts /\ flushed \in DailyCounts
  /\ tracker \in [Trackers -> TrackerType]
  /\ flusher \in [Flushers -> FlusherType]
  /\ muddled \in SUBSET MetricDays

\* A counter has what was counted, unless it expired.
CountersInv ==
  \A d \in MetricDays, k \in MetricKeys :
    /\ counter[d][k] <= total[d][k]
    /\ d \notin muddled => counter[d][k] = total[d][k]

\* A flush has read no more than was counted. On a day of its own it has no less than there was when
\* it began, in what it has read and in the rows it has written; and that is no less than
\* what the last flush found.
FlushInv(f) ==
  flusher[f].step = "read" =>
    \A k \in MetricKeys :
      /\ flusher[f].values[k] <= total[flusher[f].day][k]
      /\ flusher[f].since[k] <= total[flusher[f].day][k]
      /\ flusher[f].day \notin muddled =>
           /\ k \notin flusher[f].keys => flusher[f].since[k] <= flusher[f].values[k]
           /\ k[1] \notin flusher[f].rest => flusher[f].since[k] <= row[flusher[f].day][k]
           /\ flushed[flusher[f].day][k] <= flusher[f].since[k]

\* Two flushes of a day muddle it.
OverlapInv ==
  \A f, g \in Flushers :
    /\ f # g
    /\ flusher[f].step = "read" /\ flusher[g].step = "read"
    /\ flusher[f].day = flusher[g].day
    => flusher[f].day \in muddled

MetricInv ==
  /\ MetricTypes
  /\ CountersInv
  /\ \A f \in Flushers : FlushInv(f)
  /\ OverlapInv
  /\ FlushKeepsCounts

LEMMA DailyAt ==
  ASSUME NEW f \in DailyCounts, NEW d \in MetricDays
  PROVE  f[d] \in MetricCounts /\ \A k \in MetricKeys : f[d][k] \in Nat
BY DEF DailyCounts, MetricCounts

LEMMA MetricsBegin == MetricsInit => MetricInv
<1> SUFFICES ASSUME MetricsInit PROVE MetricInv
  OBVIOUS
<1>1. NoCounts \in MetricCounts /\ PerDay(NoCounts) \in DailyCounts
  BY DEF NoCounts, PerDay, MetricCounts, DailyCounts
<1>2. \A d \in MetricDays, k \in MetricKeys : PerDay(NoCounts)[d][k] = 0
  BY DEF NoCounts, PerDay
<1>3. 0 \in MetricDays
  BY MetricsAssumption DEF MetricDays
<1>4. MetricTypes
  BY <1>1, <1>3 DEF MetricsInit, MetricTypes, TrackerType, FlusherType, IdleFlush
<1>5. CountersInv /\ FlushKeepsCounts
  BY <1>2 DEF MetricsInit, CountersInv, FlushKeepsCounts
<1>6. \A f \in Flushers : flusher[f].step = "idle"
  BY DEF MetricsInit, IdleFlush
<1> QED
  BY <1>4, <1>5, <1>6 DEF MetricInv, FlushInv, OverlapInv

-----------------------------------------------------------------------------
(* What the steps do to the flushes.                                       *)

\* A step that leaves the flushes and the stored counts alone, and counts no less.
LEMMA FlushesStay ==
  ASSUME MetricInv, UNCHANGED <<row, flusher, flushed>>, muddled \subseteq muddled',
         MetricTypes', CountersInv',
         \A d \in MetricDays, k \in MetricKeys : total[d][k] <= total'[d][k]
  PROVE  MetricInv'
<1> USE DEF MetricInv
<1>1. ASSUME NEW f \in Flushers PROVE FlushInv(f)'
  <2>1. flusher[f] \in FlusherType /\ flusher[f].day \in MetricDays
    BY DEF MetricTypes, FlusherType
  <2>2. \A k \in MetricKeys : /\ flusher[f].values[k] \in Nat /\ flusher[f].since[k] \in Nat
                              /\ total[flusher[f].day][k] \in Nat /\ total'[flusher[f].day][k] \in Nat
    BY <2>1, DailyAt DEF MetricTypes, FlusherType, MetricCounts
  <2> QED
    BY <2>1, <2>2 DEF FlushInv
<1>2. OverlapInv'
  BY DEF OverlapInv
<1>3. FlushKeepsCounts'
  <2> SUFFICES ASSUME NEW d \in MetricDays, NEW k \in MetricKeys
               PROVE  /\ row'[d][k] <= total'[d][k]
                      /\ d \notin muddled' => flushed'[d][k] <= row'[d][k]
    BY DEF FlushKeepsCounts
  <2>1. row[d][k] \in Nat /\ total[d][k] \in Nat /\ total'[d][k] \in Nat
    BY DailyAt DEF MetricTypes
  <2> QED
    BY <2>1 DEF FlushKeepsCounts
<1> QED
  BY <1>1, <1>2, <1>3

\* A step of one flush.
LEMMA FlushSteps ==
  ASSUME MetricInv, NEW f \in Flushers, NEW new \in FlusherType,
         flusher' = [flusher EXCEPT ![f] = new]
  PROVE  /\ flusher' \in [Flushers -> FlusherType] /\ flusher'[f] = new
         /\ \A g \in Flushers \ {f} : flusher'[g] = flusher[g]
BY DEF MetricInv, MetricTypes

\* What the days and counts of a flush are.
LEMMA FlushAt ==
  ASSUME MetricTypes, NEW f \in Flushers
  PROVE  /\ flusher[f] \in FlusherType /\ flusher[f].day \in MetricDays
         /\ flusher[f].values \in MetricCounts /\ flusher[f].since \in MetricCounts
         /\ flusher[f].step \in {"idle", "read"}
         /\ \A k \in MetricKeys : flusher[f].values[k] \in Nat /\ flusher[f].since[k] \in Nat
BY DEF MetricTypes, FlusherType, MetricCounts

-----------------------------------------------------------------------------
(* The steps.                                                              *)

LEMMA TrackStep ==
  ASSUME MetricInv, NEW c \in Trackers,
         \/ \E k \in MetricKeys : StartTracking(c, k)
         \/ CountMetric(c) \/ ExpireMetric(c)
  PROVE  MetricInv'
<1> USE DEF MetricInv
<1>1. CASE \E k \in MetricKeys : StartTracking(c, k)
  <2>1. MetricTypes'
    BY <1>1 DEF StartTracking, MetricTypes, TrackerType
  <2>2. CountersInv' /\ \A d \in MetricDays, k \in MetricKeys : total[d][k] <= total'[d][k]
    BY <1>1, DailyAt DEF StartTracking, CountersInv, MetricTypes
  <2> QED
    BY <1>1, <2>1, <2>2, FlushesStay DEF StartTracking
<1>2. CASE CountMetric(c)
  <2> DEFINE d == tracker[c].day
             k == tracker[c].key
  <2>1. d \in MetricDays /\ k \in MetricKeys /\ tracker[c].step = "count"
    BY <1>2 DEF CountMetric, MetricTypes, TrackerType
  <2>2. counter[d][k] \in Nat /\ total[d][k] \in Nat
    BY <2>1, DailyAt DEF MetricTypes
  <2>3. /\ counter' = [counter EXCEPT ![d] = [counter[d] EXCEPT ![k] = counter[d][k] + 1]]
        /\ total' = [total EXCEPT ![d] = [total[d] EXCEPT ![k] = total[d][k] + 1]]
    BY <1>2 DEF CountMetric
  <2>4. tracker' \in [Trackers -> TrackerType]
    <3> DEFINE new == [tracker[c] EXCEPT !.step = "expire"]
    <3>1. new \in TrackerType
      BY <2>1 DEF MetricTypes, TrackerType
    <3>2. tracker' = [tracker EXCEPT ![c] = new]
      BY <1>2 DEF CountMetric
    <3> QED
      BY <3>1, <3>2 DEF MetricTypes
  <2>5. UNCHANGED <<metricDay, row, flusher, flushed, muddled>>
    BY <1>2 DEF CountMetric
  <2> HIDE DEF d, k
  <2>6. /\ counter \in DailyCounts /\ total \in DailyCounts
         /\ counter[d][k] + 1 \in Nat /\ total[d][k] + 1 \in Nat
    BY <2>2 DEF MetricTypes
  <2>7. /\ counter' \in DailyCounts
        /\ \A e \in MetricDays, j \in MetricKeys :
             counter'[e][j] = IF e = d /\ j = k THEN counter[d][k] + 1 ELSE counter[e][j]
    BY <2>1, <2>6, <2>3 DEF DailyCounts, MetricCounts
  <2>8. /\ total' \in DailyCounts
        /\ \A e \in MetricDays, j \in MetricKeys :
             total'[e][j] = IF e = d /\ j = k THEN total[d][k] + 1 ELSE total[e][j]
    BY <2>1, <2>6, <2>3 DEF DailyCounts, MetricCounts
  <2>9. MetricTypes'
    BY <2>4, <2>5, <2>7, <2>8 DEF MetricTypes
  <2>10. \A e \in MetricDays, j \in MetricKeys : counter[e][j] \in Nat /\ total[e][j] \in Nat
    BY DailyAt DEF MetricTypes
  <2>11. CountersInv'
    BY <2>1, <2>2, <2>5, <2>7, <2>8, <2>10 DEF CountersInv
  <2>12. \A e \in MetricDays, j \in MetricKeys : total[e][j] <= total'[e][j]
    BY <2>8, <2>10
  <2> QED
    BY <2>5, <2>9, <2>11, <2>12, FlushesStay
<1>3. CASE ExpireMetric(c)
  <2>1. MetricTypes'
    BY <1>3 DEF ExpireMetric, MetricTypes, TrackerType
  <2>2. CountersInv' /\ \A d \in MetricDays, k \in MetricKeys : total[d][k] <= total'[d][k]
    BY <1>3, DailyAt DEF ExpireMetric, CountersInv, MetricTypes
  <2> QED
    BY <1>3, <2>1, <2>2, FlushesStay DEF ExpireMetric
<1> QED
  BY <1>1, <1>2, <1>3

LEMMA ScanStep ==
  ASSUME MetricInv, NEW f \in Flushers, NEW d \in MetricDays, ScanMetrics(f, d)
  PROVE  MetricInv'
<1> USE DEF MetricInv
<1> DEFINE found == {k \in MetricKeys : counter[d][k] > 0}
           new == [IdleFlush EXCEPT !.step = "read", !.day = d, !.keys = found,
                                    !.rest = {k[1] : k \in found}, !.since = total[d]]
<1>1. /\ new \in FlusherType
      /\ new.step = "read" /\ new.day = d /\ new.keys = found /\ new.values = NoCounts
      /\ new.rest = {k[1] : k \in found} /\ new.since = total[d]
  <2>1. total[d] \in MetricCounts /\ NoCounts \in MetricCounts
    BY DailyAt DEF MetricTypes, NoCounts, MetricCounts
  <2> QED
    BY <2>1 DEF FlusherType, IdleFlush, MetricTenants
<1>2. flusher' = [flusher EXCEPT ![f] = new]
  BY DEF ScanMetrics
<1> HIDE DEF new
<1>3. /\ flusher' \in [Flushers -> FlusherType] /\ flusher'[f] = new
      /\ \A g \in Flushers \ {f} : flusher'[g] = flusher[g]
  BY <1>1, <1>2, FlushSteps
<1>4. UNCHANGED <<metricDay, counter, row, tracker, total, flushed>>
  BY DEF ScanMetrics
<1>5. muddled' \in SUBSET MetricDays /\ muddled \subseteq muddled'
  BY DEF ScanMetrics, MetricTypes
<1>6. MetricTypes'
  BY <1>3, <1>4, <1>5 DEF MetricTypes
<1>7. CountersInv' /\ FlushKeepsCounts'
  BY <1>4, <1>5 DEF CountersInv, FlushKeepsCounts
<1>8. ASSUME NEW g \in Flushers PROVE FlushInv(g)'
  <2>1. CASE g # f
    BY <1>3, <1>4, <1>5, <2>1 DEF FlushInv
  <2>2. CASE g = f
    <3> SUFFICES ASSUME NEW k \in MetricKeys
                 PROVE  /\ NoCounts[k] <= total[d][k] /\ total[d][k] <= total[d][k]
                        /\ d \notin muddled' =>
                             /\ k \notin found => total[d][k] <= NoCounts[k]
                             /\ k[1] \notin new.rest => total[d][k] <= row[d][k]
                             /\ flushed[d][k] <= total[d][k]
      BY <1>1, <1>3, <1>4, <2>2 DEF FlushInv
    <3>1. /\ total[d][k] \in Nat /\ counter[d][k] \in Nat /\ row[d][k] \in Nat
          /\ flushed[d][k] \in Nat /\ NoCounts[k] = 0
      BY DailyAt DEF MetricTypes, NoCounts
    <3>2. k \in found => k[1] \in new.rest
      BY <1>1
    <3>3. d \notin muddled' => counter[d][k] = total[d][k] /\ flushed[d][k] <= row[d][k]
      BY <1>5 DEF CountersInv, FlushKeepsCounts
    <3>4. row[d][k] <= total[d][k]
      BY DEF FlushKeepsCounts
    <3>5. k \notin found => counter[d][k] = 0
      BY <3>1
    <3> QED
      BY <3>1, <3>2, <3>3, <3>4, <3>5
  <2> QED
    BY <2>1, <2>2
<1>10. (\E g \in Flushers : flusher[g].step = "read" /\ flusher[g].day = d) => d \in muddled'
  BY DEF ScanMetrics
<1>9. OverlapInv'
  <2> SUFFICES ASSUME NEW g \in Flushers, NEW h \in Flushers, g # h,
                      flusher'[g].step = "read", flusher'[h].step = "read",
                      flusher'[g].day = flusher'[h].day
               PROVE  flusher'[g].day \in muddled'
    BY DEF OverlapInv
  <2>1. CASE g # f /\ h # f
    BY <1>3, <1>5, <2>1 DEF OverlapInv
  <2>2. CASE g = f
    <3>1. flusher[h].step = "read" /\ flusher[h].day = d /\ flusher'[g].day = d
      BY <1>1, <1>3, <2>2
    <3> QED
      BY <1>10, <3>1
  <2>3. CASE h = f
    <3>1. flusher[g].step = "read" /\ flusher[g].day = d
      BY <1>1, <1>3, <2>3
    <3> QED
      BY <1>1, <1>3, <1>10, <2>3, <3>1
  <2> QED
    BY <2>1, <2>2, <2>3
<1> QED
  BY <1>6, <1>7, <1>8, <1>9

\* What a flush of a day of its own may write.
LEMMA ReadStep ==
  ASSUME MetricInv, NEW f \in Flushers, NEW k \in MetricKeys, ReadMetric(f, k)
  PROVE  MetricInv'
<1> USE DEF MetricInv
<1> DEFINE d == flusher[f].day
           read == [flusher[f].values EXCEPT ![k] = counter[d][k]]
           new == [flusher[f] EXCEPT !.keys = flusher[f].keys \ {k}, !.values = read]
<1>1. /\ flusher[f] \in FlusherType /\ d \in MetricDays
      /\ flusher[f].values \in MetricCounts /\ flusher[f].step = "read"
      /\ counter[d] \in MetricCounts /\ total[d] \in MetricCounts
  BY FlushAt, DailyAt DEF MetricTypes, ReadMetric
<1>2. /\ read \in MetricCounts
      /\ \A j \in MetricKeys : read[j] = IF j = k THEN counter[d][k] ELSE flusher[f].values[j]
  BY <1>1 DEF MetricCounts
<1> HIDE DEF read
<1>3. /\ new \in FlusherType
      /\ new.step = "read" /\ new.day = d /\ new.keys = flusher[f].keys \ {k} /\ new.values = read
      /\ new.rest = flusher[f].rest /\ new.since = flusher[f].since
  BY <1>1, <1>2 DEF FlusherType
<1>4. flusher' = [flusher EXCEPT ![f] = new]
  BY DEF ReadMetric, read
<1> HIDE DEF new
<1>5. /\ flusher' \in [Flushers -> FlusherType] /\ flusher'[f] = new
      /\ \A g \in Flushers \ {f} : flusher'[g] = flusher[g]
  BY <1>3, <1>4, FlushSteps
<1>6. UNCHANGED <<metricDay, counter, row, tracker, total, flushed, muddled>>
  BY DEF ReadMetric
<1>7. MetricTypes' /\ CountersInv' /\ FlushKeepsCounts'
  BY <1>5, <1>6 DEF MetricTypes, CountersInv, FlushKeepsCounts
<1>8. ASSUME NEW g \in Flushers PROVE FlushInv(g)'
  <2>1. CASE g # f
    BY <1>5, <1>6, <2>1 DEF FlushInv
  <2>2. CASE g = f
    <3>1. \A j \in MetricKeys :
            /\ flusher[f].values[j] \in Nat /\ counter[d][j] \in Nat /\ total[d][j] \in Nat
            /\ flusher[f].since[j] \in Nat
            /\ counter[d][j] <= total[d][j] /\ d \notin muddled => counter[d][j] = total[d][j]
      BY <1>1, FlushAt, DailyAt DEF CountersInv, MetricTypes
    <3>2. \A j \in MetricKeys : counter[d][j] <= total[d][j]
      BY <1>1 DEF CountersInv
    <3> QED
      BY <1>1, <1>2, <1>3, <1>5, <1>6, <2>2, <3>1, <3>2 DEF FlushInv
  <2> QED
    BY <2>1, <2>2
<1>9. OverlapInv'
  <2>1. \A g \in Flushers : flusher'[g].step = flusher[g].step /\ flusher'[g].day = flusher[g].day
    BY <1>1, <1>3, <1>5
  <2> QED
    BY <1>6, <2>1 DEF OverlapInv
<1> QED
  BY <1>7, <1>8, <1>9

LEMMA WriteStep ==
  ASSUME MetricInv, NEW f \in Flushers, NEW t \in MetricTenants, WriteRow(f, t)
  PROVE  MetricInv'
<1> USE DEF MetricInv
<1> DEFINE d == flusher[f].day
           written == [k \in MetricKeys |-> IF k[1] = t THEN flusher[f].values[k] ELSE row[d][k]]
           new == [flusher[f] EXCEPT !.rest = flusher[f].rest \ {t}]
<1>1. /\ flusher[f] \in FlusherType /\ d \in MetricDays
      /\ flusher[f].values \in MetricCounts /\ flusher[f].step = "read" /\ flusher[f].keys = {}
      /\ row[d] \in MetricCounts
  BY FlushAt, DailyAt DEF MetricTypes, WriteRow
<1>2. /\ written \in MetricCounts
      /\ \A k \in MetricKeys : written[k] = IF k[1] = t THEN flusher[f].values[k] ELSE row[d][k]
  BY <1>1 DEF MetricCounts
<1>3. /\ new \in FlusherType
      /\ new.step = "read" /\ new.day = d /\ new.keys = {} /\ new.values = flusher[f].values
      /\ new.rest = flusher[f].rest \ {t} /\ new.since = flusher[f].since
  BY <1>1 DEF FlusherType
<1>4. flusher' = [flusher EXCEPT ![f] = new] /\ row' = [row EXCEPT ![d] = written]
  BY DEF WriteRow
<1> HIDE DEF new, written
<1>5. /\ flusher' \in [Flushers -> FlusherType] /\ flusher'[f] = new
      /\ \A g \in Flushers \ {f} : flusher'[g] = flusher[g]
  BY <1>3, <1>4, FlushSteps
<1>6. UNCHANGED <<metricDay, counter, tracker, total, flushed, muddled>>
  BY DEF WriteRow
<1>7. /\ row' \in DailyCounts /\ row'[d] = written
      /\ \A e \in MetricDays \ {d} : row'[e] = row[e]
  BY <1>1, <1>2, <1>4 DEF MetricTypes, DailyCounts
<1>8. MetricTypes' /\ CountersInv'
  BY <1>5, <1>6, <1>7 DEF MetricTypes, CountersInv
<1>9. \A k \in MetricKeys :
        /\ flusher[f].values[k] \in Nat /\ flusher[f].since[k] \in Nat /\ row[d][k] \in Nat
        /\ total[d][k] \in Nat /\ flushed[d][k] \in Nat
  BY <1>1, FlushAt, DailyAt DEF MetricTypes
<1>10. FlushKeepsCounts'
  <2>1. \A e \in MetricDays \ {d}, k \in MetricKeys :
          /\ row'[e][k] <= total'[e][k]
          /\ e \notin muddled' => flushed'[e][k] <= row'[e][k]
    BY <1>6, <1>7 DEF FlushKeepsCounts
  <2>2. \A k \in MetricKeys :
          /\ written[k] <= total[d][k]
          /\ d \notin muddled => flushed[d][k] <= written[k]
    BY <1>1, <1>2, <1>9 DEF FlushInv, FlushKeepsCounts
  <2> QED
    BY <1>6, <1>7, <2>1, <2>2 DEF FlushKeepsCounts
<1>11. ASSUME NEW g \in Flushers PROVE FlushInv(g)'
  <2>1. CASE g # f
    <3>1. flusher[g].step = "read" /\ flusher[g].day \notin muddled => flusher[g].day # d
      BY <1>1, <2>1 DEF OverlapInv
    <3>2. flusher[g].day \in MetricDays
      BY FlushAt
    <3> QED
      BY <1>5, <1>6, <1>7, <2>1, <3>1, <3>2 DEF FlushInv
  <2>2. CASE g = f
    BY <1>1, <1>2, <1>3, <1>5, <1>6, <1>7, <1>9, <2>2 DEF FlushInv
  <2> QED
    BY <2>1, <2>2
<1>12. OverlapInv'
  <2>1. \A g \in Flushers : flusher'[g].step = flusher[g].step /\ flusher'[g].day = flusher[g].day
    BY <1>1, <1>3, <1>5
  <2> QED
    BY <1>6, <2>1 DEF OverlapInv
<1> QED
  BY <1>8, <1>10, <1>11, <1>12

\* A flush ends, finished or not.
LEMMA EndStep ==
  ASSUME MetricInv, NEW f \in Flushers, FinishFlush(f) \/ AbortFlush(f)
  PROVE  MetricInv'
<1> USE DEF MetricInv
<1>1. IdleFlush \in FlusherType /\ IdleFlush.step = "idle"
  BY MetricsAssumption DEF IdleFlush, FlusherType, MetricDays, NoCounts, MetricCounts
<1>2. flusher' = [flusher EXCEPT ![f] = IdleFlush]
  BY DEF FinishFlush, AbortFlush
<1>3. /\ flusher' \in [Flushers -> FlusherType] /\ flusher'[f] = IdleFlush
      /\ \A g \in Flushers \ {f} : flusher'[g] = flusher[g]
  BY <1>1, <1>2, FlushSteps
<1>4. UNCHANGED <<metricDay, counter, row, tracker, total, muddled>>
  BY DEF FinishFlush, AbortFlush
<1>5. OverlapInv' /\ CountersInv'
  BY <1>1, <1>3, <1>4 DEF OverlapInv, CountersInv
<1>6. CASE flushed' = flushed
  BY <1>1, <1>3, <1>4, <1>5, <1>6 DEF MetricTypes, FlushInv, FlushKeepsCounts
<1>7. CASE FinishFlush(f)
  <2> DEFINE d == flusher[f].day
  <2>1. d \in MetricDays /\ flusher[f].since \in MetricCounts
        /\ flusher[f].step = "read" /\ flusher[f].keys = {} /\ flusher[f].rest = {}
    BY <1>7, FlushAt DEF FinishFlush
  <2>2. flushed' = [flushed EXCEPT ![d] = flusher[f].since]
    BY <1>7 DEF FinishFlush
  <2> HIDE DEF d
  <2>3. /\ flushed' \in DailyCounts /\ flushed'[d] = flusher[f].since
        /\ \A e \in MetricDays \ {d} : flushed'[e] = flushed[e]
    BY <2>1, <2>2 DEF MetricTypes, DailyCounts
  <2>4. MetricTypes'
    BY <1>3, <1>4, <2>3 DEF MetricTypes
  <2>5. ASSUME NEW g \in Flushers PROVE FlushInv(g)'
    <3>1. CASE g = f
      BY <1>1, <1>3, <3>1 DEF FlushInv
    <3>2. CASE g # f
      <4>1. flusher[g].step = "read" /\ flusher[g].day \notin muddled => flusher[g].day # d
        BY <2>1, <3>2 DEF OverlapInv, d
      <4>2. flusher[g].day \in MetricDays
        BY FlushAt
      <4> QED
        BY <1>3, <1>4, <2>3, <3>2, <4>1, <4>2 DEF FlushInv
    <3> QED
      BY <3>1, <3>2
  <2>6. FlushKeepsCounts'
    <3>1. \A k \in MetricKeys : d \notin muddled => flusher[f].since[k] <= row[d][k]
      BY <2>1 DEF FlushInv, d
    <3> QED
      BY <1>4, <2>1, <2>3, <3>1 DEF FlushKeepsCounts
  <2> QED
    BY <1>5, <2>4, <2>5, <2>6
<1> QED
  BY <1>6, <1>7 DEF AbortFlush

LEMMA DropStep ==
  ASSUME MetricInv, NEW d \in MetricDays, NEW k \in MetricKeys, DropCounter(d, k)
  PROVE  MetricInv'
<1> USE DEF MetricInv
<1>1. counter \in DailyCounts /\ 0 \in Nat /\ counter' = [counter EXCEPT ![d] = [counter[d] EXCEPT ![k] = 0]]
  BY DEF MetricTypes, DropCounter
<1>2. /\ counter' \in DailyCounts
      /\ \A e \in MetricDays, j \in MetricKeys : counter'[e][j] = IF e = d /\ j = k THEN 0 ELSE counter[e][j]
  BY <1>1 DEF DailyCounts, MetricCounts
<1>3. UNCHANGED <<metricDay, row, tracker, flusher, total, flushed>> /\ muddled' = muddled \cup {d}
  BY DEF DropCounter
<1>4. \A e \in MetricDays, j \in MetricKeys : total[e][j] \in Nat /\ counter[e][j] \in Nat
  BY DailyAt DEF MetricTypes
<1>5. MetricTypes' /\ CountersInv' /\ \A e \in MetricDays, j \in MetricKeys : total[e][j] <= total'[e][j]
  BY <1>2, <1>3, <1>4 DEF MetricTypes, CountersInv
<1> QED
  BY <1>3, <1>5, FlushesStay

\* What a flush has stored is never more than was counted, and what a finished flush found
\* stays stored, through flushes that die and flushes of other days; but on a day whose
\* flushes overlapped, or whose counters had begun to expire.
THEOREM FlushesKeepCounts == MetricsSpec => []FlushKeepsCounts
<1>1. MetricInv /\ [MetricsNext]_metricVars => MetricInv'
  <2> SUFFICES ASSUME MetricInv, [MetricsNext]_metricVars
               PROVE  MetricInv'
    OBVIOUS
  <2>1. CASE \E c \in Trackers : (\E k \in MetricKeys : StartTracking(c, k)) \/ CountMetric(c) \/ ExpireMetric(c)
    BY <2>1, TrackStep
  <2>2. CASE \E f \in Flushers, d \in MetricDays : ScanMetrics(f, d)
    BY <2>2, ScanStep
  <2>3. CASE \E f \in Flushers, k \in MetricKeys : ReadMetric(f, k)
    BY <2>3, ReadStep
  <2>4. CASE \E f \in Flushers, t \in MetricTenants : WriteRow(f, t)
    BY <2>4, WriteStep
  <2>5. CASE \E f \in Flushers : FinishFlush(f) \/ AbortFlush(f)
    BY <2>5, EndStep
  <2>6. CASE NextMetricDay
    <3>1. metricDay' \in MetricDays
      BY <2>6, MetricsAssumption DEF NextMetricDay, MetricInv, MetricTypes, MetricDays
    <3>2. UNCHANGED <<counter, row, tracker, flusher, total, flushed, muddled>>
      BY <2>6 DEF NextMetricDay
    <3> QED
      BY <3>1, <3>2 DEF MetricInv, MetricTypes, CountersInv, FlushInv, OverlapInv, FlushKeepsCounts
  <2>7. CASE \E d \in MetricDays, k \in MetricKeys : DropCounter(d, k)
    BY <2>7, DropStep
  <2>8. CASE UNCHANGED metricVars
    BY <2>8 DEF metricVars, MetricInv, MetricTypes, CountersInv, FlushInv, OverlapInv, FlushKeepsCounts
  <2> QED
    BY <2>1, <2>2, <2>3, <2>4, <2>5, <2>6, <2>7, <2>8 DEF MetricsNext, MetricTenants
<1> QED
  BY <1>1, MetricsBegin, PTL DEF MetricsSpec, MetricInv

-----------------------------------------------------------------------------
(***************************************************************************)
(* Rate limiting, for any limit, window and requests: a passed request     *)
(* stays a member of the set until it has left every window, and so the    *)
(* count a request reads is no less than what passed in its own.           *)
(***************************************************************************)

HitType == [step : {"new", "sent", "trimmed", "added", "counted", "passed", "refused", "uncounted"},
            now : Nat, over : BOOLEAN, late : BOOLEAN]

RateTypes ==
  /\ members \in SUBSET Nat /\ IsFiniteSet(members)
  /\ removed \in SUBSET Nat
  /\ hit \in [Hits -> HitType]
  /\ clock \in Nat

\* The requests that are within the limit once they have counted.
Within == {r \in Hits : hit[r].step \in {"counted", "passed"} /\ ~hit[r].over /\ ~hit[r].late}

\* The times of those within the limit that a request has in its window.
Near(r) == {hit[s].now : s \in {s \in Within : hit[s].now <= hit[r].now /\ hit[r].now < hit[s].now + Window}}

Fits(S) == IsFiniteSet(S) /\ Cardinality(S) <= HitLimit

\* An added request is in the set unless it was removed; no window has more than the
\* limit, those counted that wait for their answer included; and who passed was not over.
RateInv ==
  /\ RateTypes
  /\ \A s \in Hits : hit[s].step \in {"added", "counted", "passed"} => hit[s].now \in members \cup removed
  /\ \A r \in Within : Fits(Near(r))
  /\ \A r \in Hits : hit[r].step = "passed" => ~hit[r].over

LEMMA StillFinite ==
  ASSUME NEW S, IsFiniteSet(S), NEW T, NEW e
  PROVE  IsFiniteSet(S \ T) /\ IsFiniteSet(S \cup {e})
<1>1. IsFiniteSet(S \ T)
  BY FS_Subset, S \ T \in SUBSET S
<1> QED
  BY <1>1, FS_AddElement

LEMMA LessFits ==
  ASSUME NEW S, NEW T \in SUBSET S, Fits(S)
  PROVE  Fits(T)
<1>1. IsFiniteSet(S) /\ Cardinality(S) <= HitLimit
  BY DEF Fits
<1>2. IsFiniteSet(T) /\ Cardinality(T) <= Cardinality(S)
  BY <1>1, FS_Subset
<1>3. Cardinality(T) \in Nat /\ Cardinality(S) \in Nat
  BY <1>1, <1>2, FS_CardinalityType
<1> QED
  BY <1>1, <1>2, <1>3, RateAssumption DEF Fits

\* A step that lets nobody in, and takes from the set only what it removes.
LEMMA NobodyCounts ==
  ASSUME RateInv, RateTypes', members \cup removed \subseteq members' \cup removed',
         \A s \in Hits : /\ hit'[s].now = hit[s].now \/ hit[s].step = "new"
                         /\ hit'[s].over = hit[s].over /\ hit'[s].late = hit[s].late
                         /\ hit'[s].step \in {"added", "counted", "passed"} =>
                              hit[s].step # "new" /\ (hit'[s].now \in members' \/
                                                      hit[s].step \in {"added", "counted", "passed"})
                         /\ hit'[s].step \in {"counted", "passed"} => hit[s].step \in {"counted", "passed"}
                         /\ hit'[s].step = "passed" => ~hit[s].over
  PROVE  RateInv'
<1>1. Within' \subseteq Within /\ \A s \in Within' : hit'[s].now = hit[s].now
  BY DEF Within
<1>2. \A s \in Hits : hit'[s].step \in {"added", "counted", "passed"} => hit'[s].now \in members' \cup removed'
  BY DEF RateInv
<1>3. ASSUME NEW r \in Within' PROVE Fits(Near(r))'
  <2>1. Near(r)' \subseteq Near(r)
    BY <1>1 DEF Near
  <2>2. Fits(Near(r))
    BY <1>1 DEF RateInv
  <2>3. Fits(Near(r)')
    BY <2>1, <2>2, LessFits
  <2> QED
    BY <2>3 DEF Fits
<1>4. \A r \in Hits : hit'[r].step = "passed" => ~hit'[r].over
  OBVIOUS
<1> QED
  BY <1>2, <1>3, <1>4 DEF RateInv

\* A request that counts and is within the limit has, in the set, all that are within it
\* in a window with its own.
LEMMA CountSees ==
  ASSUME RateInv, NEW x \in Hits, Count(x), x \in Within'
  PROVE  /\ Fits(members)
         /\ \A q \in Within \cup {x} : hit[q].now < hit[x].now + Window /\ hit[x].now < hit[q].now + Window
                              => hit[q].now \in members
<1> DEFINE now == hit[x].now
           over == Cardinality(members) > HitLimit
           late == \E m \in removed : m + Window > now /\ m < now + Window
           new == [hit[x] EXCEPT !.step = "counted", !.over = over, !.late = late]
<1>1. hit[x] \in HitType /\ now \in Nat /\ hit[x].step = "added"
  BY DEF RateInv, RateTypes, HitType, Count, CountAs
<1>2. new.over = over /\ new.late = late
  BY <1>1 DEF HitType
<1>3. hit' = [hit EXCEPT ![x] = new]
  BY DEF Count, CountAs
<1> HIDE DEF new
<1>4. hit'[x] = new
  BY <1>3 DEF RateInv, RateTypes
<1>5. ~over /\ ~late
  BY <1>2, <1>4 DEF Within
<1>6. Fits(members)
  <2>1. IsFiniteSet(members) /\ Cardinality(members) \in Nat
    BY FS_CardinalityType DEF RateInv, RateTypes
  <2> QED
    BY <1>5, <2>1, RateAssumption DEF Fits
<1>7. ASSUME NEW q \in Within \cup {x}, hit[q].now < now + Window, now < hit[q].now + Window
      PROVE  hit[q].now \in members
  <2>1. hit[q].now \in Nat /\ hit[q].now \in members \cup removed
    BY <1>1 DEF RateInv, RateTypes, HitType, Within
  <2>2. hit[q].now \notin removed
    BY <1>1, <1>5, <1>7, <2>1, RateAssumption
  <2> QED
    BY <2>1, <2>2
<1> QED
  BY <1>6, <1>7

LEMMA CountStep ==
  ASSUME RateInv, NEW x \in Hits, Count(x)
  PROVE  RateInv'
<1> DEFINE now == hit[x].now
           over == Cardinality(members) > HitLimit
           late == \E m \in removed : m + Window > now /\ m < now + Window
           new == [hit[x] EXCEPT !.step = "counted", !.over = over, !.late = late]
<1>1. hit[x] \in HitType /\ now \in Nat /\ hit[x].step = "added"
  BY DEF RateInv, RateTypes, HitType, Count, CountAs
<1>2. new \in HitType /\ new.now = now /\ new.step = "counted"
  <2>1. over \in BOOLEAN /\ late \in BOOLEAN
    BY FS_CardinalityType, RateAssumption DEF RateInv, RateTypes
  <2> HIDE DEF over, late
  <2> QED
    BY <1>1, <2>1 DEF HitType
<1>3. hit' = [hit EXCEPT ![x] = new] /\ UNCHANGED <<members, removed, clock>>
  BY DEF Count, CountAs
<1> HIDE DEF new
<1>4. /\ hit' \in [Hits -> HitType] /\ hit'[x] = new
      /\ \A s \in Hits \ {x} : hit'[s] = hit[s]
  BY <1>2, <1>3 DEF RateInv, RateTypes
<1>5. RateTypes'
  BY <1>3, <1>4 DEF RateInv, RateTypes
<1>6. \A s \in Hits : hit'[s].now = hit[s].now /\ hit[s].now \in Nat
  BY <1>1, <1>2, <1>4 DEF RateInv, RateTypes, HitType
<1>7. \A s \in Hits : hit'[s].step \in {"added", "counted", "passed"} => hit'[s].now \in members' \cup removed'
  BY <1>1, <1>2, <1>3, <1>4 DEF RateInv
<1>8. \A r \in Hits : hit'[r].step = "passed" => ~hit'[r].over
  BY <1>2, <1>4 DEF RateInv
<1>9. Within' \subseteq Within \cup {x}
  BY <1>4 DEF Within
<1>10. ASSUME NEW r \in Within' PROVE Fits(Near(r)')
  <2>1. CASE x \notin Within' \/ ~(x = r \/ (now <= hit[r].now /\ hit[r].now < now + Window))
    <3>1. r \in Within
      BY <1>9, <2>1
    <3>2. Near(r)' \subseteq Near(r)
      <4> SUFFICES ASSUME NEW s \in Within', hit'[s].now <= hit'[r].now, hit'[r].now < hit'[s].now + Window
                   PROVE  hit'[s].now \in Near(r)
        BY DEF Near
      <4>1. s # x
        BY <1>6, <2>1, <1>9 DEF Within
      <4>2. s \in Within
        BY <1>9, <4>1
      <4> QED
        BY <1>6, <3>1, <4>2 DEF Near, Within
    <3>3. Fits(Near(r))
      BY <3>1 DEF RateInv
    <3> QED
      BY <3>2, <3>3, LessFits
  <2>2. CASE x \in Within' /\ (x = r \/ (now <= hit[r].now /\ hit[r].now < now + Window))
    <3>1. Near(r)' \subseteq members
      <4> SUFFICES ASSUME NEW s \in Within', hit'[s].now <= hit'[r].now, hit'[r].now < hit'[s].now + Window
                   PROVE  hit'[s].now \in members
        BY DEF Near
      <4>1. s \in Hits /\ r \in Hits
        BY DEF Within
      <4>2. hit[s].now < now + Window /\ now < hit[s].now + Window
        BY <1>1, <1>6, <2>2, <4>1, RateAssumption
      <4> QED
        BY <1>6, <1>9, <2>2, <4>1, <4>2, CountSees
    <3>2. Fits(members)
      BY <2>2, CountSees
    <3> QED
      BY <3>1, <3>2, LessFits
  <2> QED
    BY <2>1, <2>2
<1>11. \A r \in Within' : Fits(Near(r))'
  BY <1>10 DEF Fits
<1> QED
  BY <1>5, <1>7, <1>8, <1>11 DEF RateInv

\* No window has more counted requests than the limit, whatever the requests, the limit and
\* the length of the window and however the pipelines interleave, but for the exceptions
\* the property names.
THEOREM WindowsAreLimited == RateSpec => []WindowIsLimited
<1>1. RateInit => RateInv
  <2> SUFFICES ASSUME RateInit PROVE RateInv
    OBVIOUS
  <2>1. RateTypes
    BY FS_EmptySet DEF RateInit, RateTypes, HitType
  <2>2. Within = {} /\ \A s \in Hits : hit[s].step = "new"
    BY DEF RateInit, Within
  <2> QED
    BY <2>1, <2>2 DEF RateInv
<1>2. RateInv /\ [RateNext]_rateVars => RateInv'
  <2> SUFFICES ASSUME RateInv, [RateNext]_rateVars
               PROVE  RateInv'
    OBVIOUS
  <2>1. ASSUME NEW r \in Hits, ReadClock(r) \/ PassUncounted(r)
        PROVE  RateInv'
    <3>1. RateTypes' /\ UNCHANGED <<members, removed>>
      BY <2>1 DEF ReadClock, PassUncounted, RateInv, RateTypes, HitType
    <3> QED
      BY <2>1, <3>1, NobodyCounts DEF ReadClock, PassUncounted, RateInv, RateTypes, HitType
  <2>2. ASSUME NEW r \in Hits, Trim(r)
        PROVE  RateInv'
    <3>1. IsFiniteSet(members')
      BY <2>2, StillFinite DEF Trim, RateInv, RateTypes
    <3>2. RateTypes' /\ members \cup removed \subseteq members' \cup removed'
      BY <2>2, <3>1 DEF Trim, Outside, RateInv, RateTypes, HitType
    <3> QED
      BY <2>2, <3>2, NobodyCounts DEF Trim, RateInv, RateTypes, HitType
  <2>3. ASSUME NEW r \in Hits, Add(r)
        PROVE  RateInv'
    <3>1. IsFiniteSet(members')
      BY <2>3, StillFinite DEF Add, RateInv, RateTypes
    <3>2. RateTypes' /\ members \cup removed \subseteq members' \cup removed'
      BY <2>3, <3>1 DEF Add, RateInv, RateTypes, HitType
    <3> QED
      BY <2>3, <3>2, NobodyCounts DEF Add, RateInv, RateTypes, HitType
  <2>4. ASSUME NEW r \in Hits, Count(r)
        PROVE  RateInv'
    BY <2>4, CountStep
  <2>5. ASSUME NEW r \in Hits, Answer(r)
        PROVE  RateInv'
    <3>1. RateTypes' /\ UNCHANGED <<members, removed>>
      BY <2>5 DEF Answer, RateInv, RateTypes, HitType
    <3> QED
      BY <2>5, <3>1, NobodyCounts DEF Answer, RateInv, RateTypes, HitType
  <2>6. CASE Tick
    <3>1. RateTypes' /\ UNCHANGED <<members, removed, hit>>
      BY <2>6 DEF Tick, RateInv, RateTypes
    <3> QED
      BY <3>1, NobodyCounts DEF RateInv
  <2>7. CASE DropSet
    <3>1. RateTypes' /\ members \cup removed \subseteq members' \cup removed' /\ UNCHANGED hit
      BY <2>7, FS_EmptySet DEF DropSet, RateInv, RateTypes
    <3> QED
      BY <3>1, NobodyCounts DEF RateInv
  <2>8. CASE UNCHANGED rateVars
    <3>1. RateTypes' /\ UNCHANGED <<members, removed, hit>>
      BY <2>8 DEF rateVars, RateInv, RateTypes
    <3> QED
      BY <3>1, NobodyCounts DEF RateInv
  <2> QED
    BY <2>1, <2>2, <2>3, <2>4, <2>5, <2>6, <2>7, <2>8 DEF RateNext
<1>3. RateInv => WindowIsLimited
  <2> SUFFICES ASSUME RateInv, NEW r \in Passed
               PROVE  Cardinality({hit[s].now : s \in {s \in Passed : hit[s].now <= hit[r].now /\ hit[r].now < hit[s].now + Window}})
                        <= HitLimit
    BY Zenon DEF WindowIsLimited
  <2> DEFINE S == {hit[s].now : s \in {s \in Passed : hit[s].now <= hit[r].now /\ hit[r].now < hit[s].now + Window}}
  <2>1. Passed \subseteq Within
    BY DEF Passed, Within, RateInv
  <2>2. S \subseteq Near(r) /\ Fits(Near(r))
    BY <2>1 DEF Near, RateInv
  <2>3. Fits(S)
    BY <2>2, LessFits
  <2> QED
    BY <2>3 DEF Fits
<1> QED
  BY <1>1, <1>2, <1>3, PTL DEF RateSpec

-----------------------------------------------------------------------------
(***************************************************************************)
(* Breakers and queues, for any servers and number of transitions: of the  *)
(* writes of a server that wait for Redis the last is the state of its     *)
(* breaker, whatever the other servers write.                              *)
(***************************************************************************)

BreakerStates == {"none", "CLOSED", "OPEN", "HALF_OPEN"}

ServerTypes ==
  /\ breaker \in [Servers -> BreakerStates]
  /\ logging \in [Servers -> Seq(BreakerStates)]
  /\ writing \in [Servers -> Seq(BreakerStates)]
  /\ crossed \subseteq Servers
  /\ persisted \in BreakerStates

QueueTypes ==
  /\ queue \in [Servers -> {"none", "open", "obliterated", "closed"}]
  /\ leftover \subseteq Servers
  /\ jobs \in Nat

\* What a server said last, when log and write wait: it is the state of its breaker, or
\* none. If nothing waits, it is what Redis has, provided that it wrote that.
LastWordIs(log, write, wrote, redis, state) ==
  IF log # <<>> THEN log[Len(log)] \in {state, "none"}
  ELSE IF write # <<>> THEN write[Len(write)] \in {state, "none"}
  ELSE wrote => redis \in {state, "none"}

LastWords ==
  \A p \in Servers :
    p \notin crossed => LastWordIs(logging[p], writing[p], author = p, persisted, breaker[p])

QueuesEmptied ==
  \A p \in Servers : queue[p] \in {"obliterated", "closed"} /\ p \notin leftover => jobs = 0

BreakerInv == ServerTypes /\ QueueTypes /\ LastWords /\ QueuesEmptied

LEMMA AppendLast ==
  ASSUME NEW s \in Seq(BreakerStates), NEW e \in BreakerStates
  PROVE  /\ Append(s, e) \in Seq(BreakerStates) /\ Append(s, e) # <<>>
         /\ Append(s, e)[Len(Append(s, e))] = e
BY AppendProperties, LenProperties

LEMMA TailLast ==
  ASSUME NEW s \in Seq(BreakerStates), s # <<>>
  PROVE  /\ Head(s) \in BreakerStates /\ Tail(s) \in Seq(BreakerStates)
         /\ Tail(s) = <<>> => Head(s) = s[Len(s)]
         /\ Tail(s) # <<>> => Tail(s)[Len(Tail(s))] = s[Len(s)]
<1>1. /\ Head(s) \in BreakerStates /\ Tail(s) \in Seq(BreakerStates)
      /\ Len(s) \in Nat \ {0} /\ Len(Tail(s)) = Len(s) - 1
      /\ \A i \in 1..Len(Tail(s)) : Tail(s)[i] = s[i + 1]
  BY HeadTailProperties, EmptySeq
<1>2. CASE Tail(s) = <<>>
  <2>1. Len(s) = 1
    BY <1>1, <1>2, EmptySeq
  <2>2. Head(s) = s[1]
    OBVIOUS
  <2> QED
    BY <1>1, <1>2, <2>1, <2>2
<1>3. CASE Tail(s) # <<>>
  BY <1>1, <1>3, EmptySeq
<1> QED
  BY <1>1, <1>2, <1>3

\* A step of server p's breaker, after which what it said last is still to come, or came.
LEMMA ServerStep ==
  ASSUME BreakerInv, NEW p \in Servers, NEW state \in BreakerStates,
         NEW log \in Seq(BreakerStates), NEW write \in Seq(BreakerStates),
         breaker' = [breaker EXCEPT ![p] = state],
         logging' = [logging EXCEPT ![p] = log],
         writing' = [writing EXCEPT ![p] = write],
         crossed \subseteq crossed', crossed' \subseteq crossed \cup {p},
         \/ UNCHANGED <<persisted, author>>
         \/ author' = p /\ persisted' \in BreakerStates,
         p \notin crossed' => LastWordIs(log, write, author' = p, persisted', state),
         QueueTypes', QueuesEmptied'
  PROVE  BreakerInv'
<1>1. ServerTypes'
  BY DEF BreakerInv, ServerTypes
<1>2. /\ breaker'[p] = state /\ logging'[p] = log /\ writing'[p] = write
      /\ \A q \in Servers \ {p} :
           breaker'[q] = breaker[q] /\ logging'[q] = logging[q] /\ writing'[q] = writing[q]
  BY DEF BreakerInv, ServerTypes
<1>3. ASSUME NEW q \in Servers, q # p, q \notin crossed'
      PROVE  LastWordIs(logging[q], writing[q], author' = q, persisted', breaker[q])
  <2>1. LastWordIs(logging[q], writing[q], author = q, persisted, breaker[q])
    BY <1>3 DEF BreakerInv, LastWords
  <2> QED
    BY <1>3, <2>1 DEF LastWordIs
<1>4. ASSUME NEW q \in Servers, q \notin crossed'
      PROVE  LastWordIs(logging'[q], writing'[q], author' = q, persisted', breaker'[q])
  BY <1>2, <1>3, <1>4
<1> QED
  BY <1>1, <1>4 DEF BreakerInv, LastWords

\* A server leaves what it has of the queue alone.
LEMMA QueueStays == BreakerInv /\ QueueUnchanged => QueueTypes' /\ QueuesEmptied'
  BY DEF BreakerInv, QueueUnchanged, QueueTypes, QueuesEmptied

LEMMA BreakerSteps ==
  ASSUME BreakerInv, NEW p \in Servers, NEW to \in {"OPEN", "HALF_OPEN", "CLOSED"},
         \/ GetCircuit(p) \/ ChangeState(p, to) \/ Logged(p)
         \/ WriteState(p) \/ ResetCircuit(p) \/ DestroyCircuit(p)
  PROVE  BreakerInv'
<1>1. PICK log, write, state, wrote, redis :
        /\ log = logging[p] /\ write = writing[p] /\ state = breaker[p]
        /\ wrote = (author = p) /\ redis = persisted
  OBVIOUS
<1>2. /\ log \in Seq(BreakerStates) /\ write \in Seq(BreakerStates) /\ state \in BreakerStates
      /\ breaker = [breaker EXCEPT ![p] = state]
      /\ logging = [logging EXCEPT ![p] = log]
      /\ writing = [writing EXCEPT ![p] = write]
      /\ crossed \subseteq Servers /\ redis \in BreakerStates
  BY <1>1 DEF BreakerInv, ServerTypes
<1>3. p \notin crossed => LastWordIs(log, write, wrote, redis, state)
  BY <1>1 DEF BreakerInv, LastWords
<1>4. QueueTypes' /\ QueuesEmptied'
  BY QueueStays DEF GetCircuit, ChangeState, Logged, WriteState, ResetCircuit, DestroyCircuit
<1>5. {"none", "CLOSED", "OPEN", "HALF_OPEN"} \subseteq BreakerStates
  BY DEF BreakerStates
<1>6. CASE GetCircuit(p)
  <2>1. /\ breaker' = [breaker EXCEPT ![p] = "CLOSED"] /\ state = "none"
        /\ logging' = [logging EXCEPT ![p] = log] /\ writing' = [writing EXCEPT ![p] = write]
        /\ UNCHANGED <<crossed, persisted, author>>
    BY <1>1, <1>2, <1>6 DEF GetCircuit, BreakerIs, RedisUnchanged
  <2>2. p \notin crossed => LastWordIs(log, write, wrote, redis, "CLOSED")
    BY <1>3, <2>1 DEF LastWordIs
  <2> QED
    BY <1>1, <1>2, <1>4, <1>5, <2>1, <2>2, ServerStep
<1>7. CASE ChangeState(p, to)
  <2>1. /\ breaker' = [breaker EXCEPT ![p] = to]
        /\ logging' = [logging EXCEPT ![p] = Append(log, to)]
        /\ writing' = [writing EXCEPT ![p] = write]
        /\ UNCHANGED <<crossed, persisted, author>>
    BY <1>1, <1>2, <1>7 DEF ChangeState, BreakerIs, Says, RedisUnchanged
  <2>2. /\ to \in BreakerStates /\ Append(log, to) \in Seq(BreakerStates)
        /\ LastWordIs(Append(log, to), write, wrote, redis, to)
    BY <1>2, <1>5, AppendLast DEF LastWordIs
  <2> QED
    BY <1>1, <1>2, <1>4, <2>1, <2>2, ServerStep
<1>8. CASE Logged(p)
  <2>1. /\ breaker' = [breaker EXCEPT ![p] = state]
        /\ logging' = [logging EXCEPT ![p] = Tail(log)] /\ log # <<>>
        /\ writing' = [writing EXCEPT ![p] = Append(write, Head(log))]
        /\ UNCHANGED <<crossed, persisted, author>>
    BY <1>1, <1>2, <1>8 DEF Logged, Sends, RedisUnchanged
  <2>2. /\ Head(log) \in BreakerStates /\ Tail(log) \in Seq(BreakerStates)
        /\ Tail(log) = <<>> => Head(log) = log[Len(log)]
        /\ Tail(log) # <<>> => Tail(log)[Len(Tail(log))] = log[Len(log)]
    BY <1>2, <2>1, TailLast
  <2>3. /\ Append(write, Head(log)) \in Seq(BreakerStates)
        /\ Append(write, Head(log)) # <<>>
        /\ Append(write, Head(log))[Len(Append(write, Head(log)))] = Head(log)
    BY <1>2, <2>2, AppendLast
  <2>4. p \notin crossed => LastWordIs(Tail(log), Append(write, Head(log)), wrote, redis, state)
    BY <1>3, <2>1, <2>2, <2>3 DEF LastWordIs
  <2> QED
    BY <1>1, <1>2, <1>4, <2>1, <2>2, <2>3, <2>4, ServerStep
<1>9. CASE WriteState(p)
  <2>1. /\ breaker' = [breaker EXCEPT ![p] = state]
        /\ logging' = [logging EXCEPT ![p] = log] /\ write # <<>>
        /\ writing' = [writing EXCEPT ![p] = Tail(write)]
    BY <1>1, <1>2, <1>9 DEF WriteState
  <2>2. /\ Head(write) \in BreakerStates /\ Tail(write) \in Seq(BreakerStates)
        /\ Tail(write) = <<>> => Head(write) = write[Len(write)]
        /\ Tail(write) # <<>> => Tail(write)[Len(Tail(write))] = write[Len(write)]
    BY <1>2, <2>1, TailLast
  <2>3. CASE persisted' = Head(write) /\ author' = p /\ UNCHANGED crossed
    <3>1. p \notin crossed => LastWordIs(log, Tail(write), TRUE, Head(write), state)
      BY <1>3, <2>1, <2>2 DEF LastWordIs
    <3> QED
      BY <1>2, <1>4, <2>1, <2>2, <2>3, <3>1, ServerStep
  <2>4. CASE crossed' = crossed \cup {p} /\ UNCHANGED <<persisted, author>>
    BY <1>2, <1>4, <2>1, <2>2, <2>4, ServerStep
  <2> QED
    BY <1>1, <1>9, <2>3, <2>4 DEF WriteState
<1>10. CASE ResetCircuit(p)
  <2>1. /\ breaker' = [breaker EXCEPT ![p] = "CLOSED"]
        /\ writing' = [writing EXCEPT ![p] = Append(write, "CLOSED")]
        /\ UNCHANGED <<crossed, persisted, author>>
    BY <1>1, <1>2, <1>10 DEF ResetCircuit, BreakerIs, Sends, RedisUnchanged
  <2>2. /\ Append(write, "CLOSED") \in Seq(BreakerStates) /\ Append(write, "CLOSED") # <<>>
        /\ Append(write, "CLOSED")[Len(Append(write, "CLOSED"))] = "CLOSED"
    BY <1>2, <1>5, AppendLast
  <2>3. CASE state = "CLOSED" /\ logging' = [logging EXCEPT ![p] = log]
    <3>1. p \notin crossed => LastWordIs(log, Append(write, "CLOSED"), wrote, redis, "CLOSED")
      BY <1>3, <2>2, <2>3 DEF LastWordIs
    <3> QED
      BY <1>1, <1>2, <1>4, <1>5, <2>1, <2>2, <2>3, <3>1, ServerStep
  <2>4. CASE logging' = [logging EXCEPT ![p] = Append(log, "CLOSED")]
    <3>1. /\ Append(log, "CLOSED") \in Seq(BreakerStates)
          /\ LastWordIs(Append(log, "CLOSED"), Append(write, "CLOSED"), wrote, redis, "CLOSED")
      BY <1>2, <1>5, AppendLast DEF LastWordIs
    <3> QED
      BY <1>1, <1>2, <1>4, <1>5, <2>1, <2>2, <2>4, <3>1, ServerStep
  <2> QED
    BY <1>1, <1>2, <1>10, <2>3, <2>4 DEF ResetCircuit, Says
<1>11. CASE DestroyCircuit(p)
  <2>1. /\ breaker' = [breaker EXCEPT ![p] = "none"]
        /\ logging' = [logging EXCEPT ![p] = log]
        /\ writing' = [writing EXCEPT ![p] = Append(write, "none")]
        /\ crossed' = IF log = <<>> THEN crossed ELSE crossed \cup {p}
        /\ UNCHANGED <<persisted, author>>
    BY <1>1, <1>2, <1>11 DEF DestroyCircuit, BreakerIs, Sends, RedisUnchanged
  <2>2. /\ Append(write, "none") \in Seq(BreakerStates) /\ Append(write, "none") # <<>>
        /\ Append(write, "none")[Len(Append(write, "none"))] = "none"
    BY <1>2, <1>5, AppendLast
  <2>3. p \notin crossed' => LastWordIs(log, Append(write, "none"), wrote, redis, "none")
    BY <2>1, <2>2 DEF LastWordIs
  <2> QED
    BY <1>1, <1>2, <1>4, <1>5, <2>1, <2>2, <2>3, ServerStep
<1> QED
  BY <1>6, <1>7, <1>8, <1>9, <1>10, <1>11

LEMMA QueueSteps ==
  ASSUME BreakerInv, NEW p \in Servers,
         \/ GetQueue(p) \/ Dispatch(p) \/ ObliterateQueue(p) \/ CloseQueue(p)
         \/ DropQueue(p) \/ QueueFails(p)
  PROVE  BreakerInv'
<1>1. ServerTypes' /\ LastWords'
  BY DEF BreakerInv, GetQueue, Dispatch, ObliterateQueue, CloseQueue, DropQueue, QueueFails,
         BreakerUnchanged, ServerTypes, LastWords
<1>2. QueueTypes' /\ QueuesEmptied'
  <2> USE DEF BreakerInv, QueueTypes, QueuesEmptied, QueueIs
  <2>1. CASE Dispatch(p)
    BY <2>1 DEF Dispatch
  <2>2. CASE ObliterateQueue(p)
    BY <2>2 DEF ObliterateQueue
  <2>3. CASE GetQueue(p) \/ CloseQueue(p) \/ DropQueue(p) \/ QueueFails(p)
    BY <2>3 DEF GetQueue, CloseQueue, DropQueue, QueueFails
  <2> QED
    BY <2>1, <2>2, <2>3
<1> QED
  BY <1>1, <1>2 DEF BreakerInv

LEMMA WorkOffStep == BreakerInv /\ WorkOff => BreakerInv'
  BY DEF BreakerInv, WorkOff, BreakerUnchanged, ServerTypes, LastWords, QueueTypes, QueuesEmptied

LEMMA KeyGoes ==
  ASSUME BreakerInv, StateExpires \/ UninstallServices
  PROVE  BreakerInv'
<1>1. UNCHANGED <<breaker, logging, writing, author, crossed>> /\ persisted' = "none"
  BY DEF StateExpires, UninstallServices
<1>2. LastWords' /\ ServerTypes'
  BY <1>1 DEF BreakerInv, LastWords, LastWordIs, ServerTypes, BreakerStates
<1> QED
  BY <1>2, QueueStays DEF BreakerInv, StateExpires, UninstallServices

LEMMA RestartStep ==
  ASSUME BreakerInv, NEW p \in Servers, Restart(p)
  PROVE  BreakerInv'
<1>1. QueueTypes' /\ QueuesEmptied'
  BY DEF Restart, QueueIs, BreakerInv, QueueTypes, QueuesEmptied
<1>2. <<>> \in Seq(BreakerStates) /\ "none" \in BreakerStates
  BY EmptySeq DEF BreakerStates
<1>3. /\ breaker' = [breaker EXCEPT ![p] = "none"]
      /\ logging' = [logging EXCEPT ![p] = <<>>] /\ writing' = [writing EXCEPT ![p] = <<>>]
      /\ crossed' = crossed \cup {p} /\ UNCHANGED <<persisted, author>>
  BY DEF Restart, BreakerIs, RedisUnchanged
<1> QED
  BY <1>1, <1>2, <1>3, ServerStep

\* Redis has the state of the breaker of the server that wrote it last, or none
\* (circuit_breaker_service.ts), and the jobs of a destroyed queue came since
\* (tenant_queue_service.ts), whatever opens, closes, fails and begins anew in any of the
\* servers, but for the lost and the late writes that the property names.
THEOREM BreakersSettle == BreakersSpec => []BreakersAreSound
<1>1. BreakersInit => BreakerInv
  <2> SUFFICES ASSUME BreakersInit PROVE BreakerInv
    OBVIOUS
  <2>1. <<>> \in Seq(BreakerStates) /\ "none" \in BreakerStates
    BY EmptySeq DEF BreakerStates
  <2>2. ServerTypes
    BY <2>1 DEF BreakersInit, ServerTypes
  <2>3. QueueTypes /\ QueuesEmptied
    BY DEF BreakersInit, QueueTypes, QueuesEmptied
  <2>4. LastWords
    BY DEF BreakersInit, LastWords, LastWordIs
  <2> QED
    BY <2>2, <2>3, <2>4 DEF BreakerInv
<1>2. BreakerInv /\ [BreakersNext]_breakerVars => BreakerInv'
  <2> SUFFICES ASSUME BreakerInv, [BreakersNext]_breakerVars
               PROVE  BreakerInv'
    OBVIOUS
  <2>1. CASE BreakersNext
    <3>1. ASSUME NEW p \in Servers, GetCircuit(p) \/ Logged(p) \/ WriteState(p)
                                      \/ ResetCircuit(p) \/ DestroyCircuit(p)
          PROVE  BreakerInv'
      <4>1. PICK to \in {"OPEN", "HALF_OPEN", "CLOSED"} : TRUE
        OBVIOUS
      <4> QED
        BY <3>1, <4>1, BreakerSteps
    <3> QED
      BY <2>1, <3>1, BreakerSteps, QueueSteps, WorkOffStep, KeyGoes, RestartStep DEF BreakersNext
  <2>2. CASE UNCHANGED breakerVars
    BY <2>2 DEF breakerVars, BreakerInv, ServerTypes, QueueTypes, LastWords, QueuesEmptied
  <2> QED
    BY <2>1, <2>2
<1>3. BreakerInv => BreakersAreSound
  BY DEF BreakerInv, LastWords, LastWordIs, QueuesEmptied, BreakersAreSound, PersistedIsLast,
         DestroyedQueueIsEmpty
<1> QED
  BY <1>1, <1>2, <1>3, PTL DEF BreakersSpec

-----------------------------------------------------------------------------
(***************************************************************************)
(* The checks of /readyz, for any checks and any number of requests.       *)
(***************************************************************************)

HealthChecks == SUBSET AllChecks

ProbeType ==
  [step : {"idle", "bootstrap", "running", "answered"}, entries : HealthChecks, calls : HealthChecks,
   passed : HealthChecks, failed : HealthChecks, status : {"none", "ok", "fail", "degraded"},
   late : HealthChecks, wasUp : HealthChecks, wasDown : HealthChecks, removed : HealthChecks]

HealthTypes ==
  /\ healthChecks \in HealthChecks /\ up \in HealthChecks /\ unwanted \in HealthChecks
  /\ bootstrapped \in BOOLEAN
  /\ ready \in [Probes -> ProbeType]

\* Of the checks a request runs, those that passed have been up, and in time, and those that failed
\* down; nothing is called before the request runs, nor after its answer. It runs the default
\* checks but for those that were removed, and none of these.
RequestInv(p) ==
  /\ p.step # "running" => p.calls = {}
  /\ p.step = "running" =>
       /\ up \subseteq p.wasUp /\ AllChecks \ up \subseteq p.wasDown
       /\ p.calls \subseteq p.entries
       /\ p.passed \subseteq p.entries \cap p.wasUp /\ p.passed \cap (p.late \cup p.calls) = {}
       /\ p.failed \subseteq p.entries \cap p.wasDown
  /\ p.step \in {"idle", "bootstrap"} => p.passed = {} /\ p.failed = {} /\ p.late = {}
  /\ p.step \in {"running", "answered"} =>
       DefaultChecks \ p.removed \subseteq p.entries /\ p.removed \cap p.entries = {}
  /\ p.step = "answered" =>
       /\ p.status = "fail" => p.entries # {} /\ p.entries \subseteq p.wasDown
       /\ p.status = "ok" => p.entries \subseteq p.wasUp \ p.late

HealthInv ==
  /\ HealthTypes
  /\ \A r \in Probes : RequestInv(ready[r])
  /\ RemovedStaysRemoved
  /\ ~bootstrapped => unwanted = {}

\* A step of one request.
LEMMA ProbeStep ==
  ASSUME HealthInv, NEW r \in Probes, NEW new \in ProbeType, ready' = [ready EXCEPT ![r] = new],
         up' = up, RequestInv(new)
  PROVE  ready' \in [Probes -> ProbeType] /\ \A q \in Probes : RequestInv(ready[q])'
<1>1. /\ ready' \in [Probes -> ProbeType] /\ ready'[r] = new
      /\ \A q \in Probes \ {r} : ready'[q] = ready[q]
  BY DEF HealthInv, HealthTypes
<1> QED
  BY <1>1 DEF HealthInv, RequestInv

LEMMA RegistrySteps ==
  ASSUME HealthInv, Livez \/ \E c \in AllChecks : AddCheck(c) \/ RemoveCheck(c)
  PROVE  HealthInv'
<1>1. UNCHANGED <<ready, up>>
  BY DEF Livez, AddCheck, RemoveCheck
<1> DEFINE Kept == /\ healthChecks' \in HealthChecks /\ unwanted' \in HealthChecks /\ bootstrapped' \in BOOLEAN
                   /\ bootstrapped' => /\ DefaultChecks \ unwanted' \subseteq healthChecks'
                                       /\ unwanted' \cap healthChecks' = {}
                   /\ ~bootstrapped' => unwanted' = {}
<1>2. CASE Livez
  <2>1. Kept
    BY <1>2 DEF Livez, HealthInv, HealthTypes, HealthChecks, AllChecks, RemovedStaysRemoved
  <2> QED
    BY <1>1, <2>1 DEF HealthInv, HealthTypes, RequestInv, RemovedStaysRemoved
<1>3. ASSUME NEW c \in AllChecks, AddCheck(c) \/ RemoveCheck(c) PROVE HealthInv'
  <2>1. Kept
    BY <1>3 DEF AddCheck, RemoveCheck, HealthInv, HealthTypes, HealthChecks, RemovedStaysRemoved
  <2> QED
    BY <1>1, <2>1 DEF HealthInv, HealthTypes, RequestInv, RemovedStaysRemoved
<1> QED
  BY <1>2, <1>3

LEMMA FlapStep ==
  ASSUME HealthInv, NEW c \in AllChecks, FlapDependency(c)
  PROVE  HealthInv'
<1>1. up' \in HealthChecks /\ UNCHANGED <<healthChecks, bootstrapped, unwanted>>
  BY DEF FlapDependency, HealthInv, HealthTypes, HealthChecks
<1>2. ASSUME NEW r \in Probes
      PROVE  ready'[r] \in ProbeType /\ RequestInv(ready[r])'
  <2>1. ready[r] \in ProbeType /\ RequestInv(ready[r])
    BY DEF HealthInv, HealthTypes
  <2>2. CASE ready[r].step = "running"
    <3> DEFINE new == [ready[r] EXCEPT !.wasUp = ready[r].wasUp \cup up',
                                       !.wasDown = ready[r].wasDown \cup (AllChecks \ up')]
    <3>1. /\ new \in ProbeType /\ new.step = "running"
          /\ new.wasUp = ready[r].wasUp \cup up' /\ new.wasDown = ready[r].wasDown \cup (AllChecks \ up')
          /\ new.entries = ready[r].entries /\ new.calls = ready[r].calls /\ new.late = ready[r].late
          /\ new.passed = ready[r].passed /\ new.failed = ready[r].failed
          /\ new.removed = ready[r].removed
      BY <1>1, <2>1, <2>2 DEF ProbeType, HealthChecks
    <3>2. ready'[r] = new
      BY <2>2 DEF FlapDependency
    <3> HIDE DEF new
    <3> QED
      BY <2>1, <2>2, <3>1, <3>2 DEF RequestInv
  <2>3. CASE ready[r].step # "running"
    <3>1. ready'[r] = ready[r]
      BY <2>3 DEF FlapDependency
    <3> QED
      BY <2>1, <2>3, <3>1 DEF RequestInv
  <2> QED
    BY <2>2, <2>3
<1>3. ready' \in [Probes -> ProbeType]
  BY <1>2 DEF FlapDependency
<1> QED
  BY <1>1, <1>2, <1>3 DEF HealthInv, HealthTypes, RemovedStaysRemoved

LEMMA BootstrapStep ==
  ASSUME HealthInv, NEW r \in Probes, Bootstrap(r)
  PROVE  HealthInv'
<1> DEFINE new == [ready[r] EXCEPT !.step = "running", !.entries = healthChecks', !.calls = healthChecks',
                                   !.wasUp = up, !.wasDown = AllChecks \ up, !.removed = unwanted]
<1>1. ready[r] \in ProbeType /\ RequestInv(ready[r]) /\ ready[r].step = "bootstrap"
  BY DEF HealthInv, HealthTypes, Bootstrap
<1>2. /\ healthChecks' \in HealthChecks /\ bootstrapped' = TRUE /\ UNCHANGED <<up, unwanted>>
      /\ unwanted' \cap healthChecks' = {} /\ DefaultChecks \ unwanted \subseteq healthChecks'
  BY DEF Bootstrap, HealthInv, HealthTypes, HealthChecks, AllChecks, RemovedStaysRemoved
<1>3. /\ new \in ProbeType /\ new.step = "running" /\ new.entries = healthChecks'
      /\ new.calls = healthChecks' /\ new.wasUp = up /\ new.wasDown = AllChecks \ up
      /\ new.passed = ready[r].passed /\ new.failed = ready[r].failed /\ new.late = ready[r].late
      /\ new.removed = unwanted
  BY <1>1, <1>2 DEF ProbeType, HealthChecks, HealthInv, HealthTypes
<1>4. ready' = [ready EXCEPT ![r] = new]
  BY DEF Bootstrap
<1> HIDE DEF new
<1>5. RequestInv(new)
  BY <1>1, <1>2, <1>3 DEF RequestInv
<1>6. ready' \in [Probes -> ProbeType] /\ \A q \in Probes : RequestInv(ready[q])'
  BY <1>2, <1>3, <1>4, <1>5, ProbeStep
<1> QED
  BY <1>2, <1>6 DEF HealthInv, HealthTypes, RemovedStaysRemoved

\* A step of a request that leaves the registry alone.
LEMMA RequestSteps ==
  ASSUME HealthInv, NEW r \in Probes, NEW new \in ProbeType, ready' = [ready EXCEPT ![r] = new],
         UNCHANGED <<healthChecks, bootstrapped, up, unwanted>>, RequestInv(new)
  PROVE  HealthInv'
BY ProbeStep DEF HealthInv, HealthTypes, RemovedStaysRemoved

LEMMA AnswerCheckStep ==
  ASSUME HealthInv, NEW r \in Probes, NEW c \in AllChecks, AnswerCheck(r, c)
  PROVE  HealthInv'
<1> DEFINE passed == IF c \in up \ ready[r].late THEN ready[r].passed \cup {c} ELSE ready[r].passed
           failed == IF c \in up THEN ready[r].failed ELSE ready[r].failed \cup {c}
           new == [ready[r] EXCEPT !.calls = ready[r].calls \ {c}, !.passed = passed, !.failed = failed]
<1>1. ready[r] \in ProbeType /\ RequestInv(ready[r]) /\ c \in ready[r].calls
  BY DEF HealthInv, HealthTypes, AnswerCheck
<1>2. passed \in HealthChecks /\ failed \in HealthChecks
  BY <1>1 DEF ProbeType, HealthChecks
<1>3. ready' = [ready EXCEPT ![r] = new] /\ UNCHANGED <<healthChecks, bootstrapped, up, unwanted>>
  BY DEF AnswerCheck
<1>4. /\ passed \subseteq ready[r].passed \cup {c} /\ (c \in passed => c \in ready[r].passed \/ c \in up \ ready[r].late)
      /\ failed \subseteq ready[r].failed \cup {c} /\ (c \in failed => c \in ready[r].failed \/ c \notin up)
  OBVIOUS
<1> HIDE DEF passed, failed
<1>5. /\ new \in ProbeType /\ new.step = ready[r].step /\ new.entries = ready[r].entries
      /\ new.calls = ready[r].calls \ {c} /\ new.passed = passed /\ new.failed = failed
      /\ new.wasUp = ready[r].wasUp /\ new.wasDown = ready[r].wasDown /\ new.late = ready[r].late
      /\ new.removed = ready[r].removed
  BY <1>1, <1>2 DEF ProbeType, HealthChecks
<1> HIDE DEF new
<1>6. ready[r].step = "running"
  BY <1>1 DEF RequestInv
<1>7. RequestInv(new)
  BY <1>1, <1>4, <1>5, <1>6 DEF RequestInv
<1> QED
  BY <1>3, <1>5, <1>7, RequestSteps

LEMMA TimeOutStep ==
  ASSUME HealthInv, NEW r \in Probes, NEW c \in AllChecks, TimeOutCheck(r, c)
  PROVE  HealthInv'
<1> DEFINE new == [ready[r] EXCEPT !.late = ready[r].late \cup {c}, !.failed = ready[r].failed \cup {c}]
<1>1. ready[r] \in ProbeType /\ RequestInv(ready[r]) /\ c \in ready[r].calls /\ c \in ready[r].wasDown
  BY DEF HealthInv, HealthTypes, TimeOutCheck
<1>2. ready' = [ready EXCEPT ![r] = new] /\ UNCHANGED <<healthChecks, bootstrapped, up, unwanted>>
  BY DEF TimeOutCheck
<1>3. /\ new \in ProbeType /\ new.step = ready[r].step /\ new.entries = ready[r].entries
      /\ new.calls = ready[r].calls /\ new.passed = ready[r].passed /\ new.failed = ready[r].failed \cup {c}
      /\ new.wasUp = ready[r].wasUp /\ new.wasDown = ready[r].wasDown /\ new.late = ready[r].late \cup {c}
      /\ new.removed = ready[r].removed
  BY <1>1 DEF ProbeType, HealthChecks
<1> HIDE DEF new
<1>4. ready[r].step = "running"
  BY <1>1 DEF RequestInv
<1>5. RequestInv(new)
  BY <1>1, <1>3, <1>4 DEF RequestInv
<1> QED
  BY <1>2, <1>3, <1>5, RequestSteps

LEMMA AnswerProbeStep ==
  ASSUME HealthInv, NEW r \in Probes, AnswerProbe(r)
  PROVE  HealthInv'
<1> DEFINE status == Readiness(ready[r].entries, ready[r].passed)
           new == [ready[r] EXCEPT !.step = "answered", !.calls = {}, !.status = status]
<1>1. /\ ready[r] \in ProbeType /\ RequestInv(ready[r]) /\ ready[r].step = "running"
      /\ ready[r].passed \cup ready[r].failed = ready[r].entries
  BY DEF HealthInv, HealthTypes, AnswerProbe
<1>2. /\ status \in {"ok", "fail", "degraded"}
      /\ status = "ok" => ready[r].passed = ready[r].entries
      /\ status = "fail" => ready[r].passed = {} /\ ready[r].entries # {}
  BY DEF Readiness
<1>3. ready' = [ready EXCEPT ![r] = new] /\ UNCHANGED <<healthChecks, bootstrapped, up, unwanted>>
  BY DEF AnswerProbe
<1> HIDE DEF status
<1>4. /\ new \in ProbeType /\ new.step = "answered" /\ new.entries = ready[r].entries
      /\ new.calls = {} /\ new.status = status
      /\ new.wasUp = ready[r].wasUp /\ new.wasDown = ready[r].wasDown /\ new.late = ready[r].late
      /\ new.removed = ready[r].removed
  BY <1>1, <1>2 DEF ProbeType, HealthChecks
<1> HIDE DEF new
<1>5. RequestInv(new)
  BY <1>1, <1>2, <1>4 DEF RequestInv
<1> QED
  BY <1>3, <1>4, <1>5, RequestSteps

\* Whatever is registered, goes up and down, and however many requests race: /readyz is
\* 503 only for a server all of whose checks have been down, 200 and ok only for one
\* whose checks have all been up; the default checks are among them, and what the
\* application removed after the first request is not.
THEOREM ReadyzStaysTrue == HealthSpec => []HealthIsTrue
<1>1. HealthInit => HealthInv
  <2> SUFFICES ASSUME HealthInit PROVE HealthInv
    OBVIOUS
  <2>1. /\ NoProbe \in ProbeType /\ NoProbe.step = "idle" /\ NoProbe.calls = {}
        /\ NoProbe.passed = {} /\ NoProbe.failed = {} /\ NoProbe.late = {}
    BY DEF NoProbe, ProbeType, HealthChecks
  <2>2. \A r \in Probes : RequestInv(ready[r])
    BY <2>1 DEF HealthInit, RequestInv
  <2> QED
    BY <2>1, <2>2 DEF HealthInit, HealthInv, HealthTypes, HealthChecks, RemovedStaysRemoved
<1>2. HealthInv /\ [HealthNext]_healthVars => HealthInv'
  <2> SUFFICES ASSUME HealthInv, [HealthNext]_healthVars
               PROVE  HealthInv'
    OBVIOUS
  <2>1. CASE Livez \/ \E c \in AllChecks : AddCheck(c) \/ RemoveCheck(c)
    BY <2>1, RegistrySteps
  <2>2. CASE \E c \in AllChecks : FlapDependency(c)
    BY <2>2, FlapStep
  <2>3. ASSUME NEW r \in Probes, ArriveProbe(r)
        PROVE  HealthInv'
    <3> DEFINE new == [ready[r] EXCEPT !.step = "bootstrap"]
    <3>1. ready[r] \in ProbeType /\ RequestInv(ready[r]) /\ ready[r].step = "idle"
      BY <2>3 DEF HealthInv, HealthTypes, ArriveProbe
    <3>2. ready' = [ready EXCEPT ![r] = new] /\ UNCHANGED <<healthChecks, bootstrapped, up, unwanted>>
      BY <2>3 DEF ArriveProbe
    <3>3. /\ new \in ProbeType /\ new.step = "bootstrap" /\ new.calls = ready[r].calls
          /\ new.passed = ready[r].passed /\ new.failed = ready[r].failed /\ new.late = ready[r].late
      BY <3>1 DEF ProbeType
    <3> HIDE DEF new
    <3>4. RequestInv(new)
      BY <3>1, <3>3 DEF RequestInv
    <3> QED
      BY <3>2, <3>3, <3>4, RequestSteps
  <2>4. CASE \E r \in Probes : Bootstrap(r)
    BY <2>4, BootstrapStep
  <2>5. CASE \E r \in Probes, c \in AllChecks : AnswerCheck(r, c)
    BY <2>5, AnswerCheckStep
  <2>6. CASE \E r \in Probes, c \in AllChecks : TimeOutCheck(r, c)
    BY <2>6, TimeOutStep
  <2>7. CASE \E r \in Probes : AnswerProbe(r)
    BY <2>7, AnswerProbeStep
  <2>8. CASE UNCHANGED healthVars
    BY <2>8 DEF healthVars, HealthInv, HealthTypes, RequestInv, RemovedStaysRemoved
  <2> QED
    BY <2>1, <2>2, <2>3, <2>4, <2>5, <2>6, <2>7, <2>8 DEF HealthNext
<1>3. HealthInv => HealthIsTrue
  BY DEF HealthInv, HealthIsTrue, ReadyzIsTrue, RequestInv
<1> QED
  BY <1>1, <1>2, <1>3, PTL DEF HealthSpec

-----------------------------------------------------------------------------
(***************************************************************************)
(* The doctor, for any tenants, runs, changes and faults. A check passes   *)
(* over the copy the run read, so the invariant (DoctorInv) relates that   *)
(* copy to what has been wrong all along: whatever lasts from the first    *)
(* read on shows in the copy, and once its check is behind a run it is     *)
(* told, mended, or the check threw.                                       *)
(***************************************************************************)

IsRun(r) ==
  r = [step |-> r.step, server |-> r.server, fix |-> r.fix, only |-> r.only, watch |-> r.watch,
       snap |-> r.snap, snapGone |-> r.snapGone, found |-> r.found, threw |-> r.threw, exit |-> r.exit,
       steady |-> r.steady, lived |-> r.lived, crossed |-> r.crossed, cut |-> r.cut]

\* The steps of a run that come after a check.
AfterQueries == {"report"}
AfterPools == {"queries"} \cup AfterQueries
AfterReplica == {"closing", "pools"} \cup AfterPools
AfterBackups == {"replica", "probing"} \cup AfterReplica
AfterQueues == {"backups"} \cup AfterBackups
AfterBreakers == {"queues"} \cup AfterQueues
AfterMigrated == {"breakers"} \cup AfterBreakers
AfterSchemas == {"migrated"} \cup AfterMigrated
AfterStalled == {"schemas"} \cup AfterSchemas
AfterFailed == {"stalled"} \cup AfterStalled
RunSteps == {"failed"} \cup AfterFailed

\* The steps after the check that looks for a problem.
After(code) ==
  CASE code = "failed"              -> AfterFailed
    [] code = "stalled"             -> AfterStalled
    [] code \in {"missing", "orphan"} -> AfterSchemas
    [] code = "unmigrated"          -> AfterMigrated
    [] code = "open"                -> AfterBreakers
    [] code = "queues"              -> AfterQueues
    [] code = "backups"             -> AfterBackups
    [] code = "replica"             -> AfterReplica
    [] code = "pools"               -> AfterPools
    [] OTHER                        -> AfterQueries

\* Why a problem that was there all along need not be found, or that it was.
Told(r, i) ==
  \/ i \in r.found
  \/ CheckFor(i[1]) \in r.threw
  \/ i[1] = "open" /\ ~r.server
  \/ i[2] \in Patients \ r.only

\* The copy that was read shows what has been so since.
CopyShows(r) ==
  /\ \A t \in r.only :
       /\ <<"failed", t>> \in r.steady => r.snap[t] = "failed"
       /\ <<"stalled", t>> \in r.steady => r.snap[t] = "provisioning"
       /\ <<"missing", t>> \in r.steady => r.snap[t] # "absent" /\ t \notin r.snapGone
       /\ <<"unmigrated", t>> \in r.steady => r.snap[t] = "active"
       /\ t \in r.lived => r.snap[t] # "absent" /\ t \notin r.snapGone
  /\ \A t \in Patients : <<"orphan", t>> \in r.steady => t \in r.snapGone

\* What a check has passed, it has told or mended.
IsTold(r) == \A i \in r.steady : r.step \in After(i[1]) => Told(r, i)

IsMended(r) ==
  r.fix => \A t \in r.only :
             /\ r.step \in AfterStalled => <<"stalled", t>> \notin r.steady
             /\ r.step \in AfterBreakers /\ r.server => <<"open", t>> \notin r.steady

IsNotMisled(r, on) ==
  /\ \A t \in r.lived \cap r.only : <<"orphan", t>> \notin r.found
  /\ <<"replica", NoPatient>> \in r.found => ~on \/ r.crossed
  /\ r.step = "probing" /\ r.cut => r.crossed

RunInv(r, on) ==
  /\ IsRun(r)
  /\ r.step \in RunSteps \cup {"idle", "over"}
  /\ r.only \subseteq Patients
  /\ r.step \notin RunSteps => r.steady = {}
  /\ CopyShows(r)
  /\ IsTold(r)
  /\ IsMended(r)
  /\ IsNotMisled(r, on)

\* Runs that are there together have met.
RunsMeet ==
  \A x, y \in Doctors : x # y /\ doctor[x].step \in RunSteps /\ doctor[y].step \in RunSteps => doctor[x].crossed

ProbeIsHeld == probe => \E x \in Doctors : doctor[x].server /\ doctor[x].step \in {"probing", "closing"}

DoctorInv ==
  /\ doctor = [x \in Doctors |-> doctor[x]]
  /\ \A x \in Doctors : RunInv(doctor[x], replicaUp) /\ doctor[x].steady \subseteq Problems
  /\ RunsMeet
  /\ ProbeIsHeld

-----------------------------------------------------------------------------
(* What a run is told by the problems.                                     *)

\* The check of every problem comes before the report.
LEMMA AllIsAsked ==
  ASSUME NEW code
  PROVE  "report" \in After(code) /\ "failed" \notin After(code)
BY DEF After, AfterFailed, AfterStalled, AfterSchemas, AfterMigrated, AfterBreakers, AfterQueues,
       AfterBackups, AfterReplica, AfterPools, AfterQueries

ProblemIs(i) ==
  \/ \E t \in Patients : i = <<"failed", t>> /\ rowStatus[t] = "failed"
  \/ \E t \in Patients : i = <<"stalled", t>> /\ rowStatus[t] = "provisioning" /\ t \in aged
  \/ \E t \in Patients : i = <<"missing", t>> /\ rowStatus[t] # "absent" /\ t \notin gone /\ schema[t] = "none"
  \/ \E t \in Patients : i = <<"orphan", t>> /\ t \in gone /\ schema[t] # "none"
  \/ \E t \in Patients : i = <<"unmigrated", t>> /\ rowStatus[t] = "active" /\ schema[t] # "migrated"
  \/ \E t \in opened : i = <<"open", t>>
  \/ i = <<"replica", NoPatient>> /\ ~replicaUp
  \/ i \in {<<code, NoPatient>> : code \in {"pools", "queries", "queues", "backups"}} /\ busy

LEMMA ProblemsAre ==
  ASSUME NEW i \in Problems
  PROVE  ProblemIs(i)
<1>1. CASE \E t \in {u \in Patients : rowStatus[u] = "failed"} : i = <<"failed", t>>
  BY <1>1 DEF ProblemIs
<1>2. CASE \E t \in {u \in Patients : rowStatus[u] = "provisioning" /\ u \in aged} : i = <<"stalled", t>>
  BY <1>2 DEF ProblemIs
<1>3. CASE \E t \in {u \in Patients : rowStatus[u] # "absent" /\ u \notin gone /\ schema[u] = "none"} : i = <<"missing", t>>
  BY <1>3 DEF ProblemIs
<1>4. CASE \E t \in {u \in Patients : u \in gone /\ schema[u] # "none"} : i = <<"orphan", t>>
  BY <1>4 DEF ProblemIs
<1>5. CASE \E t \in {u \in Patients : rowStatus[u] = "active" /\ schema[u] # "migrated"} : i = <<"unmigrated", t>>
  BY <1>5 DEF ProblemIs
<1>6. CASE \E t \in opened : i = <<"open", t>>
  BY <1>6 DEF ProblemIs
<1>7. CASE \E code \in (IF replicaUp THEN {} ELSE {"replica"})
                        \cup (IF busy THEN {"pools", "queries", "queues", "backups"} ELSE {}) : i = <<code, NoPatient>>
  BY <1>7 DEF ProblemIs
<1> QED
  BY <1>1, <1>2, <1>3, <1>4, <1>5, <1>6, <1>7 DEF Problems

\* What a run goes on with.
LEMMA RunGoesOn ==
  ASSUME NEW r, NEW n, NEW on, RunInv(r, on), IsRun(n), n.step \in RunSteps,
         n.server = r.server, n.fix = r.fix, n.only = r.only, n.snap = r.snap, n.snapGone = r.snapGone,
         n.steady \subseteq r.steady, n.lived \subseteq r.lived,
         r.found \subseteq n.found, r.threw \subseteq n.threw, r.crossed => n.crossed,
         \A i \in n.steady : n.step \in After(i[1]) => r.step \in After(i[1]) \/ Told(n, i),
         n.fix => \A t \in n.only :
           /\ n.step \in AfterStalled => r.step \in AfterStalled \/ <<"stalled", t>> \notin n.steady
           /\ n.step \in AfterBreakers /\ n.server => r.step \in AfterBreakers \/ <<"open", t>> \notin n.steady,
         \A t \in n.lived \cap n.only : <<"orphan", t>> \in n.found => <<"orphan", t>> \in r.found,
         <<"replica", NoPatient>> \in n.found => <<"replica", NoPatient>> \in r.found \/ ~on \/ n.crossed,
         n.step = "probing" /\ n.cut => n.crossed
  PROVE  RunInv(n, on)
<1>1. CopyShows(n)
  BY DEF RunInv, CopyShows
<1>2. IsTold(n)
  <2> SUFFICES ASSUME NEW i \in n.steady, n.step \in After(i[1]) PROVE Told(n, i)
    BY DEF IsTold
  <2>1. CASE r.step \in After(i[1])
    <3>1. Told(r, i)
      BY <2>1 DEF RunInv, IsTold
    <3> QED
      BY <3>1 DEF Told
  <2> QED
    BY <2>1
<1>3. IsMended(n)
  BY DEF RunInv, IsMended
<1>4. IsNotMisled(n, on)
  BY DEF RunInv, IsNotMisled
<1> QED
  BY <1>1, <1>2, <1>3, <1>4 DEF RunInv

\* Time that passes takes from what has been so all along.
Remembers(r, problems, deleted) == [r EXCEPT !.steady = @ \cap problems, !.lived = @ \ deleted]

LEMMA RemembersLess ==
  ASSUME NEW r, IsRun(r), NEW problems, NEW deleted
  PROVE  LET n == Remembers(r, problems, deleted) IN
         /\ IsRun(n) /\ n.step = r.step /\ n.server = r.server /\ n.fix = r.fix /\ n.only = r.only
         /\ n.watch = r.watch /\ n.snap = r.snap /\ n.snapGone = r.snapGone /\ n.found = r.found
         /\ n.threw = r.threw /\ n.exit = r.exit /\ n.crossed = r.crossed /\ n.cut = r.cut
         /\ n.steady = r.steady \cap problems /\ n.lived = r.lived \ deleted
<1>1. PICK step, server, fix, only, watch, snap, snapGone, found, threw, exit, steady, lived, cross, cut :
        r = [step |-> step, server |-> server, fix |-> fix, only |-> only, watch |-> watch,
             snap |-> snap, snapGone |-> snapGone, found |-> found, threw |-> threw, exit |-> exit,
             steady |-> steady, lived |-> lived, crossed |-> cross, cut |-> cut]
  BY DEF IsRun
<1>2. PICK n : n = Remembers(r, problems, deleted)
  OBVIOUS
<1>3. n = [step |-> step, server |-> server, fix |-> fix, only |-> only, watch |-> watch,
           snap |-> snap, snapGone |-> snapGone, found |-> found, threw |-> threw, exit |-> exit,
           steady |-> steady \cap problems, lived |-> lived \ deleted, crossed |-> cross, cut |-> cut]
  BY <1>1, <1>2 DEF Remembers
<1>4. IsRun(n)
  BY <1>3 DEF IsRun
<1>5. /\ n.step = r.step /\ n.server = r.server /\ n.fix = r.fix /\ n.only = r.only
      /\ n.watch = r.watch /\ n.snap = r.snap /\ n.snapGone = r.snapGone /\ n.found = r.found
      /\ n.threw = r.threw /\ n.exit = r.exit /\ n.crossed = r.crossed /\ n.cut = r.cut
      /\ n.steady = r.steady \cap problems /\ n.lived = r.lived \ deleted
  BY <1>1, <1>3
<1> QED
  BY <1>2, <1>4, <1>5

LEMMA RememberingKeeps ==
  ASSUME NEW r, NEW on, RunInv(r, on), r.step \in RunSteps, NEW problems, NEW deleted
  PROVE  RunInv(Remembers(r, problems, deleted), on)
<1>1. PICK n : n = Remembers(r, problems, deleted)
  OBVIOUS
<1>2. /\ IsRun(n) /\ n.step = r.step /\ n.server = r.server /\ n.fix = r.fix /\ n.only = r.only
      /\ n.snap = r.snap /\ n.snapGone = r.snapGone /\ n.found = r.found
      /\ n.threw = r.threw /\ n.crossed = r.crossed /\ n.cut = r.cut
      /\ n.steady = r.steady \cap problems /\ n.lived = r.lived \ deleted
  BY <1>1, RemembersLess DEF RunInv
<1>3. n.step = "probing" /\ n.cut => n.crossed
  BY <1>2 DEF RunInv, IsNotMisled
<1>4. RunInv(n, on)
  BY <1>2, <1>3, RunGoesOn
<1> QED
  BY <1>1, <1>4

-----------------------------------------------------------------------------
(* A check.                                                                *)

\* The problems a check looks for are those that its next step is after.
LEMMA NextIsAsked ==
  ASSUME NEW code
  PROVE  /\ "stalled" \in After(code) => code = "failed"
         /\ "schemas" \in After(code) => "stalled" \in After(code) \/ code = "stalled"
         /\ "migrated" \in After(code) => "schemas" \in After(code) \/ code \in {"missing", "orphan"}
         /\ "breakers" \in After(code) => "migrated" \in After(code) \/ code = "unmigrated"
         /\ "queues" \in After(code) => "breakers" \in After(code) \/ code = "open"
         /\ "backups" \in After(code) => "queues" \in After(code) \/ code = "queues"
         /\ "replica" \in After(code) => "backups" \in After(code) \/ code = "backups"
         /\ "probing" \in After(code) => "replica" \in After(code)
         /\ "closing" \in After(code) => "probing" \in After(code) \/ code = "replica"
         /\ "pools" \in After(code) => "closing" \in After(code)
         /\ "queries" \in After(code) => "pools" \in After(code) \/ code = "pools"
         /\ "report" \in After(code) => "queries" \in After(code)
              \/ code \notin {"failed", "stalled", "missing", "orphan", "unmigrated", "open", "queues",
                              "backups", "replica", "pools"}
BY DEF After, AfterFailed, AfterStalled, AfterSchemas, AfterMigrated, AfterBreakers, AfterQueues,
       AfterBackups, AfterReplica, AfterPools, AfterQueries

\* A run that goes on to its next step.
Moves(r, step, found, threw, cut) ==
  [r EXCEPT !.step = step, !.found = found, !.threw = threw, !.cut = cut]

LEMMA MovesSets ==
  ASSUME NEW r, IsRun(r), NEW step, NEW found, NEW threw, NEW cut
  PROVE  LET n == Moves(r, step, found, threw, cut) IN
         /\ IsRun(n) /\ n.step = step /\ n.server = r.server /\ n.fix = r.fix /\ n.only = r.only
         /\ n.watch = r.watch /\ n.snap = r.snap /\ n.snapGone = r.snapGone /\ n.found = found
         /\ n.threw = threw /\ n.exit = r.exit /\ n.crossed = r.crossed /\ n.cut = cut
         /\ n.steady = r.steady /\ n.lived = r.lived
<1>1. PICK s, server, fix, only, watch, snap, snapGone, f, t, exit, steady, lived, cross, c :
        r = [step |-> s, server |-> server, fix |-> fix, only |-> only, watch |-> watch,
             snap |-> snap, snapGone |-> snapGone, found |-> f, threw |-> t, exit |-> exit,
             steady |-> steady, lived |-> lived, crossed |-> cross, cut |-> c]
  BY DEF IsRun
<1>2. PICK n : n = Moves(r, step, found, threw, cut)
  OBVIOUS
<1>3. n = [step |-> step, server |-> server, fix |-> fix, only |-> only, watch |-> watch,
           snap |-> snap, snapGone |-> snapGone, found |-> found, threw |-> threw, exit |-> exit,
           steady |-> steady, lived |-> lived, crossed |-> cross, cut |-> cut]
  BY <1>1, <1>2 DEF Moves
<1>4. IsRun(n)
  BY <1>3 DEF IsRun
<1>5. /\ n.step = step /\ n.server = r.server /\ n.fix = r.fix /\ n.only = r.only
      /\ n.watch = r.watch /\ n.snap = r.snap /\ n.snapGone = r.snapGone /\ n.found = found
      /\ n.threw = threw /\ n.exit = r.exit /\ n.crossed = r.crossed /\ n.cut = cut
      /\ n.steady = r.steady /\ n.lived = r.lived
  BY <1>1, <1>3
<1> QED
  BY <1>2, <1>4, <1>5

LEMMA WorldStays ==
  ASSUME UNCHANGED world
  PROVE  Problems' = Problems /\ replicaUp' = replicaUp
BY DEF world, Problems

\* One run goes on, and nothing else.
LEMMA OneRunMoves ==
  ASSUME DoctorInv, NEW x \in Doctors, NEW n, doctor' = [doctor EXCEPT ![x] = n], UNCHANGED world,
         RunInv(n, replicaUp), n.steady \subseteq Problems,
         n.step \in RunSteps => doctor[x].step \in RunSteps /\ (doctor[x].crossed => n.crossed),
         ProbeIsHeld'
  PROVE  DoctorInv'
<1>1. /\ doctor' = [y \in Doctors |-> doctor'[y]] /\ doctor'[x] = n
      /\ \A y \in Doctors : y # x => doctor'[y] = doctor[y]
  BY DEF DoctorInv
<1>2. ASSUME NEW y \in Doctors PROVE RunInv(doctor'[y], replicaUp') /\ doctor'[y].steady \subseteq Problems'
  <2>1. RunInv(doctor'[y], replicaUp) /\ doctor'[y].steady \subseteq Problems
    BY <1>1 DEF DoctorInv
  <2> QED
    BY <2>1, WorldStays
<1>3. RunsMeet'
  BY <1>1 DEF DoctorInv, RunsMeet
<1> QED
  BY <1>1, <1>2, <1>3 DEF DoctorInv

\* A check that changes no table, finds what it looks for, or throws.
Checks(x, step, issues, thrown, cut) ==
  /\ doctor[x].step \in RunSteps /\ step \in RunSteps
  /\ UNCHANGED world
  /\ doctor' = [doctor EXCEPT ![x] =
       Moves(doctor[x], step, doctor[x].found \cup issues, doctor[x].threw \cup thrown, cut)]
  /\ \A i \in doctor[x].steady : step \in After(i[1]) =>
       \/ doctor[x].step \in After(i[1])
       \/ i \in issues
       \/ CheckFor(i[1]) \in thrown
       \/ i[1] = "open" /\ ~doctor[x].server
       \/ i[2] \in Patients \ doctor[x].only
  /\ step \in AfterStalled => doctor[x].step \in AfterStalled
  /\ step \in AfterBreakers => doctor[x].step \in AfterBreakers
  /\ \A t \in doctor[x].lived \cap doctor[x].only : <<"orphan", t>> \notin issues
  /\ <<"replica", NoPatient>> \in issues => ~replicaUp \/ doctor[x].crossed
  /\ step = "probing" => ~cut
  /\ ProbeIsHeld'

LEMMA CheckMoves ==
  ASSUME DoctorInv, NEW x \in Doctors, NEW step, NEW issues, NEW thrown, NEW cut,
         Checks(x, step, issues, thrown, cut)
  PROVE  DoctorInv'
<1> USE DEF Checks
<1> DEFINE r == doctor[x]
<1>1. RunInv(r, replicaUp) /\ IsRun(r) /\ r.steady \subseteq Problems
  BY DEF DoctorInv, RunInv
<1>2. PICK n : n = Moves(r, step, r.found \cup issues, r.threw \cup thrown, cut)
  OBVIOUS
<1>3. /\ IsRun(n) /\ n.step = step /\ n.server = r.server /\ n.fix = r.fix /\ n.only = r.only
      /\ n.snap = r.snap /\ n.snapGone = r.snapGone /\ n.found = r.found \cup issues
      /\ n.threw = r.threw \cup thrown /\ n.crossed = r.crossed /\ n.cut = cut
      /\ n.steady = r.steady /\ n.lived = r.lived
  BY <1>1, <1>2, MovesSets
<1>4. \A i \in n.steady : n.step \in After(i[1]) => r.step \in After(i[1]) \/ Told(n, i)
  BY <1>3 DEF Told
<1>5. \A t \in n.lived \cap n.only : <<"orphan", t>> \in n.found => <<"orphan", t>> \in r.found
  BY <1>3
<1>6. <<"replica", NoPatient>> \in n.found => <<"replica", NoPatient>> \in r.found \/ ~replicaUp \/ n.crossed
  BY <1>3
<1>7. n.step = "probing" /\ n.cut => n.crossed
  BY <1>3
<1>8. /\ n.step \in AfterStalled => r.step \in AfterStalled
      /\ n.step \in AfterBreakers => r.step \in AfterBreakers
  BY <1>3
<1>9. RunInv(n, replicaUp)
  <2> HIDE DEF r
  <2> QED
    BY <1>1, <1>3, <1>4, <1>5, <1>6, <1>7, <1>8, RunGoesOn
<1>10. doctor' = [doctor EXCEPT ![x] = n]
  BY <1>2
<1> QED
  BY <1>1, <1>3, <1>9, <1>10, OneRunMoves

\* A check that finds something.
LEMMA FindsMoves ==
  ASSUME DoctorInv, NEW x \in Doctors, NEW issues, Finds(x, issues), NEW step, step = CheckAfter(doctor[x].step)
  PROVE  doctor' = [doctor EXCEPT ![x] =
           Moves(doctor[x], step, doctor[x].found \cup issues, doctor[x].threw \cup {}, doctor[x].cut)]
<1>1. PICK s, server, fix, only, watch, snap, snapGone, f, t, exit, steady, lived, cross, c :
        doctor[x] = [step |-> s, server |-> server, fix |-> fix, only |-> only, watch |-> watch,
             snap |-> snap, snapGone |-> snapGone, found |-> f, threw |-> t, exit |-> exit,
             steady |-> steady, lived |-> lived, crossed |-> cross, cut |-> c]
  BY DEF DoctorInv, RunInv, IsRun
<1>2. PICK found : found = doctor[x].found \cup issues
  OBVIOUS
<1>3. doctor' = [doctor EXCEPT ![x] = [doctor[x] EXCEPT !.step = step, !.found = found]]
  BY <1>2 DEF Finds, DoctorInv
<1>4. [doctor[x] EXCEPT !.step = step, !.found = found] = Moves(doctor[x], step, found, doctor[x].threw \cup {}, doctor[x].cut)
  BY <1>1 DEF Moves
<1> QED
  BY <1>2, <1>3, <1>4

\* One that throws.
LEMMA ThrowsMoves ==
  ASSUME DoctorInv, NEW x \in Doctors, Throws(x), NEW step, step = CheckAfter(doctor[x].step)
  PROVE  doctor' = [doctor EXCEPT ![x] =
           Moves(doctor[x], step, doctor[x].found \cup {}, doctor[x].threw \cup {doctor[x].step}, doctor[x].cut)]
<1>1. PICK s, server, fix, only, watch, snap, snapGone, f, t, exit, steady, lived, cross, c :
        doctor[x] = [step |-> s, server |-> server, fix |-> fix, only |-> only, watch |-> watch,
             snap |-> snap, snapGone |-> snapGone, found |-> f, threw |-> t, exit |-> exit,
             steady |-> steady, lived |-> lived, crossed |-> cross, cut |-> c]
  BY DEF DoctorInv, RunInv, IsRun
<1>2. PICK threw : threw = doctor[x].threw \cup {doctor[x].step}
  OBVIOUS
<1>3. doctor' = [doctor EXCEPT ![x] = [doctor[x] EXCEPT !.step = step, !.threw = threw]]
  BY <1>2 DEF Throws, DoctorInv
<1>4. [doctor[x] EXCEPT !.step = step, !.threw = threw] = Moves(doctor[x], step, doctor[x].found \cup {}, threw, doctor[x].cut)
  BY <1>1 DEF Moves
<1> QED
  BY <1>2, <1>3, <1>4

\* A check that has no part in the probe leaves it held.
LEMMA ProbeStaysHeld ==
  ASSUME DoctorInv, NEW x \in Doctors, doctor[x].step \notin {"probing", "closing"}, NEW n,
         doctor' = [doctor EXCEPT ![x] = n], UNCHANGED probe
  PROVE  ProbeIsHeld'
<1>1. \A y \in Doctors : y # x => doctor'[y] = doctor[y]
  BY DEF DoctorInv
<1> QED
  BY <1>1 DEF DoctorInv, ProbeIsHeld

\* Where the steps are.
LEMMA StepsAre ==
  /\ "failed" \in RunSteps
  /\ \A step \in {"stalled", "schemas", "migrated", "breakers", "queues", "backups", "replica", "probing",
                  "closing", "pools", "queries", "report"} : step \in RunSteps
  /\ "stalled" \notin AfterStalled
  /\ \A step \in {"schemas", "migrated", "breakers", "queues", "backups", "replica", "probing",
                  "closing", "pools", "queries", "report"} : step \in AfterStalled
  /\ \A step \in {"failed", "stalled", "schemas", "migrated", "breakers"} : step \notin AfterBreakers
  /\ \A step \in {"queues", "backups", "replica", "probing", "closing", "pools", "queries", "report"} :
       step \in AfterBreakers
BY DEF RunSteps, AfterFailed, AfterStalled, AfterSchemas, AfterMigrated, AfterBreakers, AfterQueues,
       AfterBackups, AfterReplica, AfterPools, AfterQueries

LEMMA CheckFailedKeeps ==
  ASSUME DoctorInv, NEW x \in Doctors, CheckFailed(x)
  PROVE  DoctorInv'
<1> DEFINE r == doctor[x]
           issues == {<<"failed", t>> : t \in {u \in Present(x) : r.snap[u] = "failed"}}
<1>1. r.step = "failed" /\ Finds(x, issues) /\ UNCHANGED world /\ UNCHANGED probe
  BY DEF CheckFailed
<1>2. CheckAfter("failed") = "stalled"
  BY DEF CheckAfter
<1>3. doctor' = [doctor EXCEPT ![x] = Moves(r, "stalled", r.found \cup issues, r.threw \cup {}, r.cut)]
  <2> HIDE DEF issues
  <2> QED
    BY <1>1, <1>2, FindsMoves
<1>4. ASSUME NEW i \in r.steady, "stalled" \in After(i[1])
      PROVE  i \in issues \/ i[2] \in Patients \ r.only
  <2>1. i[1] = "failed" /\ ProblemIs(i)
    BY <1>4, NextIsAsked, ProblemsAre DEF DoctorInv
  <2>2. PICK t \in Patients : i = <<"failed", t>>
    BY <2>1 DEF ProblemIs
  <2>3. t \in r.only => r.snap[t] = "failed"
    BY <2>2 DEF DoctorInv, RunInv, CopyShows
  <2> QED
    BY <2>2, <2>3 DEF Present
<1>5. /\ \A t : <<"orphan", t>> \notin issues
      /\ <<"replica", NoPatient>> \notin issues
  OBVIOUS
<1>6. ProbeIsHeld'
  BY <1>1, <1>3, ProbeStaysHeld
<1> HIDE DEF issues
<1>7. Checks(x, "stalled", issues, {}, r.cut)
  BY <1>1, <1>3, <1>4, <1>5, <1>6, StepsAre DEF Checks
<1> QED
  BY <1>7, CheckMoves

LEMMA CheckSchemasKeeps ==
  ASSUME DoctorInv, NEW x \in Doctors, CheckSchemas(x)
  PROVE  DoctorInv'
<1> DEFINE r == doctor[x]
<1>1. r.step = "schemas" /\ UNCHANGED world /\ UNCHANGED probe
  BY DEF CheckSchemas
<1>2. CheckAfter("schemas") = "migrated"
  BY DEF CheckAfter
<1>3. ASSUME NEW i \in r.steady, "migrated" \in After(i[1]), r.step \notin After(i[1])
      PROVE  i[1] \in {"missing", "orphan"} /\ ProblemIs(i)
  BY <1>1, <1>3, NextIsAsked, ProblemsAre DEF DoctorInv
<1>4. CASE Finds(x, Drifts(x))
  <2>1. doctor' = [doctor EXCEPT ![x] = Moves(r, "migrated", r.found \cup Drifts(x), r.threw \cup {}, r.cut)]
    BY <1>1, <1>2, <1>4, FindsMoves
  <2>2. ASSUME NEW i \in r.steady, "migrated" \in After(i[1]), r.step \notin After(i[1])
        PROVE  i \in Drifts(x) \/ i[2] \in Patients \ r.only
    <3>1. CASE \E t \in Patients : i = <<"missing", t>> /\ schema[t] = "none"
      <4>1. PICK t \in Patients : i = <<"missing", t>> /\ schema[t] = "none"
        BY <3>1
      <4>2. t \in r.only => r.snap[t] # "absent" /\ t \notin r.snapGone
        BY <4>1 DEF DoctorInv, RunInv, CopyShows
      <4> QED
        BY <4>1, <4>2 DEF Drifts, Present
    <3>2. CASE \E t \in Patients : i = <<"orphan", t>> /\ schema[t] # "none"
      <4>1. PICK t \in Patients : i = <<"orphan", t>> /\ schema[t] # "none"
        BY <3>2
      <4>2. t \in r.snapGone
        BY <4>1 DEF DoctorInv, RunInv, CopyShows
      <4> QED
        BY <4>1, <4>2 DEF Drifts, Present
    <3> QED
      BY <1>3, <2>2, <3>1, <3>2 DEF ProblemIs
  <2>3. ASSUME NEW t \in r.lived \cap r.only PROVE <<"orphan", t>> \notin Drifts(x)
    <3>1. r.snap[t] # "absent" /\ t \notin r.snapGone /\ t \in Patients
      BY DEF DoctorInv, RunInv, CopyShows
    <3> QED
      BY <3>1 DEF Drifts, Present
  <2>4. <<"replica", NoPatient>> \notin Drifts(x)
    BY DEF Drifts
  <2>5. ProbeIsHeld'
    BY <1>1, <2>1, ProbeStaysHeld
  <2>6. Checks(x, "migrated", Drifts(x), {}, r.cut)
    BY <1>1, <2>1, <2>2, <2>3, <2>4, <2>5, StepsAre DEF Checks
  <2> QED
    BY <2>6, CheckMoves
<1>5. CASE Throws(x)
  <2>1. doctor' = [doctor EXCEPT ![x] = Moves(r, "migrated", r.found \cup {}, r.threw \cup {r.step}, r.cut)]
    BY <1>1, <1>2, <1>5, ThrowsMoves
  <2>2. ASSUME NEW i \in r.steady, "migrated" \in After(i[1]), r.step \notin After(i[1])
        PROVE  CheckFor(i[1]) \in {r.step}
    BY <1>1, <1>3, <2>2 DEF CheckFor
  <2>3. ProbeIsHeld'
    BY <1>1, <2>1, ProbeStaysHeld
  <2>4. Checks(x, "migrated", {}, {r.step}, r.cut)
    BY <1>1, <2>1, <2>2, <2>3, StepsAre DEF Checks
  <2> QED
    BY <2>4, CheckMoves
<1> QED
  BY <1>4, <1>5 DEF CheckSchemas

LEMMA CheckMigratedKeeps ==
  ASSUME DoctorInv, NEW x \in Doctors, CheckMigrated(x)
  PROVE  DoctorInv'
<1> DEFINE r == doctor[x]
           issues == {<<"unmigrated", t>> : t \in {u \in Present(x) : r.snap[u] = "active" /\ schema[u] # "migrated"}}
<1>1. r.step = "migrated" /\ UNCHANGED world /\ UNCHANGED probe
  BY DEF CheckMigrated
<1>2. CheckAfter("migrated") = "breakers"
  BY DEF CheckAfter
<1>3. ASSUME NEW i \in r.steady, "breakers" \in After(i[1]), r.step \notin After(i[1])
      PROVE  i[1] = "unmigrated" /\ ProblemIs(i)
  BY <1>1, <1>3, NextIsAsked, ProblemsAre DEF DoctorInv
<1>4. CASE Finds(x, issues)
  <2>1. doctor' = [doctor EXCEPT ![x] = Moves(r, "breakers", r.found \cup issues, r.threw \cup {}, r.cut)]
    <3> HIDE DEF issues
    <3> QED
      BY <1>1, <1>2, <1>4, FindsMoves
  <2>2. ASSUME NEW i \in r.steady, "breakers" \in After(i[1]), r.step \notin After(i[1])
        PROVE  i \in issues \/ i[2] \in Patients \ r.only
    <3>1. PICK t \in Patients : i = <<"unmigrated", t>> /\ schema[t] # "migrated"
      BY <1>3, <2>2 DEF ProblemIs
    <3>2. t \in r.only => r.snap[t] = "active"
      BY <3>1 DEF DoctorInv, RunInv, CopyShows
    <3> QED
      BY <3>1, <3>2 DEF Present
  <2>3. /\ \A t : <<"orphan", t>> \notin issues
        /\ <<"replica", NoPatient>> \notin issues
    OBVIOUS
  <2>4. ProbeIsHeld'
    BY <1>1, <2>1, ProbeStaysHeld
  <2> HIDE DEF issues
  <2>5. Checks(x, "breakers", issues, {}, r.cut)
    BY <1>1, <2>1, <2>2, <2>3, <2>4, StepsAre DEF Checks
  <2> QED
    BY <2>5, CheckMoves
<1>5. CASE Throws(x)
  <2>1. doctor' = [doctor EXCEPT ![x] = Moves(r, "breakers", r.found \cup {}, r.threw \cup {r.step}, r.cut)]
    BY <1>1, <1>2, <1>5, ThrowsMoves
  <2>2. ASSUME NEW i \in r.steady, "breakers" \in After(i[1]), r.step \notin After(i[1])
        PROVE  CheckFor(i[1]) \in {r.step}
    BY <1>1, <1>3, <2>2 DEF CheckFor
  <2>3. ProbeIsHeld'
    BY <1>1, <2>1, ProbeStaysHeld
  <2>4. Checks(x, "breakers", {}, {r.step}, r.cut)
    BY <1>1, <2>1, <2>2, <2>3, StepsAre DEF Checks
  <2> QED
    BY <2>4, CheckMoves
<1> QED
  BY <1>4, <1>5 DEF CheckMigrated

\* The checks of the queues, the backups, the pools and the queries.
LEMMA CheckBusyKeeps ==
  ASSUME DoctorInv, NEW x \in Doctors, NEW code, NEW step,
         \/ code = "queues" /\ step = "backups"
         \/ code = "backups" /\ step = "replica"
         \/ code = "pools" /\ step = "queries"
         \/ code = "queries" /\ step = "report",
         doctor[x].step = code, UNCHANGED world, UNCHANGED probe,
         Finds(x, IF busy THEN {<<code, NoPatient>>} ELSE {}) \/ (code = "pools" /\ Throws(x))
  PROVE  DoctorInv'
<1> DEFINE r == doctor[x]
           issues == IF busy THEN {<<code, NoPatient>>} ELSE {}
<1>1. CheckAfter(code) = step
  BY DEF CheckAfter
<1>2. step \in RunSteps /\ r.step \in RunSteps /\ r.step \in AfterStalled /\ r.step \in AfterBreakers /\ step # "probing"
      /\ r.step \notin {"probing", "closing"}
  BY StepsAre
<1>3. ASSUME NEW i \in r.steady, step \in After(i[1]), r.step \notin After(i[1])
      PROVE  i = <<code, NoPatient>> /\ busy
  <2>1. ProblemIs(i)
    BY ProblemsAre DEF DoctorInv
  <2>2. \/ i[1] = code
        \/ code = "queries" /\ i[1] \notin {"failed", "stalled", "missing", "orphan", "unmigrated", "open", "queues",
                                            "backups", "replica", "pools"}
    BY <1>3, NextIsAsked
  <2> QED
    BY <2>1, <2>2 DEF ProblemIs
<1>4. CASE Finds(x, issues)
  <2>1. doctor' = [doctor EXCEPT ![x] = Moves(r, step, r.found \cup issues, r.threw \cup {}, r.cut)]
    <3> HIDE DEF issues
    <3> QED
      BY <1>1, <1>4, FindsMoves
  <2>2. \A i \in r.steady : step \in After(i[1]) => r.step \in After(i[1]) \/ i \in issues
    BY <1>3
  <2>3. /\ \A t : <<"orphan", t>> \notin issues
        /\ <<"replica", NoPatient>> \notin issues
    OBVIOUS
  <2>4. ProbeIsHeld'
    BY <1>2, <2>1, ProbeStaysHeld
  <2> HIDE DEF issues
  <2>5. Checks(x, step, issues, {}, r.cut)
    BY <1>2, <2>1, <2>2, <2>3, <2>4 DEF Checks
  <2> QED
    BY <2>5, CheckMoves
<1>5. CASE code = "pools" /\ Throws(x)
  <2>1. doctor' = [doctor EXCEPT ![x] = Moves(r, step, r.found \cup {}, r.threw \cup {r.step}, r.cut)]
    BY <1>1, <1>5, ThrowsMoves
  <2>2. ASSUME NEW i \in r.steady, step \in After(i[1]), r.step \notin After(i[1])
        PROVE  CheckFor(i[1]) \in {r.step}
    BY <1>3, <1>5, <2>2 DEF CheckFor
  <2>3. ProbeIsHeld'
    BY <1>2, <2>1, ProbeStaysHeld
  <2>4. Checks(x, step, {}, {r.step}, r.cut)
    BY <1>2, <2>1, <2>2, <2>3 DEF Checks
  <2> QED
    BY <2>4, CheckMoves
<1> QED
  BY <1>4, <1>5

-----------------------------------------------------------------------------
(* The probe.                                                              *)

LEMMA SendProbeKeeps ==
  ASSUME DoctorInv, NEW x \in Doctors, SendProbe(x)
  PROVE  DoctorInv'
<1> DEFINE r == doctor[x]
<1>1. r.step = "replica" /\ UNCHANGED world /\ probe' = (probe \/ r.server)
  BY DEF SendProbe
<1>2. doctor' = [doctor EXCEPT ![x] = Moves(r, "probing", r.found \cup {}, r.threw \cup {}, FALSE)]
  <2>1. PICK s, server, fix, only, watch, snap, snapGone, f, t, exit, steady, lived, cross, c :
          r = [step |-> s, server |-> server, fix |-> fix, only |-> only, watch |-> watch,
               snap |-> snap, snapGone |-> snapGone, found |-> f, threw |-> t, exit |-> exit,
               steady |-> steady, lived |-> lived, crossed |-> cross, cut |-> c]
    BY DEF DoctorInv, RunInv, IsRun
  <2>2. doctor' = [doctor EXCEPT ![x] = [r EXCEPT !.step = "probing", !.cut = FALSE]]
    BY DEF SendProbe, DoctorInv
  <2>3. [r EXCEPT !.step = "probing", !.cut = FALSE] = Moves(r, "probing", r.found \cup {}, r.threw \cup {}, FALSE)
    BY <2>1 DEF Moves
  <2> QED
    BY <2>2, <2>3
<1>3. IsRun(r)
  BY DEF DoctorInv, RunInv
<1>4. doctor'[x].step = "probing" /\ doctor'[x].server = r.server /\ \A y \in Doctors : y # x => doctor'[y] = doctor[y]
  <2>0. PICK cut : cut = FALSE
    BY Zenon
  <2>1. PICK n : n = Moves(r, "probing", r.found \cup {}, r.threw \cup {}, cut)
    OBVIOUS
  <2>2. n.step = "probing" /\ n.server = r.server
    BY <1>3, <2>1, MovesSets
  <2>3. doctor'[x] = n /\ \A y \in Doctors : y # x => doctor'[y] = doctor[y]
    BY <1>2, <2>0, <2>1 DEF DoctorInv
  <2> QED
    BY <2>2, <2>3
<1>5. ProbeIsHeld'
  BY <1>1, <1>4 DEF DoctorInv, ProbeIsHeld
<1>6. \A i \in r.steady : "probing" \in After(i[1]) => r.step \in After(i[1])
  BY <1>1, NextIsAsked
<1>7. Checks(x, "probing", {}, {}, FALSE)
  BY <1>1, <1>2, <1>5, <1>6, StepsAre DEF Checks
<1> QED
  BY <1>7, CheckMoves

LEMMA ReadProbeKeeps ==
  ASSUME DoctorInv, NEW x \in Doctors, ReadProbe(x)
  PROVE  DoctorInv'
<1> DEFINE r == doctor[x]
<1>1. r.step = "probing" /\ UNCHANGED world /\ UNCHANGED probe
  BY DEF ReadProbe
<1>2. PICK answered \in {replicaUp} \cup (IF r.cut THEN {FALSE} ELSE {}) :
        doctor' = [doctor EXCEPT ![x].step = "closing",
                                 ![x].found = IF answered THEN @ ELSE @ \cup {<<"replica", NoPatient>>}]
  BY DEF ReadProbe
<1>3. PICK issues : issues = IF answered THEN {} ELSE {<<"replica", NoPatient>>}
  OBVIOUS
<1>4. doctor' = [doctor EXCEPT ![x] = Moves(r, "closing", r.found \cup issues, r.threw \cup {}, r.cut)]
  <2>1. PICK s, server, fix, only, watch, snap, snapGone, f, t, exit, steady, lived, cross, c :
          r = [step |-> s, server |-> server, fix |-> fix, only |-> only, watch |-> watch,
               snap |-> snap, snapGone |-> snapGone, found |-> f, threw |-> t, exit |-> exit,
               steady |-> steady, lived |-> lived, crossed |-> cross, cut |-> c]
    BY DEF DoctorInv, RunInv, IsRun
  <2>2. PICK found : found = r.found \cup issues
    OBVIOUS
  <2>3. found = IF answered THEN r.found ELSE r.found \cup {<<"replica", NoPatient>>}
    BY <1>3, <2>2
  <2>4. doctor' = [doctor EXCEPT ![x] = [r EXCEPT !.step = "closing", !.found = found]]
    BY <1>2, <2>3 DEF DoctorInv
  <2>5. [r EXCEPT !.step = "closing", !.found = found] = Moves(r, "closing", found, r.threw \cup {}, r.cut)
    BY <2>1 DEF Moves
  <2> QED
    BY <2>2, <2>4, <2>5
<1>5. IsRun(r) /\ (r.cut => r.crossed)
  BY <1>1 DEF DoctorInv, RunInv, IsNotMisled
<1>6. doctor'[x].step = "closing" /\ doctor'[x].server = r.server /\ \A y \in Doctors : y # x => doctor'[y] = doctor[y]
  BY <1>4, <1>5, MovesSets DEF DoctorInv
<1>7. ProbeIsHeld'
  BY <1>1, <1>6 DEF DoctorInv, ProbeIsHeld
<1>8. ASSUME NEW i \in r.steady, "closing" \in After(i[1]), r.step \notin After(i[1])
      PROVE  i \in issues
  <2>1. i[1] = "replica" /\ ProblemIs(i)
    BY <1>1, <1>8, NextIsAsked, ProblemsAre DEF DoctorInv
  <2>2. i = <<"replica", NoPatient>> /\ ~replicaUp
    BY <2>1 DEF ProblemIs
  <2>3. ~answered
    BY <1>2, <2>2
  <2> QED
    BY <1>3, <2>2, <2>3
<1>9. <<"replica", NoPatient>> \in issues => ~replicaUp \/ r.crossed
  <2>1. CASE r.cut
    BY <1>5, <2>1
  <2>2. CASE ~r.cut
    BY <1>2, <1>3, <2>2
  <2> QED
    BY <2>1, <2>2
<1>10. \A t : <<"orphan", t>> \notin issues
  BY <1>3
<1>11. Checks(x, "closing", issues, {}, r.cut)
  BY <1>1, <1>4, <1>7, <1>8, <1>9, <1>10, StepsAre DEF Checks
<1> QED
  BY <1>11, CheckMoves

\* Several runs go on.
LEMMA ManyRunsMove ==
  ASSUME DoctorInv, doctor' = [y \in Doctors |-> doctor'[y]],
         \A y \in Doctors : RunInv(doctor'[y], replicaUp') /\ doctor'[y].steady \subseteq Problems',
         \A y \in Doctors : doctor'[y].step \in RunSteps =>
           doctor[y].step \in RunSteps /\ (doctor[y].crossed => doctor'[y].crossed),
         ProbeIsHeld'
  PROVE  DoctorInv'
BY DEF DoctorInv, RunsMeet

LEMMA CloseProbeKeeps ==
  ASSUME DoctorInv, NEW x \in Doctors, CloseProbe(x)
  PROVE  DoctorInv'
<1> DEFINE r == doctor[x]
           Cuts(y) == r.server /\ doctor[y].step = "probing"
<1>1. r.step = "closing" /\ UNCHANGED world /\ probe' = (probe /\ ~r.server)
  BY DEF CloseProbe
<1>2. doctor' = [y \in Doctors |->
        IF y = x THEN [r EXCEPT !.step = "pools"]
        ELSE IF Cuts(y) THEN [doctor[y] EXCEPT !.cut = TRUE] ELSE doctor[y]]
  BY DEF CloseProbe
<1>3. doctor' = [y \in Doctors |-> doctor'[y]]
  BY <1>2
<1>4. ASSUME NEW q, IsRun(q) PROVE /\ [q EXCEPT !.step = "pools"] = Moves(q, "pools", q.found, q.threw, q.cut)
                                   /\ [q EXCEPT !.cut = TRUE] = Moves(q, q.step, q.found, q.threw, TRUE)
  <2>1. PICK s, server, fix, only, watch, snap, snapGone, f, t, exit, steady, lived, cross, c :
          q = [step |-> s, server |-> server, fix |-> fix, only |-> only, watch |-> watch,
               snap |-> snap, snapGone |-> snapGone, found |-> f, threw |-> t, exit |-> exit,
               steady |-> steady, lived |-> lived, crossed |-> cross, cut |-> c]
    BY <1>4 DEF IsRun
  <2>2. [q EXCEPT !.step = "pools"] = Moves(q, "pools", q.found, q.threw, q.cut)
    BY <2>1 DEF Moves
  <2>3. [q EXCEPT !.cut = TRUE] = Moves(q, q.step, q.found, q.threw, TRUE)
    BY <2>1 DEF Moves
  <2> QED
    BY <2>2, <2>3
<1>5. \A y \in Doctors : IsRun(doctor[y]) /\ RunInv(doctor[y], replicaUp) /\ doctor[y].steady \subseteq Problems
  BY DEF DoctorInv, RunInv
<1>6. /\ doctor'[x] = Moves(r, "pools", r.found, r.threw, r.cut)
      /\ \A y \in Doctors : y # x =>
           doctor'[y] = IF Cuts(y) THEN Moves(doctor[y], doctor[y].step, doctor[y].found, doctor[y].threw, TRUE)
                        ELSE doctor[y]
  <2>1. doctor'[x] = [r EXCEPT !.step = "pools"]
    BY <1>2
  <2>2. ASSUME NEW y \in Doctors, y # x PROVE doctor'[y] = IF Cuts(y) THEN [doctor[y] EXCEPT !.cut = TRUE] ELSE doctor[y]
    BY <1>2, <2>2
  <2> QED
    BY <1>4, <1>5, <2>1, <2>2
<1> HIDE DEF Cuts
<1>7. RunInv(doctor'[x], replicaUp) /\ doctor'[x].steady \subseteq Problems /\ doctor'[x].step = "pools"
      /\ doctor'[x].crossed = r.crossed
  <2>1. PICK n : n = Moves(r, "pools", r.found, r.threw, r.cut)
    OBVIOUS
  <2>2. /\ IsRun(n) /\ n.step = "pools" /\ n.server = r.server /\ n.fix = r.fix /\ n.only = r.only
        /\ n.snap = r.snap /\ n.snapGone = r.snapGone /\ n.found = r.found
        /\ n.threw = r.threw /\ n.crossed = r.crossed
        /\ n.steady = r.steady /\ n.lived = r.lived
    BY <1>5, <2>1, MovesSets
  <2>3. \A i \in n.steady : n.step \in After(i[1]) => r.step \in After(i[1])
    BY <1>1, <2>2, NextIsAsked
  <2>4. r.step \in AfterStalled /\ r.step \in AfterBreakers /\ n.step \in RunSteps /\ n.step # "probing"
    BY <1>1, <2>2, StepsAre
  <2>5. RunInv(r, replicaUp)
    BY <1>5
  <2> HIDE DEF r
  <2>6. RunInv(n, replicaUp)
    BY <2>2, <2>3, <2>4, <2>5, RunGoesOn
  <2> QED
    BY <1>5, <1>6, <2>1, <2>2, <2>6 DEF r
<1>8. ASSUME NEW y \in Doctors, y # x
      PROVE  /\ RunInv(doctor'[y], replicaUp) /\ doctor'[y].steady \subseteq Problems
             /\ doctor'[y].step = doctor[y].step /\ doctor'[y].crossed = doctor[y].crossed
             /\ doctor'[y].server = doctor[y].server
  <2>1. CASE ~Cuts(y)
    BY <1>5, <1>6, <1>8, <2>1
  <2>2. CASE Cuts(y)
    <3>1. PICK q : q = doctor[y]
      OBVIOUS
    <3>2. PICK n : n = Moves(q, q.step, q.found, q.threw, TRUE)
      OBVIOUS
    <3>3. /\ IsRun(n) /\ n.step = q.step /\ n.server = q.server /\ n.fix = q.fix /\ n.only = q.only
          /\ n.snap = q.snap /\ n.snapGone = q.snapGone /\ n.found = q.found
          /\ n.threw = q.threw /\ n.crossed = q.crossed
          /\ n.steady = q.steady /\ n.lived = q.lived
      <4>1. IsRun(q)
        BY <1>5, <3>1
      <4>2. PICK step, found, threw : step = q.step /\ found = q.found /\ threw = q.threw
        OBVIOUS
      <4>3. PICK cut : cut = TRUE
        BY Zenon
      <4>4. n = Moves(q, step, found, threw, cut)
        BY <3>2, <4>2, <4>3
      <4> QED
        BY <4>1, <4>2, <4>4, MovesSets
    <3>4. q.step = "probing" /\ q.step \in RunSteps /\ r.step \in RunSteps
      BY <1>1, <2>2, <3>1, StepsAre DEF Cuts
    <3>5. q.crossed
      BY <1>8, <3>1, <3>4 DEF DoctorInv, RunsMeet
    <3>6. RunInv(q, replicaUp)
      BY <1>5, <3>1
    <3>7. RunInv(n, replicaUp)
      BY <3>3, <3>4, <3>5, <3>6, RunGoesOn
    <3>8. doctor'[y] = n
      BY <1>6, <1>8, <2>2, <3>1, <3>2
    <3> QED
      BY <1>5, <3>1, <3>3, <3>7, <3>8
  <2> QED
    BY <2>1, <2>2
<1>9. ProbeIsHeld'
  BY <1>1, <1>8 DEF DoctorInv, ProbeIsHeld
<1>10. \A y \in Doctors : doctor'[y].step \in RunSteps =>
         doctor[y].step \in RunSteps /\ (doctor[y].crossed => doctor'[y].crossed)
  BY <1>1, <1>7, <1>8, StepsAre
<1>11. \A y \in Doctors : RunInv(doctor'[y], replicaUp') /\ doctor'[y].steady \subseteq Problems'
  BY <1>1, <1>7, <1>8, WorldStays
<1> QED
  BY <1>3, <1>9, <1>10, <1>11, ManyRunsMove

-----------------------------------------------------------------------------
(* What changes the tables.                                                *)

\* A run sees that the tables have changed.
LEMMA WitnessedKeeps ==
  ASSUME DoctorInv, UNCHANGED replicaUp, NEW y \in Doctors, NEW m, m = Witnessed(y)
  PROVE  /\ RunInv(m, replicaUp') /\ m.steady \subseteq Problems'
         /\ m.step = doctor[y].step /\ m.server = doctor[y].server /\ m.crossed = doctor[y].crossed
         /\ m.steady \subseteq doctor[y].steady /\ m.only = doctor[y].only /\ m.fix = doctor[y].fix
         /\ m.snap = doctor[y].snap /\ m.found = doctor[y].found /\ m.cut = doctor[y].cut
<1> DEFINE q == doctor[y]
<1>1. RunInv(q, replicaUp) /\ IsRun(q)
  BY DEF DoctorInv, RunInv
<1>2. CASE q.step \in RunSteps
  <2>1. m = Remembers(q, Problems', gone')
    BY <1>2 DEF Witnessed, Running, Remembers, RunSteps, AfterFailed, AfterStalled, AfterSchemas, AfterMigrated,
                AfterBreakers, AfterQueues, AfterBackups, AfterReplica, AfterPools, AfterQueries
  <2>2. PICK problems, deleted : problems = Problems' /\ deleted = gone'
    OBVIOUS
  <2>3. RunInv(Remembers(q, problems, deleted), replicaUp)
    BY <1>1, <1>2, RememberingKeeps
  <2>4. /\ m.step = q.step /\ m.server = q.server /\ m.crossed = q.crossed
        /\ m.steady = q.steady \cap problems /\ m.only = q.only /\ m.fix = q.fix
        /\ m.snap = q.snap /\ m.found = q.found /\ m.cut = q.cut
    BY <1>1, <2>1, <2>2, RemembersLess
  <2> QED
    BY <2>1, <2>2, <2>3, <2>4
<1>3. CASE q.step \notin RunSteps
  <2>1. m = q
    BY <1>1, <1>3 DEF Witnessed, Running, RunInv
  <2>2. q.steady = {}
    BY <1>1, <1>3 DEF RunInv
  <2> QED
    BY <1>1, <2>1, <2>2
<1> QED
  BY <1>2, <1>3

\* A tenant changes.
LEMMA ChangeKeeps ==
  ASSUME DoctorInv, NEW t \in Patients, ChangeWorld(t)
  PROVE  DoctorInv'
<1>1. doctor' = [y \in Doctors |-> Witnessed(y)] /\ UNCHANGED <<replicaUp, probe>>
  BY DEF ChangeWorld
<1>2. ASSUME NEW y \in Doctors
      PROVE  /\ RunInv(doctor'[y], replicaUp') /\ doctor'[y].steady \subseteq Problems'
             /\ doctor'[y].step = doctor[y].step /\ doctor'[y].server = doctor[y].server
             /\ doctor'[y].crossed = doctor[y].crossed
  <2>1. PICK m : m = Witnessed(y)
    OBVIOUS
  <2>2. doctor'[y] = m
    BY <1>1, <2>1
  <2> QED
    BY <1>1, <2>1, <2>2, WitnessedKeeps
<1>3. doctor' = [y \in Doctors |-> doctor'[y]]
  BY <1>1
<1>4. ProbeIsHeld'
  BY <1>1, <1>2 DEF DoctorInv, ProbeIsHeld
<1> QED
  BY <1>2, <1>3, <1>4, ManyRunsMove

\* A check that may mend what it finds.
Mends(x, step, issues) ==
  /\ doctor[x].step \in RunSteps /\ step \in RunSteps
  /\ doctor[x].step \notin {"probing", "closing"} /\ step # "probing"
  /\ UNCHANGED <<replicaUp, probe>>
  /\ doctor' = [y \in Doctors |->
       IF y = x THEN [Witnessed(x) EXCEPT !.step = step, !.found = @ \cup issues] ELSE Witnessed(y)]
  /\ \A i \in doctor[x].steady : step \in After(i[1]) =>
       \/ doctor[x].step \in After(i[1])
       \/ i \in issues
       \/ i[1] = "open" /\ ~doctor[x].server
       \/ i[2] \in Patients \ doctor[x].only
  /\ doctor[x].fix => \A t \in doctor[x].only :
       /\ step \in AfterStalled =>
            doctor[x].step \in AfterStalled \/ <<"stalled", t>> \notin doctor[x].steady \cap Problems'
       /\ step \in AfterBreakers /\ doctor[x].server =>
            doctor[x].step \in AfterBreakers \/ <<"open", t>> \notin doctor[x].steady \cap Problems'
  /\ \A t : <<"orphan", t>> \notin issues
  /\ <<"replica", NoPatient>> \notin issues

LEMMA MendsMoves ==
  ASSUME DoctorInv, NEW x \in Doctors, NEW step, NEW issues, Mends(x, step, issues)
  PROVE  DoctorInv'
<1>1. PICK m : m = Witnessed(x)
  OBVIOUS
<1>2. /\ RunInv(m, replicaUp') /\ m.steady \subseteq Problems'
      /\ m.step = doctor[x].step /\ m.server = doctor[x].server /\ m.crossed = doctor[x].crossed
      /\ m.steady \subseteq doctor[x].steady /\ m.only = doctor[x].only /\ m.fix = doctor[x].fix
      /\ IsRun(m)
  BY <1>1, WitnessedKeeps DEF Mends, RunInv
<1>3. PICK found : found = m.found \cup issues
  OBVIOUS
<1>4. PICK n : n = Moves(m, step, found, m.threw, m.cut)
  OBVIOUS
<1>5. doctor'[x] = n
  <2>1. PICK s, server, fix, only, watch, snap, snapGone, f, t, exit, steady, lived, cross, c :
          m = [step |-> s, server |-> server, fix |-> fix, only |-> only, watch |-> watch,
               snap |-> snap, snapGone |-> snapGone, found |-> f, threw |-> t, exit |-> exit,
               steady |-> steady, lived |-> lived, crossed |-> cross, cut |-> c]
    BY <1>2 DEF IsRun
  <2>2. doctor'[x] = [m EXCEPT !.step = step, !.found = found]
    BY <1>1, <1>3 DEF Mends
  <2> QED
    BY <1>4, <2>1, <2>2 DEF Moves
<1>6. /\ IsRun(n) /\ n.step = step /\ n.server = m.server /\ n.fix = m.fix /\ n.only = m.only
      /\ n.snap = m.snap /\ n.snapGone = m.snapGone /\ n.found = m.found \cup issues
      /\ n.threw = m.threw /\ n.crossed = m.crossed
      /\ n.steady = m.steady /\ n.lived = m.lived
  BY <1>2, <1>3, <1>4, MovesSets
<1>7. \A i \in n.steady : n.step \in After(i[1]) => m.step \in After(i[1]) \/ Told(n, i)
  BY <1>2, <1>6 DEF Mends, Told
<1>8. n.fix => \A t \in n.only :
        /\ n.step \in AfterStalled => m.step \in AfterStalled \/ <<"stalled", t>> \notin n.steady
        /\ n.step \in AfterBreakers /\ n.server => m.step \in AfterBreakers \/ <<"open", t>> \notin n.steady
  BY <1>2, <1>6 DEF Mends
<1>9. /\ \A t \in n.lived \cap n.only : <<"orphan", t>> \in n.found => <<"orphan", t>> \in m.found
      /\ <<"replica", NoPatient>> \in n.found => <<"replica", NoPatient>> \in m.found
      /\ n.step \in RunSteps /\ n.step # "probing"
  BY <1>6 DEF Mends
<1>10. RunInv(n, replicaUp')
  <2>1. PICK on : on = replicaUp'
    OBVIOUS
  <2>2. RunInv(m, on)
    BY <1>2, <2>1
  <2>3. RunInv(n, on)
    BY <1>6, <1>7, <1>8, <1>9, <2>2, RunGoesOn
  <2> QED
    BY <2>1, <2>3
<1>11. ASSUME NEW y \in Doctors, y # x
       PROVE  /\ RunInv(doctor'[y], replicaUp') /\ doctor'[y].steady \subseteq Problems'
              /\ doctor'[y].step = doctor[y].step /\ doctor'[y].server = doctor[y].server
              /\ doctor'[y].crossed = doctor[y].crossed
  <2>1. PICK other : other = Witnessed(y)
    OBVIOUS
  <2>2. doctor'[y] = other
    BY <1>11, <2>1 DEF Mends
  <2>3. UNCHANGED replicaUp
    BY DEF Mends
  <2>4. /\ RunInv(other, replicaUp') /\ other.steady \subseteq Problems'
        /\ other.step = doctor[y].step /\ other.server = doctor[y].server
        /\ other.crossed = doctor[y].crossed
    BY <2>1, <2>3, WitnessedKeeps
  <2> QED
    BY <2>2, <2>4
<1>12. doctor' = [y \in Doctors |-> doctor'[y]]
  BY DEF Mends
<1>13. ProbeIsHeld'
  BY <1>11 DEF DoctorInv, ProbeIsHeld, Mends
<1>14. \A y \in Doctors : RunInv(doctor'[y], replicaUp') /\ doctor'[y].steady \subseteq Problems'
  BY <1>2, <1>5, <1>6, <1>10, <1>11
<1>15. \A y \in Doctors : doctor'[y].step \in RunSteps =>
         doctor[y].step \in RunSteps /\ (doctor[y].crossed => doctor'[y].crossed)
  BY <1>2, <1>5, <1>6, <1>11 DEF Mends
<1> QED
  BY <1>12, <1>13, <1>14, <1>15, ManyRunsMove

LEMMA CheckStalledKeeps ==
  ASSUME DoctorInv, NEW x \in Doctors, CheckStalled(x)
  PROVE  DoctorInv'
<1> DEFINE r == doctor[x]
           stalled == {t \in Present(x) \cap aged : r.snap[t] = "provisioning"}
           issues == {<<"stalled", t>> : t \in stalled}
<1>1. /\ r.step = "stalled" /\ UNCHANGED <<replicaUp, probe>>
      /\ rowStatus' = IF r.fix THEN [t \in Patients |-> IF t \in stalled THEN "failed" ELSE rowStatus[t]] ELSE rowStatus
      /\ doctor' = [y \in Doctors |->
           IF y = x THEN [Witnessed(x) EXCEPT !.step = "schemas", !.found = @ \cup issues] ELSE Witnessed(y)]
  BY DEF CheckStalled
<1>2. ASSUME NEW t \in r.only, <<"stalled", t>> \in r.steady PROVE t \in stalled
  <2>1. r.snap[t] = "provisioning" /\ t \in Patients
    BY <1>2 DEF DoctorInv, RunInv, CopyShows
  <2>2. <<"stalled", t>> \in Problems
    BY <1>2 DEF DoctorInv
  <2>3. t \in aged
    BY <2>2, ProblemsAre DEF ProblemIs
  <2> QED
    BY <2>1, <2>3 DEF Present
<1>3. ASSUME NEW i \in r.steady, "schemas" \in After(i[1]), r.step \notin After(i[1])
      PROVE  i \in issues \/ i[2] \in Patients \ r.only
  <2>1. i[1] = "stalled" /\ ProblemIs(i)
    BY <1>1, <1>3, NextIsAsked, ProblemsAre DEF DoctorInv
  <2>2. PICK t \in Patients : i = <<"stalled", t>>
    BY <2>1 DEF ProblemIs
  <2> QED
    BY <1>2, <2>2
<1>4. ASSUME r.fix, NEW t \in r.only PROVE <<"stalled", t>> \notin r.steady \cap Problems'
  <2> SUFFICES ASSUME <<"stalled", t>> \in r.steady PROVE <<"stalled", t>> \notin Problems'
    OBVIOUS
  <2>1. rowStatus'[t] = "failed"
    BY <1>1, <1>2, <1>4 DEF Present
  <2>2. ASSUME <<"stalled", t>> \in Problems' PROVE rowStatus'[t] = "provisioning"
    BY <2>2 DEF Problems
  <2> QED
    BY <2>1, <2>2
<1>5. /\ \A t : <<"orphan", t>> \notin issues
      /\ <<"replica", NoPatient>> \notin issues
  OBVIOUS
<1> HIDE DEF issues
<1>6. Mends(x, "schemas", issues)
  BY <1>1, <1>3, <1>4, <1>5, StepsAre DEF Mends
<1> QED
  BY <1>6, MendsMoves

LEMMA CheckBreakersKeeps ==
  ASSUME DoctorInv, NEW x \in Doctors, CheckBreakers(x)
  PROVE  DoctorInv'
<1> DEFINE r == doctor[x]
           mine == IF r.server THEN opened ELSE {}
           issues == {<<"open", t>> : t \in mine}
<1>1. /\ r.step = "breakers" /\ UNCHANGED <<replicaUp, probe>>
      /\ opened' = IF r.fix THEN opened \ mine ELSE opened
      /\ doctor' = [y \in Doctors |->
           IF y = x THEN [Witnessed(x) EXCEPT !.step = "queues", !.found = @ \cup issues] ELSE Witnessed(y)]
  BY DEF CheckBreakers
<1>2. ASSUME NEW i \in r.steady, "queues" \in After(i[1]), r.step \notin After(i[1])
      PROVE  i \in issues \/ (i[1] = "open" /\ ~r.server)
  <2>1. i[1] = "open" /\ ProblemIs(i)
    BY <1>1, <1>2, NextIsAsked, ProblemsAre DEF DoctorInv
  <2>2. PICK t \in opened : i = <<"open", t>>
    BY <2>1 DEF ProblemIs
  <2> QED
    BY <2>1, <2>2
<1>3. ASSUME r.fix, r.server, NEW t \in r.only PROVE <<"open", t>> \notin r.steady \cap Problems'
  <2>1. opened' = {}
    BY <1>1, <1>3
  <2>2. ASSUME <<"open", t>> \in Problems' PROVE t \in opened'
    BY <2>2 DEF Problems
  <2> QED
    BY <2>1, <2>2
<1>4. /\ \A t : <<"orphan", t>> \notin issues
      /\ <<"replica", NoPatient>> \notin issues
  OBVIOUS
<1> HIDE DEF issues, mine
<1>5. Mends(x, "queues", issues)
  BY <1>1, <1>2, <1>3, <1>4, StepsAre DEF Mends
<1> QED
  BY <1>5, MendsMoves

-----------------------------------------------------------------------------
(* The beginning and the end of a run.                                     *)

\* A run that has read the tenants.
LEMMA BegunIsRight ==
  ASSUME DoctorInv, NEW x, NEW run, IsRun(run), run.only \subseteq Patients, NEW n, n = Begun(x, run)
  PROVE  /\ RunInv(n, replicaUp) /\ n.steady \subseteq Problems
         /\ n.step = "failed" /\ n.crossed = run.crossed /\ n.server = run.server
<1>1. PICK step, server, fix, only, watch, snap, snapGone, found, threw, exit, steady, lived, cross, cut :
        run = [step |-> step, server |-> server, fix |-> fix, only |-> only, watch |-> watch,
             snap |-> snap, snapGone |-> snapGone, found |-> found, threw |-> threw, exit |-> exit,
             steady |-> steady, lived |-> lived, crossed |-> cross, cut |-> cut]
  BY DEF IsRun
<1>2. PICK copy : copy = [t \in Patients |-> IF t \in run.only THEN rowStatus[t] ELSE "absent"]
  OBVIOUS
<1>3. PICK alive : alive = {t \in Patients : rowStatus[t] # "absent"} \ gone
  OBVIOUS
<1>4. n = [step |-> "failed", server |-> server, fix |-> fix, only |-> only, watch |-> watch,
           snap |-> copy, snapGone |-> gone, found |-> {}, threw |-> {}, exit |-> exit,
           steady |-> Problems, lived |-> alive, crossed |-> cross, cut |-> cut]
  BY <1>1, <1>2, <1>3 DEF Begun
<1>5. IsRun(n)
  BY <1>4 DEF IsRun
<1>6. /\ n.step = "failed" /\ n.server = run.server /\ n.only = run.only /\ n.snap = copy /\ n.snapGone = gone
      /\ n.found = {} /\ n.steady = Problems /\ n.lived = alive /\ n.crossed = run.crossed
  BY <1>1, <1>4
<1>7. CopyShows(n)
  <2>1. ASSUME NEW t \in n.only
        PROVE  /\ <<"failed", t>> \in n.steady => n.snap[t] = "failed"
               /\ <<"stalled", t>> \in n.steady => n.snap[t] = "provisioning"
               /\ <<"missing", t>> \in n.steady => n.snap[t] # "absent" /\ t \notin n.snapGone
               /\ <<"unmigrated", t>> \in n.steady => n.snap[t] = "active"
               /\ t \in n.lived => n.snap[t] # "absent" /\ t \notin n.snapGone
    <3>1. n.snap[t] = rowStatus[t]
      BY <1>2, <1>6
    <3>2. /\ <<"failed", t>> \in Problems => rowStatus[t] = "failed"
          /\ <<"stalled", t>> \in Problems => rowStatus[t] = "provisioning"
          /\ <<"missing", t>> \in Problems => rowStatus[t] # "absent" /\ t \notin gone
          /\ <<"unmigrated", t>> \in Problems => rowStatus[t] = "active"
      BY ProblemsAre DEF ProblemIs
    <3> QED
      BY <1>3, <1>6, <3>1, <3>2
  <2>2. ASSUME NEW t \in Patients, <<"orphan", t>> \in n.steady PROVE t \in n.snapGone
    BY <1>6, <2>2, ProblemsAre DEF ProblemIs
  <2> QED
    BY <2>1, <2>2 DEF CopyShows
<1>8. IsTold(n)
  BY <1>6, AllIsAsked DEF IsTold
<1>9. IsMended(n)
  <2>1. "failed" \notin AfterStalled /\ "failed" \notin AfterBreakers
    BY DEF AfterStalled, AfterSchemas, AfterMigrated, AfterBreakers, AfterQueues,
           AfterBackups, AfterReplica, AfterPools, AfterQueries
  <2> QED
    BY <1>6, <2>1 DEF IsMended
<1>10. IsNotMisled(n, replicaUp)
  BY <1>6 DEF IsNotMisled
<1> QED
  BY <1>5, <1>6, <1>7, <1>8, <1>9, <1>10, StepsAre DEF RunInv

\* A run that is over.
LEMMA OverIsRight ==
  ASSUME NEW n, NEW on, IsRun(n), n.step \in {"idle", "over"}, n.only = {}, n.steady = {}, n.found = {}, n.lived = {}
  PROVE  RunInv(n, on)
<1>1. n.step \notin RunSteps
  BY DEF RunSteps, AfterFailed, AfterStalled, AfterSchemas, AfterMigrated, AfterBreakers, AfterQueues,
         AfterBackups, AfterReplica, AfterPools, AfterQueries
<1>2. CopyShows(n) /\ IsTold(n) /\ IsMended(n) /\ IsNotMisled(n, on)
  BY DEF CopyShows, IsTold, IsMended, IsNotMisled
<1> QED
  BY <1>1, <1>2 DEF RunInv

LEMMA EndsKeeps ==
  ASSUME DoctorInv, NEW x \in Doctors, Report(x) \/ StopWatch(x)
  PROVE  DoctorInv'
<1>1. PICK exit : doctor' = [doctor EXCEPT ![x] = [NoDoctor EXCEPT !.step = "over", !.exit = exit]]
  <2>1. CASE Report(x)
    <3>1. PICK code : code = IF \E i \in doctor[x].found : i[1] \in ErrorCodes THEN 1 ELSE 0
      OBVIOUS
    <3>2. doctor' = [doctor EXCEPT ![x] = [NoDoctor EXCEPT !.step = "over", !.exit = code]]
      BY <2>1, <3>1 DEF Report
    <3> QED
      BY <3>2
  <2>2. CASE StopWatch(x)
    <3>1. PICK nobody : nobody = [t \in Patients |-> "absent"]
      OBVIOUS
    <3>2. PICK none : none = NoDoctor
      OBVIOUS
    <3>3. none = [step |-> "idle", server |-> FALSE, fix |-> FALSE, only |-> {}, watch |-> FALSE,
                  snap |-> nobody, snapGone |-> {}, found |-> {}, threw |-> {}, exit |-> 0,
                  steady |-> {}, lived |-> {}, crossed |-> FALSE, cut |-> FALSE]
      BY <3>1, <3>2 DEF NoDoctor
    <3>4. [none EXCEPT !.step = "over"] = [none EXCEPT !.step = "over", !.exit = 0]
      <4>1. PICK one, two : one = [none EXCEPT !.step = "over"] /\ two = [none EXCEPT !.step = "over", !.exit = 0]
        OBVIOUS
      <4>2. one = [step |-> "over", server |-> FALSE, fix |-> FALSE, only |-> {}, watch |-> FALSE,
                   snap |-> nobody, snapGone |-> {}, found |-> {}, threw |-> {}, exit |-> 0,
                   steady |-> {}, lived |-> {}, crossed |-> FALSE, cut |-> FALSE]
        BY <3>3, <4>1
      <4>3. two = [step |-> "over", server |-> FALSE, fix |-> FALSE, only |-> {}, watch |-> FALSE,
                   snap |-> nobody, snapGone |-> {}, found |-> {}, threw |-> {}, exit |-> 0,
                   steady |-> {}, lived |-> {}, crossed |-> FALSE, cut |-> FALSE]
        BY <3>3, <4>1
      <4> QED
        BY <4>1, <4>2, <4>3
    <3> QED
      BY <2>2, <3>2, <3>4 DEF StopWatch
  <2> QED
    BY <2>1, <2>2
<1>2. UNCHANGED world /\ UNCHANGED probe /\ doctor[x].step = "report"
  BY DEF Report, StopWatch
<1>3. PICK n : n = [NoDoctor EXCEPT !.step = "over", !.exit = exit]
  OBVIOUS
<1>4. /\ IsRun(n) /\ n.step = "over" /\ n.only = {} /\ n.steady = {} /\ n.found = {} /\ n.lived = {}
  BY <1>3 DEF NoDoctor, IsRun
<1>5. RunInv(n, replicaUp)
  BY <1>4, OverIsRight
<1>6. n.step \notin RunSteps
  BY <1>4 DEF RunSteps, AfterFailed, AfterStalled, AfterSchemas, AfterMigrated, AfterBreakers, AfterQueues,
              AfterBackups, AfterReplica, AfterPools, AfterQueries
<1>7. doctor' = [doctor EXCEPT ![x] = n]
  BY <1>1, <1>3
<1>8. ProbeIsHeld'
  BY <1>2, <1>7, ProbeStaysHeld
<1> QED
  BY <1>2, <1>4, <1>5, <1>6, <1>7, <1>8, OneRunMoves

LEMMA WatchKeeps ==
  ASSUME DoctorInv, NEW x \in Doctors, WatchAgain(x)
  PROVE  DoctorInv'
<1>1. doctor' = [doctor EXCEPT ![x] = Begun(x, doctor[x])] /\ UNCHANGED world /\ UNCHANGED probe /\ doctor[x].step = "report"
  BY DEF WatchAgain, DoctorInv
<1>2. PICK n : n = Begun(x, doctor[x])
  OBVIOUS
<1>3. IsRun(doctor[x]) /\ doctor[x].only \subseteq Patients
  BY DEF DoctorInv, RunInv
<1>4. RunInv(n, replicaUp) /\ n.steady \subseteq Problems /\ n.crossed = doctor[x].crossed
  BY <1>2, <1>3, BegunIsRight
<1>5. doctor' = [doctor EXCEPT ![x] = n]
  BY <1>1, <1>2
<1>6. ProbeIsHeld'
  BY <1>1, <1>5, ProbeStaysHeld
<1> QED
  BY <1>1, <1>4, <1>5, <1>6, StepsAre, OneRunMoves

\* A run begins: it meets those of the server that are under way, and they meet it.
LEMMA StartKeeps ==
  ASSUME DoctorInv, NEW x \in Doctors, StartDoctor(x)
  PROVE  DoctorInv'
<1>1. doctor[x].step = "idle" /\ UNCHANGED world /\ UNCHANGED probe
  BY DEF StartDoctor
<1>2. PICK met : met = TRUE
  BY Zenon
<1>3. PICK server \in BOOLEAN, fix \in BOOLEAN, watch \in BOOLEAN, only \in {Patients, {SomePatient}} :
        doctor' = [y \in Doctors |->
            IF y = x THEN Begun(x, [NoDoctor EXCEPT !.server = server, !.fix = fix, !.only = only,
                                    !.watch = watch, !.crossed = \E z \in Doctors \ {x} : Running(z)])
            ELSE IF Running(y) THEN [doctor[y] EXCEPT !.crossed = TRUE] ELSE doctor[y]]
  <2>1. \E server, fix, watch \in BOOLEAN, only \in {Patients, {SomePatient}} :
          /\ server => only = Patients /\ ~watch
          /\ watch => ~fix
          /\ \A y \in Doctors \ {x} : Running(y) => server /\ doctor[y].server
          /\ doctor' = [y \in Doctors |->
               IF y = x THEN Begun(x, [NoDoctor EXCEPT !.server = server, !.fix = fix, !.only = only,
                                       !.watch = watch, !.crossed = \E z \in Doctors \ {x} : Running(z)])
               ELSE IF Running(y) THEN [doctor[y] EXCEPT !.crossed = TRUE] ELSE doctor[y]]
    BY ZenonT(60) DEF StartDoctor
  <2> QED
    BY <2>1, ZenonT(60)
<1>4. PICK run : run = [NoDoctor EXCEPT !.server = server, !.fix = fix, !.only = only, !.watch = watch,
                                        !.crossed = \E z \in Doctors \ {x} : Running(z)]
  BY Zenon
<1>5. PICK nobody : nobody = [t \in Patients |-> "absent"]
  OBVIOUS
<1>6. /\ IsRun(run) /\ run.only = only
      /\ (\E z \in Doctors \ {x} : Running(z)) => run.crossed
  BY <1>4, <1>5 DEF NoDoctor, IsRun
<1>7. run.only \subseteq Patients
  BY <1>6, DoctorAssumption
<1>8. PICK n : n = Begun(x, run)
  OBVIOUS
<1>9. /\ RunInv(n, replicaUp) /\ n.steady \subseteq Problems
      /\ n.step = "failed" /\ n.crossed = run.crossed
  BY <1>6, <1>7, <1>8, BegunIsRight
<1>10. /\ doctor' = [y \in Doctors |-> doctor'[y]] /\ doctor'[x] = n
       /\ \A y \in Doctors \ {x} :
            doctor'[y] = IF Running(y) THEN [doctor[y] EXCEPT !.crossed = TRUE] ELSE doctor[y]
  BY <1>3, <1>4, <1>8
<1>11. ASSUME NEW y \in Doctors \ {x}, Running(y)
       PROVE  /\ RunInv(doctor'[y], replicaUp) /\ doctor'[y].steady \subseteq Problems
              /\ doctor'[y].step = doctor[y].step /\ doctor'[y].server = doctor[y].server
              /\ doctor'[y].crossed = TRUE
  <2>1. PICK r : r = doctor[y]
    OBVIOUS
  <2>2. RunInv(r, replicaUp) /\ IsRun(r) /\ r.steady \subseteq Problems /\ r.step \in RunSteps
    BY <1>11, <2>1 DEF DoctorInv, RunInv, Running
  <2>3. PICK step, serv, fx, onl, wat, snap, snapGone, found, threw, exit, steady, lived, cross, cut :
          r = [step |-> step, server |-> serv, fix |-> fx, only |-> onl, watch |-> wat,
               snap |-> snap, snapGone |-> snapGone, found |-> found, threw |-> threw, exit |-> exit,
               steady |-> steady, lived |-> lived, crossed |-> cross, cut |-> cut]
    BY <2>2 DEF IsRun
  <2>4. PICK m : m = doctor'[y]
    OBVIOUS
  <2>5. m = [r EXCEPT !.crossed = met]
    BY <1>2, <1>10, <1>11, <2>1, <2>4
  <2>6. m = [step |-> step, server |-> serv, fix |-> fx, only |-> onl, watch |-> wat,
             snap |-> snap, snapGone |-> snapGone, found |-> found, threw |-> threw, exit |-> exit,
             steady |-> steady, lived |-> lived, crossed |-> met, cut |-> cut]
    BY <2>3, <2>5
  <2>7. IsRun(m)
    BY <2>6 DEF IsRun
  <2>8. /\ m.step = r.step /\ m.server = r.server /\ m.fix = r.fix /\ m.only = r.only
        /\ m.snap = r.snap /\ m.snapGone = r.snapGone /\ m.found = r.found
        /\ m.threw = r.threw /\ m.crossed = met /\ m.cut = r.cut
        /\ m.steady = r.steady /\ m.lived = r.lived
    BY <2>3, <2>6
  <2>9. m.crossed
    BY <1>2, <2>8
  <2>10. m.step \in RunSteps
    BY <2>2, <2>8
  <2>11. RunInv(m, replicaUp)
    BY <2>2, <2>7, <2>8, <2>9, <2>10, RunGoesOn
  <2> QED
    BY <1>2, <2>1, <2>2, <2>4, <2>8, <2>11
<1>12. ASSUME NEW y \in Doctors
       PROVE  RunInv(doctor'[y], replicaUp') /\ doctor'[y].steady \subseteq Problems'
  <2>1. RunInv(doctor'[y], replicaUp) /\ doctor'[y].steady \subseteq Problems
    <3>1. CASE y = x
      BY <3>1, <1>9, <1>10
    <3>2. CASE y # x /\ Running(y)
      BY <3>2, <1>11
    <3>3. CASE y # x /\ ~Running(y)
      BY <3>3, <1>10 DEF DoctorInv
    <3> QED
      BY <3>1, <3>2, <3>3
  <2> QED
    BY <1>1, <2>1, WorldStays
<1>13. \A y \in Doctors \ {x} : doctor'[y].step = doctor[y].step /\ doctor'[y].server = doctor[y].server
  BY <1>10, <1>11
<1>14. RunsMeet'
  <2> SUFFICES ASSUME NEW y \in Doctors, NEW z \in Doctors, y # z, doctor'[y].step \in RunSteps, doctor'[z].step \in RunSteps
               PROVE  doctor'[y].crossed
    BY DEF RunsMeet
  <2>1. \A w \in Doctors \ {x} : doctor'[w].step \in RunSteps => Running(w)
    BY <1>13 DEF Running, RunSteps, AfterFailed, AfterStalled, AfterSchemas, AfterMigrated, AfterBreakers, AfterQueues,
                 AfterBackups, AfterReplica, AfterPools, AfterQueries
  <2>2. CASE y = x
    <3>1. \E w \in Doctors \ {x} : Running(w)
      BY <2>1, <2>2
    <3> QED
      BY <1>6, <1>9, <1>10, <2>2, <3>1
  <2>3. CASE y # x
    BY <1>11, <2>1, <2>3
  <2> QED
    BY <2>2, <2>3
<1>15. ProbeIsHeld'
  <2> SUFFICES ASSUME probe' PROVE \E y \in Doctors : doctor'[y].server /\ doctor'[y].step \in {"probing", "closing"}
    BY DEF ProbeIsHeld
  <2>1. PICK y \in Doctors : doctor[y].server /\ doctor[y].step \in {"probing", "closing"}
    BY <1>1 DEF DoctorInv, ProbeIsHeld
  <2> QED
    BY <1>1, <1>13, <2>1
<1> QED
  BY <1>10, <1>12, <1>14, <1>15 DEF DoctorInv

-----------------------------------------------------------------------------

LEMMA DoctorInvStays ==
  ASSUME DoctorInv, [DoctorNext]_doctorVars
  PROVE  DoctorInv'
<1>1. CASE UNCHANGED doctorVars
  BY <1>1 DEF doctorVars, DoctorInv, RunsMeet, ProbeIsHeld, Problems
<1>2. CASE \E t \in Patients : ChangeWorld(t)
  BY <1>2, ChangeKeeps
<1>3. ASSUME NEW x \in Doctors, StartDoctor(x) \/ CheckFailed(x) \/ CheckStalled(x) \/ CheckSchemas(x) \/ CheckMigrated(x)
      PROVE  DoctorInv'
  BY <1>3, StartKeeps, CheckFailedKeeps, CheckStalledKeeps, CheckSchemasKeeps, CheckMigratedKeeps
<1>4. ASSUME NEW x \in Doctors, SendProbe(x) \/ ReadProbe(x) \/ CloseProbe(x) \/ CheckBreakers(x)
      PROVE  DoctorInv'
  BY <1>4, SendProbeKeeps, ReadProbeKeeps, CloseProbeKeeps, CheckBreakersKeeps
<1>5. ASSUME NEW x \in Doctors, CheckQueues(x) \/ CheckBackups(x) \/ CheckPools(x) \/ CheckQueries(x)
      PROVE  DoctorInv'
  <2>1. CASE CheckQueues(x)
    <3>1. /\ doctor[x].step = "queues" /\ UNCHANGED world /\ UNCHANGED probe
          /\ Finds(x, IF busy THEN {<<"queues", NoPatient>>} ELSE {})
      BY <2>1 DEF CheckQueues
    <3>2. PICK code, step : code = "queues" /\ step = "backups"
      OBVIOUS
    <3> QED
      BY <3>1, <3>2, CheckBusyKeeps
  <2>2. CASE CheckBackups(x)
    <3>1. /\ doctor[x].step = "backups" /\ UNCHANGED world /\ UNCHANGED probe
          /\ Finds(x, IF busy THEN {<<"backups", NoPatient>>} ELSE {})
      BY <2>2 DEF CheckBackups
    <3>2. PICK code, step : code = "backups" /\ step = "replica"
      OBVIOUS
    <3> QED
      BY <3>1, <3>2, CheckBusyKeeps
  <2>3. CASE CheckPools(x)
    <3>1. /\ doctor[x].step = "pools" /\ UNCHANGED world /\ UNCHANGED probe
          /\ Finds(x, IF busy THEN {<<"pools", NoPatient>>} ELSE {}) \/ Throws(x)
      BY <2>3 DEF CheckPools
    <3>2. PICK code, step : code = "pools" /\ step = "queries"
      OBVIOUS
    <3> QED
      BY <3>1, <3>2, CheckBusyKeeps
  <2>4. CASE CheckQueries(x)
    <3>1. /\ doctor[x].step = "queries" /\ UNCHANGED world /\ UNCHANGED probe
          /\ Finds(x, IF busy THEN {<<"queries", NoPatient>>} ELSE {})
      BY <2>4 DEF CheckQueries
    <3>2. PICK code, step : code = "queries" /\ step = "report"
      OBVIOUS
    <3> QED
      BY <3>1, <3>2, CheckBusyKeeps
  <2> QED
    BY <1>5, <2>1, <2>2, <2>3, <2>4
<1>6. ASSUME NEW x \in Doctors, Report(x) \/ WatchAgain(x) \/ StopWatch(x)
      PROVE  DoctorInv'
  BY <1>6, EndsKeeps, WatchKeeps
<1> QED
  BY <1>1, <1>2, <1>3, <1>4, <1>5, <1>6 DEF DoctorNext

LEMMA DoctorInvBegins ==
  ASSUME DoctorInit
  PROVE  DoctorInv
<1>1. doctor = [x \in Doctors |-> NoDoctor] /\ probe = FALSE
  BY DEF DoctorInit
<1>2. PICK n : n = NoDoctor
  OBVIOUS
<1>3. IsRun(n) /\ n.step = "idle" /\ n.only = {} /\ n.steady = {} /\ n.found = {} /\ n.lived = {}
  BY <1>2 DEF NoDoctor, IsRun
<1>4. RunInv(n, replicaUp)
  BY <1>3, OverIsRight
<1>5. n.step \notin RunSteps
  BY <1>3 DEF RunSteps, AfterFailed, AfterStalled, AfterSchemas, AfterMigrated, AfterBreakers, AfterQueues,
              AfterBackups, AfterReplica, AfterPools, AfterQueries
<1>6. doctor = [x \in Doctors |-> doctor[x]] /\ \A x \in Doctors : doctor[x] = n
  BY <1>1, <1>2
<1>7. RunsMeet
  BY <1>5, <1>6 DEF RunsMeet
<1>8. ProbeIsHeld
  BY <1>1 DEF ProbeIsHeld
<1> QED
  BY <1>3, <1>4, <1>6, <1>7, <1>8 DEF DoctorInv

LEMMA DoctorInvIsEnough ==
  ASSUME DoctorInv
  PROVE  ReportsAreRight
<1>1. ProbeIsClosed
  BY DEF ProbeIsClosed, DoctorInv, ProbeIsHeld, Running
<1>2. ASSUME NEW x \in Doctors PROVE LastingProblemsAreFound(x) /\ OnlyRacesMislead(x) /\ FixesTakeEffect(x)
  <2>1. RunInv(doctor[x], replicaUp)
    BY DEF DoctorInv
  <2>2. LastingProblemsAreFound(x)
    <3> SUFFICES ASSUME doctor[x].step = "report", NEW i \in doctor[x].steady PROVE Told(doctor[x], i)
      BY DEF LastingProblemsAreFound, Told
    <3>1. doctor[x].step \in After(i[1])
      BY AllIsAsked
    <3> QED
      BY <2>1, <3>1 DEF RunInv, IsTold
  <2>3. OnlyRacesMislead(x)
    BY <2>1 DEF OnlyRacesMislead, RunInv, IsNotMisled
  <2>4. FixesTakeEffect(x)
    <3>1. "report" \in AfterStalled /\ "report" \in AfterBreakers
      BY DEF AfterStalled, AfterSchemas, AfterMigrated, AfterBreakers, AfterQueues,
             AfterBackups, AfterReplica, AfterPools, AfterQueries
    <3> QED
      BY <2>1, <3>1 DEF FixesTakeEffect, RunInv, IsMended
  <2> QED
    BY <2>2, <2>3, <2>4
<1> QED
  BY <1>1, <1>2 DEF ReportsAreRight

\* A report (doctor_service.ts and the checks) names all that was wrong from its first
\* read to its end, misleads only where two runs met, what it fixed does not last it, and
\* no run leaves the probe of the replica behind: for any tenants that change under any
\* number of runs.
THEOREM ReportsStayRight == DoctorSpec => []ReportsAreRight
<1>1. DoctorInit => DoctorInv
  BY DoctorInvBegins
<1>2. DoctorInv /\ [DoctorNext]_doctorVars => DoctorInv'
  BY DoctorInvStays
<1>3. DoctorInv => ReportsAreRight
  BY DoctorInvIsEnough
<1> QED
  BY <1>1, <1>2, <1>3, PTL DEF DoctorSpec

=============================================================================
