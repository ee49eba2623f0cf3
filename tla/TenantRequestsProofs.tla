------------------------- MODULE TenantRequestsProofs -------------------------
(***************************************************************************)
(* Proofs about the connection map, for any number of tenants, requests    *)
(* and connections: who may lose a connection, and how many are open.      *)
(***************************************************************************)
EXTENDS TenantRequests, SequenceTheorems, FiniteSetTheorems, TLAPS

-----------------------------------------------------------------------------
(* Deleting a name from a sequence that names each thing once.             *)

\* What precedes what in d precedes it in s.
Thinned(d, s) ==
  \A i, j \in 1..Len(d) : i < j =>
    \E k, l \in 1..Len(s) : k < l /\ d[i] = s[k] /\ d[j] = s[l]

LEMMA WithoutEntries ==
  ASSUME NEW T, NEW s \in Seq(T), NEW p \in 1..Len(s)
  PROVE  /\ RemoveAt(s, p) \in Seq(T)
         /\ Len(RemoveAt(s, p)) = Len(s) - 1
         /\ \A i \in 1..(Len(s) - 1) : RemoveAt(s, p)[i] = IF i < p THEN s[i] ELSE s[i + 1]
<1> DEFINE a == SubSeq(s, 1, p - 1)
           b == SubSeq(s, p + 1, Len(s))
<1>1. Len(s) \in Nat /\ p \in Nat /\ 1 <= p /\ p <= Len(s) /\ \A i \in 1..Len(s) : s[i] \in T
  BY LenProperties
<1>2. a \in Seq(T) /\ Len(a) = p - 1 /\ \A i \in 1..(p - 1) : a[i] = s[i]
  BY <1>1, SubSeqProperties
<1>3. b \in Seq(T) /\ Len(b) = Len(s) - p /\ \A i \in 1..(Len(s) - p) : b[i] = s[p + i]
  BY <1>1, SubSeqProperties
<1> HIDE DEF a, b
<1>4. /\ a \o b \in Seq(T)
      /\ Len(a \o b) = Len(a) + Len(b)
      /\ \A i \in 1..(Len(a) + Len(b)) : (a \o b)[i] = IF i <= Len(a) THEN a[i] ELSE b[i - Len(a)]
  BY <1>2, <1>3, ConcatProperties
<1>5. \A i \in 1..(Len(s) - 1) : (a \o b)[i] = IF i < p THEN s[i] ELSE s[i + 1]
  <2> TAKE i \in 1..(Len(s) - 1)
  <2>1. CASE i < p
    BY <1>1, <1>2, <1>3, <1>4, <2>1
  <2>2. CASE ~(i < p)
    <3>1. (i - (p - 1)) \in 1..(Len(s) - p) /\ p + (i - (p - 1)) = i + 1
      BY <1>1, <2>2
    <3>2. (a \o b)[i] = b[i - (p - 1)]
      BY <1>1, <1>2, <1>3, <1>4, <2>2
    <3> QED
      BY <1>3, <2>2, <3>1, <3>2
  <2> QED
    BY <2>1, <2>2
<1>6. RemoveAt(s, p) = a \o b
  BY DEF RemoveAt, a, b
<1>7. Len(a) + Len(b) = Len(s) - 1
  BY <1>1, <1>2, <1>3
<1> QED
  BY <1>4, <1>5, <1>6, <1>7

LEMMA WithoutProperties ==
  ASSUME NEW T, NEW s \in Seq(T), IsInjective(s), NEW t
  PROVE  /\ Without(s, t) \in Seq(T)
         /\ IsInjective(Without(s, t))
         /\ ToSet(Without(s, t)) = ToSet(s) \ {t}
         /\ Thinned(Without(s, t), s)
         /\ Len(Without(s, t)) = IF t \in ToSet(s) THEN Len(s) - 1 ELSE Len(s)
<1>1. Len(s) \in Nat /\ DOMAIN s = 1..Len(s)
  BY LenProperties
<1>2. CASE t \notin ToSet(s)
  <2>1. Thinned(s, s)
    BY <1>1 DEF Thinned
  <2>2. Without(s, t) = s /\ ToSet(s) = ToSet(s) \ {t}
    BY <1>2 DEF Without
  <2> QED
    BY <1>2, <2>1, <2>2
<1>3. CASE t \in ToSet(s)
  <2> DEFINE p == CHOOSE i \in DOMAIN s : s[i] = t
             d == RemoveAt(s, p)
  <2>1. p \in 1..Len(s) /\ s[p] = t
    BY <1>1, <1>3 DEF ToSet
  <2>2. Without(s, t) = d
    BY <1>3 DEF Without
  <2> HIDE DEF p
  <2>3. /\ d \in Seq(T) /\ Len(d) = Len(s) - 1
        /\ \A i \in 1..(Len(s) - 1) : d[i] = IF i < p THEN s[i] ELSE s[i + 1]
    BY <2>1, WithoutEntries
  <2> HIDE DEF d
  <2>4. DOMAIN d = 1..(Len(s) - 1)
    BY <2>3, LenProperties
  <2> DEFINE from(i) == IF i < p THEN i ELSE i + 1
             old == 1..Len(s)
             new == 1..(Len(s) - 1)
  <2>5. \A i \in new : from(i) \in old /\ from(i) # p
    BY <1>1, <2>1
  <2>6. \A i \in new : d[i] = s[from(i)]
    BY <2>3
  <2>7. \A i, j \in new : i < j => from(i) < from(j)
    BY <1>1, <2>1
  <2>8. \A i, j \in new : from(i) = from(j) => i = j
    BY <1>1, <2>1
  <2>9. \A k \in old \ {p} : \E i \in new : from(i) = k
    <3> TAKE k \in old \ {p}
    <3>1. CASE k < p
      BY <1>1, <2>1, <3>1
    <3>2. CASE k > p
      <4>1. k - 1 \in new /\ from(k - 1) = k
        BY <1>1, <2>1, <3>2
      <4> QED
        BY <4>1
    <3> QED
      BY <1>1, <2>1, <3>1, <3>2
  <2>10. old = DOMAIN s /\ new = DOMAIN d /\ p \in old /\ new = 1..Len(d)
    BY <1>1, <2>1, <2>3, <2>4
  <2> HIDE DEF from, old, new
  <2>11. IsInjective(d)
    BY <2>5, <2>6, <2>8, <2>10 DEF IsInjective
  <2>12. ToSet(d) = ToSet(s) \ {t}
    <3>1. \A k \in old : s[k] = t => k = p
      BY <2>1, <2>10 DEF IsInjective
    <3>2. ASSUME NEW u \in ToSet(d) PROVE u \in ToSet(s) \ {t}
      BY <2>5, <2>6, <2>10, <3>1, <3>2 DEF ToSet
    <3>3. ASSUME NEW u \in ToSet(s) \ {t} PROVE u \in ToSet(d)
      BY <2>1, <2>6, <2>9, <2>10, <3>3 DEF ToSet
    <3> QED
      BY <3>2, <3>3
  <2>13. Thinned(d, s)
    BY <2>5, <2>6, <2>7, <2>10 DEF Thinned, old
  <2> QED
    BY <1>3, <2>2, <2>3, <2>11, <2>12, <2>13
<1> QED
  BY <1>2, <1>3

LEMMA TouchedProperties ==
  ASSUME PoolTypeOK, NEW t \in Tenants
  PROVE  /\ Touched(t) \in Seq(Tenants)
         /\ IsInjective(Touched(t))
         /\ ToSet(Touched(t)) = ToSet(lru) \cup {t}
         /\ Len(Touched(t)) = IF t \in ToSet(lru) THEN Len(lru) ELSE Len(lru) + 1
         /\ Touched(t)[Len(Touched(t))] = t
         /\ \A i \in 1..(Len(Touched(t)) - 1) : Touched(t)[i] # t
         /\ \A i, j \in 1..(Len(Touched(t)) - 1) : i < j =>
              \E k, l \in 1..Len(lru) : k < l /\ Touched(t)[i] = lru[k] /\ Touched(t)[j] = lru[l]
<1> DEFINE d == Without(lru, t)
           a == Append(d, t)
<1>1. lru \in Seq(Tenants) /\ IsInjective(lru) /\ Len(lru) \in Nat
  BY LenProperties DEF PoolTypeOK
<1>2. /\ d \in Seq(Tenants) /\ IsInjective(d) /\ ToSet(d) = ToSet(lru) \ {t} /\ Thinned(d, lru)
      /\ Len(d) = IF t \in ToSet(lru) THEN Len(lru) - 1 ELSE Len(lru)
  BY <1>1, WithoutProperties
<1> HIDE DEF d
<1>3. Len(d) \in Nat /\ DOMAIN d = 1..Len(d)
  BY <1>2, LenProperties
<1>4. /\ a \in Seq(Tenants) /\ Len(a) = Len(d) + 1
      /\ \A i \in 1..Len(d) : a[i] = d[i]
      /\ a[Len(d) + 1] = t
  BY <1>2, AppendProperties
<1> HIDE DEF a
<1>5. DOMAIN a = 1..(Len(d) + 1)
  BY <1>4, LenProperties
<1>6. \A i \in 1..Len(d) : d[i] # t
  BY <1>2, <1>3 DEF ToSet
<1>7. IsInjective(a)
  <2> SUFFICES ASSUME NEW i \in 1..(Len(d) + 1), NEW j \in 1..(Len(d) + 1), a[i] = a[j]
               PROVE  i = j
    BY <1>5 DEF IsInjective
  <2>1. CASE i \in 1..Len(d) /\ j \in 1..Len(d)
    BY <1>2, <1>3, <1>4, <2>1 DEF IsInjective
  <2>2. CASE i = Len(d) + 1 \/ j = Len(d) + 1
    BY <1>3, <1>4, <1>6, <2>2
  <2> QED
    BY <1>3, <2>1, <2>2
<1>8. ToSet(a) = ToSet(lru) \cup {t}
  <2>1. ToSet(a) = {a[i] : i \in 1..Len(d)} \cup {a[Len(d) + 1]}
    BY <1>3, <1>5 DEF ToSet
  <2>2. {a[i] : i \in 1..Len(d)} = ToSet(d)
    BY <1>3, <1>4 DEF ToSet
  <2> QED
    BY <1>2, <1>4, <2>1, <2>2
<1>9. a = Touched(t)
  BY DEF a, d, Touched
<1>10. Len(a) - 1 = Len(d) /\ Len(a) = IF t \in ToSet(lru) THEN Len(lru) ELSE Len(lru) + 1
  BY <1>1, <1>2, <1>3, <1>4
<1>11. \A i, j \in 1..(Len(a) - 1) : i < j =>
         \E k, l \in 1..Len(lru) : k < l /\ a[i] = lru[k] /\ a[j] = lru[l]
  BY <1>2, <1>4, <1>10 DEF Thinned
<1>12. a[Len(a)] = t /\ \A i \in 1..(Len(a) - 1) : a[i] # t
  BY <1>4, <1>6, <1>10
<1>13. Touched(t) \in Seq(Tenants) /\ IsInjective(Touched(t))
  BY <1>4, <1>7, <1>9
<1>14. ToSet(Touched(t)) = ToSet(lru) \cup {t}
  BY <1>8, <1>9
<1>15. Len(Touched(t)) = IF t \in ToSet(lru) THEN Len(lru) ELSE Len(lru) + 1
  BY <1>9, <1>10
<1>16. Touched(t)[Len(Touched(t))] = t /\ \A i \in 1..(Len(Touched(t)) - 1) : Touched(t)[i] # t
  BY <1>9, <1>12
<1>17. \A i, j \in 1..(Len(Touched(t)) - 1) : i < j =>
         \E k, l \in 1..Len(lru) : k < l /\ Touched(t)[i] = lru[k] /\ Touched(t)[j] = lru[l]
  BY <1>9, <1>11
<1> QED
  BY <1>13, <1>14, <1>15, <1>16, <1>17

LEMMA TailProperties ==
  ASSUME NEW T, NEW s \in Seq(T), IsInjective(s), s # <<>>
  PROVE  /\ Tail(s) \in Seq(T) /\ IsInjective(Tail(s))
         /\ Len(Tail(s)) = Len(s) - 1
         /\ \A i \in 1..(Len(s) - 1) : Tail(s)[i] = s[i + 1]
         /\ Head(s) = s[1]
         /\ ToSet(Tail(s)) = ToSet(s) \ {Head(s)}
<1>1. Len(s) \in Nat \ {0} /\ DOMAIN s = 1..Len(s)
  BY LenProperties, EmptySeq
<1>2. /\ Tail(s) \in Seq(T) /\ Len(Tail(s)) = Len(s) - 1
      /\ \A i \in 1..(Len(s) - 1) : Tail(s)[i] = s[i + 1]
  BY HeadTailProperties
<1>3. DOMAIN Tail(s) = 1..(Len(s) - 1)
  BY <1>2, LenProperties
<1>4. Head(s) = s[1]
  OBVIOUS
<1>5. IsInjective(Tail(s))
  BY <1>1, <1>2, <1>3 DEF IsInjective
<1>6. \A i \in 1..Len(s) : s[i] = s[1] => i = 1
  BY <1>1 DEF IsInjective
<1>7. ASSUME NEW u \in ToSet(Tail(s)) PROVE u \in ToSet(s) \ {s[1]}
  BY <1>1, <1>2, <1>3, <1>6, <1>7 DEF ToSet
<1>8. ASSUME NEW u \in ToSet(s) \ {s[1]} PROVE u \in ToSet(Tail(s))
  <2> PICK i \in 1..Len(s) : u = s[i]
    BY <1>1 DEF ToSet
  <2>1. i - 1 \in 1..(Len(s) - 1) /\ (i - 1) + 1 = i
    BY <1>1, <1>8
  <2> QED
    BY <1>2, <1>3, <2>1 DEF ToSet
<1> QED
  BY <1>2, <1>4, <1>5, <1>7, <1>8

-----------------------------------------------------------------------------
(* The invariant. StaysRegistered says nothing of why a name is still in   *)
(* the map, nor OpenIsBounded of which connections are open.               *)

\* Whoever comes later in the map was connected since.
OrderInv == \A i, j \in 1..Len(lru) : i < j => lru[j] \in since[lru[i]]

\* A tenant that need not worry is in the map with its connection untouched, or
\* was evicted when its time had come.
SureInv ==
  \A t \in Tenants \ unsure :
    \/ t \in ToSet(lru) /\ t \in registered /\ releasing[t] = 0
    \/ t \notin ToSet(lru) /\ Cardinality(since[t]) >= Cap

\* Until a connect crosses a release the map names the open connections.
CalmInv == ~raced => registered \ BeingReleased = ToSet(lru) /\ Len(lru) <= Cap

PoolInv == PoolTypeOK /\ OrderInv /\ SureInv /\ CalmInv

LEMMA PoolInitInv == PoolInit => PoolInv
<1> SUFFICES ASSUME PoolInit PROVE PoolInv
  OBVIOUS
<1>1. lru = <<>> /\ Len(lru) = 0 /\ lru \in Seq(Tenants) /\ DOMAIN lru = {}
  BY DEF PoolInit
<1>2. PoolTypeOK
  <2>1. IsInjective(lru)
    BY <1>1 DEF IsInjective
  <2>2. raced \in BOOLEAN
    BY DEF PoolInit
  <2>3. releasing \in [Tenants -> 0..MaxReleases]
    BY PoolAssumption DEF PoolInit
  <2> QED
    BY <1>1, <2>1, <2>2, <2>3 DEF PoolInit, PoolTypeOK
<1>3. OrderInv /\ SureInv
  BY <1>1 DEF PoolInit, OrderInv, SureInv
<1>4. CalmInv
  BY <1>1, PoolAssumption DEF PoolInit, CalmInv, BeingReleased, ToSet
<1> QED
  BY <1>2, <1>3, <1>4 DEF PoolInv

\* A history set only grows.
LEMMA SinceGrows ==
  ASSUME NEW A \in SUBSET Tenants, NEW B \in SUBSET A, Cardinality(B) >= Cap
  PROVE  Cardinality(A) >= Cap
<1>1. IsFiniteSet(A) /\ IsFiniteSet(B)
  BY PoolAssumption, FS_Subset
<1>2. Cardinality(B) <= Cardinality(A) /\ Cardinality(A) \in Nat /\ Cardinality(B) \in Nat
  BY <1>1, FS_Subset, FS_CardinalityType
<1> QED
  BY <1>2, PoolAssumption

\* Everyone but t has seen t connect; t starts anew.
LEMMA SinceConnect ==
  ASSUME PoolTypeOK, NEW t \in Tenants, NoteConnect(t)
  PROVE  /\ since' \in [Tenants -> SUBSET Tenants]
         /\ \A u \in Tenants \ {t} : since'[u] = since[u] \cup {t}
  BY DEF PoolTypeOK, NoteConnect

\* In the order of the new map, later names have connected since earlier ones.
LEMMA TouchedOrder ==
  ASSUME PoolInv, NEW t \in Tenants, NoteConnect(t),
         NEW i \in 1..Len(Touched(t)), NEW j \in 1..Len(Touched(t)), i < j
  PROVE  Touched(t)[j] \in since'[Touched(t)[i]]
<1> DEFINE s == Touched(t)
<1>0. PoolTypeOK
  BY DEF PoolInv
<1>1. /\ s \in Seq(Tenants) /\ s[Len(s)] = t /\ \A k \in 1..(Len(s) - 1) : s[k] # t
      /\ \A k, l \in 1..(Len(s) - 1) : k < l =>
           \E m, n \in 1..Len(lru) : m < n /\ s[k] = lru[m] /\ s[l] = lru[n]
  BY <1>0, TouchedProperties
<1> HIDE DEF s
<1>2. Len(s) \in Nat /\ \A k \in 1..Len(s) : s[k] \in Tenants
  BY <1>1, LenProperties
<1>3. i \in 1..Len(s) /\ j \in 1..Len(s)
  BY DEF s
<1>4. i \in 1..(Len(s) - 1)
  BY <1>2, <1>3
<1>5. since'[s[i]] = since[s[i]] \cup {t}
  BY <1>0, <1>1, <1>2, <1>3, <1>4, SinceConnect
<1>6. CASE j = Len(s)
  BY <1>1, <1>5, <1>6 DEF s
<1>7. CASE j # Len(s)
  <2>1. j \in 1..(Len(s) - 1)
    BY <1>2, <1>3, <1>7
  <2>2. PICK m \in 1..Len(lru), n \in 1..Len(lru) : m < n /\ s[i] = lru[m] /\ s[j] = lru[n]
    BY <1>1, <1>4, <2>1
  <2>3. lru[n] \in since[lru[m]]
    BY <2>2 DEF PoolInv, OrderInv
  <2> QED
    BY <1>5, <2>2, <2>3 DEF s
<1> QED
  BY <1>6, <1>7

LEMMA StartReleaseProperties ==
  ASSUME PoolTypeOK, NEW t \in Tenants, StartRelease(t)
  PROVE  /\ releasing' \in [Tenants -> 0..MaxReleases]
         /\ \A u \in Tenants \ {t} : releasing'[u] = releasing[u]
         /\ t \in registered => releasing'[t] > 0
         /\ t \notin registered => releasing' = releasing
<1>1. CASE t \in registered
  <2>1. /\ releasing[t] < MaxReleases /\ releasing[t] \in 0..MaxReleases
        /\ releasing' = [releasing EXCEPT ![t] = releasing[t] + 1]
    BY <1>1 DEF StartRelease, PoolTypeOK
  <2>2. releasing[t] + 1 \in 0..MaxReleases /\ releasing[t] + 1 > 0
    BY <2>1, PoolAssumption
  <2> QED
    BY <1>1, <2>1, <2>2 DEF PoolTypeOK
<1>2. CASE t \notin registered
  BY <1>2 DEF StartRelease, PoolTypeOK
<1> QED
  BY <1>1, <1>2

\* What a connect and an eviction do to the tenants' own connections.
LEMMA ConnectInv ==
  ASSUME PoolInv, NEW t \in Tenants, Connect(t)
  PROVE  PoolInv'
<1> DEFINE s == Touched(t)
           evicts == t \notin registered /\ Full(s)
           h == Head(s)
<1>0. PoolTypeOK /\ NoteConnect(t) /\ Cap \in Nat \ {0} /\ MaxReleases \in Nat
  BY PoolAssumption DEF PoolInv, Connect
<1>1. /\ s \in Seq(Tenants) /\ IsInjective(s) /\ ToSet(s) = ToSet(lru) \cup {t}
      /\ Len(s) = (IF t \in ToSet(lru) THEN Len(lru) ELSE Len(lru) + 1)
      /\ s[Len(s)] = t /\ \A i \in 1..(Len(s) - 1) : s[i] # t
  BY <1>0, TouchedProperties
<1>2. \A i, j \in 1..Len(s) : i < j => s[j] \in since'[s[i]]
  BY <1>0, TouchedOrder
<1>3. /\ since' \in [Tenants -> SUBSET Tenants]
      /\ \A u \in Tenants \ {t} : since'[u] = since[u] \cup {t}
  BY <1>0, SinceConnect
<1>4. /\ registered' = registered \cup {t}
      /\ unsure' = IF t \in BeingReleased THEN unsure \cup {t} ELSE unsure \ {t}
      /\ raced' = (raced \/ t \in BeingReleased)
  BY DEF Connect, NoteConnect
<1>5. Len(lru) \in Nat /\ Len(s) \in Nat /\ DOMAIN s = 1..Len(s)
  BY <1>0, <1>1, LenProperties DEF PoolTypeOK
<1>6. \A u \in Tenants \ {t} : u \notin unsure' => u \notin unsure
  BY <1>4
<1>7. \A u \in Tenants \ {t} : Cardinality(since[u]) >= Cap => Cardinality(since'[u]) >= Cap
  <2> TAKE u \in Tenants \ {t}
  <2>1. since'[u] \in SUBSET Tenants /\ since[u] \in SUBSET since'[u]
    BY <1>3
  <2> QED
    BY <2>1, SinceGrows
<1>8. t \notin unsure' => releasing[t] = 0
  BY <1>0, <1>4 DEF BeingReleased, PoolTypeOK
<1>9. CASE ~evicts
  <2>1. lru' = s /\ releasing' = releasing
    BY <1>9 DEF Connect
  <2>2. PoolTypeOK'
    BY <1>0, <1>1, <1>3, <1>4, <2>1 DEF PoolTypeOK
  <2>3. OrderInv'
    BY <1>2, <2>1 DEF OrderInv
  <2>4. SureInv'
    <3> SUFFICES ASSUME NEW u \in Tenants \ unsure'
                 PROVE  \/ u \in ToSet(s) /\ u \in registered' /\ releasing[u] = 0
                        \/ u \notin ToSet(s) /\ Cardinality(since'[u]) >= Cap
      BY <2>1 DEF SureInv
    <3>1. CASE u = t
      BY <1>1, <1>4, <1>8, <3>1
    <3>2. CASE u # t
      BY <1>1, <1>4, <1>6, <1>7, <3>2 DEF PoolInv, SureInv
    <3> QED
      BY <3>1, <3>2
  <2>5. CalmInv'
    <3> SUFFICES ASSUME ~raced' PROVE registered' \ BeingReleased' = ToSet(s) /\ Len(s) <= Cap
      BY <2>1 DEF CalmInv
    <3>1. ~raced /\ t \notin BeingReleased /\ BeingReleased' = BeingReleased
      BY <1>4, <2>1 DEF BeingReleased
    <3>2. registered \ BeingReleased = ToSet(lru) /\ Len(lru) <= Cap
      BY <3>1 DEF PoolInv, CalmInv
    <3>3. Len(s) <= Cap
      BY <1>0, <1>1, <1>5, <1>9, <3>1, <3>2 DEF Full
    <3> QED
      BY <1>1, <1>4, <3>1, <3>2, <3>3
  <2> QED
    BY <2>2, <2>3, <2>4, <2>5 DEF PoolInv
<1>10. CASE evicts
  <2>1. lru' = Tail(s) /\ StartRelease(h)
    BY <1>10 DEF Connect
  <2>2. s # <<>> /\ Len(s) - 1 >= Cap /\ Len(s) - 1 \in Nat /\ 1 \in 1..(Len(s) - 1)
    BY <1>0, <1>5, <1>10 DEF Full
  <2> HIDE DEF s, evicts
  <2>3. /\ Tail(s) \in Seq(Tenants) /\ IsInjective(Tail(s)) /\ Len(Tail(s)) = Len(s) - 1
        /\ \A i \in 1..(Len(s) - 1) : Tail(s)[i] = s[i + 1]
        /\ h = s[1] /\ ToSet(Tail(s)) = ToSet(s) \ {h}
    BY <1>1, <2>2, TailProperties
  <2>4. h # t /\ h \in Tenants /\ h \in ToSet(lru)
    <3>1. s[1] # t /\ s[1] \in ToSet(s)
      BY <1>1, <1>5, <2>2 DEF ToSet
    <3> QED
      BY <1>0, <1>1, <2>2, <2>3, <3>1, HeadTailProperties
  <2> HIDE DEF h
  <2>5. /\ releasing' \in [Tenants -> 0..MaxReleases]
        /\ \A u \in Tenants \ {h} : releasing'[u] = releasing[u]
        /\ h \in registered => releasing'[h] > 0
        /\ h \notin registered => releasing' = releasing
    BY <1>0, <2>1, <2>4, StartReleaseProperties
  <2>6. PoolTypeOK'
    BY <1>0, <1>3, <1>4, <2>1, <2>3, <2>5 DEF PoolTypeOK
  <2>7. OrderInv'
    <3> SUFFICES ASSUME NEW i \in 1..(Len(s) - 1), NEW j \in 1..(Len(s) - 1), i < j
                 PROVE  Tail(s)[j] \in since'[Tail(s)[i]]
      BY <2>1, <2>3 DEF OrderInv
    <3>1. i + 1 \in 1..Len(s) /\ j + 1 \in 1..Len(s) /\ i + 1 < j + 1
      BY <1>5
    <3> QED
      BY <1>2, <2>3, <3>1
  <2>8. Cardinality(since'[h]) >= Cap
    <3>1. \A i \in 1..(Len(s) - 1) : Tail(s)[i] \in since'[h]
      <4> TAKE i \in 1..(Len(s) - 1)
      <4>1. i + 1 \in 1..Len(s) /\ 1 \in 1..Len(s) /\ 1 < i + 1
        BY <1>5, <2>2
      <4> QED
        BY <1>2, <2>3, <4>1
    <3>2. Tail(s) \in [1..(Len(s) - 1) -> since'[h]]
      BY <2>3, <3>1, LenProperties
    <3>3. Tail(s) \in Injection(1..(Len(s) - 1), since'[h])
      BY <2>3, <3>2 DEF Injection, IsInjective
    <3>4. IsFiniteSet(since'[h])
      BY <1>3, <2>4, PoolAssumption, FS_Subset
    <3>5. Cardinality(1..(Len(s) - 1)) <= Cardinality(since'[h])
      BY <3>3, <3>4, FS_Injection
    <3>6. Cardinality(1..(Len(s) - 1)) = Len(s) - 1 /\ Cardinality(since'[h]) \in Nat
      BY <1>5, <2>2, <3>4, FS_Interval, FS_CardinalityType
    <3> QED
      BY <1>0, <2>2, <3>5, <3>6
  <2>9. SureInv'
    <3> SUFFICES ASSUME NEW u \in Tenants \ unsure'
                 PROVE  \/ /\ u \in ToSet(Tail(s)) /\ u \in registered' /\ releasing'[u] = 0
                        \/ u \notin ToSet(Tail(s)) /\ Cardinality(since'[u]) >= Cap
      BY <2>1 DEF SureInv
    <3>1. CASE u = t
      BY <1>1, <1>4, <1>8, <2>3, <2>4, <2>5, <3>1
    <3>2. CASE u = h
      BY <2>3, <2>8, <3>2
    <3>3. CASE u # t /\ u # h
      BY <1>1, <1>4, <1>6, <1>7, <2>3, <2>5, <3>3 DEF PoolInv, SureInv
    <3> QED
      BY <3>1, <3>2, <3>3
  <2>10. CalmInv'
    <3> SUFFICES ASSUME ~raced'
                 PROVE  registered' \ BeingReleased' = ToSet(Tail(s)) /\ Len(Tail(s)) <= Cap
      BY <2>1 DEF CalmInv
    <3>1. ~raced /\ t \notin BeingReleased
      BY <1>4
    <3>2. registered \ BeingReleased = ToSet(lru) /\ Len(lru) <= Cap
      BY <3>1 DEF PoolInv, CalmInv
    <3>3. BeingReleased' = BeingReleased \cup {h}
      BY <1>0, <2>4, <2>5, <3>2 DEF BeingReleased, PoolTypeOK
    <3>4. Len(Tail(s)) <= Cap
      BY <1>0, <1>1, <1>5, <2>3, <3>2
    <3> QED
      BY <1>1, <1>4, <2>3, <2>4, <3>1, <3>2, <3>3, <3>4
  <2> QED
    BY <2>6, <2>7, <2>9, <2>10 DEF PoolInv
<1> QED
  BY <1>9, <1>10

LEMMA DisconnectInv ==
  ASSUME PoolInv, NEW t \in Tenants, Disconnect(t)
  PROVE  PoolInv'
<1> DEFINE d == Without(lru, t)
<1>0. PoolTypeOK /\ Cap \in Nat /\ MaxReleases \in Nat
  BY PoolAssumption DEF PoolInv
<1>1. /\ d \in Seq(Tenants) /\ IsInjective(d) /\ ToSet(d) = ToSet(lru) \ {t} /\ Thinned(d, lru)
      /\ Len(d) = IF t \in ToSet(lru) THEN Len(lru) - 1 ELSE Len(lru)
  BY <1>0, WithoutProperties DEF PoolTypeOK
<1>2. /\ lru' = d /\ StartRelease(t) /\ unsure' = unsure \cup {t}
      /\ UNCHANGED <<registered, since, raced>>
  BY DEF Disconnect
<1> HIDE DEF d
<1>3. Len(lru) \in Nat /\ Len(d) <= Len(lru)
  BY <1>0, <1>1, LenProperties DEF PoolTypeOK
<1>4. /\ releasing' \in [Tenants -> 0..MaxReleases]
      /\ \A u \in Tenants \ {t} : releasing'[u] = releasing[u]
      /\ t \in registered => releasing'[t] > 0
      /\ t \notin registered => releasing' = releasing
  BY <1>0, <1>2, StartReleaseProperties
<1>5. PoolTypeOK'
  BY <1>0, <1>1, <1>2, <1>4 DEF PoolTypeOK
<1>6. OrderInv'
  <2> SUFFICES ASSUME NEW i \in 1..Len(d), NEW j \in 1..Len(d), i < j
               PROVE  d[j] \in since[d[i]]
    BY <1>2 DEF OrderInv
  <2>1. PICK k \in 1..Len(lru), l \in 1..Len(lru) : k < l /\ d[i] = lru[k] /\ d[j] = lru[l]
    BY <1>1 DEF Thinned
  <2> QED
    BY <2>1 DEF PoolInv, OrderInv
<1>7. SureInv'
  BY <1>1, <1>2, <1>4 DEF PoolInv, SureInv
<1>8. CalmInv'
  <2> SUFFICES ASSUME ~raced PROVE registered \ BeingReleased' = ToSet(d) /\ Len(d) <= Cap
    BY <1>2 DEF CalmInv
  <2>1. registered \ BeingReleased = ToSet(lru) /\ Len(lru) <= Cap
    BY DEF PoolInv, CalmInv
  <2>2. Len(d) <= Cap
    BY <1>0, <1>1, <1>3, <2>1
  <2>3. registered \ BeingReleased' = (registered \ BeingReleased) \ {t}
    BY <1>0, <1>4 DEF BeingReleased, PoolTypeOK
  <2> QED
    BY <1>1, <2>1, <2>2, <2>3
<1> QED
  BY <1>5, <1>6, <1>7, <1>8 DEF PoolInv

LEMMA ReleaseInv ==
  ASSUME PoolInv, NEW t \in Tenants, Released(t) \/ ReleaseFails(t)
  PROVE  PoolInv'
<1>0. PoolTypeOK /\ MaxReleases \in Nat
  BY PoolAssumption DEF PoolInv
<1>1. /\ t \in BeingReleased /\ UNCHANGED <<lru, since, unsure>>
      /\ releasing' = [releasing EXCEPT ![t] = @ - 1]
      /\ registered' \in {registered, registered \ {t}}
      /\ ~raced' => ~raced /\ registered' = registered \ {t}
      /\ raced' \in BOOLEAN
  <2>1. CASE Released(t)
    BY <1>0, <2>1 DEF Released, PoolTypeOK
  <2>2. CASE ReleaseFails(t)
    BY <1>0, <2>2 DEF ReleaseFails, PoolTypeOK
  <2> QED
    BY <2>1, <2>2
<1>2. /\ releasing' \in [Tenants -> 0..MaxReleases]
      /\ \A u \in Tenants \ {t} : releasing'[u] = releasing[u]
      /\ releasing[t] > 0
  BY <1>0, <1>1 DEF PoolTypeOK, BeingReleased
<1>3. PoolTypeOK'
  BY <1>0, <1>1, <1>2 DEF PoolTypeOK
<1>4. OrderInv'
  BY <1>1 DEF PoolInv, OrderInv
<1>5. SureInv'
  BY <1>1, <1>2 DEF PoolInv, SureInv
<1>6. CalmInv'
  <2> SUFFICES ASSUME ~raced' PROVE registered' \ BeingReleased' = ToSet(lru) /\ Len(lru) <= Cap
    BY <1>1 DEF CalmInv
  <2>1. registered \ BeingReleased = ToSet(lru) /\ Len(lru) <= Cap
    BY <1>1 DEF PoolInv, CalmInv
  <2>2. registered' \ BeingReleased' = registered \ BeingReleased
    BY <1>0, <1>1, <1>2 DEF BeingReleased, PoolTypeOK
  <2> QED
    BY <2>1, <2>2
<1> QED
  BY <1>3, <1>4, <1>5, <1>6 DEF PoolInv

LEMMA PoolStep == PoolInv /\ [Next]_vars => PoolInv'
<1> SUFFICES ASSUME PoolInv, [Next]_vars PROVE PoolInv'
  OBVIOUS
<1>1. CASE UNCHANGED pool
  BY <1>1 DEF pool, PoolInv, PoolTypeOK, OrderInv, SureInv, CalmInv, BeingReleased
<1>2. ASSUME NEW t \in Tenants, Use(t) PROVE PoolInv'
  BY <1>2, ConnectInv DEF Use
<1>3. ASSUME NEW t \in Tenants, Drop(t) PROVE PoolInv'
  BY <1>3, DisconnectInv DEF Drop
<1>4. ASSUME NEW t \in Tenants, EndRelease(t) PROVE PoolInv'
  BY <1>4, ReleaseInv DEF EndRelease
<1>5. ASSUME NEW r \in Requests, NEW q \in Carried, Guard(r, q) PROVE PoolInv'
  BY <1>5, ConnectInv DEF Guard
<1>6. ASSUME RunScope \/ (\E r \in Requests : Query(r) \/ Finish(r)) PROVE UNCHANGED pool
  BY <1>6 DEF RunScope, Query, Finish
<1> QED
  BY <1>1, <1>2, <1>3, <1>4, <1>5, <1>6 DEF Next, vars

\* What the connection map keeps, for any number of tenants and connections.
THEOREM PoolInvariant == Spec => []PoolInv
<1>1. Init => PoolInv
  BY PoolInitInv DEF Init
<1> QED
  BY <1>1, PoolStep, PTL DEF Spec

\* A connection goes away only after a disconnect, after Cap other tenants were
\* connected, or when it was being released as it was handed out.
THEOREM ConnectionsStay == Spec => []StaysRegistered
<1>1. PoolInv => StaysRegistered
  BY DEF PoolInv, SureInv, StaysRegistered
<1> QED
  BY <1>1, PoolInvariant, PTL

\* The bound of the driver's comment holds until a connect crosses a release.
THEOREM BoundHolds == Spec => []OpenIsBounded
<1>1. ASSUME PoolInv, ~raced PROVE Cardinality(registered \ BeingReleased) <= Cap
  <2>1. lru \in Seq(Tenants) /\ Len(lru) \in Nat /\ DOMAIN lru = 1..Len(lru) /\ Cap \in Nat
    BY <1>1, LenProperties, PoolAssumption DEF PoolInv, PoolTypeOK
  <2>2. registered \ BeingReleased = ToSet(lru) /\ Len(lru) <= Cap
    BY <1>1 DEF PoolInv, CalmInv
  <2>3. lru \in Surjection(1..Len(lru), ToSet(lru))
    <3>1. \A i \in 1..Len(lru) : lru[i] \in ToSet(lru)
      BY <2>1 DEF ToSet
    <3>2. lru \in [1..Len(lru) -> ToSet(lru)]
      BY <2>1, <3>1, LenProperties
    <3>3. \A u \in ToSet(lru) : \E i \in 1..Len(lru) : lru[i] = u
      BY <2>1 DEF ToSet
    <3> QED
      BY <3>2, <3>3 DEF Surjection
  <2>4. IsFiniteSet(1..Len(lru)) /\ Cardinality(1..Len(lru)) <= Len(lru)
    BY <2>1, FS_Interval
  <2>5. IsFiniteSet(ToSet(lru)) /\ Cardinality(ToSet(lru)) <= Cardinality(1..Len(lru))
    BY <2>3, <2>4, FS_Surjection
  <2>6. Cardinality(ToSet(lru)) \in Nat /\ Cardinality(1..Len(lru)) \in Nat
    BY <2>4, <2>5, FS_CardinalityType
  <2>7. Cardinality(ToSet(lru)) <= Cap
    BY <2>1, <2>2, <2>4, <2>5, <2>6
  <2> QED
    BY <2>2, <2>7
<1>2. PoolInv => OpenIsBounded
  BY <1>1 DEF OpenIsBounded
<1> QED
  BY <1>2, PoolInvariant, PTL

-----------------------------------------------------------------------------
(* Routing.                                                                *)

\* Queries run on the guard's tenant or on what the strategy makes of the request.
RoutingInv ==
  \A r \in Requests :
    \/ request[r] = Idle
    \/ /\ request[r].carries \in Carried
       /\ request[r].tenant = ByChain(request[r].carries)
       /\ request[r].tenant \in Tenants
       /\ request[r].ran \in Tenants \cup {NoTenant}
       /\ request[r].ran \in {request[r].tenant, NoTenant, ByStrategy(request[r].carries)}

\* What is known of the variable as a function.
RequestsInv == request \in [Requests -> {Idle} \cup [carries : Carried, tenant : Tenants,
                                                    ran : Tenants \cup {NoTenant}]]

LEMMA RequestsStep == PoolTypeOK /\ RequestsInv /\ [Next]_vars => RequestsInv'
<1> SUFFICES ASSUME PoolTypeOK, RequestsInv, [Next]_vars PROVE RequestsInv'
  OBVIOUS
<1>1. ASSUME NEW r \in Requests, NEW q \in Carried, Guard(r, q) PROVE RequestsInv'
  BY <1>1 DEF Guard, RequestsInv
<1>2. ASSUME NEW r \in Requests, Query(r) PROVE RequestsInv'
  <2>1. request[r] \in [carries : Carried, tenant : Tenants, ran : Tenants \cup {NoTenant}]
    BY <1>2 DEF Query, RequestsInv
  <2>2. QueryTarget(r) \in Tenants
    BY <1>2 DEF Query, PoolTypeOK
  <2> QED
    BY <1>2, <2>1, <2>2 DEF Query, RequestsInv
<1>3. ASSUME NEW r \in Requests, Finish(r) PROVE RequestsInv'
  BY <1>3 DEF Finish, RequestsInv
<1>4. CASE UNCHANGED request
  BY <1>4 DEF RequestsInv
<1> QED
  BY <1>1, <1>2, <1>3, <1>4 DEF Next, vars, RunScope, Use, Drop, EndRelease

LEMMA RoutingStep ==
  ASSUME PoolTypeOK, RequestsInv, RoutingInv, [Next]_vars
  PROVE  RoutingInv'
<1>1. ASSUME NEW r \in Requests, NEW q \in Carried, Guard(r, q) PROVE RoutingInv'
  <2>1. request' = [request EXCEPT ![r] = [carries |-> q, tenant |-> ByChain(q), ran |-> NoTenant]]
        /\ ByChain(q) \in Tenants
    BY <1>1 DEF Guard
  <2>2. request'[r] = [carries |-> q, tenant |-> ByChain(q), ran |-> NoTenant]
        /\ \A s \in Requests \ {r} : request'[s] = request[s]
    BY <2>1 DEF RequestsInv
  <2> QED
    BY <2>1, <2>2 DEF RoutingInv
<1>2. ASSUME NEW r \in Requests, Query(r) PROVE RoutingInv'
  <2> DEFINE q == request[r].carries
             c == ByChain(q)
             target == QueryTarget(r)
  <2>1. q \in Carried /\ request[r].tenant = c /\ c \in Tenants
    BY <1>2 DEF Query, RoutingInv
  <2>2. target \in Tenants /\ target \in {c, ByStrategy(q)}
    BY <1>2, <2>1 DEF Query, QueryTarget, PoolTypeOK
  <2>3. request[r] \in [carries : Carried, tenant : Tenants, ran : Tenants \cup {NoTenant}]
    BY <1>2 DEF Query, RequestsInv
  <2>4. /\ request'[r].carries = q /\ request'[r].tenant = c /\ request'[r].ran = target
        /\ \A s \in Requests \ {r} : request'[s] = request[s]
    BY <1>2, <2>1, <2>3 DEF Query, RequestsInv
  <2> HIDE DEF q, c, target
  <2>5. request'[r].tenant = ByChain(request'[r].carries)
    BY <2>4 DEF c
  <2> QED
    BY <2>1, <2>2, <2>4, <2>5 DEF RoutingInv
<1>3. ASSUME NEW r \in Requests, Finish(r) PROVE RoutingInv'
  BY <1>3 DEF Finish, RequestsInv, RoutingInv
<1>4. CASE UNCHANGED request
  BY <1>4 DEF RoutingInv
<1> QED
  BY <1>1, <1>2, <1>3, <1>4 DEF Next, vars, RunScope, Use, Drop, EndRelease

LEMMA RoutingInvariant == Spec => []RoutingInv
<1>1. Init => RequestsInv /\ RoutingInv
  BY DEF Init, RequestsInv, RoutingInv
<1>2. PoolInv => PoolTypeOK
  BY DEF PoolInv
<1>3. PoolTypeOK /\ RequestsInv /\ RoutingInv /\ [Next]_vars => RequestsInv' /\ RoutingInv'
  BY RequestsStep, RoutingStep
<1> QED
  BY <1>1, <1>2, <1>3, PoolInvariant, PTL DEF Spec

\* What the chain answers is the answer of one of its resolvers.
LEMMA ChainAnswers ==
  ASSUME NEW q \in Carried, ByChain(q) \in Tenants
  PROVE  \E i \in 1..Len(Chain) : ByChain(q) = Resolved(Chain[i], q)
<1>1. \E i \in 1..Len(Chain) : FirstHit(i, q)
  BY RequestsAssumption DEF ByChain
<1> DEFINE i == CHOOSE k \in 1..Len(Chain) : FirstHit(k, q)
<1>2. i \in 1..Len(Chain) /\ ByChain(q) = Resolved(Chain[i], q)
  BY <1>1 DEF ByChain
<1> QED
  BY <1>2

\* Only hosts decide: neither the chain nor the strategy reads anything else.
HostsOnly ==
  /\ Strategy \in {"subdomain", "domain-or-subdomain"}
  /\ \A i \in 1..Len(Chain) : Chain[i] \in {"subdomain", "domain-or-subdomain"}

\* Where only hosts decide, the queries of a guarded request run on the tenant
\* the guard admitted, or on the one its custom domain's leftmost label names.
THEOREM QueriesStay == HostsOnly => (Spec => []HostDecides)
<1> SUFFICES ASSUME HostsOnly PROVE Spec => []HostDecides
  OBVIOUS
<1>1. ASSUME RoutingInv PROVE HostDecides
  <2> SUFFICES ASSUME NEW r \in Requests, request[r].ran \notin {request[r].tenant, NoTenant}
               PROVE  /\ request[r].carries["domain"] = request[r].tenant
                      /\ request[r].carries["label"] = request[r].ran
    BY DEF HostDecides
  <2> DEFINE q == request[r].carries
             c == request[r].tenant
  <2>1. /\ q \in Carried /\ c = ByChain(q) /\ c \in Tenants
        /\ request[r].ran = ByStrategy(q) /\ ByStrategy(q) \in Tenants
    BY <1>1 DEF RoutingInv, Idle
  <2> HIDE DEF q, c
  <2>2. PICK i \in 1..Len(Chain) : c = Resolved(Chain[i], q)
    BY <2>1, ChainAnswers
  <2>3. Chain[i] \in {"subdomain", "domain-or-subdomain"}
    BY DEF HostsOnly
  <2>4. ByStrategy(q) = LeftmostLabel(q)
    BY DEF HostsOnly, ByStrategy
  <2>5. q["subdomain"] = NoTenant \/ q["domain"] = NoTenant
    BY <2>1, RequestsAssumption
  <2>6. CASE Chain[i] = "subdomain"
    <3>1. c = LeftmostLabel(q)
      BY <2>2, <2>6 DEF Resolved
    <3> QED
      BY <2>1, <2>4, <3>1 DEF c
  <2>7. CASE Chain[i] = "domain-or-subdomain"
    <3>1. c = IF q["subdomain"] # NoTenant THEN q["subdomain"] ELSE q["domain"]
      BY <2>2, <2>7 DEF Resolved
    <3>2. q["domain"] = c /\ q["label"] = ByStrategy(q)
      BY <2>1, <2>4, <2>5, <3>1, RequestsAssumption DEF LeftmostLabel, c
    <3> QED
      BY <2>1, <3>2 DEF q, c
  <2> QED
    BY <2>3, <2>6, <2>7
<1> QED
  BY <1>1, RoutingInvariant, PTL

\* A request that names one tenant wherever it names any.
NamesOneTenant(q) ==
  \A p, o \in Places : {q[p], q[o]} \subseteq Tenants => q[p] = q[o]

\* Whatever the chain and the strategy are, the queries of a guarded request
\* that names one tenant only run on the storage of that tenant.
THEOREM OneNameStays ==
  Spec => [](\A r \in Requests :
               request[r] = Idle \/ (NamesOneTenant(request[r].carries) =>
                                      request[r].ran \in {request[r].tenant, NoTenant}))
<1>1. ASSUME NEW q \in Carried, NamesOneTenant(q), ByChain(q) \in Tenants, ByStrategy(q) \in Tenants
      PROVE  ByStrategy(q) = ByChain(q)
  <2>1. PICK i \in 1..Len(Chain) : ByChain(q) = Resolved(Chain[i], q)
    BY <1>1, ChainAnswers
  <2>2. Chain[i] \in Resolvers
    BY RequestsAssumption
  <2>3. \E p \in Places : Resolved(Chain[i], q) = q[p]
    BY <2>2 DEF Resolved, Resolvers, Places, LeftmostLabel
  <2>4. \E p \in Places : ByStrategy(q) = q[p]
    BY RequestsAssumption DEF ByStrategy, Resolvers, Places, LeftmostLabel
  <2> QED
    BY <1>1, <2>1, <2>3, <2>4 DEF NamesOneTenant
<1>2. RoutingInv => \A r \in Requests :
               request[r] = Idle \/ (NamesOneTenant(request[r].carries) =>
                                      request[r].ran \in {request[r].tenant, NoTenant})
  BY <1>1 DEF RoutingInv
<1> QED
  BY <1>2, RoutingInvariant, PTL
=============================================================================
