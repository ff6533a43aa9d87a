---------------------------- MODULE QueueOps_proofs ----------------------------
(***************************************************************************)
(* Lemmas about taking entries out of a queue: the closed forms of         *)
(* QueueOps keep exactly the entries they should, once each.  Before them, *)
(* what the proofs need of natural numbers: induction as a fact about sets *)
(* of numbers.                                                             *)
(***************************************************************************)
EXTENDS QueueOps, SequenceTheorems, FiniteSetTheorems, WellFoundedInduction, TLAPS

(* A set of natural numbers has a least element.                           *)
LEMMA LeastNat ==
  ASSUME NEW T \in SUBSET Nat, T # {}
  PROVE  \E m \in T : \A k \in T : m <= k
<1> DEFINE R == {ss \in Nat \X Nat : ss[1] < ss[2]}
<1>0. IsWellFoundedOn(R, Nat)
  BY NatLessThanWellFounded DEF OpToRel
<1> HIDE DEF R
<1>1. PICK m \in T : \A k \in T : ~ (<<k, m>> \in R)
  BY <1>0, WFMin
<1>2. \A k \in T : ~ (k < m)
  BY <1>1 DEF R
<1> QED BY <1>2

(* What holds of 0 and carries over to the next number holds up to n.      *)
LEMMA StepsReachAll ==
  ASSUME NEW n \in Nat, NEW T, 0 \in T, \A i \in 1..n : i - 1 \in T => i \in T
  PROVE  0..n \subseteq T
<1> DEFINE Out == {i \in 0..n : i \notin T}
<1>1. Out \in SUBSET Nat
  OBVIOUS
<1> SUFFICES ASSUME Out # {} PROVE FALSE
  OBVIOUS
<1> HIDE DEF Out
<1>2. PICK m \in Out : \A k \in Out : m <= k
  BY <1>1, LeastNat
<1>3. m \in 1..n /\ m \notin T /\ m - 1 \in 0..n /\ ~ (m <= m - 1)
  BY <1>2 DEF Out
<1>4. m - 1 \in T
  BY <1>2, <1>3 DEF Out
<1> QED BY <1>3, <1>4

(* Among finitely many natural numbers one is greatest. *)
LEMMA GreatestOfMany ==
  ASSUME NEW n \in Nat \ {0}, NEW f \in [1..n -> Nat]
  PROVE  \E j \in 1..n : \A i \in 1..n : f[i] <= f[j]
<1> DEFINE Has(m) == \E j \in 1..m : \A i \in 1..m : f[i] <= f[j]
           T == {m \in 1..n : ~ Has(m)}
<1>1. T \in SUBSET Nat
  OBVIOUS
<1>2. ASSUME NEW m \in 1..n, ~ Has(m), \A k \in T : m <= k
      PROVE  FALSE
  <2>1. CASE m = 1
    <3>1. 1 \in 1..m /\ \A i \in 1..m : f[i] <= f[1]
      BY <2>1
    <3> QED BY <1>2, <3>1
  <2>2. CASE m # 1
    <3> HIDE DEF Has
    <3>1. m - 1 \in 1..n /\ ~ (m <= m - 1)
      BY <2>2
    <3>2. Has(m - 1)
      BY <1>2, <3>1
    <3>3. PICK j \in 1..(m - 1) : \A i \in 1..(m - 1) : f[i] <= f[j]
      BY <3>2 DEF Has
    <3>4. /\ f[j] \in Nat /\ f[m] \in Nat /\ j \in 1..m /\ m \in 1..m
          /\ \A i \in 1..m : i \in 1..(m - 1) \/ i = m
          /\ \A i \in 1..m : f[i] \in Nat
      BY <3>3
    <3>5. CASE f[j] <= f[m]
      <4>1. \A i \in 1..m : f[i] <= f[m]
        BY <3>3, <3>4, <3>5
      <4> QED BY <1>2, <3>4, <4>1 DEF Has
    <3>6. CASE ~ (f[j] <= f[m])
      <4>1. \A i \in 1..m : f[i] <= f[j]
        BY <3>3, <3>4, <3>6
      <4> QED BY <1>2, <3>4, <4>1 DEF Has
    <3> QED BY <3>5, <3>6
  <2> QED BY <2>1, <2>2
<1> HIDE DEF Has
<1>3. T = {}
  <2> SUFFICES ASSUME T # {} PROVE FALSE
    OBVIOUS
  <2>1. PICK m \in T : \A k \in T : m <= k
    BY <1>1, LeastNat
  <2> QED BY <1>2, <2>1
<1>4. Has(n)
  BY <1>3
<1> QED BY <1>4 DEF Has

(* Multiplying keeps an order between natural numbers.                     *)
LEMMA Scale ==
  ASSUME NEW a \in Nat, NEW b \in Nat, NEW c \in Nat, a <= b
  PROVE  a * c <= b * c /\ c * a <= c * b
<1>1. PICK d \in Nat : b = a + d
  <2>1. b - a \in Nat /\ b = a + (b - a)
    OBVIOUS
  <2> QED BY <2>1
<1>2. b * c = a * c + d * c /\ c * b = c * a + c * d
  BY <1>1
<1>3. d * c \in Nat /\ c * d \in Nat /\ a * c \in Nat /\ c * a \in Nat
  OBVIOUS
<1> HIDE <1>1
<1> QED BY <1>2, <1>3

-----------------------------------------------------------------------------
(* Ranking a finite set of indices numbers it from 1 to its cardinality.   *)
LEMMA RankBijective ==
  ASSUME NEW m \in Nat, NEW at \in SUBSET (1..m)
  PROVE  /\ IsFiniteSet(at) /\ Cardinality(at) \in Nat
         /\ \A i \in at : Rank(at, i) \in 1..Cardinality(at)
         /\ \A i, j \in at : i < j => Rank(at, i) < Rank(at, j)
         /\ \A i, j \in at : Rank(at, i) = Rank(at, j) => i = j
         /\ \A n \in 1..Cardinality(at) : \E i \in at : Rank(at, i) = n
<1> DEFINE upto(i) == {j \in at : j <= i}
           rank == [i \in at |-> Rank(at, i)]
<1>1. IsFiniteSet(at) /\ Cardinality(at) \in Nat
  <2>1. IsFiniteSet(1..m)
    BY FS_Interval
  <2> QED BY <2>1, FS_Subset, FS_CardinalityType
<1>2. \A i \in at : /\ IsFiniteSet(upto(i))
                    /\ Rank(at, i) = Cardinality(upto(i))
                    /\ Cardinality(upto(i)) \in Nat
                    /\ Cardinality(upto(i)) <= Cardinality(at)
  <2> SUFFICES ASSUME NEW i \in at
               PROVE  /\ IsFiniteSet(upto(i))
                      /\ Rank(at, i) = Cardinality(upto(i))
                      /\ Cardinality(upto(i)) \in Nat
                      /\ Cardinality(upto(i)) <= Cardinality(at)
    OBVIOUS
  <2>1. upto(i) \in SUBSET at
    OBVIOUS
  <2>2. IsFiniteSet(upto(i)) /\ Cardinality(upto(i)) <= Cardinality(at)
    BY <1>1, <2>1, FS_Subset
  <2> QED BY <2>2, FS_CardinalityType DEF Rank
<1>3. \A i \in at : Rank(at, i) \in 1..Cardinality(at)
  <2> SUFFICES ASSUME NEW i \in at
               PROVE  Rank(at, i) \in 1..Cardinality(at)
    OBVIOUS
  <2>1. i \in upto(i)
    OBVIOUS
  <2>2. Cardinality(upto(i)) # 0
    BY <1>2, <2>1, FS_EmptySet
  <2> QED BY <1>1, <1>2, <2>2
<1>4. \A i, j \in at : i < j => Rank(at, i) < Rank(at, j)
  <2> SUFFICES ASSUME NEW i \in at, NEW j \in at, i < j
               PROVE  Rank(at, i) < Rank(at, j)
    OBVIOUS
  <2>1. upto(i) \in SUBSET upto(j) /\ j \in upto(j) /\ j \notin upto(i)
    <3>1. \A k \in at : k \in Int
      OBVIOUS
    <3>2. i \in Int /\ j \in Int /\ ~(j <= i) /\ j <= j
      BY <3>1
    <3>3. \A k \in at : k <= i => k <= j
      BY <3>1, <3>2
    <3> QED BY <3>2, <3>3, Zenon
  <2>2. Cardinality(upto(i)) <= Cardinality(upto(j)) /\ Cardinality(upto(j)) # Cardinality(upto(i))
    BY <1>2, <2>1, FS_Subset
  <2> HIDE DEF upto
  <2> QED BY <1>2, <2>2
<1>5. \A i, j \in at : Rank(at, i) = Rank(at, j) => i = j
  <2> SUFFICES ASSUME NEW i \in at, NEW j \in at, Rank(at, i) = Rank(at, j)
               PROVE  i = j
    OBVIOUS
  <2>1. Rank(at, i) \in Int /\ Rank(at, j) \in Int /\ i \in Int /\ j \in Int
    BY <1>3
  <2> QED BY <1>4, <2>1
<1>6. rank \in Injection(at, 1..Cardinality(at))
  BY <1>3, <1>5 DEF Injection, IsInjective
<1>7. rank \in Surjection(at, 1..Cardinality(at))
  <2>1. IsFiniteSet(1..Cardinality(at)) /\ Cardinality(1..Cardinality(at)) = Cardinality(at)
    BY <1>1, FS_Interval
  <2> HIDE DEF rank
  <2> QED BY <1>6, <2>1, FS_Injection
<1>8. \A n \in 1..Cardinality(at) : \E i \in at : Rank(at, i) = n
  BY <1>7 DEF Surjection
<1> QED BY <1>1, <1>3, <1>4, <1>5, <1>8

(* The filter is a sequence of the entries kept, each as often as before.  *)
LEMMA KeepProperties ==
  ASSUME NEW T, NEW q \in Seq(T), NEW S
  PROVE  /\ Keep(q, S) \in Seq(T)
         /\ Range(Keep(q, S)) = Range(q) \cap S
         /\ IsInjective(q) => IsInjective(Keep(q, S))
<1> DEFINE at == {i \in DOMAIN q : q[i] \in S}
           place(n) == CHOOSE i \in at : Rank(at, i) = n
           kept == [n \in 1..Cardinality(at) |-> q[place(n)]]
<1>1. Keep(q, S) = kept
  BY DEF Keep
<1>2. Len(q) \in Nat /\ DOMAIN q = 1..Len(q) /\ \A i \in DOMAIN q : q[i] \in T
  BY LenProperties, ElementOfSeq
<1>3. /\ Cardinality(at) \in Nat
      /\ \A i \in at : Rank(at, i) \in 1..Cardinality(at)
      /\ \A i, j \in at : Rank(at, i) = Rank(at, j) => i = j
      /\ \A n \in 1..Cardinality(at) : \E i \in at : Rank(at, i) = n
  <2>1. at \in SUBSET (1..Len(q))
    BY <1>2
  <2> HIDE DEF at
  <2> QED BY <1>2, <2>1, RankBijective
<1>4. \A n \in 1..Cardinality(at) : place(n) \in at /\ Rank(at, place(n)) = n
  <2> HIDE DEF at
  <2> QED BY <1>3
<1>5. \A n \in 1..Cardinality(at) : /\ place(n) \in DOMAIN q
                                    /\ q[place(n)] \in T
                                    /\ q[place(n)] \in S
  <2> SUFFICES ASSUME NEW n \in 1..Cardinality(at)
               PROVE  /\ place(n) \in DOMAIN q
                      /\ q[place(n)] \in T
                      /\ q[place(n)] \in S
    OBVIOUS
  <2>1. place(n) \in at
    BY <1>4
  <2> HIDE DEF place
  <2> QED BY <1>2, <2>1
<1>6. \A i \in at : \E n \in 1..Cardinality(at) : place(n) = i
  <2> SUFFICES ASSUME NEW i \in at
               PROVE  \E n \in 1..Cardinality(at) : place(n) = i
    OBVIOUS
  <2>1. Rank(at, i) \in 1..Cardinality(at)
    BY <1>3
  <2>2. place(Rank(at, i)) = i
    <3> HIDE DEF at
    <3> QED BY <1>3
  <2> QED BY <2>1, <2>2
<1>7. kept \in Seq(T)
  <2>1. kept \in [1..Cardinality(at) -> T]
    BY <1>5
  <2> HIDE DEF kept, at
  <2> QED BY <1>3, <2>1, SeqDef
<1>8. Range(kept) = Range(q) \cap S
  <2>1. ASSUME NEW e \in Range(kept)
        PROVE  e \in Range(q) \cap S
    <3>1. PICK n \in 1..Cardinality(at) : e = q[place(n)]
      BY DEF Range
    <3> HIDE DEF at, place
    <3> QED BY <1>5, <3>1 DEF Range
  <2>2. ASSUME NEW e \in Range(q), e \in S
        PROVE  e \in Range(kept)
    <3>1. PICK i \in DOMAIN q : q[i] = e
      BY DEF Range
    <3>2. i \in at
      BY <2>2, <3>1
    <3>3. PICK n \in 1..Cardinality(at) : place(n) = i
      BY <1>6, <3>2
    <3> HIDE DEF at, place
    <3> QED BY <3>1, <3>3 DEF Range
  <2> QED BY <2>1, <2>2
<1>9. ASSUME IsInjective(q)
      PROVE  IsInjective(kept)
  <2> SUFFICES ASSUME NEW a \in 1..Cardinality(at), NEW b \in 1..Cardinality(at),
                      q[place(a)] = q[place(b)]
               PROVE  a = b
    BY DEF IsInjective
  <2>1. place(a) = place(b)
    <3> HIDE DEF place
    <3> QED BY <1>5, <1>9 DEF IsInjective
  <2> HIDE DEF place, at
  <2> QED BY <1>4, <2>1
<1> HIDE DEF kept
<1> QED BY <1>1, <1>7, <1>8, <1>9

(* What stood ahead of a kept entry and is kept itself still stands ahead. *)
LEMMA KeepOrder ==
  ASSUME NEW T, NEW q \in Seq(T), IsInjective(q), NEW S,
         NEW i \in DOMAIN q, NEW j \in DOMAIN q, i < j, q[i] \in S,
         NEW b \in DOMAIN Keep(q, S), Keep(q, S)[b] = q[j]
  PROVE  \E a \in DOMAIN Keep(q, S) : a < b /\ Keep(q, S)[a] = q[i]
<1> DEFINE at == {k \in DOMAIN q : q[k] \in S}
           n == Cardinality(at)
           place(m) == CHOOSE k \in at : Rank(at, k) = m
           kept == [m \in 1..n |-> q[place(m)]]
<1>1. Keep(q, S) = kept /\ DOMAIN Keep(q, S) = 1..n
  BY DEF Keep
<1>2. at \in SUBSET (1..Len(q)) /\ Len(q) \in Nat
  BY LenProperties
<1>3. i \in at
  OBVIOUS
<1>4. b \in 1..n /\ q[place(b)] = q[j]
  BY <1>1
<1>5. /\ n \in Nat
      /\ \A k \in at : Rank(at, k) \in 1..n
      /\ \A k, l \in at : k < l => Rank(at, k) < Rank(at, l)
      /\ \A k, l \in at : Rank(at, k) = Rank(at, l) => k = l
      /\ \A m \in 1..n : \E k \in at : Rank(at, k) = m
  <2> HIDE DEF at
  <2> QED BY <1>2, RankBijective
<1>6. place(b) \in at /\ Rank(at, place(b)) = b
  <2> HIDE DEF at
  <2> QED BY <1>4, <1>5
<1>7. place(b) = j
  <2>1. place(b) \in DOMAIN q
    BY <1>6
  <2> HIDE DEF place
  <2> QED BY <1>4, <2>1 DEF IsInjective
<1>8. Rank(at, i) \in 1..n /\ Rank(at, i) < b
  <2>1. j \in at /\ Rank(at, j) = b
    BY <1>6, <1>7
  <2> HIDE DEF at
  <2> QED BY <1>3, <1>5, <2>1
<1>9. place(Rank(at, i)) = i
  <2> HIDE DEF at
  <2> QED BY <1>3, <1>5, <1>8
<1>10. Keep(q, S)[Rank(at, i)] = q[i]
  <2>1. kept[Rank(at, i)] = q[place(Rank(at, i))]
    BY <1>8
  <2> QED BY <1>1, <1>9, <2>1
<1> QED BY <1>1, <1>8, <1>10

(* Its complement leaves the entries outside of S. *)
LEMMA WithoutProperties ==
  ASSUME NEW T, NEW q \in Seq(T), NEW S
  PROVE  /\ Without(q, S) \in Seq(T)
         /\ Range(Without(q, S)) = Range(q) \ S
         /\ IsInjective(q) => IsInjective(Without(q, S))
BY KeepProperties DEF Without

(* A prefix is no longer than asked for and repeats nothing. *)
LEMMA FirstOfProperties ==
  ASSUME NEW T, NEW q \in Seq(T), NEW n \in Nat
  PROVE  /\ FirstOf(q, n) \in Seq(T)
         /\ Len(FirstOf(q, n)) <= n
         /\ DOMAIN FirstOf(q, n) \subseteq DOMAIN q
         /\ \A i \in DOMAIN FirstOf(q, n) : /\ FirstOf(q, n)[i] = q[i]
                                           /\ 1..i \subseteq DOMAIN FirstOf(q, n)
         /\ Range(FirstOf(q, n)) \subseteq Range(q)
         /\ IsInjective(q) => IsInjective(FirstOf(q, n))
         /\ n # 0 /\ Len(q) # 0 => FirstOf(q, n) # <<>>
<1> DEFINE k == IF n < Len(q) THEN n ELSE Len(q)
           p == FirstOf(q, n)
<1>1. Len(q) \in Nat /\ DOMAIN q = 1..Len(q) /\ \A i \in 1..Len(q) : q[i] \in T
  BY LenProperties, ElementOfSeq
<1>2. k \in Nat /\ k <= n /\ k <= Len(q)
  BY <1>1
<1>3. /\ p \in Seq(T)
      /\ Len(p) = IF 1 <= k THEN k - 1 + 1 ELSE 0
      /\ \A i \in 1..(k - 1 + 1) : p[i] = q[1 + i - 1]
  <2>1. \A i \in 1..k : q[i] \in T
    BY <1>1, <1>2
  <2>2. p = SubSeq(q, 1, k)
    BY DEF FirstOf
  <2> HIDE DEF k, p
  <2> QED BY <1>2, <2>1, <2>2, SubSeqProperties
<1> HIDE DEF p, k
<1>4. Len(p) = k /\ DOMAIN p = 1..k /\ \A i \in 1..k : p[i] = q[i] /\ i \in DOMAIN q
  BY <1>1, <1>2, <1>3, LenProperties
<1>5. Range(p) \subseteq Range(q)
  BY <1>4 DEF Range
<1>6. IsInjective(q) => IsInjective(p)
  BY <1>4 DEF IsInjective
<1>7. n # 0 /\ Len(q) # 0 => Len(p) # 0
  BY <1>1, <1>4 DEF k
<1>8. Len(p) # 0 => p # <<>>
  BY EmptySeq
<1>9. /\ DOMAIN p \subseteq DOMAIN q
      /\ \A i \in DOMAIN p : p[i] = q[i] /\ 1..i \subseteq DOMAIN p
  BY <1>2, <1>4
<1> QED BY <1>2, <1>3, <1>4, <1>5, <1>6, <1>7, <1>8, <1>9 DEF p

(* The length of a queue without repetitions is the size of its range: of  *)
(* two such queues, the one with fewer entries is no longer.               *)
LEMMA LengthIsCardinality ==
  ASSUME NEW T, NEW q \in Seq(T), IsInjective(q)
  PROVE  IsFiniteSet(Range(q)) /\ Cardinality(Range(q)) = Len(q)
<1>1. Len(q) \in Nat /\ DOMAIN q = 1..Len(q)
  BY LenProperties
<1>2. q \in Bijection(1..Len(q), Range(q))
  BY <1>1, LenProperties DEF Bijection, Injection, Surjection, Range, IsInjective
<1>3. ExistsBijection(1..Len(q), Range(q))
  BY <1>2 DEF ExistsBijection
<1> QED BY <1>1, <1>3, FS_CountingElements, FS_NatBijection

(* An injective queue over fewer entries is no longer than the other.      *)
LEMMA ShorterByRange ==
  ASSUME NEW T, NEW p \in Seq(T), NEW q \in Seq(T), IsInjective(p), IsInjective(q),
         Range(p) \subseteq Range(q)
  PROVE  Len(p) <= Len(q)
<1>1. Cardinality(Range(p)) <= Cardinality(Range(q))
  BY LengthIsCardinality, FS_Subset
<1> QED BY <1>1, LengthIsCardinality

(* Only the empty queue holds nothing. *)
LEMMA NonEmptyQueue ==
  ASSUME NEW T, NEW q \in Seq(T)
  PROVE  /\ q # <<>> <=> Range(q) # {}
         /\ q # <<>> => Len(q) \in Nat \ {0} /\ q[1] \in Range(q)
<1>1. Len(q) \in Nat /\ DOMAIN q = 1..Len(q)
  BY LenProperties
<1>2. Range(<<>>) = {}
  BY DEF Range
<1>3. ASSUME q # <<>>
      PROVE  Len(q) \in Nat \ {0} /\ q[1] \in Range(q)
  <2>1. Len(q) \in Nat \ {0}
    BY <1>3, EmptySeq
  <2>2. 1 \in DOMAIN q
    BY <1>1, <2>1
  <2> QED BY <2>1, <2>2 DEF Range
<1> QED BY <1>2, <1>3

(* Joining queues that share nothing repeats nothing. *)
LEMMA ConcatInjective ==
  ASSUME NEW T, NEW p \in Seq(T), NEW q \in Seq(T),
         IsInjective(p), IsInjective(q), Range(p) \cap Range(q) = {}
  PROVE  IsInjective(p \o q)
<1> DEFINE c == p \o q
<1>1. /\ Len(p) \in Nat /\ DOMAIN p = 1..Len(p)
      /\ Len(q) \in Nat /\ DOMAIN q = 1..Len(q)
  BY LenProperties
<1>2. /\ c \in Seq(T)
      /\ Len(c) = Len(p) + Len(q)
      /\ \A i \in 1..(Len(p) + Len(q)) : c[i] = IF i <= Len(p) THEN p[i] ELSE q[i - Len(p)]
  BY ConcatProperties
<1>3. DOMAIN c = 1..(Len(p) + Len(q))
  BY <1>2, LenProperties
<1> HIDE DEF c
<1> SUFFICES ASSUME NEW a \in DOMAIN c, NEW b \in DOMAIN c, c[a] = c[b]
             PROVE  a = b
  BY DEF IsInjective, c
<1>4. \A i \in DOMAIN c : \/ i \in DOMAIN p /\ c[i] = p[i]
                          \/ i \notin DOMAIN p /\ i - Len(p) \in DOMAIN q /\ c[i] = q[i - Len(p)]
  BY <1>1, <1>2, <1>3
<1>5. CASE a \in DOMAIN p /\ b \in DOMAIN p
  BY <1>4, <1>5 DEF IsInjective
<1>6. CASE a \notin DOMAIN p /\ b \notin DOMAIN p
  <2>1. a - Len(p) = b - Len(p)
    BY <1>4, <1>6 DEF IsInjective
  <2> QED BY <1>1, <1>3, <2>1
<1>7. CASE a \in DOMAIN p /\ b \notin DOMAIN p
  BY <1>4, <1>7 DEF Range
<1>8. CASE a \notin DOMAIN p /\ b \in DOMAIN p
  BY <1>4, <1>8 DEF Range
<1> QED BY <1>5, <1>6, <1>7, <1>8

(* An entry appended to a queue that does not hold it. *)
LEMMA AppendQueueProperties ==
  ASSUME NEW T, NEW q \in Seq(T), NEW e \in T
  PROVE  /\ Append(q, e) \in Seq(T)
         /\ Range(Append(q, e)) = Range(q) \cup {e}
         /\ IsInjective(q) /\ e \notin Range(q) => IsInjective(Append(q, e))
<1>1. Append(q, e) \in Seq(T) /\ Append(q, e) = q \o <<e>>
  BY AppendProperties, AppendIsConcat
<1> DEFINE s == <<e>>
<1>2. s \in Seq(T) /\ Range(s) = {e} /\ IsInjective(s)
  BY DEF Range, IsInjective
<1>0. Append(q, e) = q \o s
  BY <1>1
<1> HIDE DEF s
<1>3. Range(q \o s) = Range(q) \cup {e}
  BY <1>2, RangeConcatenation
<1>4. IsInjective(q) /\ e \notin Range(q) => IsInjective(q \o s)
  BY <1>2, ConcatInjective
<1> QED BY <1>1, <1>0, <1>3, <1>4

(* A queue is its head and the rest of it, one place further on.           *)
LEMMA TailQueueProperties ==
  ASSUME NEW T, NEW q \in Seq(T), q # <<>>
  PROVE  /\ Head(q) \in T /\ Tail(q) \in Seq(T)
         /\ Range(q) = {Head(q)} \cup Range(Tail(q))
         /\ \A k \in DOMAIN Tail(q) : k + 1 \in DOMAIN q /\ Tail(q)[k] = q[k + 1]
         /\ \A k \in DOMAIN q : q[k] = Head(q) \/ (k - 1 \in DOMAIN Tail(q) /\ Tail(q)[k - 1] = q[k])
<1> DEFINE s == Tail(q)
<1>1. Len(q) \in Nat \ {0} /\ DOMAIN q = 1..Len(q) /\ Head(q) = q[1]
  BY EmptySeq, LenProperties
<1>2. /\ Head(q) \in T /\ s \in Seq(T) /\ Len(s) = Len(q) - 1
      /\ \A i \in 1..Len(s) : s[i] = q[i + 1]
  BY HeadTailProperties
<1>3. DOMAIN s = 1..(Len(q) - 1)
  BY <1>2, LenProperties
<1> HIDE DEF s
<1>4. \A k \in DOMAIN s : k + 1 \in DOMAIN q /\ s[k] = q[k + 1]
  BY <1>1, <1>2, <1>3
<1>5. \A k \in DOMAIN q : q[k] = Head(q) \/ (k - 1 \in DOMAIN s /\ s[k - 1] = q[k])
  <2> SUFFICES ASSUME NEW k \in DOMAIN q, k # 1
               PROVE  k - 1 \in DOMAIN s /\ s[k - 1] = q[k]
    BY <1>1
  <2>1. k - 1 \in DOMAIN s /\ (k - 1) + 1 = k
    BY <1>1, <1>3
  <2> QED BY <1>4, <2>1
<1>6. Range(q) = {Head(q)} \cup Range(s)
  <2>1. Head(q) \in Range(q)
    BY <1>1 DEF Range
  <2>2. Range(s) \subseteq Range(q)
    BY <1>4 DEF Range
  <2>3. Range(q) \subseteq {Head(q)} \cup Range(s)
    BY <1>5 DEF Range
  <2> QED BY <2>1, <2>2, <2>3
<1> QED BY <1>2, <1>4, <1>5, <1>6 DEF s

(* Cut in two, a queue loses nothing.                                      *)
LEMMA SplitQueueProperties ==
  ASSUME NEW T, NEW q \in Seq(T), NEW n \in 0..Len(q)
  PROVE  /\ SubSeq(q, 1, n) \in Seq(T) /\ Len(SubSeq(q, 1, n)) = n
         /\ SubSeq(q, n + 1, Len(q)) \in Seq(T)
         /\ Range(q) = Range(SubSeq(q, 1, n)) \cup Range(SubSeq(q, n + 1, Len(q)))
<1> DEFINE p == SubSeq(q, 1, n)
           s == SubSeq(q, n + 1, Len(q))
<1>1. Len(q) \in Nat /\ DOMAIN q = 1..Len(q) /\ (\A i \in 1..Len(q) : q[i] \in T) /\ n \in Nat /\ n <= Len(q)
  BY LenProperties, ElementOfSeq
<1>2. /\ p \in Seq(T) /\ Len(p) = IF 1 <= n THEN n - 1 + 1 ELSE 0
      /\ \A i \in 1..(n - 1 + 1) : p[i] = q[1 + i - 1]
  <2>1. \A i \in 1..n : q[i] \in T
    BY <1>1
  <2> HIDE DEF p
  <2> QED BY <1>1, <2>1, SubSeqProperties DEF p
<1>3. /\ s \in Seq(T) /\ Len(s) = IF n + 1 <= Len(q) THEN Len(q) - (n + 1) + 1 ELSE 0
      /\ \A i \in 1..(Len(q) - (n + 1) + 1) : s[i] = q[(n + 1) + i - 1]
  <2>1. (\A i \in (n + 1)..Len(q) : q[i] \in T) /\ n + 1 \in Int /\ Len(q) \in Int
    BY <1>1
  <2> HIDE DEF s
  <2> QED BY <2>1, SubSeqProperties DEF s
<1> HIDE DEF p, s
<1>4. DOMAIN p = 1..n /\ Len(p) = n /\ \A i \in 1..n : p[i] = q[i]
  BY <1>1, <1>2, LenProperties
<1>5. DOMAIN s = 1..(Len(q) - n) /\ \A i \in 1..(Len(q) - n) : s[i] = q[n + i]
  <2> DEFINE l == Len(q)
  <2>0. l \in Nat /\ n \in Nat /\ n <= l
    BY <1>1
  <2> HIDE DEF l
  <2>1. /\ l - (n + 1) + 1 = l - n
        /\ ~(n + 1 <= l) => 0 = l - n
        /\ \A i \in 1..(l - n) : (n + 1) + i - 1 = n + i
    <3>1. l - (n + 1) + 1 = l - n /\ (~(n + 1 <= l) => 0 = l - n)
      BY <2>0
    <3>2. \A i \in 1..(l - n) : (n + 1) + i - 1 = n + i
      BY <2>0
    <3> QED BY <3>1, <3>2
  <2> USE DEF l
  <2>2. Len(s) = Len(q) - n
    BY <1>3, <2>1
  <2>3. DOMAIN s = 1..(Len(q) - n)
    BY <1>3, <2>2, LenProperties
  <2> QED BY <1>3, <2>1, <2>3
<1>6. Range(p) \subseteq Range(q)
  BY <1>1, <1>4 DEF Range
<1>7. Range(s) \subseteq Range(q)
  <2>1. \A i \in 1..(Len(q) - n) : n + i \in DOMAIN q
    BY <1>1
  <2> QED BY <1>5, <2>1 DEF Range
<1>8. Range(q) \subseteq Range(p) \cup Range(s)
  <2> SUFFICES ASSUME NEW k \in DOMAIN q
               PROVE  q[k] \in Range(p) \cup Range(s)
    BY DEF Range
  <2>1. CASE k <= n
    BY <1>1, <1>4, <2>1 DEF Range
  <2>2. CASE ~ (k <= n)
    <3>1. k - n \in 1..(Len(q) - n) /\ n + (k - n) = k
      BY <1>1, <2>2
    <3> QED BY <1>5, <3>1 DEF Range
  <2> QED BY <2>1, <2>2
<1> QED BY <1>2, <1>3, <1>4, <1>6, <1>7, <1>8 DEF p, s

LEMMA SelfTyped ==
  ASSUME NEW T, NEW q \in Seq(T)
  PROVE  q \in Seq(Range(q)) /\ Range(q) \subseteq T
<1>1. Len(q) \in Nat /\ DOMAIN q = 1 .. Len(q) /\ q \in [1 .. Len(q) -> T]
  BY LenProperties
<1>2. q = [i \in 1 .. Len(q) |-> q[i]] /\ \A i \in 1 .. Len(q) : q[i] \in Range(q) /\ q[i] \in T
  BY <1>1 DEF Range
<1>3. [i \in 1 .. Len(q) |-> q[i]] \in Seq(Range(q))
  BY <1>1, <1>2, IsASeq
<1>4. Range(q) \subseteq T
  BY <1>1 DEF Range
<1> QED BY <1>2, <1>3, <1>4

LEMMA ConcatQueue ==
  ASSUME NEW T, NEW p \in Seq(T), NEW q \in Seq(T)
  PROVE  /\ p \o q \in Seq(T)
         /\ Range(p \o q) = Range(p) \cup Range(q)
<1>1. /\ p \o q \in Seq(T) /\ Len(p \o q) = Len(p) + Len(q)
      /\ \A i \in 1 .. Len(p) + Len(q) : (p \o q)[i] = IF i <= Len(p) THEN p[i] ELSE q[i - Len(p)]
      /\ Len(p) \in Nat /\ Len(q) \in Nat /\ DOMAIN p = 1 .. Len(p) /\ DOMAIN q = 1 .. Len(q)
      /\ DOMAIN (p \o q) = 1 .. Len(p \o q)
  BY ConcatProperties, LenProperties
<1> DEFINE c == p \o q
<1>2. /\ \A i \in DOMAIN c : c[i] = IF i <= Len(p) THEN p[i] ELSE q[i - Len(p)]
      /\ DOMAIN c = 1 .. Len(p) + Len(q)
  BY <1>1
<1> HIDE DEF c
<1>3. \A i \in DOMAIN c : c[i] \in Range(p) \cup Range(q)
  <2> TAKE i \in DOMAIN c
  <2>1. CASE i <= Len(p)
    BY <1>1, <1>2, <2>1 DEF Range
  <2>2. CASE ~(i <= Len(p))
    <3>1. i - Len(p) \in DOMAIN q /\ c[i] = q[i - Len(p)]
      BY <1>1, <1>2, <2>2
    <3> QED BY <3>1 DEF Range
  <2> QED BY <2>1, <2>2
<1>4. \A i \in DOMAIN p : p[i] \in Range(c)
  BY <1>1, <1>2 DEF Range
<1>5. \A i \in DOMAIN q : q[i] \in Range(c)
  <2> TAKE i \in DOMAIN q
  <2>1. i + Len(p) \in DOMAIN c /\ c[i + Len(p)] = q[i]
    BY <1>1, <1>2
  <2> QED BY <2>1 DEF Range
<1>6. Range(c) = Range(p) \cup Range(q)
  <2>1. Range(c) \subseteq Range(p) \cup Range(q)
    BY <1>3 DEF Range
  <2>2. Range(p) \subseteq Range(c) /\ Range(q) \subseteq Range(c)
    BY <1>4, <1>5 DEF Range
  <2> QED BY <2>1, <2>2
<1> QED BY <1>1, <1>6 DEF c

(* The two parts of a queue repeat nothing.                                *)
LEMMA SplitInjective ==
  ASSUME NEW T, NEW q \in Seq(T), NEW n \in 0 .. Len(q), IsInjective(q)
  PROVE  /\ SubSeq(q, 1, n) \in Seq(T) /\ SubSeq(q, n + 1, Len(q)) \in Seq(T)
         /\ Range(q) = Range(SubSeq(q, 1, n)) \cup Range(SubSeq(q, n + 1, Len(q)))
         /\ Range(SubSeq(q, 1, n)) \cap Range(SubSeq(q, n + 1, Len(q))) = {}
         /\ IsInjective(SubSeq(q, 1, n)) /\ IsInjective(SubSeq(q, n + 1, Len(q)))
<1> DEFINE p == SubSeq(q, 1, n)
           s == SubSeq(q, n + 1, Len(q))
<1>1. Len(q) \in Nat /\ DOMAIN q = 1 .. Len(q) /\ \A i \in 1 .. Len(q) : q[i] \in T
  BY LenProperties, ElementOfSeq
<1>2. /\ Len(p) = n /\ \A i \in 1 .. n : p[i] = q[i]
  <2>1. \A i \in 1 .. n : q[i] \in T
    BY <1>1
  <2>2. Len(p) = (IF 1 <= n THEN n - 1 + 1 ELSE 0) /\ \A i \in 1 .. n - 1 + 1 : p[i] = q[1 + i - 1]
    BY <1>1, <2>1, SubSeqProperties
  <2>3. Len(p) = n
    BY <1>1, <2>2
  <2>4. ASSUME NEW i \in 1 .. n PROVE p[i] = q[i]
    <3>1. i \in 1 .. n - 1 + 1 /\ 1 + i - 1 = i
      BY <1>1
    <3> HIDE DEF p
    <3> QED BY <2>2, <3>1
  <2> QED BY <2>3, <2>4
<1>3. /\ Len(s) = Len(q) - n /\ \A i \in 1 .. Len(q) - n : s[i] = q[n + i]
  <2>1. \A i \in n + 1 .. Len(q) : q[i] \in T
    BY <1>1
  <2>2. /\ Len(s) = (IF n + 1 <= Len(q) THEN Len(q) - (n + 1) + 1 ELSE 0)
        /\ \A i \in 1 .. Len(q) - (n + 1) + 1 : s[i] = q[n + 1 + i - 1]
    BY <1>1, <2>1, SubSeqProperties
  <2> HIDE DEF s
  <2>3. Len(s) = Len(q) - n
    <3>1. Len(s) = IF n + 1 <= Len(q) THEN Len(q) - (n + 1) + 1 ELSE 0
      BY <2>2
    <3>2. CASE n + 1 <= Len(q)
      <4>1. Len(s) = Len(q) - (n + 1) + 1
        BY <3>1, <3>2
      <4>2. Len(q) - (n + 1) + 1 = Len(q) - n
        BY <1>1
      <4> QED BY <4>1, <4>2
    <3>3. CASE ~(n + 1 <= Len(q))
      <4>1. \A a \in Nat : \A b \in 0 .. a : ~(b + 1 <= a) => a - b = 0
        OBVIOUS
      <4>2. Len(q) - n = 0
        BY <1>1, <3>3, <4>1
      <4> QED BY <3>1, <3>3, <4>2
    <3> QED BY <3>2, <3>3
  <2>4. ASSUME NEW i \in 1 .. Len(q) - n PROVE s[i] = q[n + i]
    <3>1. i \in 1 .. Len(q) - (n + 1) + 1 /\ n + 1 + i - 1 = n + i
      BY <1>1
    <3> HIDE DEF s
    <3> QED BY <2>2, <3>1
  <2> QED BY <2>3, <2>4
<1>4. /\ p \in Seq(T) /\ s \in Seq(T) /\ Range(q) = Range(p) \cup Range(s)
      /\ DOMAIN p = 1 .. n /\ DOMAIN s = 1 .. Len(q) - n
  BY <1>2, <1>3, SplitQueueProperties, LenProperties
<1> HIDE DEF p, s
<1>5. IsInjective(p)
  BY <1>1, <1>2, <1>4 DEF IsInjective
<1>6. IsInjective(s)
  <2> SUFFICES ASSUME NEW i \in DOMAIN s, NEW j \in DOMAIN s, s[i] = s[j] PROVE i = j
    BY DEF IsInjective
  <2>1. n + i \in DOMAIN q /\ n + j \in DOMAIN q /\ q[n + i] = q[n + j] /\ i \in Nat /\ j \in Nat
    BY <1>1, <1>3, <1>4
  <2>2. n + i = n + j
    BY <2>1 DEF IsInjective
  <2> QED BY <2>1, <2>2
<1>7. Range(p) \cap Range(s) = {}
  <2> SUFFICES ASSUME NEW i \in DOMAIN p, NEW j \in DOMAIN s, p[i] = s[j] PROVE FALSE
    BY DEF Range
  <2>1. i \in DOMAIN q /\ n + j \in DOMAIN q /\ q[i] = q[n + j] /\ i \in Nat /\ j \in Nat /\ i <= n
        /\ j >= 1
    BY <1>1, <1>2, <1>3, <1>4
  <2>2. i = n + j
    BY <2>1 DEF IsInjective
  <2> QED BY <2>1, <2>2
<1> QED BY <1>4, <1>5, <1>6, <1>7 DEF p, s

(* Two queues made of the parts of two.                                    *)
LEMMA Requeued ==
  ASSUME NEW T, NEW stay \in Seq(T), NEW back \in Seq(T), NEW admitted \in Seq(T),
         NEW later \in Seq(T),
         IsInjective(stay), IsInjective(back), IsInjective(admitted), IsInjective(later),
         Range(stay) \cap Range(admitted) = {}, Range(back) \cap Range(later) = {}
  PROVE  /\ stay \o admitted \in Seq(T) /\ back \o later \in Seq(T)
         /\ IsInjective(stay \o admitted) /\ IsInjective(back \o later)
         /\ Range(stay \o admitted) = Range(stay) \cup Range(admitted)
         /\ Range(back \o later) = Range(back) \cup Range(later)
BY ConcatInjective, ConcatQueue
===============================================================================
