----------------------------- MODULE StridesProofs -----------------------------
(***************************************************************************)
(* What Strided returns, for every finite set of indices and every stride:    *)
(* members of the set, in their order, from the first on, at the places that  *)
(* the code's loop over the sorted frames takes.                              *)
(***************************************************************************)
EXTENDS Strides, Sequences, FiniteSetTheorems, WellFoundedInduction, TLAPS

\* Every nonempty set of natural numbers has a least element.
LEMMA LeastOf ==
  ASSUME NEW I \in SUBSET Nat, I # {}
  PROVE  \E m \in I : \A i \in I : m <= i
<1> DEFINE Less == {ss \in Nat \X Nat : ss[1] < ss[2]}
<1>1. IsWellFoundedOn(Less, Nat)
  BY NatLessThanWellFounded, Zenon DEF OpToRel
<1> HIDE DEF Less
<1>2. PICK m \in I : \A i \in I : ~ (<<i, m>> \in Less)
  BY <1>1, WFMin
<1>3. \A i \in I : ~ (i < m)
  BY <1>2 DEF Less
<1> QED
  BY <1>3

\* ... and, if it is bounded, a greatest.
LEMMA GreatestOf ==
  ASSUME NEW n \in Nat, NEW I \in SUBSET (0 .. n), I # {}
  PROVE  \E m \in I : \A i \in I : i <= m
<1> DEFINE J == {n - i : i \in I}
<1>1. \A i \in I : i \in 0 .. n /\ n - i \in Nat
  OBVIOUS
<1>2. J \in SUBSET Nat /\ J # {}
  BY <1>1
<1>3. PICK b \in J : \A c \in J : b <= c
  BY <1>2, LeastOf
<1>4. PICK m \in I : b = n - m
  BY <1>3
<1>5. \A i \in I : n - m <= n - i
  BY <1>3, <1>4
<1> QED
  BY <1>1, <1>5

\* A bounded set that has the predecessor of every member counts from 0 to its size.
LEMMA InitialSegment ==
  ASSUME NEW n \in Nat, NEW I \in SUBSET (0 .. n), \A i \in I : i # 0 => i - 1 \in I
  PROVE  IsFiniteSet(I) /\ Cardinality(I) \in Nat /\ I = 0 .. Cardinality(I) - 1
<1>1. CASE I = {}
  <2>1. Cardinality(I) = 0 /\ IsFiniteSet(I)
    BY <1>1, FS_EmptySet
  <2> QED
    BY <1>1, <2>1
<1>2. CASE I # {}
  <2>1. PICK g \in I : \A i \in I : i <= g
    BY <1>2, GreatestOf
  <2>2. 0 .. g \subseteq I
    <3> DEFINE missing == (0 .. g) \ I
    <3> SUFFICES ASSUME missing # {} PROVE FALSE
      OBVIOUS
    <3>1. g \in Nat /\ missing \in SUBSET (0 .. g)
      BY <2>1
    <3>2. PICK m \in missing : \A i \in missing : i <= m
      BY <3>1, GreatestOf
    <3>3. m + 1 \in 0 .. g /\ ~ (m + 1 <= m) /\ m + 1 # 0 /\ (m + 1) - 1 = m
      BY <2>1, <3>2
    <3>4. m + 1 \in I
      BY <3>2, <3>3
    <3> QED
      BY <3>2, <3>3, <3>4
  <2>3. I = 0 .. g /\ g \in Nat
    <3>1. \A i \in I : i \in 0 .. n /\ i <= g
      BY <2>1
    <3>2. I \subseteq 0 .. g
      BY <3>1
    <3>3. g \in Nat
      BY <3>1
    <3>4. I = 0 .. g
      BY <2>2, <3>2
    <3> QED
      BY <3>3, <3>4
  <2>4. IsFiniteSet(0 .. g) /\ Cardinality(0 .. g) = g + 1
    BY <2>3, FS_Interval
  <2> QED
    BY <2>3, <2>4
<1> QED
  BY <1>1, <1>2

\* The sequence Strided returns, by how many members are below each of its own: none of its
\* CHOOSEs comes up empty, and no member whose turn it is is left out.
LEMMA StridedRanks ==
  ASSUME NEW N \in Nat, NEW posed, \A k \in posed : k \in 1 .. N, NEW n \in Nat \ {0}
  PROVE  LET s        == Strided(posed, n)
             below(k) == Cardinality({j \in posed : j < k})
         IN  /\ s \in Seq(posed)
             /\ \A i \in 1 .. Len(s) : below(s[i]) = (i - 1) * n
             /\ \A q \in Nat, k \in posed : below(k) = q * n => q + 1 \in 1 .. Len(s)
             /\ \A j, k \in posed : below(j) = below(k) => j = k
             /\ \A j, k \in posed : j < k => below(j) < below(k)
<1> DEFINE before(k) == {j \in posed : j < k}
           below(k)  == Cardinality(before(k))
           kept      == {k \in posed : below(k) % n = 0}
           ranks     == {below(k) : k \in posed}
           turns     == {below(k) \div n : k \in kept}
<1>1. IsFiniteSet(posed) /\ Cardinality(posed) \in Nat
  <2>1. IsFiniteSet(1 .. N)
    BY FS_Interval
  <2> QED
    BY <2>1, FS_Subset, FS_CardinalityType
<1>2. /\ \A k, j : j \in before(k) <=> j \in posed /\ j < k
      /\ \A k : IsFiniteSet(before(k)) /\ below(k) \in Nat /\ below(k) <= Cardinality(posed)
  <2>1. \A k : before(k) \subseteq posed
    OBVIOUS
  <2> HIDE DEF before
  <2>2. \A k : IsFiniteSet(before(k)) /\ below(k) \in Nat /\ below(k) <= Cardinality(posed)
    BY <1>1, <2>1, FS_Subset, FS_CardinalityType
  <2> QED
    BY <2>2 DEF before
<1> HIDE DEF before
<1>3. ASSUME NEW k \in posed, below(k) # 0
      PROVE  \E p \in posed : p < k /\ below(k) = below(p) + 1
  <2>1. before(k) # {}
    BY <1>3, FS_EmptySet
  <2>2. before(k) \in SUBSET (0 .. N)
    BY <1>2
  <2>3. PICK p \in before(k) : \A j \in before(k) : j <= p
    BY <2>1, <2>2, GreatestOf
  <2>4. p \in posed /\ p < k /\ \A j \in posed : j < k <=> j < p \/ j = p
    BY <1>2, <2>3
  <2>5. before(k) = before(p) \cup {p}
    BY <1>2, <2>4
  <2>6. p \notin before(p)
    BY <1>2, <2>4
  <2>7. Cardinality(before(p) \cup {p}) = Cardinality(before(p)) + 1
    BY <1>2, <2>6, FS_AddElement
  <2> QED
    BY <2>4, <2>5, <2>7
<1>4. \A j, k \in posed : j < k => below(j) < below(k)
  <2> SUFFICES ASSUME NEW j \in posed, NEW k \in posed, j < k
               PROVE  below(j) < below(k)
    OBVIOUS
  <2> DEFINE upto == before(j) \cup {j}
  <2>1. upto \subseteq before(k) /\ j \notin before(j)
    BY <1>2
  <2>2. Cardinality(upto) = below(j) + 1
    BY <1>2, <2>1, FS_AddElement
  <2> HIDE DEF upto
  <2>3. Cardinality(upto) <= below(k)
    BY <1>2, <2>1, FS_Subset
  <2> HIDE DEF below
  <2> QED
    BY <1>2, <2>2, <2>3
<1> HIDE DEF below
<1>5. /\ \A k \in posed : below(k) \in Nat /\ below(k) <= Cardinality(posed)
      /\ \A k \in posed : below(k) # 0 => \E p \in posed : below(k) = below(p) + 1
      /\ \A j, k \in posed : below(j) = below(k) => j = k
  <2>1. ASSUME NEW j \in posed, NEW k \in posed, below(j) = below(k)
        PROVE  j = k
    <3>1. ~ (j < k) /\ ~ (k < j)
      BY <1>2, <1>4, <2>1
    <3> QED
      BY <3>1
  <2> QED
    BY <1>2, <1>3, <2>1
<1>6. Strided(posed, n) = [i \in 1 .. Cardinality(kept) |-> CHOOSE k \in kept : below(k) = (i - 1) * n]
  BY DEF Strided, below, before
<1>7. \A r \in ranks, m \in Nat : m <= r => m \in ranks
  <2>1. ranks \in SUBSET (0 .. Cardinality(posed))
    BY <1>1, <1>5
  <2>2. \A r \in ranks : r # 0 => r - 1 \in ranks
    BY <1>5
  <2>3. ranks = 0 .. Cardinality(ranks) - 1 /\ Cardinality(ranks) \in Nat
    BY <1>1, <2>1, <2>2, InitialSegment
  <2> HIDE DEF ranks
  <2> QED
    BY <2>3
<1>8. \A k \in kept : below(k) \div n \in Nat /\ below(k) = (below(k) \div n) * n
  <2>1. \A a \in Nat : a % n = 0 => a \div n \in Nat /\ a = (a \div n) * n
    OBVIOUS
  <2> QED
    BY <1>5, <2>1
<1>9. \A q \in Nat : q * n \in ranks => \E k \in kept : below(k) = q * n /\ below(k) \div n = q
  <2>1. \A q \in Nat : (q * n) % n = 0 /\ (q * n) \div n = q
    OBVIOUS
  <2> QED
    BY <2>1
<1>10. turns = 0 .. Cardinality(turns) - 1 /\ Cardinality(turns) \in Nat /\ IsFiniteSet(turns)
  <2>1. turns \in SUBSET (0 .. Cardinality(posed))
    <3> SUFFICES ASSUME NEW k \in kept PROVE below(k) \div n \in 0 .. Cardinality(posed)
      OBVIOUS
    <3>1. \A a \in Nat : a \div n \in Nat /\ a \div n <= a
      OBVIOUS
    <3> QED
      <4>1. below(k) \in Nat /\ below(k) <= Cardinality(posed)
        BY <1>5
      <4>2. below(k) \div n \in Nat /\ below(k) \div n <= below(k)
        BY <3>1, <4>1
      <4> QED
        BY <1>1, <4>1, <4>2
  <2>2. ASSUME NEW q \in turns, q # 0
        PROVE  q - 1 \in turns
    <3>1. PICK k \in kept : q = below(k) \div n
      BY <2>2
    <3>2. q \in Nat /\ q * n \in ranks
      BY <1>8, <3>1
    <3>3. q - 1 \in Nat /\ (q - 1) * n \in Nat /\ (q - 1) * n <= q * n
      BY <2>2, <3>2
    <3>4. (q - 1) * n \in ranks
      BY <1>7, <3>2, <3>3
    <3> QED
      BY <1>9, <3>3, <3>4
  <2> QED
    BY <1>1, <2>1, <2>2, InitialSegment
<1>11. Cardinality(kept) = Cardinality(turns)
  <2> DEFINE turn == [k \in kept |-> below(k) \div n]
  <2>1. IsFiniteSet(kept)
    BY <1>1, FS_Subset
  <2>2. turn \in Bijection(kept, turns)
    <3>1. ASSUME NEW j \in kept, NEW k \in kept, turn[j] = turn[k]
          PROVE  j = k
      <4>1. below(j) \div n = below(k) \div n
        BY <3>1
      <4>2. below(j) = (below(j) \div n) * n /\ below(k) = (below(k) \div n) * n
        BY <1>8
      <4>3. below(j) = below(k)
        BY <4>1, <4>2
      <4>4. j \in posed /\ k \in posed
        OBVIOUS
      <4> HIDE DEF kept, turn
      <4> QED
        BY <1>5, <4>3, <4>4
    <3>2. turn \in Surjection(kept, turns)
      BY DEF Surjection
    <3>3. turn \in Injection(kept, turns)
      BY <3>1 DEF Injection, IsInjective
    <3> QED
      BY <3>2, <3>3 DEF Bijection
  <2>3. ExistsBijection(kept, turns)
    BY <2>2 DEF ExistsBijection
  <2> QED
    BY <2>1, <2>3, FS_Bijection
<1>12. \A i \in 1 .. Cardinality(kept) : \E k \in kept : below(k) = (i - 1) * n
  <2> SUFFICES ASSUME NEW i \in 1 .. Cardinality(kept)
               PROVE  \E k \in kept : below(k) = (i - 1) * n
    OBVIOUS
  <2> HIDE DEF turns
  <2>1. i - 1 \in turns
    BY <1>10, <1>11
  <2>2. PICK k \in kept : i - 1 = below(k) \div n
    BY <2>1 DEF turns
  <2> QED
    BY <1>8, <2>2
<1>13. \A i \in 1 .. Cardinality(kept) : (CHOOSE k \in kept : below(k) = (i - 1) * n) \in posed
  BY <1>12
<1> DEFINE c == Cardinality(kept)
           chosen(i) == CHOOSE k \in kept : below(k) = (i - 1) * n
<1>14. c \in Nat /\ Strided(posed, n) = [i \in 1 .. c |-> chosen(i)]
  BY <1>6, <1>10, <1>11
<1>15. \A i \in 1 .. c : below(chosen(i)) = (i - 1) * n
  BY <1>12
<1>16. ASSUME NEW q \in Nat, NEW k \in posed, below(k) = q * n
       PROVE  q + 1 \in 1 .. c
  <2>1. q * n \in ranks
    BY <1>16
  <2>2. q \in turns
    BY <1>9, <2>1
  <2> HIDE DEF turns
  <2> QED
    BY <1>10, <1>11, <2>2
<1>17. \A i \in 1 .. c : chosen(i) \in posed
  BY <1>13
<1> HIDE DEF c, chosen, kept, ranks, turns
<1> DEFINE s == Strided(posed, n)
<1>18. s \in Seq(posed) /\ Len(s) = c /\ \A i \in 1 .. c : s[i] = chosen(i)
  BY <1>14, <1>17
<1> HIDE DEF s
<1>19. /\ \A i \in 1 .. Len(s) : below(s[i]) = (i - 1) * n
       /\ \A q \in Nat, k \in posed : below(k) = q * n => q + 1 \in 1 .. Len(s)
  BY <1>15, <1>16, <1>18
<1> QED
  BY <1>4, <1>5, <1>18, <1>19 DEF below, before, s

\* VioInitializer::align and VioEstimator take every n-th of the posed frames: members of the set,
\* in their order, and the first one before all.
THEOREM StridedMembers ==
  ASSUME NEW N \in Nat, NEW posed, \A k \in posed : k \in 1 .. N, NEW n \in Nat \ {0}
  PROVE  LET s == Strided(posed, n)
         IN  /\ s \in Seq(posed)
             /\ \A i, j \in 1 .. Len(s) : i < j => s[i] < s[j]
             /\ posed # {} => Len(s) > 0 /\ \A k \in posed : s[1] <= k
<1> DEFINE s        == Strided(posed, n)
           below(k) == Cardinality({j \in posed : j < k})
<1>1. /\ s \in Seq(posed)
      /\ \A i \in 1 .. Len(s) : below(s[i]) = (i - 1) * n
      /\ \A q \in Nat, k \in posed : below(k) = q * n => q + 1 \in 1 .. Len(s)
      /\ \A j, k \in posed : below(j) = below(k) => j = k
      /\ \A j, k \in posed : j < k => below(j) < below(k)
  BY StridedRanks
<1>2. \A k \in posed : k \in Nat
  OBVIOUS
<1>3. \A m \in posed : (\A k \in posed : m <= k) => below(m) = 0
  <2> SUFFICES ASSUME NEW m \in posed, \A k \in posed : m <= k PROVE below(m) = 0
    OBVIOUS
  <2>1. {j \in posed : j < m} = {}
    BY <1>2
  <2> QED
    BY <2>1, FS_EmptySet
<1> HIDE DEF s, below
<1>4. ASSUME NEW i \in 1 .. Len(s), NEW j \in 1 .. Len(s), i < j
      PROVE  s[i] < s[j]
  <2>1. Len(s) \in Nat /\ s[i] \in posed /\ s[j] \in posed
    BY <1>1
  <2>2. (i - 1) * n < (j - 1) * n
    <3>1. \A a, b \in Nat : a < b => a * n < b * n
      OBVIOUS
    <3> QED
      BY <1>4, <2>1, <3>1
  <2>3. below(s[i]) = (i - 1) * n /\ below(s[j]) = (j - 1) * n
    BY <1>1
  <2>4. ~ (s[j] < s[i]) /\ s[i] # s[j]
    <3>1. s[j] < s[i] => below(s[j]) < below(s[i])
      BY <1>1, <2>1
    <3>2. (i - 1) * n \in Nat /\ (j - 1) * n \in Nat
      BY <2>1
    <3> QED
      BY <2>2, <2>3, <3>1, <3>2
  <2> QED
    BY <1>2, <2>1, <2>4
<1>5. ASSUME posed # {}
      PROVE  Len(s) > 0 /\ \A k \in posed : s[1] <= k
  <2>1. PICK m \in posed : \A k \in posed : m <= k
    BY <1>2, <1>5, LeastOf
  <2>2. below(m) = 0 * n
    BY <1>3, <2>1
  <2>3. Len(s) \in Nat /\ 0 + 1 \in 1 .. Len(s)
    BY <1>1, <2>2
  <2>4. 1 \in 1 .. Len(s) /\ s[1] \in posed /\ below(s[1]) = (1 - 1) * n
    BY <1>1, <2>3
  <2>5. s[1] = m
    BY <1>1, <2>1, <2>2, <2>4
  <2> QED
    BY <2>1, <2>3, <2>5
<1> QED
  BY <1>1, <1>4, <1>5 DEF s

\* The same as VioInitializer::align's loop has it: with the posed frames sorted, those at
\* positions 0, n, 2n and so on, as far as there are any.
THEOREM StridedIsTheLoop ==
  ASSUME NEW N \in Nat, NEW posed, \A k \in posed : k \in 1 .. N, NEW n \in Nat \ {0},
         NEW sorted \in Seq(posed),
         \A i, j \in 1 .. Len(sorted) : i < j => sorted[i] < sorted[j],
         \A k \in posed : \E i \in 1 .. Len(sorted) : sorted[i] = k
  PROVE  LET s == Strided(posed, n)
         IN  \A i \in Nat \ {0} :
               /\ i \in 1 .. Len(s) <=> (i - 1) * n < Len(sorted)
               /\ i \in 1 .. Len(s) => s[i] = sorted[(i - 1) * n + 1]
<1> DEFINE s        == Strided(posed, n)
           L        == Len(sorted)
           below(k) == Cardinality({j \in posed : j < k})
<1>1. /\ s \in Seq(posed)
      /\ \A i \in 1 .. Len(s) : below(s[i]) = (i - 1) * n
      /\ \A q \in Nat, k \in posed : below(k) = q * n => q + 1 \in 1 .. Len(s)
      /\ \A j, k \in posed : below(j) = below(k) => j = k
      /\ \A j, k \in posed : j < k => below(j) < below(k)
  BY StridedRanks
<1>2. /\ L \in Nat /\ \A i \in 1 .. L : sorted[i] \in posed /\ sorted[i] \in Nat
      /\ \A i, j \in 1 .. L : i < j => sorted[i] < sorted[j]
      /\ \A k \in posed : \E i \in 1 .. L : sorted[i] = k
  OBVIOUS
<1> HIDE DEF s, below, L
<1>3. \A i, j \in 1 .. L : i < j <=> sorted[i] < sorted[j]
  <2> SUFFICES ASSUME NEW i \in 1 .. L, NEW j \in 1 .. L PROVE i < j <=> sorted[i] < sorted[j]
    OBVIOUS
  <2>1. CASE i < j
    BY <1>2, <2>1
  <2>2. CASE j < i
    <3>1. sorted[j] < sorted[i] /\ sorted[i] \in Nat /\ sorted[j] \in Nat
      BY <1>2, <2>2
    <3>2. ~ (sorted[i] < sorted[j])
      <4>1. \A a, b \in Nat : a < b => ~ (b < a)
        OBVIOUS
      <4> QED
        BY <3>1, <4>1, Zenon
    <3>3. ~ (i < j)
      BY <1>2, <2>2
    <3> QED
      BY <3>2, <3>3
  <2>3. CASE i = j
    BY <1>2, <2>3
  <2> QED
    BY <1>2, <2>1, <2>2, <2>3
<1>4. ASSUME NEW j \in 1 .. L
      PROVE  below(sorted[j]) = j - 1
  <2> DEFINE before == {k \in posed : k < sorted[j]}
             places == 1 .. j - 1
             at     == [i \in places |-> sorted[i]]
  <2>1. places \subseteq 1 .. L /\ j - 1 \in Nat /\ \A i \in 1 .. L : i \in places <=> i < j
    BY <1>2
  <2>2. IsFiniteSet(places) /\ Cardinality(places) = j - 1
    BY <2>1, FS_Interval
  <2> HIDE DEF places
  <2>3. \A i \in places : at[i] \in before
    BY <1>2, <1>3, <2>1
  <2>4. \A k \in before : \E i \in places : at[i] = k
    <3> SUFFICES ASSUME NEW k \in before PROVE \E i \in places : at[i] = k
      OBVIOUS
    <3>1. PICK i \in 1 .. L : sorted[i] = k
      BY <1>2
    <3>2. i \in places
      BY <1>3, <2>1, <3>1
    <3> QED
      BY <3>1, <3>2
  <2>5. \A i, k \in places : at[i] = at[k] => i = k
    <3> SUFFICES ASSUME NEW i \in places, NEW k \in places, at[i] = at[k] PROVE i = k
      OBVIOUS
    <3>1. i \in 1 .. L /\ k \in 1 .. L /\ sorted[i] = sorted[k]
      BY <2>1
    <3>2. ~ (i < k) /\ ~ (k < i)
      BY <1>2, <1>3, <3>1
    <3> QED
      BY <3>1, <3>2
  <2> HIDE DEF before
  <2>6. at \in Bijection(places, before)
    <3>1. at \in Surjection(places, before)
      BY <2>3, <2>4 DEF Surjection
    <3>2. at \in Injection(places, before)
      BY <2>3, <2>5 DEF Injection, IsInjective
    <3> QED
      BY <3>1, <3>2 DEF Bijection
  <2>7. ExistsBijection(places, before)
    BY <2>6 DEF ExistsBijection
  <2>8. Cardinality(before) = Cardinality(places)
    BY <2>2, <2>7, FS_Bijection
  <2> QED
    BY <2>2, <2>8 DEF before, below
<1>5. ASSUME NEW i \in Nat \ {0}
      PROVE  /\ i \in 1 .. Len(s) <=> (i - 1) * n < L
             /\ i \in 1 .. Len(s) => s[i] = sorted[(i - 1) * n + 1]
  <2> DEFINE q == (i - 1) * n
  <2>1. i - 1 \in Nat /\ q \in Nat /\ (i - 1) + 1 = i
    OBVIOUS
  <2>2. ASSUME i \in 1 .. Len(s)
        PROVE  q < L /\ s[i] = sorted[q + 1]
    <3>1. s[i] \in posed /\ below(s[i]) = q
      BY <1>1, <2>2
    <3>2. PICK j \in 1 .. L : sorted[j] = s[i]
      BY <1>2, <3>1
    <3>3. j - 1 = q
      BY <1>4, <3>1, <3>2
    <3> HIDE DEF q
    <3>4. q < L /\ j = q + 1
      BY <1>2, <2>1, <3>3
    <3> QED
      BY <3>2, <3>4
  <2>3. ASSUME q < L
        PROVE  i \in 1 .. Len(s)
    <3>1. i - 1 \in Nat /\ q \in Nat /\ (i - 1) + 1 = i /\ q = (i - 1) * n
      BY <2>1
    <3> HIDE DEF q
    <3>2. q + 1 \in 1 .. L /\ (q + 1) - 1 = q
      BY <1>2, <2>3, <3>1
    <3>3. sorted[q + 1] \in posed /\ below(sorted[q + 1]) = (i - 1) * n
      BY <1>2, <1>4, <3>1, <3>2
    <3>4. (i - 1) + 1 \in 1 .. Len(s)
      BY <1>1, <3>1, <3>3
    <3> QED
      BY <3>1, <3>4
  <2> QED
    BY <2>2, <2>3
<1> QED
  BY <1>5 DEF s, L

===============================================================================
