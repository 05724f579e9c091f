---------------------------- MODULE ImuBufferProofs ----------------------------
(***************************************************************************)
(* Proofs about ImuBuffer, for every stream of samples and every interval:    *)
(* the buffer is in time order whatever arrives, and what is integrated is     *)
(* exactly the interval.                                                     *)
(***************************************************************************)
EXTENDS ImuBuffer, WellFoundedInduction, TLAPS

Sample == [t : Nat, finite : BOOLEAN]

Increasing(samples) == \A i, j \in DOMAIN samples : i < j => samples[i].t < samples[j].t

Buffers == {samples \in Seq(Sample) : Increasing(samples)}

-------------------------------------------------------------------------------
(***************************************************************************)
(* Induction: every nonempty set of naturals has a least element, every       *)
(* nonempty set of indices a greatest.                                       *)
(***************************************************************************)
LEMMA LeastNatural ==
  ASSUME NEW I \in SUBSET Nat, I # {}
  PROVE  \E m \in I : \A i \in I : m <= i
<1> DEFINE Less == {ss \in Nat \X Nat : ss[1] < ss[2]}
<1>1. IsWellFoundedOn(Less, Nat)
  BY NatLessThanWellFounded, Zenon DEF OpToRel
<1> HIDE DEF Less
<1>2. PICK m \in I : \A i \in I : ~ (<<i, m>> \in Less)
  BY <1>1, WFMin
<1>3. \A i \in I : ~ (i < m)
  BY <1>2 DEF Less
<1> QED
  BY <1>3

LEMMA GreatestIndex ==
  ASSUME NEW n \in Nat, NEW I \in SUBSET (1 .. n), I # {}
  PROVE  \E m \in I : \A i \in I : i <= m
<1> DEFINE above == {b \in Nat : \A i \in I : i <= b}
<1>1. n \in above
  OBVIOUS
<1>2. PICK b \in above : \A c \in above : b <= c
  BY <1>1, LeastNatural
<1>3. CASE b \in I
  BY <1>2, <1>3
<1>4. CASE b \notin I
  <2>1. \A i \in I : i < b
    BY <1>2, <1>4
  <2>2. PICK i \in I : TRUE
    OBVIOUS
  <2>3. b - 1 \in Nat
    BY <1>2, <2>1, <2>2
  <2>4. b - 1 \in above
    BY <1>2, <2>1, <2>3
  <2> QED
    BY <1>2, <2>3, <2>4
<1> QED
  BY <1>3, <1>4

-------------------------------------------------------------------------------
(***************************************************************************)
(* add.                                                                     *)
(***************************************************************************)
\* A sample that is not newer than the last is ignored, so that the buffer stays in order.
LEMMA AddedInOrder ==
  ASSUME NEW b \in Buffers, NEW s \in Sample
  PROVE  Added(b, s) \in Buffers
<1> b \in Seq(Sample) /\ Increasing(b)
  BY DEF Buffers
<1>1. CASE ~ (b = <<>> \/ s.t > Last(b).t)
  BY <1>1 DEF Added, Buffers
<1>2. CASE b = <<>> \/ s.t > Last(b).t
  <2> DEFINE n == Len(b)  a == Append(b, s)
  <2>1. n \in Nat /\ DOMAIN b = 1 .. n /\ a \in Seq(Sample) /\ DOMAIN a = 1 .. n + 1
    OBVIOUS
  <2>2. a[n + 1] = s /\ \A i \in 1 .. n : a[i] = b[i]
    OBVIOUS
  <2>3. \A i \in 1 .. n : b[i] \in Sample /\ b[i].t <= b[n].t
    <3> SUFFICES ASSUME NEW i \in 1 .. n PROVE b[i] \in Sample /\ b[i].t <= b[n].t
      OBVIOUS
    <3>1. n \in 1 .. n /\ b[i] \in Sample /\ b[n] \in Sample
      BY <2>1
    <3> HIDE DEF n
    <3>2. CASE i = n
      BY <3>1, <3>2 DEF Sample
    <3>3. CASE i < n
      <4>1. b[i].t < b[n].t
        BY <2>1, <3>1, <3>3 DEF Increasing
      <4>2. b[i].t \in Nat /\ b[n].t \in Nat
        BY <3>1 DEF Sample
      <4> QED
        BY <3>1, <4>1, <4>2
    <3> QED
      BY <2>1, <3>1, <3>2, <3>3
  <2>4. n # 0 => s.t > b[n].t
    BY <1>2 DEF Last
  <2>5. Increasing(a)
    <3> HIDE DEF n, a
    <3> SUFFICES ASSUME NEW i \in 1 .. n + 1, NEW j \in 1 .. n + 1, i < j
                 PROVE  a[i].t < a[j].t
      BY <2>1 DEF Increasing
    <3>1. i \in 1 .. n
      BY <2>1
    <3>2. CASE j = n + 1
      BY <2>1, <2>2, <2>3, <2>4, <3>1, <3>2 DEF Sample
    <3>3. CASE j \in 1 .. n
      BY <2>1, <2>2, <3>1, <3>3 DEF Increasing
    <3> QED
      BY <2>1, <3>2, <3>3
  <2> QED
    BY <1>2, <2>1, <2>5 DEF Added, Buffers
<1> QED
  BY <1>1, <1>2

\* Buffered folds add over the stream; for every n the fold up to n exists and is in order.
LEMMA BufferedInOrder ==
  ASSUME NEW stream \in Seq(Sample)
  PROVE  Buffered(stream) \in Buffers
<1> DEFINE Step(a, n) == IF n = 0 THEN <<>> ELSE Added(a[n - 1], stream[n])
           Folds(a, n) == a = [m \in 0 .. n |-> Step(a, m)]
           CanFold(n) == \E a : Folds(a, n)
           L == Len(stream)
           whole == CHOOSE a : Folds(a, L)
<1>1. L \in Nat /\ \A n \in 1 .. L : stream[n] \in Sample
  OBVIOUS
<1>2. Buffered(stream) = whole[L]
  BY DEF Buffered
<1>3. CanFold(0)
  <2> DEFINE a == [m \in 0 .. 0 |-> <<>>]
  <2>1. Folds(a, 0)
    OBVIOUS
  <2> QED
    BY <2>1
<1> HIDE DEF L
<1>4. ASSUME NEW n \in Nat, CanFold(n)
      PROVE  CanFold(n + 1)
  <2>1. PICK a : Folds(a, n)
    BY <1>4
  <2> DEFINE z == [m \in 0 .. n + 1 |-> IF m = n + 1 THEN Added(a[n], stream[n + 1]) ELSE a[m]]
  <2>2. \A m \in 0 .. n : a[m] = Step(a, m)
    BY <2>1
  <2>3. \A m \in 0 .. n : z[m] = a[m]
    OBVIOUS
  <2>4. z[n + 1] = Added(a[n], stream[n + 1])
    OBVIOUS
  <2>5. z = [m \in 0 .. n + 1 |-> z[m]]
    OBVIOUS
  <2> HIDE DEF z
  <2>6. \A m \in 0 .. n + 1 : z[m] = Step(z, m)
    <3> SUFFICES ASSUME NEW m \in 0 .. n + 1 PROVE z[m] = Step(z, m)
      OBVIOUS
    <3>1. CASE m = 0
      BY <2>2, <2>3, <3>1
    <3>2. CASE m \in 1 .. n
      <4>1. m - 1 \in 0 .. n /\ m # 0 /\ m \in 0 .. n
        BY <3>2
      <4>2. z[m] = a[m] /\ z[m - 1] = a[m - 1]
        BY <2>3, <4>1
      <4> QED
        BY <2>2, <4>1, <4>2
    <3>3. CASE m = n + 1
      <4>1. m - 1 = n /\ m # 0 /\ n \in 0 .. n
        BY <3>3
      <4> QED
        BY <2>3, <2>4, <3>3, <4>1
    <3> QED
      BY <3>1, <3>2, <3>3
  <2>7. Folds(z, n + 1)
    BY <2>5, <2>6
  <2> QED
    BY <2>7
<1>5. CanFold(L)
  <2> DEFINE bad == {n \in Nat : ~ CanFold(n)}
  <2> SUFFICES ASSUME L \in bad PROVE FALSE
    BY <1>1
  <2> HIDE DEF CanFold
  <2>1. PICK n \in bad : \A i \in bad : n <= i
    BY LeastNatural
  <2>2. n # 0
    BY <1>3, <2>1
  <2>3. n - 1 \in Nat /\ (n - 1) + 1 = n /\ ~ (n <= n - 1)
    BY <2>1, <2>2
  <2>4. CanFold(n - 1)
    BY <2>1, <2>3
  <2>5. CanFold((n - 1) + 1)
    BY <1>4, <2>3, <2>4
  <2> QED
    BY <2>1, <2>3, <2>5
<1>6. \A m \in 0 .. L : whole[m] = Step(whole, m)
  <2>1. Folds(whole, L)
    BY <1>5
  <2> HIDE DEF whole
  <2> QED
    BY <2>1
<1> HIDE DEF whole
<1>7. \A m \in 0 .. L : whole[m] \in Buffers
  <2> DEFINE bad == {m \in 0 .. L : whole[m] \notin Buffers}
  <2> SUFFICES ASSUME bad # {} PROVE FALSE
    BY <1>1
  <2>1. bad \in SUBSET Nat
    BY <1>1
  <2>2. PICK m \in bad : \A i \in bad : m <= i
    BY <2>1, LeastNatural
  <2>3. CASE m = 0
    <3>1. <<>> \in Buffers
      BY DEF Buffers, Increasing
    <3> QED
      BY <1>6, <2>2, <2>3, <3>1
  <2>4. CASE m # 0
    <3>1. m - 1 \in 0 .. L /\ m \in 1 .. L /\ ~ (m <= m - 1)
      BY <1>1, <2>4
    <3>2. whole[m - 1] \in Buffers
      BY <2>2, <3>1
    <3>3. Added(whole[m - 1], stream[m]) \in Buffers
      BY <1>1, <3>1, <3>2, AddedInOrder
    <3> QED
      BY <1>6, <2>4, <3>3
  <2> QED
    BY <2>3, <2>4
<1> QED
  BY <1>1, <1>2, <1>7

-------------------------------------------------------------------------------
(***************************************************************************)
(* preintegrate.                                                            *)
(***************************************************************************)
\* Stamps are compared by comparing indices.
LEMMA OrderOfIndices ==
  ASSUME NEW b \in Buffers
  PROVE  /\ Len(b) \in Nat /\ DOMAIN b = 1 .. Len(b)
         /\ \A i \in DOMAIN b : b[i].t \in Nat /\ b[i].finite \in BOOLEAN
         /\ \A i, j \in DOMAIN b : b[i].t <= b[j].t <=> i <= j
         /\ \A i, j \in DOMAIN b : b[i].t < b[j].t <=> i < j
<1>1. b \in Seq(Sample) /\ Increasing(b)
  BY DEF Buffers
<1>2. Len(b) \in Nat /\ DOMAIN b = 1 .. Len(b)
  BY <1>1
<1>3. \A i \in DOMAIN b : b[i].t \in Nat /\ b[i].finite \in BOOLEAN
  <2>1. \A i \in DOMAIN b : b[i] \in Sample
    BY <1>1
  <2> QED
    BY <2>1 DEF Sample
<1>4. \A i, j \in DOMAIN b : i \in Int /\ j \in Int
  BY <1>2
<1>5. ASSUME NEW i \in DOMAIN b, NEW j \in DOMAIN b
      PROVE  (b[i].t <= b[j].t <=> i <= j) /\ (b[i].t < b[j].t <=> i < j)
  <2>1. i < j => b[i].t < b[j].t
    BY <1>1 DEF Increasing
  <2>2. j < i => b[j].t < b[i].t
    BY <1>1 DEF Increasing
  <2>3. b[i].t \in Nat /\ b[j].t \in Nat
    BY <1>3
  <2> QED
    BY <1>4, <2>1, <2>2, <2>3
<1> QED
  BY <1>2, <1>3, <1>5

\* One sample is in force at an instant, if the first has come by then.
LEMMA LatestInForce ==
  ASSUME NEW b \in Buffers, NEW u \in Nat, NEW i \in DOMAIN b
  PROVE  i \in InForce(b, u) <=> b[i].t <= u /\ (i + 1 \in DOMAIN b => u < b[i + 1].t)
<1>1. ASSUME i \in InForce(b, u), i + 1 \in DOMAIN b
      PROVE  u < b[i + 1].t
  <2>1. ~ (b[i + 1].t <= b[i].t)
    BY <1>1, OrderOfIndices
  <2> QED
    BY <1>1, <2>1, OrderOfIndices DEF InForce
<1>2. ASSUME b[i].t <= u, i + 1 \in DOMAIN b => u < b[i + 1].t,
             NEW j \in DOMAIN b, b[j].t <= u
      PROVE  b[j].t <= b[i].t
  <2>1. SUFFICES ASSUME i < j PROVE FALSE
    BY OrderOfIndices
  <2>2. i + 1 \in DOMAIN b /\ i + 1 <= j
    BY <2>1, OrderOfIndices
  <2>3. b[i + 1].t <= b[j].t
    BY <2>2, OrderOfIndices
  <2> QED
    BY <1>2, <2>2, <2>3, OrderOfIndices
<1> QED
  BY <1>1, <1>2 DEF InForce

LEMMA OneInForce ==
  ASSUME NEW b \in Buffers, NEW u \in Nat,
         NEW i \in InForce(b, u), NEW j \in InForce(b, u)
  PROVE  i = j
<1>1. b[i].t <= b[j].t /\ b[j].t <= b[i].t /\ i \in DOMAIN b /\ j \in DOMAIN b
  BY DEF InForce
<1> QED
  BY <1>1, OrderOfIndices

LEMMA SomeInForce ==
  ASSUME NEW b \in Buffers, NEW u \in Nat, 1 \in DOMAIN b, b[1].t <= u
  PROVE  \E i \in DOMAIN b : i \in InForce(b, u)
<1> DEFINE I == {i \in DOMAIN b : b[i].t <= u}
<1>1. I \in SUBSET (1 .. Len(b)) /\ Len(b) \in Nat /\ 1 \in I
  BY OrderOfIndices
<1>2. PICK m \in I : \A i \in I : i <= m
  BY <1>1, GreatestIndex
<1>3. m \in InForce(b, u)
  BY <1>2, OrderOfIndices DEF InForce
<1> QED
  BY <1>2, <1>3

\* The samples visited are those in force at some instant of the interval.
LEMMA VisitedInForce ==
  ASSUME NEW b \in Buffers, NEW t0 \in Nat, NEW t1 \in Nat, t0 < t1, NEW i \in DOMAIN b
  PROVE  i \in Visited(b, t0, t1) <=> \E u \in t0 .. t1 - 1 : i \in InForce(b, u)
<1>0. b[i].t \in Nat
  BY OrderOfIndices
<1>1. ASSUME i \in Visited(b, t0, t1)
      PROVE  \E u \in t0 .. t1 - 1 : i \in InForce(b, u)
  <2>1. CASE t0 <= b[i].t
    <3>1. i \in InForce(b, b[i].t)
      BY OrderOfIndices DEF InForce
    <3>2. b[i].t \in t0 .. t1 - 1
      BY <1>0, <1>1, <2>1 DEF Visited
    <3> QED
      BY <3>1, <3>2
  <2>2. CASE b[i].t < t0
    <3>1. \A j \in DOMAIN b : b[j].t <= t0 => b[j].t <= b[i].t
      BY <1>1, OrderOfIndices DEF Visited
    <3>2. i \in InForce(b, t0)
      BY <1>0, <2>2, <3>1 DEF InForce
    <3> QED
      BY <3>2
  <2> QED
    BY <1>0, <2>1, <2>2
<1>2. ASSUME NEW u \in t0 .. t1 - 1, i \in InForce(b, u)
      PROVE  i \in Visited(b, t0, t1)
  <2>1. b[i].t <= u /\ \A j \in DOMAIN b : b[j].t <= u => b[j].t <= b[i].t
    BY <1>2 DEF InForce
  <2>2. \A j \in DOMAIN b : b[j].t <= t0 => j <= i
    BY <2>1, OrderOfIndices
  <2> QED
    BY <1>0, <2>1, <2>2 DEF Visited
<1> QED
  BY <1>1, <1>2

\* "The same test the solvers apply" is no more and no less than that at every instant of
\* the interval the reading in force is good.
LEMMA ContinuousIsMeasured ==
  ASSUME NEW b \in Buffers, NEW t0 \in Nat, NEW t1 \in Nat, t0 < t1
  PROVE  Continuous(b, t0, t1) <=> Measured(b, t0, t1)
<1>1. ASSUME Continuous(b, t0, t1), NEW u \in t0 .. t1 - 1
      PROVE  \E i \in InForce(b, u) : Good(b, i)
  <2>1. 1 \in DOMAIN b /\ Len(b) \in DOMAIN b /\ b[1].t <= t0 /\ t1 <= b[Len(b)].t
    BY <1>1, OrderOfIndices DEF Continuous, Bracketed
  <2>2. u \in Nat /\ t0 <= u /\ u < t1
    OBVIOUS
  <2>3. b[1].t <= u /\ u < b[Len(b)].t
    BY <2>1, <2>2, OrderOfIndices
  <2>4. PICK i \in DOMAIN b : i \in InForce(b, u)
    BY <2>1, <2>2, <2>3, SomeInForce
  <2>5. i \in Visited(b, t0, t1)
    BY <2>4, VisitedInForce
  <2>6. i < Len(b)
    <3>1. b[i].t <= u
      BY <2>4 DEF InForce
    <3>2. b[i].t < b[Len(b)].t
      BY <2>1, <2>2, <2>3, <3>1, OrderOfIndices
    <3> QED
      BY <2>1, <3>2, OrderOfIndices
  <2>7. i + 1 \in DOMAIN b
    BY <2>6, OrderOfIndices
  <2>8. b[i].t < b[i + 1].t
    BY <2>7, OrderOfIndices
  <2>9. b[i + 1].t - b[i].t <= MaxGap /\ b[i].finite
    BY <1>1, <2>5 DEF Continuous
  <2> QED
    BY <2>4, <2>7, <2>8, <2>9 DEF Good
<1>2. ASSUME Measured(b, t0, t1)
      PROVE  Continuous(b, t0, t1)
  <2>1. PICK i \in InForce(b, t0) : Good(b, i)
    BY <1>2 DEF Measured
  <2>2. PICK j \in InForce(b, t1 - 1) : Good(b, j)
    BY <1>2 DEF Measured
  <2>3. PICK n \in DOMAIN b : b[j].t < b[n].t
    BY <2>2 DEF Good
  <2>4. i \in DOMAIN b /\ b[i].t <= t0 /\ j \in DOMAIN b
    BY DEF InForce
  <2>5. t1 <= b[n].t
    <3>1. ~ (b[n].t <= t1 - 1)
      BY <2>3, <2>4, OrderOfIndices DEF InForce
    <3> QED
      BY <3>1, OrderOfIndices
  <2>6. j < n
    BY <2>3, <2>4, OrderOfIndices
  <2>7. 1 \in DOMAIN b /\ Len(b) \in DOMAIN b /\ Len(b) >= 2
    BY <2>4, <2>6, OrderOfIndices
  <2>8. b[1].t <= b[i].t /\ b[n].t <= b[Len(b)].t
    BY <2>4, <2>7, OrderOfIndices
  <2>9. Bracketed(b, t0, t1)
    BY <2>4, <2>5, <2>7, <2>8, OrderOfIndices DEF Bracketed
  <2>10. ASSUME NEW v \in Visited(b, t0, t1)
         PROVE  b[v + 1].t - b[v].t <= MaxGap /\ b[v].finite
    <3>1. v \in DOMAIN b
      BY DEF Visited
    <3>2. PICK u \in t0 .. t1 - 1 : v \in InForce(b, u)
      BY <3>1, VisitedInForce
    <3>3. PICK w \in InForce(b, u) : Good(b, w)
      BY <1>2 DEF Measured
    <3>4. Good(b, v)
      BY <3>2, <3>3, OneInForce
    <3>5. PICK m \in DOMAIN b : b[v].t < b[m].t /\ b[m].t - b[v].t <= MaxGap
      BY <3>4 DEF Good
    <3>6. v < m
      BY <3>1, <3>5, OrderOfIndices
    <3>7. v + 1 \in DOMAIN b /\ v + 1 <= m
      BY <3>1, <3>6, OrderOfIndices
    <3>8. b[v + 1].t <= b[m].t
      BY <3>7, OrderOfIndices
    <3>9. b[v].t \in Nat /\ b[v + 1].t \in Nat /\ b[m].t \in Nat /\ MaxGap \in Nat
      BY <3>1, <3>7, OrderOfIndices, GapAssumption
    <3> QED
      BY <3>4, <3>5, <3>8, <3>9 DEF Good
  <2> QED
    BY <2>9, <2>10 DEF Continuous
<1> QED
  BY <1>1, <1>2 DEF Measured

\* Exactly the interval is integrated: whatever samples the buffer holds and wherever the
\* interval begins and ends, every instant of it counts once, with the reading in force then,
\* and an interval is refused only if at some instant there is none that is good.
THEOREM PreintegratedExactly ==
  ASSUME NEW b \in Buffers, NEW t0 \in Nat, NEW t1 \in Nat
  PROVE  Exact(b, t0, t1, Preintegrated(b, t0, t1))
<1> DEFINE pre == Preintegrated(b, t0, t1)
<1>1. CASE ~ (t0 < t1 /\ Measured(b, t0, t1))
  <2>1. ~ Continuous(b, t0, t1)
    BY <1>1, ContinuousIsMeasured DEF Continuous
  <2> QED
    BY <1>1, <2>1 DEF Exact, Preintegrated
<1>2. CASE t0 < t1 /\ Measured(b, t0, t1)
  <2>1. Continuous(b, t0, t1)
    BY <1>2, ContinuousIsMeasured
  <2>2. DOMAIN pre = Visited(b, t0, t1) /\ \A i \in DOMAIN pre : pre[i] = Portion(b, t0, t1, i)
    BY <2>1 DEF Preintegrated
  <2>3. t1 <= b[Len(b)].t /\ Len(b) \in DOMAIN b
    BY <2>1, OrderOfIndices DEF Continuous, Bracketed
  <2> HIDE DEF pre
  <2>4. ASSUME NEW i, NEW u
        PROVE  i \in DOMAIN pre /\ u \in pre[i] <=> u \in t0 .. t1 - 1 /\ i \in InForce(b, u)
    <3>1. ASSUME i \in DOMAIN pre
          PROVE  /\ i \in DOMAIN b /\ i + 1 \in DOMAIN b
                 /\ b[i].t \in Nat /\ b[i + 1].t \in Nat
                 /\ pre[i] = Later(t0, b[i].t) .. Earlier(t1, b[i + 1].t) - 1
      <4>1. i \in DOMAIN b /\ b[i].t < t1
        BY <2>2, <3>1 DEF Visited
      <4>2. b[i].t < b[Len(b)].t
        BY <2>3, <4>1, OrderOfIndices
      <4>3. i < Len(b)
        BY <2>3, <4>1, <4>2, OrderOfIndices
      <4>4. i + 1 \in DOMAIN b
        BY <4>1, <4>3, OrderOfIndices
      <4> QED
        BY <2>2, <3>1, <4>1, <4>4, OrderOfIndices DEF Portion
    <3>2. ASSUME i \in DOMAIN pre, u \in pre[i]
          PROVE  u \in t0 .. t1 - 1 /\ i \in InForce(b, u)
      <4>1. u \in Later(t0, b[i].t) .. Earlier(t1, b[i + 1].t) - 1
        BY <3>1, <3>2
      <4>2. u \in Nat /\ t0 <= u /\ b[i].t <= u /\ u < t1 /\ u < b[i + 1].t
        BY <3>1, <3>2, <4>1 DEF Later, Earlier
      <4> QED
        BY <3>1, <3>2, <4>2, LatestInForce
    <3>3. ASSUME u \in t0 .. t1 - 1, i \in InForce(b, u)
          PROVE  i \in DOMAIN pre /\ u \in pre[i]
      <4>1. i \in DOMAIN b /\ u \in Nat
        BY <3>3 DEF InForce
      <4>2. i \in DOMAIN pre
        BY <1>2, <2>2, <3>3, <4>1, VisitedInForce
      <4>3. b[i].t <= u /\ u < b[i + 1].t
        BY <3>1, <3>3, <4>1, <4>2, LatestInForce
      <4>4. u \in Later(t0, b[i].t) .. Earlier(t1, b[i + 1].t) - 1
        BY <3>1, <3>3, <4>1, <4>2, <4>3 DEF Later, Earlier
      <4> QED
        BY <3>1, <4>2, <4>4
    <3> QED
      BY <3>2, <3>3
  <2> DEFINE inForce(u) == CHOOSE i \in InForce(b, u) : TRUE
  <2>5. \A u \in t0 .. t1 - 1 : inForce(u) \in InForce(b, u)
    BY <1>2 DEF Measured
  <2> DEFINE integrated == UNION {{<<i, u>> : u \in pre[i]} : i \in DOMAIN pre}
             due        == {<<inForce(u), u>> : u \in t0 .. t1 - 1}
  <2> HIDE DEF inForce
  <2>6. ASSUME NEW i \in DOMAIN pre, NEW u \in pre[i]
        PROVE  <<i, u>> \in due
    <3>1. u \in t0 .. t1 - 1 /\ i \in InForce(b, u) /\ u \in Nat
      BY <2>4
    <3>2. i = inForce(u)
      BY <2>5, <3>1, OneInForce
    <3> QED
      BY <3>1, <3>2
  <2>7. ASSUME NEW u \in t0 .. t1 - 1
        PROVE  <<inForce(u), u>> \in integrated
    <3>1. inForce(u) \in DOMAIN pre /\ u \in pre[inForce(u)]
      BY <2>4, <2>5
    <3> QED
      BY <3>1
  <2>8. integrated = due
    <3>1. integrated \subseteq due
      BY <2>6
    <3>2. due \subseteq integrated
      BY <2>7
    <3> QED
      BY <3>1, <3>2
  <2> QED
    BY <1>2, <2>8 DEF Exact, pre, inForce
<1> QED
  BY <1>1, <1>2

\* An interval holds no hole exactly when its two parts hold none: that frame periods can be
\* counted one by one, as VioEstimator does, loses nothing.
THEOREM IntervalsChain ==
  ASSUME NEW b \in Buffers, NEW t0 \in Nat, NEW t1 \in Nat, NEW t2 \in Nat, t0 < t1, t1 < t2
  PROVE  Continuous(b, t0, t2) <=> Continuous(b, t0, t1) /\ Continuous(b, t1, t2)
<1>1. t0 .. t2 - 1 = (t0 .. t1 - 1) \cup (t1 .. t2 - 1)
  OBVIOUS
<1>2. Measured(b, t0, t2) <=> Measured(b, t0, t1) /\ Measured(b, t1, t2)
  BY <1>1 DEF Measured
<1> QED
  BY <1>2, ContinuousIsMeasured

===============================================================================
